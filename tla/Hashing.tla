------------------------------ MODULE Hashing ------------------------------
(***************************************************************************)
(* pkg/partition/consistent: which stores hold the values of a bucket of   *)
(* revisions.  The ring and the rendezvous table are values that AddNode   *)
(* returns changed; the two hashing managers are built over them once, at  *)
(* start, and answer GetNodes.                                             *)
(*                                                                         *)
(* A hash function is a record: ring maps names to positions, key maps     *)
(* keys to numbers, weight maps a key and a name to what rendezvous        *)
(* compares, xorshiftMult64 of the xor of their hashes.                    *)
(***************************************************************************)
EXTENDS Integers, Sequences, SequencesExt

(* A RkvNode; a zone is hashed as a node with its name. *)
Node(name, latency, isRemote) == [Name |-> name, Latency |-> latency, IsRemote |-> isRemote]

names(nodes) == [i \in 1..Len(nodes) |-> nodes[i].Name]

-----------------------------------------------------------------------------
(* RingHashing; a name is added once. *)

NewRingHashing == [type |-> "ring", nodes |-> {}, sortedSet |-> <<>>, ring |-> <<>>]

ringAddNodeUnsorted(hash, r, node) ==
    LET hKey == hash.ring[node.Name]
    IN  IF node.Name \in r.nodes THEN r
        ELSE [r EXCEPT !.nodes = @ \cup {node.Name}, !.sortedSet = Append(@, hKey),
                       !.ring = (hKey :> node) @@ @]

ringAddNode(hash, r, node) ==
    LET hKey == hash.ring[node.Name]
    IN  IF node.Name \in r.nodes THEN r
        ELSE [r EXCEPT !.nodes = @ \cup {node.Name},
                       !.sortedSet = SortSeq(Append(@, hKey), LAMBDA a, b : a < b),
                       !.ring = (hKey :> node) @@ @]

(* -1 on an empty ring *)
FindPartitionID(hash, r, key) ==
    IF r.nodes = {} THEN -1 ELSE hash.key[key] % Cardinality(r.nodes)

ownerFirst(r, partID, i) == r.ring[r.sortedSet[partID + 1]]

(* The owner of the i-th partition from partID on, wrapping around. *)
owner(r, partID, i) == r.ring[r.sortedSet[((partID + i) % Cardinality(r.nodes)) + 1]]

GetPartitionOwner(r, partID) == IF partID < 0 THEN <<>> ELSE <<owner(r, partID, 0)>>

ringLocateKey(hash, r, key) == GetPartitionOwner(r, FindPartitionID(hash, r, key))

ringLocateNodesFewer(hash, r, key, count) ==
    LET partID == FindPartitionID(hash, r, key)
    IN  IF Cardinality(r.nodes) <= count \/ partID < 0 THEN <<>>
        ELSE [i \in 1..count |-> owner(r, partID, i - 1)]

ringLocateNodes(hash, r, key, count) ==
    LET partID == FindPartitionID(hash, r, key)
    IN  IF Cardinality(r.nodes) < count \/ partID < 0 THEN <<>>
        ELSE [i \in 1..count |-> owner(r, partID, i - 1)]

ringGetNodes(r) == Range(r.ring)

-----------------------------------------------------------------------------
(* Rendezvous; a node is added as often as AddNode is called. *)

NewRendezvous == [type |-> "rendezvous", nodes |-> {}, nstr |-> <<>>]

rendezvousAddNode(hash, r, node) == [r EXCEPT !.nodes = @ \cup {node}, !.nstr = Append(@, node)]

weight(hash, r, key, i) == hash.weight[key][r.nstr[i].Name]

(* midx + 1: the first of the nodes with the greatest weight. *)
heaviest(hash, r, key) ==
    CHOOSE i \in 1..Len(r.nstr) : \A j \in 1..Len(r.nstr) :
        IF j < i THEN weight(hash, r, key, j) < weight(hash, r, key, i)
                 ELSE weight(hash, r, key, j) <= weight(hash, r, key, i)

rendezvousLocateKey(hash, r, key) ==
    IF r.nodes = {} THEN <<>> ELSE <<r.nstr[heaviest(hash, r, key)]>>

rendezvousLocateNodesNext(hash, r, key, count) ==
    IF Cardinality(r.nodes) < count THEN <<>>
    ELSE [i \in 1..count |-> r.nstr[((heaviest(hash, r, key) + i - 1) % Cardinality(r.nodes)) + 1]]

rendezvousLocateNodes(hash, r, key, count) ==
    IF Cardinality(r.nodes) < count THEN <<>>
    ELSE [i \in 1..count |->
             r.nstr[((heaviest(hash, r, key) - 1 + i - 1) % Cardinality(r.nodes)) + 1]]

rendezvousGetNodes(r) == ToSet(r.nstr)

-----------------------------------------------------------------------------
(* ConsistentHashing: what Factory returns, empty, and its methods.        *)
(* LocateNodes of an empty rendezvous table panics when asked for 0 nodes. *)

Factory(hashingType) == IF hashingType = "ring" THEN NewRingHashing ELSE NewRendezvous

AddNode(hash, r, node) ==
    IF r.type = "ring" THEN ringAddNode(hash, r, node) ELSE rendezvousAddNode(hash, r, node)

AddNodes(hash, r, nodes) == FoldLeft(LAMBDA acc, node : AddNode(hash, acc, node), r, nodes)

LocateKey(hash, r, key) ==
    IF r.type = "ring" THEN ringLocateKey(hash, r, key) ELSE rendezvousLocateKey(hash, r, key)

allNodes(r) == IF r.type = "ring" THEN ringGetNodes(r) ELSE rendezvousGetNodes(r)

panics(r, count) == r.type = "rendezvous" /\ r.nstr = <<>> /\ count = 0

LocateNodes(hash, r, key, count) ==
    IF r.type = "ring" THEN ringLocateNodes(hash, r, key, count)
                       ELSE rendezvousLocateNodes(hash, r, key, count)

-----------------------------------------------------------------------------
(* The hashing managers.  zones: the order in which the Go runtime visits  *)
(* the map of local stores by zone.                                        *)

NewSyncHashingManager(hash, hashingType, localStores, zones, count) ==
    [type |-> "sync", count |-> count,
     hashing |-> AddNodes(hash, Factory(hashingType),
                          FlattenSeq([i \in 1..Len(zones) |-> localStores[zones[i]]]))]

(* A name that is listed twice has the latency of the store added last. *)
latencies(nodes) == FoldLeft(LAMBDA m, node : (node.Name :> node.Latency) @@ m, <<>>, nodes)

NewSyncAsyncHashingManager(hash, hashingType, localStores, zones, localCount, remoteStores, remoteCount) ==
    [type |-> "syncAsync", LocalCount |-> localCount, RemoteCount |-> remoteCount,
     AzHashing |-> AddNodes(hash, Factory(hashingType),
                            [i \in 1..Len(zones) |-> Node(zones[i], 0, FALSE)]),
     LocalHashing |-> [az \in DOMAIN localStores |->
                          AddNodes(hash, Factory(hashingType), localStores[az])],
     RemoteHashing |-> AddNodes(hash, Factory(hashingType), remoteStores),
     LatencyMap |-> latencies(FlattenSeq([i \in 1..Len(zones) |-> localStores[zones[i]]])
                                  \o remoteStores)]

(* One store of each of LocalCount zones, the nearest first.  sort.Slice   *)
(* is an insertion sort at these lengths, and keeps equal latencies in     *)
(* their order.                                                            *)
byLatency(m, nodes) ==
    SortSeq(nodes, LAMBDA a, b : m.LatencyMap[a.Name] < m.LatencyMap[b.Name])

GetSyncNodes(hash, m, key) ==
    LET azs    == LocateNodes(hash, m.AzHashing, key, m.LocalCount)
        inZone == [i \in 1..Len(azs) |-> LocateNodes(hash, m.LocalHashing[azs[i].Name], key, 1)]
    IN  IF m.LocalCount < 1 THEN [err |-> FALSE, nodes |-> <<>>]
        ELSE IF Len(azs) # m.LocalCount \/ \E i \in 1..Len(azs) : Len(inZone[i]) # 1
        THEN [err |-> TRUE, nodes |-> <<>>]
        ELSE [err |-> FALSE, nodes |-> byLatency(m, FlattenSeq(inZone))]

GetAsyncNodes(hash, m, key) ==
    LET rnodes == LocateNodes(hash, m.RemoteHashing, key, m.RemoteCount)
    IN  IF m.RemoteCount < 1 THEN [err |-> FALSE, nodes |-> <<>>]
        ELSE IF Len(rnodes) # m.RemoteCount THEN [err |-> TRUE, nodes |-> <<>>]
        ELSE [err |-> FALSE, nodes |-> rnodes]

(* The lists of names, each of which the code joins to one string. *)
Located(lists) == [err |-> FALSE, panic |-> FALSE, nodes |-> lists]

NotLocated == [err |-> TRUE, panic |-> FALSE, nodes |-> <<>>]

Panicked == [err |-> FALSE, panic |-> TRUE, nodes |-> <<>>]

GetNodesSync(hash, m, key) ==
    IF panics(m.hashing, m.count) THEN Panicked
    ELSE Located(<< names(LocateNodes(hash, m.hashing, key, m.count)) >>)

GetNodesSyncAsync(hash, m, key) ==
    LET sync  == GetSyncNodes(hash, m, key)
        async == GetAsyncNodes(hash, m, key)
    IN  IF sync.err \/ async.err THEN NotLocated
        ELSE Located(<<names(sync.nodes), names(async.nodes)>>)

GetNodes(hash, m, key) ==
    IF m.type = "sync" THEN GetNodesSync(hash, m, key) ELSE GetNodesSyncAsync(hash, m, key)
=============================================================================
