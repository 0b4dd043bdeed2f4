------------------------------ MODULE Startup ------------------------------
(***************************************************************************)
(* The start of the service and what it decides for good: main creates the *)
(* storages of the configured stores, GetReplications (pkg/config)         *)
(* measures the latency of each (pkg/network/latency) and splits them into *)
(* local ones, by zone, and remote ones, and NewKeyValueHandler builds the *)
(* hashing manager over them (Hashing).  From then on createKV asks the    *)
(* manager for the nodes of a bucket of revisions.                         *)
(***************************************************************************)
EXTENDS Hashing

CONSTANTS
    Configurations,  \* what config.json may say
    Hashes,          \* hash functions, see Hashing
    Buckets,         \* bucket numbers
    ProbeCount,      \* connections per measurement, 10 in the code
    Durations,       \* nanoseconds a connection may take
    NsPerMs          \* nanoseconds per millisecond, 1000000 in the code

ASSUME StartupAssumption ==
    /\ ProbeCount \in Nat /\ ProbeCount >= 2
    /\ NsPerMs \in Nat \ {0} /\ Durations \subseteq Nat
    /\ \A c \in Configurations : c.LocalReplicaNum \in Nat /\ c.RemoteReplicaNum \in Nat

VARIABLES
    conf,          \* the configuration
    phase,         \* how far the start is
    Storages,      \* database.Storages, the names of the storages created
    at,            \* the store GetReplications is at
    samples,       \* its Measurements so far
    localStores,   \* per zone, the local stores
    remoteStores,
    hash, hm,      \* the hash function and the hashing manager
    located        \* what GetNodes answered last, and for which bucket

startVars == <<conf, phase, Storages, at, samples, localStores, remoteStores, hash, hm, located>>

Sample(success, duration) == [Success |-> success, Duration |-> duration]

(* What connecting to a store may measure; a failure takes its time, too. *)
connectDuration == {Sample(ok, d) : ok \in BOOLEAN, d \in Durations}

store == conf.Stores[at]

NoHash == [ring |-> <<>>, key |-> <<>>, weight |-> <<>>]

NoManager == [type |-> "none"]

Nothing == [key |-> 0, err |-> FALSE, panic |-> FALSE, nodes |-> <<>>]

(* The types of the variables. *)
StartTypeOK ==
    /\ conf \in Configurations
    /\ phase \in {"config", "storages", "measure", "serving", "panicked"}
    /\ Storages \subseteq {conf.Stores[j].Name : j \in DOMAIN conf.Stores}
    /\ at \in 1..(Len(conf.Stores) + 1) /\ samples \in Seq(connectDuration)
    /\ hash \in Hashes \cup {NoHash}
    /\ hm.type \in {"none", "sync", "syncAsync"}
    /\ located.err \in BOOLEAN /\ located.panic \in BOOLEAN

Init ==
    /\ conf \in Configurations
    /\ phase = "config"
    /\ Storages = {}
    /\ at = 1 /\ samples = <<>>
    /\ localStores = <<>> /\ remoteStores = <<>>
    /\ hash = NoHash /\ hm = NoManager
    /\ located = Nothing

-----------------------------------------------------------------------------
(* main: config.json, which may be missing or malformed. *)
NewKVConfiguration ==
    /\ phase = "config"
    /\ phase' \in {"storages", "panicked"}
    /\ UNCHANGED <<conf, Storages, at, samples, localStores, remoteStores, hash, hm, located>>

(* main: the storages, by name.  Factory fails on an unknown type. *)

factoryFails(storeType) == storeType \notin {"mem", "redis", "dummy+latency"}

storageNameAddr(s) == s.Addr

storageName(s) == s.Name

CreateStorages ==
    /\ phase = "storages"
    /\ Storages' = IF factoryFails(conf.StoreType) THEN {}
                   ELSE {storageName(conf.Stores[j]) : j \in DOMAIN conf.Stores}
    /\ phase' = "measure"
    /\ UNCHANGED <<conf, at, samples, localStores, remoteStores, hash, hm, located>>

-----------------------------------------------------------------------------
(* GetLatency: workers that connect and append what they saw. *)

more == phase = "measure" /\ at <= Len(conf.Stores)

(* GetLatency's wait: every worker is done, whether it could connect or not. *)
waitedSuccesses == Len(SelectSeq(samples, LAMBDA s : s.Success)) = ProbeCount

waited == Len(samples) = ProbeCount

measured == conf.StoreType = "dummy+latency" \/ waited

worker ==
    /\ more /\ conf.StoreType # "dummy+latency" /\ Len(samples) < ProbeCount
    /\ \E s \in connectDuration : samples' = Append(samples, s)
    /\ UNCHANGED <<conf, phase, Storages, at, localStores, remoteStores, hash, hm, located>>

InsuccessCount(m) == Len(SelectSeq(m, LAMBDA s : ~s.Success))

SuccessSeconds(m) == LET ok == SelectSeq(m, LAMBDA s : s.Success)
                     IN  [i \in 1..Len(ok) |-> ok[i].Duration]

sum(x) == FoldLeft(LAMBDA a, b : a + b, 0, x)

average(x) == IF x = <<>> THEN 0 ELSE sum(x) \div Len(x)

summaryFails(m) == InsuccessCount(m) >= 2

-----------------------------------------------------------------------------
(* The body of GetReplications for one store. *)

storeLatency ==
    IF conf.StoreType = "dummy+latency" THEN store.ArtificialLatencyInMs
    ELSE average(SuccessSeconds(samples)) \div NsPerMs

(* Redis stores go by host:port, the others by name. *)
targetAlwaysName == store.Name

target == IF conf.StoreType = "redis" THEN store.Addr ELSE store.Name

isLocalUpTo == storeLatency <= conf.RemoteStoreLatencyThresholdInMilliSec

isLocal == storeLatency < conf.RemoteStoreLatencyThresholdInMilliSec

inZone(az) == IF az \in DOMAIN localStores THEN localStores[az] ELSE <<>>

PlaceStore ==
    /\ more /\ measured
    /\ conf.StoreType = "dummy+latency" \/ ~summaryFails(samples)
    /\ LET az   == store.AvailabilityZone
           node == Node(target, storeLatency, ~isLocal)
       IN  IF isLocal
           THEN /\ localStores' = (az :> Append(inZone(az), node)) @@ localStores
                /\ UNCHANGED remoteStores
           ELSE /\ remoteStores' = Append(remoteStores, node)
                /\ UNCHANGED localStores
    /\ at' = at + 1 /\ samples' = <<>>
    /\ UNCHANGED <<conf, phase, Storages, hash, hm, located>>

(* Too many connections failed: NewKeyValueHandler panics. *)
Unreachable ==
    /\ more /\ measured
    /\ conf.StoreType # "dummy+latency" /\ summaryFails(samples)
    /\ phase' = "panicked"
    /\ UNCHANGED <<conf, Storages, at, samples, localStores, remoteStores, hash, hm, located>>

-----------------------------------------------------------------------------
(* NewKeyValueHandler.  Go visits the zones in any order. *)

NewManager(f, zones) ==
    IF conf.HashingManagerType = "sync"
    THEN NewSyncHashingManager(f, conf.ConsistentHash, localStores, zones, conf.LocalReplicaNum)
    ELSE NewSyncAsyncHashingManager(f, conf.ConsistentHash, localStores, zones,
                                    conf.LocalReplicaNum, remoteStores, conf.RemoteReplicaNum)

BuildManager ==
    /\ phase = "measure" /\ ~more
    /\ \E f \in Hashes, zones \in SetToSeqs(DOMAIN localStores) :
        hash' = f /\ hm' = NewManager(f, zones)
    /\ phase' = "serving"
    /\ UNCHANGED <<conf, Storages, at, samples, localStores, remoteStores, located>>

(* createKV asks for the nodes of a bucket. *)
LocateBucket ==
    /\ phase = "serving"
    /\ \E b \in Buckets : located' = [key |-> b] @@ GetNodes(hash, hm, b)
    /\ UNCHANGED <<conf, phase, Storages, at, samples, localStores, remoteStores, hash, hm>>

Next == NewKVConfiguration \/ CreateStorages \/ worker \/ PlaceStore \/ Unreachable \/ BuildManager \/ LocateBucket

Spec == Init /\ [][Next]_startVars /\ WF_startVars(Next)

-----------------------------------------------------------------------------
(* Properties *)

(* GetReplications takes a store for local exactly when the connections    *)
(* that succeeded took less than the threshold on average, although it     *)
(* rounds that average down twice, and files it under its own zone.        *)
PlacedByLatency ==
    [][at' > at =>
        LET ok   == SuccessSeconds(samples)
            near == IF conf.StoreType = "dummy+latency"
                    THEN store.ArtificialLatencyInMs < conf.RemoteStoreLatencyThresholdInMilliSec
                    ELSE sum(ok) < conf.RemoteStoreLatencyThresholdInMilliSec * NsPerMs * Len(ok)
        IN  IF near
            THEN /\ remoteStores' = remoteStores
                 /\ Len(localStores'[store.AvailabilityZone]) = Len(inZone(store.AvailabilityZone)) + 1
            ELSE localStores' = localStores /\ Len(remoteStores') = Len(remoteStores) + 1]_startVars

(* The start ends, serving or with the panic of NewKeyValueHandler: the    *)
(* wait of GetLatency ends even when connections fail.                     *)
StartEnds == <>(phase \in {"serving", "panicked"})

syncNames == IF located.nodes = <<>> THEN <<>> ELSE located.nodes[1]

asyncNames == IF Len(located.nodes) = 2 THEN located.nodes[2] ELSE <<>>

namesIn(nodes) == ToSet(names(nodes))

distinctNames == Cardinality({conf.Stores[j].Name : j \in DOMAIN conf.Stores}) = Len(conf.Stores)

(* "The first sync store has the fewest latency. Threfore, it is chosen to *)
(* read": no other sync replica of the value is nearer.                    *)
nearestFirst ==
    LET nodes == UNION {ToSet(localStores[az]) : az \in DOMAIN localStores}
        of(n) == CHOOSE node \in nodes : node.Name = n
    IN  \A j \in DOMAIN syncNames : of(syncNames[1]).Latency <= of(syncNames[j]).Latency

(* The replicas of a value are different stores, the sync ones local and   *)
(* the async ones remote; SyncByZoneAsyncHashingManager puts no two sync   *)
(* ones in one zone, and the nearest first.                                *)
ReplicasApart ==
    distinctNames =>
        /\ IsInjective(syncNames \o asyncNames)
        /\ ToSet(asyncNames) \subseteq namesIn(remoteStores)
        /\ hm.type = "syncAsync" => nearestFirst
        /\ \E zone \in [ToSet(syncNames) -> DOMAIN localStores] :
            /\ \A n \in ToSet(syncNames) : n \in namesIn(localStores[zone[n]])
            /\ hm.type = "syncAsync" => IsInjective(zone)

(* GetNodes finds all replicas that are asked for, or none: it fails for   *)
(* every bucket or for no bucket, and only when there are too few zones or *)
(* remote stores.  SyncHashingManager does not fail but returns no names.  *)
AllReplicasOrNone ==
    located.key # 0 /\ distinctNames =>
        IF hm.type = "sync"
        THEN located.panic \/ Len(syncNames) = IF Cardinality(hm.hashing.nodes) < conf.LocalReplicaNum
                                               THEN 0 ELSE conf.LocalReplicaNum
        ELSE /\ ~located.panic
             /\ located.err <=> \/ Cardinality(DOMAIN localStores) < conf.LocalReplicaNum
                                \/ Len(remoteStores) < conf.RemoteReplicaNum
             /\ ~located.err => /\ Len(syncNames) = conf.LocalReplicaNum
                                /\ Len(asyncNames) = conf.RemoteReplicaNum

(* Where a value goes does not depend on the order in which Go visits the  *)
(* zones, so that it is the same after every start; with rendezvous only   *)
(* for a single sync replica, since further ones are the neighbours of the *)
(* first in the order they were added.                                     *)
SameAfterEveryStart ==
    located.key # 0 /\ distinctNames /\ (conf.ConsistentHash = "ring" \/ conf.LocalReplicaNum = 1) =>
        \A zones \in SetToSeqs(DOMAIN localStores) :
            GetNodes(hash, NewManager(hash, zones), located.key)
                = [err |-> located.err, panic |-> located.panic, nodes |-> located.nodes]

(* InitStorageInstancePool: the pools of redis, by host:port. *)
pools == {conf.Stores[j].Addr : j \in DOMAIN conf.Stores}

(* createRedisDatabase: the nil pool of an unknown name panics when used. *)
hasPool(name) == name \in pools

(* FactoryWithNameAndLatency; memory and simulated stores are made for any name. *)
opens(name) == ~factoryFails(conf.StoreType) /\ (conf.StoreType = "redis" => hasPool(name))

(* The name of each replica opens a store in SyncAsyncPiping, unless the   *)
(* store type is unknown, although GetReplications names redis stores by   *)
(* host:port and the others by name; the others are in Storages, too,      *)
(* where a chain looks them up.                                            *)
ReplicasOpen ==
    ~factoryFails(conf.StoreType) => \A name \in ToSet(syncNames \o asyncNames) :
        opens(name) /\ (conf.StoreType # "redis" => name \in Storages)

(* LocateKey is the first of LocateNodes, which finds every store when it  *)
(* is asked for all of them, and a rendezvous table that gains a store     *)
(* moves a bucket to that store or not at all.                             *)
OwnerIsStable ==
    phase = "serving" /\ hm.type = "syncAsync" => \A b \in Buckets :
        LET all   == hm.RemoteHashing
            fewer == AddNodes(hash, Factory(all.type), Front(remoteStores))
            first == LocateKey(hash, all, b)
        IN  remoteStores # <<>> =>
                /\ first = LocateNodes(hash, all, b, 1)
                /\ ToSet(LocateNodes(hash, all, b, Cardinality(all.nodes))) = allNodes(all)
                /\ all.type = "rendezvous" =>
                      first \in {LocateKey(hash, fewer, b), <<Last(remoteStores)>>}
=============================================================================
