----------------------------- MODULE MCService -----------------------------
(* Small instances of KVService.  Where values go is what the hashing      *)
(* manager of Hashing computes, with a ring on which the bucket number is  *)
(* the hash of the bucket:                                                 *)
(*   local   one local store, no remote one;                               *)
(*   remote  one remote store, no local one;                               *)
(*   both    one local and one remote store;                               *)
(*   zones   local stores in two zones, used in turn, and a remote one.    *)
EXTENDS KVService

Ring == INSTANCE Hashing

Hash == [ring |-> [n \in {"s1", "s2", "s3", "z1", "z2"} |-> IF n \in {"s1", "z1"} THEN 1 ELSE 2],
         key |-> [b \in 0..10 |-> b], weight |-> <<>>]

Local(z, s) == z :> <<Ring!Node(s, 0, FALSE)>>

Remote(s) == <<Ring!Node(s, 9, TRUE)>>

Manager(localStores, zones, remoteStores) ==
    Ring!NewSyncAsyncHashingManager(Hash, "ring", localStores, zones,
        IF zones = <<>> THEN 0 ELSE 1, remoteStores, Len(remoteStores))

Managers ==
    [local  |-> Manager(Local("z1", "s1"), <<"z1">>, <<>>),
     remote |-> Manager(<<>>, <<>>, Remote("s1")),
     both   |-> Manager(Local("z1", "s1"), <<"z1">>, Remote("s2")),
     zones  |-> Manager(Local("z1", "s1") @@ Local("z2", "s2"), <<"z1", "z2">>, Remote("s3"))]

Placement ==
    [m \in DOMAIN Managers |-> [b \in 0..10 |-> Ring!GetNodes(Hash, Managers[m], b).nodes]]

MCNodesOf(e, b) == Placement[e.placement][b]

Lists == {<<>>, <<"s1">>, <<"s2">>, <<"s3">>}

MCNodeLists == Lists \X Lists

(* The default deployment, and what others change of it. *)
Deployment(placement, maxRev) ==
    [placement |-> placement, maxRev |-> maxRev, maxRestarts |-> 0, faulty |-> {},
     StoreType |-> "mem", Storages |-> {}, PipingType |-> "localSyncRemoteAsync",
     Concurrent |-> TRUE, consistency |-> "LINEARIZABLE"]

Chained(e, concurrent) == [e EXCEPT !.PipingType = "chain", !.Concurrent = concurrent]

Plain == {Deployment("local", 4), Chained(Deployment("both", 3), TRUE),
          Chained(Deployment("both", 3), FALSE)}

OneStore == {Deployment("local", 4)}

RemoteOnly == {Deployment("remote", 5)}

(* redis keeps its contents over a restart; s2 fails; one chain has a tail *)
(* that fails, another cannot be built since redis goes by host:port.      *)
Faults == {[Deployment("local", 2) EXCEPT !.StoreType = "redis", !.maxRestarts = 1],
           [Deployment("zones", 3) EXCEPT !.faulty = {"s2"}],
           [Chained(Deployment("both", 2), FALSE) EXCEPT !.faulty = {"s2"}],
           [Chained(Deployment("both", 2), TRUE) EXCEPT !.faulty = {"s1"}],
           [Chained(Deployment("both", 2), FALSE) EXCEPT !.StoreType = "redis"]}

Replicating == {Deployment("both", 2), Chained(Deployment("both", 1), FALSE)}

Symmetry == Permutations(Threads) \cup Permutations(Values)
=============================================================================
