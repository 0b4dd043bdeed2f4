----------------------------- MODULE MCStartup -----------------------------
(* Small instances of Startup.  s1 and s2 share a zone; s3 and s4 have one *)
(* of their own.                                                           *)
EXTENDS Startup

Store(name, addr, az, artificial) ==
    [Name |-> name, Addr |-> addr, AvailabilityZone |-> az, ArtificialLatencyInMs |-> artificial]

Conf(hashing, manager, storeType, stores, local, remote) ==
    [ConsistentHash |-> hashing, HashingManagerType |-> manager, StoreType |-> storeType,
     Stores |-> stores, RemoteStoreLatencyThresholdInMilliSec |-> 2,
     LocalReplicaNum |-> local, RemoteReplicaNum |-> remote]

(* Latencies as configured for the simulated stores; measured otherwise. *)
Four(l1, l2, l3, l4) ==
    <<Store("s1", "a1", "za", l1), Store("s2", "a2", "za", l2),
      Store("s3", "a3", "zb", l3), Store("s4", "a4", "zc", l4)>>

Two == <<Store("s1", "a1", "za", 0), Store("s2", "a2", "zb", 0)>>

Simulated ==
    {Conf(hashing, manager, "dummy+latency", stores, count[1], count[2]) :
        hashing \in {"ring", "rendezvous"}, manager \in {"sync", "syncAsync"},
        stores \in {Four(1, 1, 0, 1), Four(2, 1, 0, 3), Four(4, 3, 2, 3)},
        count \in {<<0, 1>>, <<1, 0>>, <<2, 1>>, <<3, 0>>, <<0, 3>>}}

Measured ==
    {Conf("ring", "syncAsync", "redis", Two, 1, 1), Conf("rendezvous", "sync", "mem", Two, 2, 0),
     Conf("rendezvous", "syncAsync", "unknown", Two, 0, 1)}

MCConfigurations == Simulated \cup Measured

(* Every order of the stores, and some of the zones, on the ring and by    *)
(* weight, and every remainder of the hash of the bucket.                  *)
Orders(S) == {f \in [S -> 1..Cardinality(S)] : IsInjective(f)}

Ranks ==
    {f @@ g @@ ("a1" :> f["s1"]) @@ ("a2" :> f["s2"]) :
        f \in Orders({"s1", "s2", "s3", "s4"}),
        g \in {h \in Orders({"za", "zb", "zc"}) : h["zb"] = 2}}

MCHashes == {[ring |-> rank, key |-> <<k>>, weight |-> <<rank>>] : rank \in Ranks, k \in {0, 1, 5}}
=============================================================================
