------------------------------ MODULE MCChain ------------------------------
(* Small instances of ChainClients. *)
EXTENDS ChainClients

MCStores == Names \X (Threads \cup {"main"})

Deployment(storeType, nodes, concurrent, consistency, faulty, maxCalls) ==
    [StoreType |-> storeType, nodes |-> nodes, Concurrent |-> concurrent, maxCalls |-> maxCalls,
     consistency |-> consistency, Storages |-> {"a", "b", "c"}, faulty |-> faulty]

(* Memory stores, which first calls race to register; redis with a store   *)
(* in the middle, or at the head, that fails, or none; the dummy store;    *)
(* and two chains that cannot be built.                                    *)
MCDeployments ==
    {Deployment("mem", <<"a", "b">>, FALSE, "LINEARIZABLE", {}, 3),
     Deployment("mem", <<"a", "b">>, TRUE, "LINEARIZABLE", {}, 2),
     Deployment("mem", <<"a", "b">>, FALSE, "SEQUENTIAL", {}, 2),
     Deployment("redis", <<"a", "b", "c">>, FALSE, "LINEARIZABLE", {<<"b", "main">>}, 2),
     Deployment("redis", <<"a", "b">>, FALSE, "SEQUENTIAL", {<<"a", "main">>}, 2),
     Deployment("redis", <<"a", "b", "c">>, FALSE, "SEQUENTIAL", {<<"b", "main">>}, 2),
     Deployment("redis", <<"a", "b", "c">>, TRUE, "SEQUENTIAL", {<<"b", "main">>}, 2),
     Deployment("redis", <<"a", "b", "c">>, FALSE, "SEQUENTIAL", {}, 2),
     Deployment("dummy+latency", <<"a", "b">>, FALSE, "LINEARIZABLE", {}, 2),
     Deployment("mem", <<"a">>, FALSE, "LINEARIZABLE", {}, 2),
     Deployment("redis", <<"a", "d">>, FALSE, "LINEARIZABLE", {}, 2)}
=============================================================================
