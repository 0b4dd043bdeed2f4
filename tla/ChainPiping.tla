---------------------------- MODULE ChainPiping ----------------------------
(***************************************************************************)
(* pkg/piping/chain_piping_manager.go and pkg/consistent/chain: a value is *)
(* written to, and deleted from, a chain of stores from the head to the    *)
(* tail.  LINEARIZABLE waits for the tail and reads from it; SEQUENTIAL    *)
(* waits for the head only and reads anywhere; a concurrent piping writes  *)
(* to all stores at once and waits for all of them.  A chain is built for  *)
(* every call, from the stores NewChain opened (dbs).                      *)
(***************************************************************************)
EXTENDS StoreJobs

Consistencies == {"LINEARIZABLE", "SEQUENTIAL"}

ChainOK(e) == e.Concurrent \in BOOLEAN /\ e.consistency \in Consistencies

(* The nodes NewChain is given are the joined strings of names of a        *)
(* revision, not the single names.                                         *)
Join(names) ==
    IF names = <<>> THEN ""
    ELSE FoldLeft(LAMBDA joined, name : joined \o "," \o name, Head(names), Tail(names))

chainNodes(rev) == [i \in 1..Len(rev.nodes) |-> Join(rev.nodes[i])]

(* NewChain fails on less than two nodes, and on one that is not in        *)
(* Storages; memory stores are made on demand.                             *)
newChainFails(nodes) ==
    \/ Len(nodes) < 2
    \/ env.StoreType # "mem" /\ ~(ToSet(nodes) \subseteq env.Storages)

(* Write and Delete on the chain dbs, up to where they wait. *)
start(t, kind, dbs, key, val) ==
    /\ wg' = [wg EXCEPT ![t] =
                 IF env.Concurrent
                 THEN {job(t, kind, <<s>>, key, val, FALSE) : s \in ToSet(dbs)}
                 ELSE {job(t, kind, dbs, key, val, env.consistency = "SEQUENTIAL")}]
    /\ UNCHANGED <<db, async>>

Write(t, dbs, rev, val) == start(t, "put", dbs, storeKey(rev), val)

Delete(t, dbs, rev) == start(t, "delete", dbs, storeKey(rev), "nil")

(* The stores Read may go to. *)
readTargets(dbs) ==
    IF env.consistency = "LINEARIZABLE" THEN {Last(dbs)} ELSE ToSet(dbs)

reads(dbs, rev) == UNION {gets(s, storeKey(rev)) : s \in readTargets(dbs)}
=============================================================================
