-------------------------- MODULE IndexRefinement --------------------------
(***************************************************************************)
(* The index implements VersionedMap as long as nobody calls Update: the   *)
(* register of a key is the last revision of its live generation, and a    *)
(* lookup takes effect in the step in which it walks the generations.      *)
(***************************************************************************)
EXTENDS IndexClients

Current(ki) == IF startsGeneration(ki) THEN NoRev ELSE Live(ki).revs[Len(Live(ki).revs)]

Answer(t) ==
    IF pc[t] = "done" /\ req[t].op = "get" THEN <<req[t].key, ret[t].err, ret[t].rev>> ELSE <<>>

Map == INSTANCE VersionedMap WITH
    None    <- NoRev,
    current <- [k \in Keys |-> Current(tree[k])],
    got     <- [t \in Threads |-> Answer(t)]

(* Put, Tombstone and Get, the latter in two steps under the read lock,    *)
(* are atomic operations on a register per key, for all threads together.  *)
ImplementsMap == Map!MapSpec

(* Between the two steps of a Get, the one that reads modified and the one *)
(* that walks the generations, no other thread changes the keyIndex: the   *)
(* write lock keeps writers out, in the middle of their own calls too.     *)
ReadersUndisturbed ==
    \A t \in Threads : pc[t] = "get" => loc[t].atRev = item(t).modified.main
=============================================================================
