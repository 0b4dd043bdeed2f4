---------------------------- MODULE IndexClients ----------------------------
(***************************************************************************)
(* The index alone, driven by threads that call it the way the handlers of *)
(* cmd/http/main.go do: a change takes a revision first and reaches the    *)
(* index any time later; a read takes none.  A deletion starts on a key    *)
(* that Get found.                                                         *)
(***************************************************************************)
EXTENDS TreeIndex

CONSTANTS Ops,       \* the index methods the threads call
          MaxRev     \* bound: no change is requested once the counter is here

ASSUME ClientsAssumption == Ops \subseteq Methods /\ MaxRev \in Nat

Request(t) ==
    /\ pc[t] = "idle"
    /\ \E op \in Ops, k \in Keys :
        \/ /\ op \in {"put", "update", "tombstone"} /\ counter < MaxRev
           /\ op = "tombstone" => ~startsGeneration(tree[k])
           /\ \E nodes \in (IF op = "tombstone" THEN {<<>>} ELSE NodeLists),
                 assumed \in (IF op = "update" THEN 1..MaxRev ELSE {0}) :
                req' = [req EXCEPT ![t] = [op |-> op, key |-> k, arg |-> assumed,
                                           rev |-> NewRevision(0, 0, nodes)]]
           /\ goto(t, "add")
        \/ /\ op \in {"get", "since"}
           /\ \E from \in (IF op = "since" THEN 0..MaxRev ELSE {0}) :
                req' = [req EXCEPT ![t] = [op |-> op, key |-> k, arg |-> from, rev |-> NoRev]]
           /\ goto(t, "ready")
    /\ UNCHANGED <<global_increasing_revision, tree, loc, ret, applied>>

Return(t) ==
    /\ pc[t] = "done"
    /\ req' = [req EXCEPT ![t] = NoRequest]
    /\ ret' = [ret EXCEPT ![t] = NoResult]
    /\ goto(t, "idle")
    /\ UNCHANGED <<global_increasing_revision, tree, loc, applied>>

Init == IndexInit

Next == \E t \in Threads : Request(t) \/ CounterStep(t) \/ IndexStep(t) \/ Return(t)

Spec == Init /\ [][Next]_indexVars

-----------------------------------------------------------------------------
(* What the comments of the source promise of the index *)

(* "Each change has different increasing sub Revision in that set" of the  *)
(* changes that share a main revision: two changes differ in main or sub.  *)
ChangesDiffer ==
    \A c, d \in applied : c # d => c.rev.main # d.rev.main \/ c.rev.sub # d.rev.sub

(* "Update updates index of key only when the known its latest revision is *)
(* assumed": of two Updates of a key on top of the same older revision at  *)
(* most one succeeds.                                                      *)
UpdateAssumesLatest ==
    \A c, d \in applied :
        (/\ c.op = "update" /\ d.op = "update" /\ c # d
         /\ c.key = d.key /\ c.arg < c.rev.main /\ d.arg < d.rev.main) => c.arg # d.arg

(* Called by one thread at a time, the index is the multi-version map it   *)
(* is meant to be: Get at any revision finds the newest change up to it,   *)
(* unless that is a tombstone, and its version counts the changes since    *)
(* the key was last created.                                               *)
SnapshotReads ==
    CanLock => \A k \in Keys, atRev \in 1..counter : InTree(tree[k]) =>
        LET past  == {r \in Revs(tree[k]) : r.main <= atRev}
            tombs == {r.main : r \in {x \in past : IsTombstone(x)}}
            alive == {r \in past : \A m \in tombs : r.main > m}
            found == get(tree[k], atRev)
        IN  IF alive = {} THEN found.err
            ELSE /\ found.rev.main = Max({r.main : r \in alive})
                 /\ found.ver = Cardinality(alive)
=============================================================================
