-------------------------- MODULE SyncAsyncPiping --------------------------
(***************************************************************************)
(* pkg/piping/sync_async_piping_manager.go: a write or a deletion runs one *)
(* goroutine per store, detached for the async (remote) stores, waited for *)
(* on the sync (local) ones.                                               *)
(*                                                                         *)
(* Revision.nodes is a list of at most two strings of names joined by      *)
(* commas, the sync stores and the async ones; a joined string is modelled *)
(* by the sequence of its names.                                           *)
(***************************************************************************)
EXTENDS StoreJobs

(* strings.Split of an empty string is one empty name. *)
Split(names) == IF names = <<>> THEN <<"">> ELSE names

(* splitStores; it fails on a revision without nodes. *)
splitFails(rev) == rev.nodes = <<>>

syncNodes(rev) == IF splitFails(rev) THEN <<>> ELSE Split(rev.nodes[1])

asyncNodes(rev) == IF Len(rev.nodes) = 2 THEN Split(rev.nodes[2]) ELSE <<>>

jobs(t, kind, names, rev, val) ==
    {job(t, kind, <<s>>, storeKey(rev), val, FALSE) : s \in ToSet(names) \ {""}}

(* Write and Delete up to wg.Wait(); the caller sees splitFails. *)
start(t, kind, rev, val) ==
    /\ async' = async \cup jobs(t, kind, asyncNodes(rev), rev, val)
    /\ wg' = [wg EXCEPT ![t] = jobs(t, kind, syncNodes(rev), rev, val)]
    /\ UNCHANGED db

Write(t, rev, val) == start(t, "put", rev, val)

Delete(t, rev) == start(t, "delete", rev, "nil")

(* The first sync store; none, "", when splitStores fails or returns the   *)
(* empty name, which the code takes for a sync store all the same.         *)
readTarget(rev) == IF splitFails(rev) THEN "" ELSE syncNodes(rev)[1]

(* What Read can return.  No store has the empty name: the memory store    *)
(* made for it is empty, and the nil pool of redis panics, which ends the  *)
(* request.                                                                *)
reads(rev) ==
    IF readTarget(rev) = "" THEN {ReadError} ELSE gets(readTarget(rev), storeKey(rev))
=============================================================================
