----------------------------- MODULE TreeIndex -----------------------------
(***************************************************************************)
(* pkg/index/index.go and pkg/revision/revision.go as threads see them:    *)
(* the index is a map from keys to keyIndexes behind a sync.RWMutex, and   *)
(* revisions come from one counter that is bumped atomically but read back *)
(* with a plain load.                                                      *)
(*                                                                         *)
(* Put and Tombstone hold the write lock, so each is one step, except that *)
(* a Put that starts a generation bumps the counter and reads it back      *)
(* while other threads move it.  Get and RangeSince hold the read lock.    *)
(* Update holds only the read lock, yet changes the keyIndex: each of its  *)
(* reads and writes of shared fields is a step.  A thread takes a revision *)
(* first and calls the index later, so revisions reach the index in any    *)
(* order.                                                                  *)
(***************************************************************************)
EXTENDS KeyIndex

CONSTANTS Keys, Threads

ASSUME KeysAssumption == Keys # {}

VARIABLES
    global_increasing_revision,
    tree,      \* Keys -> keyIndex
    pc,        \* where each thread is
    req,       \* the call each thread is making: method, key, revision, integer argument
    loc,       \* locals of the methods that take several steps
    ret,       \* what the last call of each thread returned
    applied    \* history: the changes whose call returned nil

indexVars == <<global_increasing_revision, tree, pc, req, loc, ret, applied>>

counter == global_increasing_revision

UpdateSteps == {"u_generation", "u_created", "u_compare", "u_load", "u_store",
                "u_modified", "u_advance"}

Methods == {"put", "update", "tombstone", "get", "since"}

PCs == {"idle", "add", "load", "ready", "put", "get", "done"} \cup UpdateSteps

NoRev == NewRevision(0, 0, <<>>)

Requests == [op : Methods \cup {"none"}, key : Keys, rev : Revision, arg : Int]

NoRequest == [op |-> "none", key |-> CHOOSE k \in Keys : TRUE, rev |-> NoRev, arg |-> 0]

Changes == [op : {"put", "update", "tombstone"}, key : Keys, rev : Revision, arg : Int]

Locals == [newer : BOOLEAN, revs : Seq(Revision), ver : Nat, atRev : Int]

NoLocals == [newer |-> FALSE, revs |-> <<>>, ver |-> 0, atRev |-> 0]

Results == [err : BOOLEAN, rev : Revision, revs : Seq(Revision)]

NoResult == [err |-> FALSE, rev |-> NoRev, revs |-> <<>>]

(* The types of the variables. *)
IndexTypeOK ==
    /\ global_increasing_revision \in Nat
    /\ tree \in [Keys -> KeyIndexes]
    /\ pc \in [Threads -> PCs]
    /\ req \in [Threads -> Requests]
    /\ loc \in [Threads -> Locals]
    /\ ret \in [Threads -> Results]
    /\ applied \in SUBSET Changes

IndexInit ==
    /\ global_increasing_revision = 0
    /\ tree = [k \in Keys |-> NewKeyIndex]
    /\ pc = [t \in Threads |-> "idle"]
    /\ req = [t \in Threads |-> NoRequest]
    /\ loc = [t \in Threads |-> NoLocals]
    /\ ret = [t \in Threads |-> NoResult]
    /\ applied = {}

-----------------------------------------------------------------------------
(* Locks *)

RLocked(t) == pc[t] \in UpdateSteps \cup {"get"}

WLocked(t) == pc[t] = "put"

CanRLock == \A t \in Threads : ~WLocked(t)

CanLockBesideReaders == \A t \in Threads : ~WLocked(t)

CanLock == \A t \in Threads : ~WLocked(t) /\ ~RLocked(t)

goto(t, step) == pc' = [pc EXCEPT ![t] = step]

(* The method returns, and releases what it holds. *)
return(t, result) ==
    /\ ret' = [ret EXCEPT ![t] = result]
    /\ loc' = [loc EXCEPT ![t] = NoLocals]
    /\ goto(t, "done")

failed == [NoResult EXCEPT !.err = TRUE]

succeed(t) == return(t, NoResult) /\ applied' = applied \cup {req[t]}

calls(t, op) == pc[t] = "ready" /\ req[t].op = op

item(t) == tree[req[t].key]

setItem(t, ki) == tree' = [tree EXCEPT ![req[t].key] = ki]

-----------------------------------------------------------------------------
(* GetGlobalIncreasingRevision: the add and the load are two accesses. *)

Add(t) ==
    /\ pc[t] = "add"
    /\ global_increasing_revision' = counter + 1
    /\ goto(t, "load")
    /\ UNCHANGED <<tree, req, loc, ret, applied>>

Load(t) ==
    /\ pc[t] = "load"
    /\ req' = [req EXCEPT ![t].rev.main = counter]
    /\ goto(t, "ready")
    /\ UNCHANGED <<global_increasing_revision, tree, loc, ret, applied>>

-----------------------------------------------------------------------------
(* The methods under the write lock *)

Put(t) ==
    /\ calls(t, "put") /\ CanLock
    /\ ~startsGeneration(item(t))
    /\ setItem(t, put(item(t), req[t].rev, 0))
    /\ succeed(t)
    /\ UNCHANGED <<global_increasing_revision, req>>

PutAdd(t) ==
    /\ calls(t, "put") /\ CanLock
    /\ startsGeneration(item(t))
    /\ global_increasing_revision' = counter + 1
    /\ goto(t, "put")
    /\ UNCHANGED <<tree, req, loc, ret, applied>>

PutCreate(t) ==
    /\ pc[t] = "put"
    /\ setItem(t, put(item(t), req[t].rev, counter))
    /\ succeed(t)
    /\ UNCHANGED <<global_increasing_revision, req>>

Tombstone(t) ==
    /\ calls(t, "tombstone") /\ CanLock
    /\ IF startsGeneration(item(t))
       THEN return(t, failed) /\ UNCHANGED <<tree, applied>>
       ELSE setItem(t, tombstone(item(t), req[t].rev)) /\ succeed(t)
    /\ UNCHANGED <<global_increasing_revision, req>>

-----------------------------------------------------------------------------
(* The readers *)

Get(t) ==
    /\ calls(t, "get") /\ CanRLock
    /\ IF InTree(item(t))
       THEN /\ loc' = [loc EXCEPT ![t].atRev = IF req[t].arg = 0 THEN item(t).modified.main
                                                                 ELSE req[t].arg]
            /\ goto(t, "get") /\ UNCHANGED ret
       ELSE return(t, failed)
    /\ UNCHANGED <<global_increasing_revision, tree, req, applied>>

GetAt(t) ==
    /\ pc[t] = "get"
    /\ LET found == get(item(t), loc[t].atRev)
       IN  return(t, [NoResult EXCEPT !.err = found.err, !.rev = found.rev])
    /\ UNCHANGED <<global_increasing_revision, tree, req, applied>>

(* With end = nil, the way getKV calls it. *)
RangeSince(t) ==
    /\ calls(t, "since") /\ CanRLock
    /\ return(t, [NoResult EXCEPT !.revs =
                     IF InTree(item(t)) THEN since(item(t), req[t].arg) ELSE <<>>])
    /\ UNCHANGED <<global_increasing_revision, tree, req, applied>>

-----------------------------------------------------------------------------
(* Update, under the read lock: the check of revAssumed, then put, one     *)
(* shared field at a time.                                                 *)

Update(t) ==
    /\ calls(t, "update") /\ CanRLock
    /\ IF InTree(item(t)) /\ item(t).modified.main = req[t].arg
       THEN goto(t, "u_generation") /\ UNCHANGED <<loc, ret>>
       ELSE return(t, failed)
    /\ UNCHANGED <<global_increasing_revision, tree, req, applied>>

UpdateGeneration(t) ==
    /\ pc[t] = "u_generation"
    /\ IF startsGeneration(item(t))
       THEN global_increasing_revision' = counter + 1 /\ goto(t, "u_created")
       ELSE goto(t, "u_compare") /\ UNCHANGED global_increasing_revision
    /\ UNCHANGED <<tree, req, loc, ret, applied>>

UpdateCreated(t) ==
    /\ pc[t] = "u_created"
    /\ setItem(t, setCreated(item(t), counter))
    /\ goto(t, "u_compare")
    /\ UNCHANGED <<global_increasing_revision, req, loc, ret, applied>>

UpdateCompare(t) ==
    /\ pc[t] = "u_compare"
    /\ loc' = [loc EXCEPT ![t].newer = GreaterThan(req[t].rev, item(t).modified)]
    /\ goto(t, "u_load")
    /\ UNCHANGED <<global_increasing_revision, tree, req, ret, applied>>

UpdateLoad(t) ==
    /\ pc[t] = "u_load"
    /\ loc' = [loc EXCEPT ![t].revs = Live(item(t)).revs]
    /\ goto(t, "u_store")
    /\ UNCHANGED <<global_increasing_revision, tree, req, ret, applied>>

UpdateStore(t) ==
    /\ pc[t] = "u_store"
    /\ setItem(t, setLive(item(t), [Live(item(t)) EXCEPT
                      !.revs = insertRev(loc[t].revs, req[t].rev, loc[t].newer)]))
    /\ goto(t, "u_modified")
    /\ UNCHANGED <<global_increasing_revision, req, loc, ret, applied>>

UpdateModified(t) ==
    /\ pc[t] = "u_modified"
    /\ IF GreaterThan(req[t].rev, item(t).modified)
       THEN /\ loc' = [loc EXCEPT ![t].ver = Live(item(t)).ver]
            /\ goto(t, "u_advance")
            /\ UNCHANGED <<ret, applied>>
       ELSE succeed(t)
    /\ UNCHANGED <<global_increasing_revision, tree, req>>

UpdateAdvance(t) ==
    /\ pc[t] = "u_advance"
    /\ setItem(t, [setLive(item(t), [Live(item(t)) EXCEPT !.ver = loc[t].ver + 1])
                      EXCEPT !.modified = req[t].rev])
    /\ succeed(t)
    /\ UNCHANGED <<global_increasing_revision, req>>

-----------------------------------------------------------------------------
CounterStep(t) == Add(t) \/ Load(t)

IndexStep(t) ==
    \/ Put(t) \/ PutAdd(t) \/ PutCreate(t) \/ Tombstone(t)
    \/ Get(t) \/ GetAt(t) \/ RangeSince(t)
    \/ Update(t) \/ UpdateGeneration(t) \/ UpdateCreated(t) \/ UpdateCompare(t)
    \/ UpdateLoad(t) \/ UpdateStore(t) \/ UpdateModified(t) \/ UpdateAdvance(t)

-----------------------------------------------------------------------------
(* Properties *)

Revs(ki) == UNION {ToSet(ki.generations[i].revs) : i \in 1..Len(ki.generations)}

(* Every keyIndex in the tree has a revision and only its last generation  *)
(* can be empty, so the panics of tombstone, get and since are unreachable *)
(* and findGeneration never indexes an empty slice.                        *)
NeverEmpty ==
    \A k \in Keys : InTree(tree[k]) =>
        /\ ~isEmpty(tree[k])
        /\ \A i \in 1..(Len(tree[k].generations) - 1) : tree[k].generations[i].revs # <<>>

(* However late a revision reaches the index, put leaves the revisions of  *)
(* each generation in order: walk's backward scan relies on it.            *)
GenerationsSorted ==
    \A k \in Keys : \A i \in 1..Len(tree[k].generations) :
        IsSorted(tree[k].generations[i].revs, LAMBDA a, b : ~GreaterThan(a, b))

(* modified is the newest revision of the key, in whatever order the       *)
(* changes were indexed: Get(key, 0) and Update take it for the latest.    *)
ModifiedIsNewest ==
    \A k \in Keys : InTree(tree[k]) =>
        /\ tree[k].modified \in Revs(tree[k])
        /\ \A r \in Revs(tree[k]) : ~GreaterThan(r, tree[k].modified)

(* Get(key, 0) finds the newest revision of the live generation, or        *)
(* nothing when that is empty; it never hands out a tombstone, even when   *)
(* the tombstone is older than a put indexed before it.                    *)
GetFindsNewest ==
    \A k \in Keys : InTree(tree[k]) =>
        LET found == get(tree[k], tree[k].modified.main)
            revs  == Live(tree[k]).revs
        IN  IF revs = <<>> THEN found.err
            ELSE ~found.err /\ found.rev = Last(revs) /\ ~IsTombstone(found.rev)

(* since skips the generations created before the revision it starts at,   *)
(* and misses none of the revisions at or after it by doing so.  (It skips *)
(* no more from a number between two revisions than from the next one.)    *)
SinceComplete ==
    \A k \in Keys : \A from \in {r.main : r \in Revs(tree[k])} :
        {r.main : r \in ToSet(since(tree[k], from))}
            = {r.main : r \in {x \in Revs(tree[k]) : x.main >= from}}

(* A change the index acknowledged stays in it. *)
AppliedKept == \A c \in applied : c.rev \in Revs(tree[c.key])

Visible(ki) == IF startsGeneration(ki) THEN 0 ELSE Last(Live(ki).revs).main

(* Between two deletions the revision that Get finds never goes back.      *)
VisibleMonotone ==
    [][\A k \in Keys : Len(tree'[k].generations) = Len(tree[k].generations) =>
            Visible(tree'[k]) >= Visible(tree[k])]_indexVars
=============================================================================
