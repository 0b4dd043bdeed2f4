----------------------------- MODULE KVService -----------------------------
(***************************************************************************)
(* The handlers of cmd/http/main.go over the index (TreeIndex) and the     *)
(* piping the configuration selects, SyncAsyncPiping or ChainPiping.       *)
(* Every request runs in its own goroutine and holds no lock between its   *)
(* calls:                                                                  *)
(*   createKV  takes a revision, writes the value to the stores under it,  *)
(*             then indexes the revision (Update when ?rev= is given);     *)
(*   getKV     looks the key up, then reads the value of the revision      *)
(*             (?fromRev=: of every revision RangeSince returned);         *)
(*   deleteKV  looks the key up, deletes that revision's value from the    *)
(*             stores, takes a revision and puts a tombstone under it.     *)
(* The index and the counter live in memory: a restart empties them and    *)
(* kills the goroutines; redis keeps what it holds.                        *)
(***************************************************************************)
EXTENDS TreeIndex

CONSTANTS
    Stores, Values,   \* see StoreJobs
    Deployments,      \* what the service may be deployed as
    NodesOf(_, _),    \* the hashing manager of a deployment: the nodes of a bucket of revisions
    BucketSize,
    Verbs,            \* the requests clients send
    RevParams         \* the revisions that ?rev= and ?fromRev= may name

VARIABLES
    env, db, async, wg,  \* see StoreJobs
    h,                   \* the request each thread serves
    restarts,
    written,        \* history: what createKV sent to the stores, since the last restart
    erased          \* history: the revisions deleteKV has erased from the stores it waits for

SyncAsync == INSTANCE SyncAsyncPiping

Chain == INSTANCE ChainPiping

serviceVars == <<env, h, restarts, written, erased>>

vars == <<indexVars, db, async, wg, serviceVars>>

PipingTypes == {"chain", "localSyncRemoteAsync"}

(* maxRev: bound, no change is requested once the counter is here;         *)
(* maxRestarts: bound on the restarts of the service.                      *)
DeploymentOK(e) ==
    /\ SyncAsync!StoresOK(e) /\ Chain!ChainOK(e)
    /\ e.PipingType \in PipingTypes /\ e.consistency = "LINEARIZABLE"
    /\ e.maxRev \in Nat /\ e.maxRestarts \in Nat
    /\ \A b \in 0..(2 * e.maxRev) : NodesOf(e, b) \in NodeLists

ASSUME ServiceAssumption ==
    /\ \A e \in Deployments : DeploymentOK(e)
    /\ BucketSize \in Nat \ {0} /\ Values \cap {"nil", "dummy"} = {}
    /\ Verbs \subseteq {"create", "update", "get", "range", "delete"}
    /\ RevParams \subseteq Nat

(* step: what the handler is at; todo: revisions still to read; got: the   *)
(* values read; rev: the revision served.                                  *)
Handler == [verb : Verbs \cup {"none"}, step : {"idle", "rev", "index", "values",
                "delete", "tombstone", "answer"},
            key : Keys, val : Values \cup {"nil"}, rev : Revision, todo : Seq(Revision),
            got : Seq(Values \cup {"nil", "dummy"}), err : BOOLEAN]

Idle == [verb |-> "none", step |-> "idle", key |-> NoRequest.key, val |-> "nil",
         rev |-> NoRev, todo |-> <<>>, got |-> <<>>, err |-> FALSE]

(* The types of the variables: those of the index, of the piping and of    *)
(* the handlers of main.go.                                                *)
TypeOK ==
    /\ IndexTypeOK
    /\ SyncAsync!PipingTypeOK
    /\ env \in Deployments
    /\ h \in [Threads -> Handler]
    /\ restarts \in 0..env.maxRestarts
    /\ written \subseteq [key : Keys, main : Nat, val : Values, by : Threads]
    /\ erased \subseteq Revision

ServiceInit ==
    /\ h = [t \in Threads |-> Idle]
    /\ written = {}
    /\ erased = {}

Init ==
    /\ env \in Deployments
    /\ IndexInit /\ SyncAsync!PipingInit /\ ServiceInit
    /\ restarts = 0

-----------------------------------------------------------------------------
(* Helpers *)

(* The handler of t calls the index, or takes a revision for the call. *)
call(t, step, op, k, arg) ==
    /\ req' = [req EXCEPT ![t] = [op |-> op, key |-> k, rev |-> NoRev, arg |-> arg]]
    /\ ret' = [ret EXCEPT ![t] = NoResult]
    /\ goto(t, step)
    /\ UNCHANGED <<global_increasing_revision, tree, loc, applied>>

(* The handler of t is finished with the index. *)
hangUp(t) ==
    /\ req' = [req EXCEPT ![t] = NoRequest]
    /\ ret' = [ret EXCEPT ![t] = NoResult]
    /\ goto(t, "idle")
    /\ UNCHANGED <<global_increasing_revision, tree, loc, applied>>

answer(t, rev, err) ==
    h' = [h EXCEPT ![t] = [@ EXCEPT !.step = "answer", !.rev = rev, !.err = err, !.todo = <<>>]]

begin(t, verb, step, k, v) ==
    h' = [h EXCEPT ![t] = [Idle EXCEPT !.verb = verb, !.step = step, !.key = k, !.val = v]]

serving(t, verbs, step) == h[t].verb \in verbs /\ h[t].step = step

unchangedHistory == UNCHANGED <<env, restarts, written, erased>>

unchangedPiping == UNCHANGED <<db, async, wg>>

-----------------------------------------------------------------------------
(* handler.piping: NewKeyValueHandler *)

chained == env.PipingType = "chain"

chain(rev) == Chain!chainNodes(rev)

pipingFails(rev) ==
    IF chained THEN Chain!newChainFails(chain(rev)) ELSE SyncAsync!splitFails(rev)

pipingWrite(t, rev, val) ==
    IF chained THEN Chain!Write(t, chain(rev), rev, val) ELSE SyncAsync!Write(t, rev, val)

pipingDelete(t, rev) ==
    IF chained THEN Chain!Delete(t, chain(rev), rev) ELSE SyncAsync!Delete(t, rev)

pipingReads(rev) ==
    IF pipingFails(rev) THEN {SyncAsync!ReadError}
    ELSE IF chained THEN Chain!reads(chain(rev), rev) ELSE SyncAsync!reads(rev)

-----------------------------------------------------------------------------
(* Steps of the index and of the piping on behalf of a handler *)

TakeRevision(t) ==
    CounterStep(t) /\ unchangedPiping /\ UNCHANGED serviceVars

CallIndex(t) ==
    /\ h[t].step \in {"index", "tombstone"} /\ SyncAsync!waited(t)
    /\ IndexStep(t)
    /\ unchangedPiping /\ UNCHANGED serviceVars

SyncJob(t) ==
    /\ \E j \in wg[t], ok \in BOOLEAN : SyncAsync!SyncJob(t, j, ok)
    /\ UNCHANGED <<indexVars, serviceVars>>

AsyncJob ==
    /\ \E j \in async, ok \in BOOLEAN : SyncAsync!AsyncJob(j, ok)
    /\ UNCHANGED <<indexVars, serviceVars>>

-----------------------------------------------------------------------------
(* createKV; with ?rev= it is the verb "update" *)

BeginCreate(t) ==
    /\ h[t].step = "idle" /\ counter < env.maxRev
    /\ \E verb \in Verbs \cap {"create", "update"}, k \in Keys, v \in Values :
       \E assumed \in (IF verb = "update" THEN RevParams ELSE {0}) :
            /\ begin(t, verb, "rev", k, v)
            /\ call(t, "add", IF verb = "update" THEN "update" ELSE "put", k, assumed)
    /\ unchangedPiping /\ unchangedHistory

(* GetNodes fails, the body cannot be read or parsed, or Write fails.      *)
CreateAbort(t) ==
    /\ serving(t, {"create", "update"}, "rev") /\ pc[t] = "ready"
    /\ answer(t, NoRev, TRUE) /\ hangUp(t)
    /\ unchangedPiping /\ unchangedHistory

(* getPrimaryRevBytesWithBucket *)
bucket(rev) == rev.main \div BucketSize

newRev(t) == [req[t].rev EXCEPT !.nodes = NodesOf(env, bucket(req[t].rev))]

CreateWrite(t) ==
    /\ serving(t, {"create", "update"}, "rev") /\ pc[t] = "ready"
    /\ ~pipingFails(newRev(t))
    /\ req' = [req EXCEPT ![t].rev = newRev(t)]
    /\ pipingWrite(t, newRev(t), h[t].val)
    /\ h' = [h EXCEPT ![t].step = "index"]
    /\ written' = written \cup {[key |-> h[t].key, main |-> req[t].rev.main, val |-> h[t].val, by |-> t]}
    /\ UNCHANGED <<global_increasing_revision, tree, pc, loc, ret, applied,
                   env, restarts, erased>>

CreateDone(t) ==
    /\ serving(t, {"create", "update"}, "index") /\ pc[t] = "done"
    /\ answer(t, req[t].rev, ret[t].err) /\ hangUp(t)
    /\ unchangedPiping /\ unchangedHistory

-----------------------------------------------------------------------------
(* getKV; with ?fromRev= it is the verb "range" *)

BeginGet(t) ==
    /\ h[t].step = "idle"
    /\ \E verb \in Verbs \cap {"get", "range"}, k \in Keys :
       \E from \in (IF verb = "range" THEN RevParams ELSE {0}) :
            /\ begin(t, verb, "index", k, "nil")
            /\ call(t, "ready", IF verb = "range" THEN "since" ELSE "get", k, from)
    /\ unchangedPiping /\ unchangedHistory

GetFound(t) ==
    /\ serving(t, {"get", "range"}, "index") /\ pc[t] = "done"
    /\ IF ret[t].err
       THEN answer(t, NoRev, TRUE)
       ELSE h' = [h EXCEPT ![t] = [@ EXCEPT !.step = "values", !.rev = ret[t].rev, !.todo =
                     IF h[t].verb = "get" THEN <<ret[t].rev>> ELSE ret[t].revs]]
    /\ hangUp(t)
    /\ unchangedPiping /\ unchangedHistory

ReadValue(t) ==
    /\ h[t].step = "values" /\ h[t].todo # <<>>
    /\ \E found \in pipingReads(Head(h[t].todo)) :
        IF found.err
        THEN answer(t, NoRev, TRUE)
        ELSE h' = [h EXCEPT ![t] = [@ EXCEPT !.todo = Tail(@), !.got = Append(@, found.val)]]
    /\ UNCHANGED indexVars /\ unchangedPiping /\ unchangedHistory

ValuesRead(t) ==
    /\ h[t].step = "values" /\ h[t].todo = <<>>
    /\ answer(t, h[t].rev, FALSE)
    /\ UNCHANGED indexVars /\ unchangedPiping /\ unchangedHistory

-----------------------------------------------------------------------------
(* deleteKV *)

BeginDelete(t) ==
    /\ h[t].step = "idle" /\ "delete" \in Verbs /\ counter < env.maxRev
    /\ \E k \in Keys : begin(t, "delete", "index", k, "nil") /\ call(t, "ready", "get", k, 0)
    /\ unchangedPiping /\ unchangedHistory

DeleteMissing(t) ==
    /\ serving(t, {"delete"}, "index") /\ pc[t] = "done" /\ ret[t].err
    /\ answer(t, NoRev, TRUE) /\ hangUp(t)
    /\ unchangedPiping /\ unchangedHistory

DeleteValues(t) ==
    /\ serving(t, {"delete"}, "index") /\ pc[t] = "done" /\ ~ret[t].err
    /\ IF pipingFails(ret[t].rev) THEN unchangedPiping ELSE pipingDelete(t, ret[t].rev)
    /\ h' = [h EXCEPT ![t] = [@ EXCEPT !.step = "delete", !.rev = ret[t].rev]]
    /\ hangUp(t) /\ unchangedHistory

DeleteTombstone(t) ==
    /\ serving(t, {"delete"}, "delete") /\ SyncAsync!waited(t)
    /\ h' = [h EXCEPT ![t].step = "tombstone"]
    /\ erased' = erased \cup {h[t].rev}
    /\ call(t, "add", "tombstone", h[t].key, 0)
    /\ unchangedPiping /\ UNCHANGED <<env, restarts, written>>

(* What Tombstone returned is ignored; the error is that of piping.Delete. *)
DeleteDone(t) ==
    /\ serving(t, {"delete"}, "tombstone") /\ pc[t] = "done"
    /\ answer(t, h[t].rev, pipingFails(h[t].rev)) /\ hangUp(t)
    /\ unchangedPiping /\ unchangedHistory

-----------------------------------------------------------------------------
Answer(t) ==
    /\ h[t].step = "answer"
    /\ h' = [h EXCEPT ![t] = Idle]
    /\ UNCHANGED indexVars /\ unchangedPiping /\ unchangedHistory

Restart ==
    /\ restarts < env.maxRestarts
    /\ restarts' = restarts + 1
    /\ global_increasing_revision' = 0
    /\ tree' = [k \in Keys |-> NewKeyIndex]
    /\ pc' = [t \in Threads |-> "idle"]
    /\ req' = [t \in Threads |-> NoRequest]
    /\ loc' = [t \in Threads |-> NoLocals]
    /\ ret' = [t \in Threads |-> NoResult]
    /\ applied' = {}
    /\ async' = {} /\ wg' = [t \in Threads |-> {}]
    /\ db' = IF env.StoreType = "redis" THEN db ELSE [s \in Stores |-> <<>>]
    /\ h' = [t \in Threads |-> Idle]
    /\ written' = {} /\ erased' = {}
    /\ UNCHANGED env

Begin(t) == BeginCreate(t) \/ BeginGet(t) \/ BeginDelete(t)

Step(t) ==
    \/ TakeRevision(t) \/ CallIndex(t) \/ SyncJob(t)
    \/ CreateAbort(t) \/ CreateWrite(t) \/ CreateDone(t)
    \/ GetFound(t) \/ ReadValue(t) \/ ValuesRead(t)
    \/ DeleteMissing(t) \/ DeleteValues(t) \/ DeleteTombstone(t) \/ DeleteDone(t)
    \/ Answer(t)

Next == (\E t \in Threads : Begin(t) \/ Step(t)) \/ AsyncJob \/ Restart

Spec == Init /\ [][Next]_vars

-----------------------------------------------------------------------------
(* Properties *)

(* No two values went to the stores under one revision (they can: see      *)
(* ChangesDiffer in IndexClients). *)
WritesDistinct == \A w, x \in written : w # x => w.main # x.main

wrote(k, rev, v) == \E w \in written : w.key = k /\ w.main = rev.main /\ w.val = v

erasing(rev) == \E t \in Threads :
    h[t].verb = "delete" /\ h[t].step \in {"delete", "tombstone"} /\ h[t].rev = rev

(* The store a read of rev goes to, and the stores whose failures keep a   *)
(* value from it: every store of a chain, unless it is written at once.    *)
readTarget(rev) == IF chained THEN Last(chain(rev)) ELSE SyncAsync!readTarget(rev)

reliable(rev) ==
    IF chained /\ ~env.Concurrent THEN ToSet(chain(rev)) \cap env.faulty = {}
    ELSE readTarget(rev) \notin env.faulty \cup {""}

(* A value is in the stores before the index serves its revision, and      *)
(* stays there until a deletion that looked the key up erases it: what a   *)
(* GET would find now is in the store it would read, and is what createKV  *)
(* was given for that key.                                                 *)
ServedIsStored ==
    WritesDistinct => \A k \in Keys :
        LET rev == Last(Live(tree[k]).revs)
            s   == readTarget(rev)
        IN  ~startsGeneration(tree[k]) /\ reliable(rev) /\ ~erasing(rev) =>
                /\ rev.main \in DOMAIN db[s]
                /\ wrote(k, rev, db[s][rev.main])


(* The stores a write or a deletion of rev waits for. *)
waitsFor(rev) == IF chained THEN ToSet(chain(rev)) ELSE ToSet(SyncAsync!syncNodes(rev)) \ {""}

(* Once deleteKV has erased a revision it never reappears in a store that  *)
(* writes and deletions wait for.                                          *)
ErasedStaysErased ==
    WritesDistinct => \A r \in erased : reliable(r) =>
        \A s \in waitsFor(r) \ env.faulty : r.main \notin DOMAIN db[s]

(* Once the deletion of a revision is answered, the key no longer serves   *)
(* it, although deleteKV ignores what Tombstone returns.                   *)
ErasedNotServed ==
    WritesDistinct => \A r \in erased : erasing(r) \/ \A k \in Keys :
        InTree(tree[k]) => r \notin ToSet(Live(tree[k]).revs)


(* Read falls back on the first async store when a revision has no sync    *)
(* store: such a revision can be read once it is in that store.            *)
AsyncOnlyReadable ==
    \A k \in Keys : ~startsGeneration(tree[k]) =>
        LET rev == Last(Live(tree[k]).revs)
        IN  rev.nodes[1] = <<>> /\ rev.main \in DOMAIN db[rev.nodes[2][1]] =>
                \E found \in pipingReads(rev) : ~found.err

-----------------------------------------------------------------------------
(* Liveness.  A goroutine that can run eventually does; a Lock call that   *)
(* waits excludes new readers and an Unlock lets waiting readers in, so a  *)
(* thread that finds its lock free again and again eventually gets it.     *)

LiveSpec == Spec /\ WF_vars(AsyncJob) /\ \A t \in Threads : SF_vars(Step(t))

(* Every request is answered: no handler waits for ever on the WaitGroup   *)
(* or on the index lock.                                                   *)
EveryRequestAnswered == \A t \in Threads : h[t].step # "idle" ~> h[t].step = "idle"

(* Once changes stop (maxRev), the replicas converge: every indexed        *)
(* revision ends up in all of its stores, the remote ones too, which       *)
(* nothing waits for, and stays there, unless a deletion has erased it.    *)
Replicated ==
    <>[](\A c \in applied : c.op = "tombstone" \/ c.rev \in erased
            \/ \A s \in waitsFor(c.rev) \cup (ToSet(SyncAsync!asyncNodes(c.rev)) \ {""}) :
                   c.rev.main \in DOMAIN db[s])
=============================================================================
