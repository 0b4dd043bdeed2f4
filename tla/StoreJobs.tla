----------------------------- MODULE StoreJobs -----------------------------
(***************************************************************************)
(* The stores of pkg/database and the goroutines of pkg/piping that work   *)
(* on them.  A store maps revisions (Revision.String, the main revision)   *)
(* to values.  A goroutine is a job: one operation on a sequence of        *)
(* stores, a single one in SyncAsyncPiping and in a concurrent chain, the  *)
(* rest of the chain otherwise.  A caller waits for the jobs in its        *)
(* WaitGroup (or for the call it makes itself); nobody waits for the       *)
(* detached ones.  What a store answers stops a chain and is otherwise     *)
(* only traced.                                                            *)
(***************************************************************************)
EXTENDS Integers, Sequences, SequencesExt

CONSTANTS Threads, Stores, Values

VARIABLES
    env,     \* the deployment: its configuration, and the stores that may fail
    db,      \* per store, the values it holds by revision
    async,   \* the detached goroutines that have not run yet
    wg       \* per thread, the goroutines it waits for

pipingVars == <<db, async, wg>>

StoreTypes == {"mem", "redis", "dummy+latency"}

(* What a deployment says about the stores. *)
StoresOK(e) == e.StoreType \in StoreTypes /\ e.faulty \subseteq Stores

Jobs == [kind : {"put", "delete"}, stores : Seq(Stores), key : Nat,
         val : Values \cup {"nil"}, by : Threads, detach : BOOLEAN]

PipingTypeOK ==
    /\ DOMAIN db = Stores
    /\ \A s \in Stores : DOMAIN db[s] \subseteq Nat /\ Range(db[s]) \subseteq Values
    /\ async \subseteq Jobs
    /\ wg \in [Threads -> SUBSET Jobs]

PipingInit ==
    /\ db = [s \in Stores |-> <<>>]
    /\ async = {}
    /\ wg = [t \in Threads |-> {}]

-----------------------------------------------------------------------------
(* The key of a value in the stores: Revision.String. *)
storeKeySub(rev) == rev.sub

storeKey(rev) == rev.main

job(t, kind, stores, key, val, detach) ==
    [kind |-> kind, stores |-> stores, key |-> key, val |-> val, by |-> t, detach |-> detach]

(* The simulated store accepts everything and keeps nothing. *)
simulated == env.StoreType = "dummy+latency"

(* What Put and Delete make of the contents of a store. *)
after(j, contents) ==
    IF simulated THEN contents
    ELSE IF j.kind = "put" THEN (j.key :> j.val) @@ contents
    ELSE Restrict(contents, DOMAIN contents \ {j.key})

(* The operation on the next store of the job.  A faulty store may lose    *)
(* the call, or carry it out and lose the answer.                          *)
run(j, ok) ==
    \/ /\ ok \/ Head(j.stores) \in env.faulty
       /\ db' = [db EXCEPT ![Head(j.stores)] = after(j, @)]
    \/ /\ ~ok /\ Head(j.stores) \in env.faulty
       /\ UNCHANGED db

(* What is left to do: an error ends the job. *)
restAnyway(j, ok) ==
    IF Len(j.stores) > 1 THEN {[j EXCEPT !.stores = Tail(@), !.detach = FALSE]} ELSE {}

rest(j, ok) ==
    IF ok /\ Len(j.stores) > 1 THEN {[j EXCEPT !.stores = Tail(@), !.detach = FALSE]} ELSE {}

(* A job somebody waits for; a sequential chain detaches after its head.   *)
SyncJobNoDone(t, j, ok) == run(j, ok) /\ UNCHANGED <<wg, async>>

SyncJob(t, j, ok) ==
    /\ j \in wg[t] /\ run(j, ok)
    /\ wg' = [wg EXCEPT ![t] = (@ \ {j}) \cup (IF j.detach THEN {} ELSE rest(j, ok))]
    /\ async' = async \cup (IF j.detach THEN rest(j, ok) ELSE {})

AsyncJobLost(j, ok) == async' = async \ {j} /\ UNCHANGED <<db, wg>>

AsyncJob(j, ok) ==
    /\ j \in async /\ run(j, ok)
    /\ async' = (async \ {j}) \cup rest(j, ok)
    /\ UNCHANGED wg

(* wg.Wait() *)
waitedNever(t) == TRUE

waited(t) == wg[t] = {}

-----------------------------------------------------------------------------
ReadError == [err |-> TRUE, val |-> "nil"]

(* A missing key is an error of the memory store; redis answers it with a  *)
(* nil, which is formatted as a value.                                     *)
missing == [err |-> env.StoreType = "mem", val |-> "nil"]

(* The simulated store makes a value up. *)
dummyGet == [err |-> FALSE, val |-> "dummy"]

storeGetEmpty(s, key) ==
    IF key \in DOMAIN db[s] THEN [err |-> FALSE, val |-> db[s][key]] ELSE [err |-> FALSE, val |-> ""]

storeGet(s, key) ==
    IF simulated THEN dummyGet
    ELSE IF key \in DOMAIN db[s] THEN [err |-> FALSE, val |-> db[s][key]] ELSE missing

gets(s, key) == {storeGet(s, key)} \cup (IF s \in env.faulty THEN {ReadError} ELSE {})
=============================================================================
