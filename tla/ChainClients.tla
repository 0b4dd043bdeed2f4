---------------------------- MODULE ChainClients ----------------------------
(***************************************************************************)
(* ChainPiping driven by threads that call it the way the handlers do: a   *)
(* revision is written once, and read or deleted after the write returned. *)
(* Every call builds its chain anew (NewChain).  The memory stores come    *)
(* from a registry by name, which NewMemDatabase looks up and extends      *)
(* without a lock; the others are the Storages made at the start.          *)
(*                                                                         *)
(* A store is a name and the thread that made it ("main": the start).      *)
(***************************************************************************)
EXTENDS ChainPiping, Redis, FiniteSets

CONSTANTS
    Names,         \* the nodes of the revisions
    Deployments    \* what the piping may run on, with the nodes of its chain, and
                   \* maxCalls, a bound on the calls of all threads

ASSUME ChainAssumption ==
    /\ Stores = Names \X (Threads \cup {"main"}) /\ "main" \notin Threads
    /\ RedisRetryCount \in Nat
    /\ \A e \in Deployments : /\ StoresOK(e) /\ ChainOK(e) /\ e.nodes \in Seq(Names) /\ e.maxCalls \in Nat
                              /\ e.faulty # {} => e.StoreType = "redis"

VARIABLES
    c,             \* per thread, its call
    memDatabases,  \* per name, the registered memory store
    calls,         \* the number of calls
    puts,          \* history: per revision, the value, the stores and whether Write returned
    deletes        \* history: per revision, whether its Delete returned

clientVars == <<c, memDatabases, calls, puts, deletes>>

chainVars == <<env, pipingVars, clientVars>>

Ops == {"Write", "Delete", "Read", "ReadTail"}

(* step: building the chain, about to register a memory store it did not   *)
(* find, or running; dbs: the chain so far.                                *)
Calls == [op : Ops \cup {"none"}, step : {"idle", "open", "insert", "run", "read"}, rev : Nat,
          val : Values \cup {"nil", "dummy"}, dbs : Seq(Stores), err : BOOLEAN]

NoCall == [op |-> "none", step |-> "idle", rev |-> 0, val |-> "nil", dbs |-> <<>>, err |-> FALSE]

(* The types of the variables. *)
ChainTypeOK ==
    /\ PipingTypeOK
    /\ c \in [Threads -> Calls]
    /\ memDatabases \in [Names -> {<<>>} \cup Stores]
    /\ calls \in 0..env.maxCalls
    /\ DOMAIN puts \subseteq 1..env.maxCalls
    /\ deletes \in [DOMAIN deletes -> BOOLEAN] /\ DOMAIN deletes \subseteq DOMAIN puts

Init ==
    /\ env \in Deployments
    /\ PipingInit
    /\ c = [t \in Threads |-> NoCall]
    /\ memDatabases = [n \in Names |-> <<>>]
    /\ calls = 0
    /\ puts = <<>> /\ deletes = <<>>

-----------------------------------------------------------------------------
(* The handlers' calls *)

revision(r) == [main |-> r, sub |-> 0]

returned(r) == r \in DOMAIN puts /\ puts[r].done

Begin(t) ==
    /\ c[t].step = "idle" /\ calls < env.maxCalls
    /\ \E op \in Ops, r \in 1..(Len(puts) + 1), v \in Values \cup {"nil"} :
        /\ IF op = "Write" THEN r = Len(puts) + 1 /\ v # "nil" ELSE returned(r) /\ v = "nil"
        /\ op = "Delete" => r \notin DOMAIN deletes
        /\ c' = [c EXCEPT ![t] = [NoCall EXCEPT !.op = op, !.step = "open", !.rev = r, !.val = v]]
        /\ puts' = IF op = "Write" THEN Append(puts, [val |-> v, dbs |-> <<>>, done |-> FALSE])
                   ELSE puts
        /\ deletes' = IF op = "Delete" THEN (r :> FALSE) @@ deletes ELSE deletes
    /\ calls' = calls + 1
    /\ UNCHANGED <<env, pipingVars, memDatabases>>

-----------------------------------------------------------------------------
(* NewChain *)

opening(t) == c[t].step = "open" /\ ~newChainFails(env.nodes) /\ Len(c[t].dbs) < Len(env.nodes)

next(t) == env.nodes[Len(c[t].dbs) + 1]

built(t) == c[t].step = "open" /\ ~newChainFails(env.nodes) /\ Len(c[t].dbs) = Len(env.nodes)

(* NewMemDatabase looks the name up, or the store is one of Storages. *)
Lookup(t) ==
    /\ opening(t)
    /\ LET found == IF env.StoreType = "mem" THEN memDatabases[next(t)] ELSE <<next(t), "main">>
       IN  c' = [c EXCEPT ![t] = IF found = <<>> THEN [@ EXCEPT !.step = "insert"]
                                 ELSE [@ EXCEPT !.dbs = Append(@, found)]]
    /\ UNCHANGED <<env, pipingVars, memDatabases, calls, puts, deletes>>

(* NewMemDatabase registers the new store, over one that another thread    *)
(* has registered meanwhile.                                               *)
Insert(t) ==
    /\ c[t].step = "insert"
    /\ memDatabases' = [memDatabases EXCEPT ![next(t)] = <<next(t), t>>]
    /\ c' = [c EXCEPT ![t] = [@ EXCEPT !.step = "open", !.dbs = Append(@, <<next(t), t>>)]]
    /\ UNCHANGED <<env, pipingVars, calls, puts, deletes>>

Fail(t) ==
    /\ c[t].step = "open" /\ newChainFails(env.nodes)
    /\ c' = [c EXCEPT ![t] = NoCall]
    /\ UNCHANGED <<env, pipingVars, memDatabases, calls, puts, deletes>>

-----------------------------------------------------------------------------
Start(t) ==
    /\ built(t) /\ c[t].op \in {"Write", "Delete"}
    /\ IF c[t].op = "Write"
       THEN /\ Write(t, c[t].dbs, revision(c[t].rev), c[t].val)
            /\ puts' = [puts EXCEPT ![c[t].rev].dbs = c[t].dbs]
       ELSE Delete(t, c[t].dbs, revision(c[t].rev)) /\ UNCHANGED puts
    /\ c' = [c EXCEPT ![t].step = "run"]
    /\ UNCHANGED <<env, memDatabases, calls, deletes>>

(* A goroutine's next operation: it dials the store, and sends the command *)
(* if that worked.  Connections that leak are counted by Dial only.        *)
dialled(s, ok) ==
    \E d \in Dials(s \in env.faulty) :
        /\ ok => ~d.err /\ ~d.mute
        /\ d.err => db' = db

RunSync(t) ==
    /\ \E j \in wg[t], ok \in BOOLEAN : SyncJob(t, j, ok) /\ dialled(Head(j.stores), ok)
    /\ UNCHANGED <<env, c, memDatabases, calls, puts, deletes>>

RunAsync ==
    /\ \E j \in async, ok \in BOOLEAN : AsyncJob(j, ok) /\ dialled(Head(j.stores), ok)
    /\ UNCHANGED <<env, c, memDatabases, calls, puts, deletes>>

(* The error of a chain is dropped: Write and Delete return nil. *)
Return(t) ==
    /\ c[t].step = "run" /\ waited(t)
    /\ puts' = IF c[t].op = "Write" THEN [puts EXCEPT ![c[t].rev].done = TRUE] ELSE puts
    /\ deletes' = IF c[t].op = "Delete" THEN [deletes EXCEPT ![c[t].rev] = TRUE] ELSE deletes
    /\ c' = [c EXCEPT ![t] = NoCall]
    /\ UNCHANGED <<env, pipingVars, memDatabases, calls>>

Read(t) ==
    /\ built(t) /\ c[t].op \in {"Read", "ReadTail"}
    /\ \E s \in IF c[t].op = "Read" THEN readTargets(c[t].dbs) ELSE {Last(c[t].dbs)} :
       \E found \in gets(s, storeKey(revision(c[t].rev))) :
        /\ UNCHANGED db /\ dialled(s, ~found.err)
        /\ c' = [c EXCEPT ![t] = [@ EXCEPT !.step = "read", !.val = found.val, !.err = found.err]]
    /\ UNCHANGED <<env, async, wg, memDatabases, calls, puts, deletes>>

ReadDone(t) ==
    /\ c[t].step = "read"
    /\ c' = [c EXCEPT ![t] = NoCall]
    /\ UNCHANGED <<env, pipingVars, memDatabases, calls, puts, deletes>>

(* All calls have been made. *)
Rest ==
    /\ calls = env.maxCalls /\ async = {} /\ \A t \in Threads : c[t].step = "idle"
    /\ UNCHANGED chainVars

Step(t) == \/ Lookup(t) \/ Insert(t) \/ Fail(t)
           \/ Start(t) \/ RunSync(t) \/ Return(t) \/ Read(t) \/ ReadDone(t)

Next == (\E t \in Threads : Begin(t) \/ Step(t)) \/ RunAsync \/ Rest

Spec == Init /\ [][Next]_chainVars /\ WF_chainVars(RunAsync) /\ \A t \in Threads : WF_chainVars(Step(t))

-----------------------------------------------------------------------------
(* Properties *)

keeps == env.faulty = {} /\ env.StoreType # "dummy+latency"

has(s, r) == r \in DOMAIN db[s]

holders(r) == {i \in DOMAIN puts[r].dbs : has(puts[r].dbs[i], r)}

(* The stores of the write of r are those that a call opens from now on;   *)
(* two first calls that both miss a name make a store each, and the store  *)
(* of one of them is forgotten.                                            *)
registered(r) ==
    env.StoreType = "mem" => \A i \in DOMAIN puts[r].dbs :
        memDatabases[env.nodes[i]] = puts[r].dbs[i]

(* LINEARIZABLE: a read that begins after Write returned answers with the  *)
(* value written, from whichever stores its own NewChain found, unless a   *)
(* deletion has begun, a store fails or the writer's store was forgotten.  *)
AcknowledgedIsRead ==
    env.consistency = "LINEARIZABLE" /\ keeps =>
        \A t \in Threads : c[t].step = "read" /\ registered(c[t].rev) =>
            c[t].rev \in DOMAIN deletes \/ (~c[t].err /\ c[t].val = puts[c[t].rev].val)

(* A chain that is not written concurrently fills from its head: the       *)
(* stores that hold a value are a prefix of its chain, although an error   *)
(* of any store ends the write, SEQUENTIAL leaves it to a goroutine, and   *)
(* the error is dropped.                                                   *)
PrefixHolds ==
    ~env.Concurrent => \A r \in DOMAIN puts \ DOMAIN deletes :
        holders(r) = 1..Cardinality(holders(r))

(* LINEARIZABLE: once Delete has returned, no store of the chain holds the *)
(* value, and none gets it back.                                           *)
DeletedGone ==
    env.consistency = "LINEARIZABLE" /\ keeps => \A r \in DOMAIN deletes :
        deletes[r] /\ registered(r) => holders(r) = {}

(* Whatever is lost, a read that succeeds answers with the value written   *)
(* under its revision; redis may answer with a nil instead, when the value *)
(* is deleted, lost, or not there yet; the dummy store with its dummy.     *)
ReadsOwnValue ==
    \A t \in Threads : c[t].step = "read" /\ ~c[t].err =>
        \/ c[t].val = puts[c[t].rev].val
        \/ env.StoreType = "dummy+latency" /\ c[t].val = "dummy"
        \/ /\ env.StoreType = "redis" /\ c[t].val = "nil"
           /\ c[t].rev \in DOMAIN deletes \/ ~keeps \/ env.consistency = "SEQUENTIAL"

(* Dial gives up only when the first connection was refused and no later   *)
(* one worked, and leaks the connections it could not ping before that.    *)
DialRetries ==
    env.StoreType = "redis" => \A a \in Attempts :
        LET up    == {i \in DOMAIN a : a[i] = "up"}
            tried == {i \in 2..Len(a) : \A j \in 2..(i - 1) : a[j] # "up"}
        IN  /\ Dial(a).err <=> a[1] = "refused" /\ up = {}
            /\ Dial(a).leaked = IF a[1] = "refused"
                                THEN Cardinality({i \in tried : a[i] = "mute"}) ELSE 0

(* Every store of the chain gets the value in the end, SEQUENTIAL ones in  *)
(* the background, unless a deletion begins.                               *)
ReplicasConverge ==
    \A r \in 1..Max({e.maxCalls : e \in Deployments}) :
        r \in DOMAIN puts /\ keeps /\ ~newChainFails(env.nodes) ~>
            r \in DOMAIN puts /\ (r \in DOMAIN deletes \/ holders(r) = DOMAIN env.nodes)

=============================================================================
