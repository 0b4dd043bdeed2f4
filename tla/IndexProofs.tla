----------------------------- MODULE IndexProofs -----------------------------
(***************************************************************************)
(* The theorems about the index (module IndexClients) for any number of    *)
(* threads, keys and revisions: its types, and the invariants that get and *)
(* put rely on, from what single calls of put and tombstone preserve       *)
(* (KeyHistoryProofs) and from the types (TreeIndexProofs).                *)
(***************************************************************************)
EXTENDS TreeIndexProofs, KeyHistoryProofs

-----------------------------------------------------------------------------
(* Steps, by what they do to the tree *)

(* The steps of thread t that leave the tree alone. *)
Quiet(t) ==
    \/ Request(t) \/ Add(t) \/ Load(t) \/ PutAdd(t) \/ Get(t) \/ GetAt(t) \/ RangeSince(t)
    \/ Update(t) \/ UpdateGeneration(t) \/ UpdateCompare(t) \/ UpdateLoad(t)
    \/ UpdateModified(t) \/ Return(t) \/ (Tombstone(t) /\ startsGeneration(item(t)))

(* The steps by which Update changes the tree. *)
UpdateWrites(t) == UpdateCreated(t) \/ UpdateStore(t) \/ UpdateAdvance(t)

(* Thread t's put or tombstone gives its key the index ki. *)
PutWrites(t, ki) ==
    /\ setItem(t, ki) /\ succeed(t) /\ UNCHANGED <<global_increasing_revision, req>>
    /\ \/ /\ calls(t, "put") \/ pc[t] = "put"
          /\ \E c \in Nat : ki = put(item(t), req[t].rev, c)
       \/ /\ calls(t, "tombstone") /\ ~startsGeneration(item(t))
          /\ ki = tombstone(item(t), req[t].rev)

(* Every step is one of these. *)
LEMMA Steps ==
    ASSUME CoreInv, Next
    PROVE  \E t \in Threads : Quiet(t) \/ UpdateWrites(t) \/ \E ki : PutWrites(t, ki)
<1>1. PICK t \in Threads : Request(t) \/ CounterStep(t) \/ IndexStep(t) \/ Return(t)
  BY DEF Next
<1>2. counter \in Nat
  BY DEF CoreInv, StateTypeOK, counter
<1>3. CASE Put(t)
  <2>1. PutWrites(t, put(item(t), req[t].rev, 0))
    BY <1>3 DEF Put, PutWrites
  <2>. QED  BY <2>1
<1>4. CASE PutCreate(t)
  <2>1. PutWrites(t, put(item(t), req[t].rev, counter))
    BY <1>2, <1>4 DEF PutCreate, PutWrites
  <2>. QED  BY <2>1
<1>5. CASE Tombstone(t) /\ ~startsGeneration(item(t))
  <2>1. PutWrites(t, tombstone(item(t), req[t].rev))
    BY <1>5 DEF Tombstone, PutWrites
  <2>. QED  BY <2>1
<1>. QED  BY <1>1, <1>3, <1>4, <1>5 DEF CounterStep, IndexStep, Quiet, UpdateWrites

(* The quiet steps are quiet. *)
LEMMA QuietTree == ASSUME NEW t \in Threads, Quiet(t) PROVE tree' = tree
<1>1. CASE Request(t) \/ Add(t) \/ Load(t) \/ PutAdd(t) \/ Return(t)
  BY <1>1 DEF Request, Add, Load, PutAdd, Return
<1>2. CASE Get(t) \/ GetAt(t) \/ RangeSince(t) \/ Update(t)
  BY <1>2 DEF Get, GetAt, RangeSince, Update
<1>3. CASE UpdateGeneration(t) \/ UpdateCompare(t) \/ UpdateLoad(t) \/ UpdateModified(t)
  BY <1>3 DEF UpdateGeneration, UpdateCompare, UpdateLoad, UpdateModified
<1>4. CASE Tombstone(t) /\ startsGeneration(item(t))
  BY <1>4 DEF Tombstone
<1>. QED  BY <1>1, <1>2, <1>3, <1>4 DEF Quiet

(* The types of what a step works on. *)
LEMMA StepTypes ==
    ASSUME CoreInv, NEW t \in Threads
    PROVE  /\ req[t].key \in Keys /\ req[t].rev \in Revision /\ item(t) \in KeyIndexes
           /\ loc[t].newer \in BOOLEAN /\ loc[t].revs \in Seq(Revision) /\ loc[t].ver \in Nat
           /\ tree \in [Keys -> KeyIndexes] /\ counter \in Nat
  BY DEF CoreInv, StateTypeOK, Requests, item, Locals, counter

-----------------------------------------------------------------------------
(* No generation but the last is empty, whatever the threads call *)

FilledInv == CoreInv /\ \A k \in Keys : Filled(tree[k])

(* The writes of Update leave the live generation filled: the created      *)
(* revision and the version do not count, and insertRev returns something. *)
LEMMA UpdateFilled ==
    ASSUME FilledInv, NEW t \in Threads, UpdateWrites(t)
    PROVE  \A k \in Keys : Filled(tree'[k])
<1>0. /\ CoreInv /\ InCall(t) /\ Filled(item(t)) /\ InTree(item(t))
      /\ Live(item(t)) \in Generation
  <2>1. CoreInv /\ InCall(t) /\ Filled(item(t))
    BY StepTypes DEF FilledInv, CoreInv, item
  <2>2. InTree(item(t))
    BY <2>1 DEF InCall, UpdateWrites, UpdateCreated, UpdateStore, UpdateAdvance, UpdateSteps
  <2>. QED  BY <2>1, <2>2, StepTypes, LiveType
<1>1. ASSUME NEW g \in Generation, NEW ki, setItem(t, ki),
             ki.generations = setLive(item(t), g).generations,
             g.revs # <<>> \/ g.revs = Live(item(t)).revs
      PROVE  \A k \in Keys : Filled(tree'[k])
  <2>. DEFINE n == Len(item(t).generations)
  <2>1. /\ Len(ki.generations) = n /\ n \in Nat \ {0}
        /\ ki.generations[n] = g
        /\ \A i \in 1..(n - 1) : ki.generations[i] = item(t).generations[i]
    BY <1>0, <1>1, StepTypes, SetLive, LiveType DEF Live
  <2>2. Filled(ki)
    BY <1>0, <1>1, <2>1 DEF Filled, isEmpty, Live
  <2>. QED  BY <1>1, <2>2, StepTypes DEF setItem, FilledInv
<1>2. CASE UpdateCreated(t)
  <2>. DEFINE g == [Live(item(t)) EXCEPT !.created = NewRevision(counter, 0, <<>>)]
  <2>1. g \in Generation /\ g.revs = Live(item(t)).revs
    BY <1>0, StepTypes, ZeroTypes DEF Generation
  <2>2. setItem(t, setLive(item(t), g))
    BY <1>2 DEF UpdateCreated, setCreated
  <2>. HIDE DEF g
  <2>. QED  BY <1>1, <2>1, <2>2
<1>3. CASE UpdateStore(t)
  <2>. DEFINE revs == insertRev(loc[t].revs, req[t].rev, loc[t].newer)
              g    == [Live(item(t)) EXCEPT !.revs = revs]
  <2>1. revs \in Seq(Revision) /\ \E p \in 0..Len(loc[t].revs) : Inserted(revs, loc[t].revs, req[t].rev, p)
    BY <1>0, StepTypes, InsertRev
  <2>2. setItem(t, setLive(item(t), g))
    BY <1>3 DEF UpdateStore
  <2>. HIDE DEF revs
  <2>3. revs # <<>>
    BY <1>0, <2>1, StepTypes DEF Inserted
  <2>4. g \in Generation /\ g.revs = revs
    BY <1>0, <2>1 DEF Generation
  <2>. HIDE DEF g
  <2>. QED  BY <1>1, <2>2, <2>3, <2>4
<1>4. CASE UpdateAdvance(t)
  <2>. DEFINE g   == [Live(item(t)) EXCEPT !.ver = loc[t].ver + 1]
              new == setLive(item(t), g)
              ki  == [new EXCEPT !.modified = req[t].rev]
  <2>1. g \in Generation /\ g.revs = Live(item(t)).revs
    BY <1>0, StepTypes DEF Generation
  <2>2. setItem(t, ki)
    BY <1>4 DEF UpdateAdvance
  <2>. HIDE DEF g
  <2>3. new \in KeyIndexes
    BY <1>0, <2>1, StepTypes, SetLive
  <2>4. ki.generations = new.generations
    <3>. HIDE DEF new
    <3>. QED  BY <2>3 DEF KeyIndexes
  <2>. HIDE DEF ki
  <2>. QED  BY <1>1, <2>1, <2>2, <2>4
<1>. QED  BY <1>2, <1>3, <1>4 DEF UpdateWrites

(* Every step leaves the generations filled. *)
LEMMA FilledNext == FilledInv /\ [Next]_indexVars => FilledInv'
<1>. SUFFICES ASSUME FilledInv, [Next]_indexVars PROVE \A k \in Keys : Filled(tree'[k])
  BY NextCore DEF FilledInv
<1>0. CoreInv /\ tree \in [Keys -> KeyIndexes]
  BY DEF FilledInv, CoreInv, StateTypeOK
<1>1. CASE UNCHANGED indexVars
  BY <1>1 DEF indexVars, FilledInv
<1>2. CASE Next
  <2>1. PICK t \in Threads : Quiet(t) \/ UpdateWrites(t) \/ \E ki : PutWrites(t, ki)
    BY <1>0, <1>2, Steps
  <2>2. ASSUME NEW ki, PutWrites(t, ki) PROVE \A k \in Keys : Filled(tree'[k])
    <3>1. Filled(item(t))
      BY <1>0, StepTypes DEF FilledInv, item
    <3>2. Filled(ki)
      BY <1>0, <2>2, <3>1, StepTypes, PutFilled, TombstoneFilled DEF PutWrites
    <3>. QED  BY <1>0, <2>2, <3>2, StepTypes DEF PutWrites, setItem, FilledInv
  <2>. QED  BY <2>1, <2>2, QuietTree, UpdateFilled DEF FilledInv
<1>. QED  BY <1>1, <1>2

(* However the threads interleave put, update, tombstone and the reads, no *)
(* keyIndex is without revisions and only a last generation is empty: the  *)
(* panics of tombstone, get and since are unreachable.                     *)
THEOREM NeverEmptyHolds == Spec => []NeverEmpty
<1>1. Init => FilledInv
  <2>. SUFFICES ASSUME Init PROVE FilledInv
    OBVIOUS
  <2>1. \A k \in Keys : ~InTree(tree[k])
    BY DEF Init, IndexInit, InTree, NewKeyIndex
  <2>. QED  BY <2>1, InitCore DEF FilledInv, Filled
<1>2. FilledInv => NeverEmpty
  BY DEF FilledInv, Filled, NeverEmpty
<1>. QED  BY <1>1, <1>2, FilledNext, PTL DEF Spec

-----------------------------------------------------------------------------
(* The type of what the methods return, since apart *)

TypeInv ==
    /\ CoreInv
    /\ ret \in [Threads -> Results]
    /\ \A t \in Threads : req[t].op # "since"

(* Every step but RangeSince returns results of their type. *)
LEMMA TypeNext ==
    ASSUME "since" \notin Ops, TypeInv, [Next]_indexVars
    PROVE  TypeInv'
<1>0. CoreInv /\ ret \in [Threads -> Results] /\ req \in [Threads -> Requests]
      /\ NoResult \in Results /\ failed \in Results
  <2>1. NoResult \in Results
    BY ZeroStates DEF NoResult, Results
  <2>2. failed \in Results
    BY <2>1 DEF failed, Results
  <2>. QED  BY <2>1, <2>2 DEF TypeInv, CoreInv, StateTypeOK
<1>1. CASE UNCHANGED indexVars
  BY <1>1, NextCore DEF indexVars, TypeInv
<1>2. CASE Next
  <2>1. PICK t \in Threads : Request(t) \/ CounterStep(t) \/ IndexStep(t) \/ Return(t)
    BY <1>2 DEF Next
  <2>2. \A u \in Threads : req'[u].op # "since"
    <3>1. CASE Request(t)
      <4>1. PICK op \in Ops : \E r : r.op = op /\ req' = [req EXCEPT ![t] = r]
        BY <3>1 DEF Request
      <4>. QED  BY <1>0, <4>1 DEF TypeInv
    <3>2. CASE Load(t)
      BY <1>0, <3>2 DEF Load, TypeInv, Requests
    <3>3. CASE Return(t)
      BY <1>0, <3>3 DEF Return, TypeInv, NoRequest
    <3>4. CASE ~Request(t) /\ ~Load(t) /\ ~Return(t)
      <4>1. req' = req
        BY <2>1, <3>4 DEF CounterStep, IndexStep, Add, Put, PutAdd, PutCreate, Tombstone, Get,
             GetAt, RangeSince, Update, UpdateGeneration, UpdateCreated, UpdateCompare,
             UpdateLoad, UpdateStore, UpdateModified, UpdateAdvance
      <4>. QED  BY <4>1 DEF TypeInv
    <3>. QED  BY <3>1, <3>2, <3>3, <3>4
  <2>3. ret' \in [Threads -> Results]
    <3>1. CASE GetAt(t)
      <4>. DEFINE found  == get(item(t), loc[t].atRev)
                  result == [NoResult EXCEPT !.err = found.err, !.rev = found.rev]
      <4>1. found.err \in BOOLEAN /\ found.rev \in Revision
        BY <1>0, StepTypes, GetType DEF CoreInv, StateTypeOK, Locals
      <4>2. ret' = [ret EXCEPT ![t] = result]
        BY <3>1 DEF GetAt, return
      <4>. HIDE DEF found
      <4>3. result \in Results
        BY <1>0, <4>1 DEF Results
      <4>. HIDE DEF result
      <4>. QED  BY <1>0, <4>2, <4>3
    <3>2. CASE RangeSince(t)
      BY <3>2 DEF RangeSince, calls, TypeInv
    <3>3. CASE ~GetAt(t) /\ ~RangeSince(t)
      <4>1. ret' = ret \/ \E r \in {NoResult, failed} : ret' = [ret EXCEPT ![t] = r]
        BY <2>1, <3>3 DEF CounterStep, IndexStep, Add, Put, PutAdd, PutCreate, Tombstone, Get,
             Update, UpdateGeneration, UpdateCreated, UpdateCompare, UpdateLoad, UpdateStore,
             UpdateModified, UpdateAdvance, Request, Load, Return, return, succeed
      <4>. QED  BY <1>0, <4>1
    <3>. QED  BY <3>1, <3>2, <3>3
  <2>. QED  BY <2>2, <2>3, <1>0, <1>2, NextCore DEF TypeInv
<1>. QED  BY <1>1, <1>2

(* The variables of the index keep their types under every interleaving.   *)
(* What since computes is a fold, and left out by leaving out its callers. *)
THEOREM TypeCorrect ==
    ASSUME "since" \notin Ops
    PROVE  Spec => []IndexTypeOK
<1>1. Init => TypeInv
  <2>. SUFFICES ASSUME Init PROVE TypeInv
    OBVIOUS
  <2>1. ret \in [Threads -> Results] /\ \A t \in Threads : req[t].op # "since"
    BY ZeroStates DEF Init, IndexInit, NoResult, Results, NoRequest
  <2>. QED  BY <2>1, InitCore DEF TypeInv
<1>2. TypeInv => IndexTypeOK
  BY DEF TypeInv, CoreInv, StateTypeOK, IndexTypeOK
<1>3. TypeInv /\ [Next]_indexVars => TypeInv'
  BY TypeNext
<1>. QED  BY <1>1, <1>2, <1>3, PTL DEF Spec

-----------------------------------------------------------------------------
(* The history of the keys, when changes come from put and tombstone only *)

(* A change carries a revision of the counter, and a put carries nodes.    *)
GoodRequest(t) ==
    /\ req[t].op # "update"
    /\ req[t].op = "put" => ~IsTombstone(req[t].rev)
    /\ pc[t] = "load" => counter # 0
    /\ (pc[t] \in {"ready", "put"} /\ req[t].op \in {"put", "tombstone"}) => req[t].rev.main # 0

Good(ki) == Filled(ki) /\ Ordered(ki) /\ Alive(ki)

HistoryInv ==
    /\ CoreInv
    /\ \A t \in Threads : GoodRequest(t)
    /\ \A k \in Keys : Good(tree[k])
    /\ \A c \in applied : Holds(tree[c.key], c.rev)

(* What a put or a tombstone leaves in the tree. *)
LEMMA PutGood ==
    ASSUME HistoryInv, NEW t \in Threads, NEW ki, PutWrites(t, ki)
    PROVE  /\ ki \in KeyIndexes /\ Good(ki)
           /\ \A r : Holds(ki, r) <=> Holds(item(t), r) \/ r = req[t].rev
<1>1. CoreInv /\ GoodRequest(t) /\ Good(item(t))
  BY StepTypes DEF HistoryInv, item
<1>2. req[t].rev.main # 0
  BY <1>1 DEF PutWrites, calls, GoodRequest, CoreInv, InCall
<1>3. ASSUME NEW c \in Nat, ki = put(item(t), req[t].rev, c), calls(t, "put") \/ pc[t] = "put"
      PROVE  /\ ki \in KeyIndexes /\ Good(ki)
             /\ \A r : Holds(ki, r) <=> Holds(item(t), r) \/ r = req[t].rev
  <2>1. ~IsTombstone(req[t].rev)
    BY <1>1, <1>3 DEF calls, GoodRequest, CoreInv, InCall
  <2>2. ki \in KeyIndexes
    BY <1>1, <1>3, StepTypes, PutResult DEF SameButLive
  <2>3. Filled(ki) /\ Ordered(ki)
    BY <1>1, <1>2, <1>3, StepTypes, PutFilled, PutOrdered DEF Good
  <2>4. Alive(ki)
    BY <1>1, <1>3, <2>1, StepTypes, StaysAlive DEF Good
  <2>5. \A r : Holds(ki, r) <=> Holds(item(t), r) \/ r = req[t].rev
    BY <1>1, <1>3, StepTypes, PutHolds
  <2>. QED  BY <2>2, <2>3, <2>4, <2>5 DEF Good
<1>4. ASSUME ki = tombstone(item(t), req[t].rev)
      PROVE  /\ ki \in KeyIndexes /\ Good(ki)
             /\ \A r : Holds(ki, r) <=> Holds(item(t), r) \/ r = req[t].rev
  <2>1. ki \in KeyIndexes
    BY <1>1, <1>4, StepTypes, TombstoneResult
  <2>2. Filled(ki) /\ Ordered(ki)
    BY <1>1, <1>2, <1>4, StepTypes, TombstoneFilled, TombstoneOrdered DEF Good
  <2>3. 0 \in Nat
    OBVIOUS
  <2>4. Alive(ki)
    BY <1>1, <1>4, <2>3, StepTypes, StaysAlive DEF Good
  <2>5. \A r : Holds(ki, r) <=> Holds(item(t), r) \/ r = req[t].rev
    BY <1>1, <1>4, StepTypes, TombstoneHolds
  <2>. QED  BY <2>1, <2>2, <2>4, <2>5 DEF Good
<1>. QED  BY <1>3, <1>4 DEF PutWrites

(* The requests stay good: a thread loads the counter after its own add. *)
LEMMA RequestsStayGood ==
    ASSUME "update" \notin Ops, HistoryInv, NEW t \in Threads,
           Request(t) \/ CounterStep(t) \/ IndexStep(t) \/ Return(t)
    PROVE  \A u \in Threads : GoodRequest(u)'
<1>0. /\ StateTypeOK /\ counter \in Nat /\ GoodRequest(t) /\ InCall(t)
      /\ req[t] \in Requests /\ req[t].rev \in Revision
  BY StepTypes DEF HistoryInv, CoreInv, StateTypeOK
<1>1. counter' = counter \/ counter' = counter + 1
  BY DEF Request, CounterStep, IndexStep, Return, Add, Load, Put, PutAdd, PutCreate, Tombstone,
       Get, GetAt, RangeSince, Update, UpdateGeneration, UpdateCreated, UpdateCompare, UpdateLoad,
       UpdateStore, UpdateModified, UpdateAdvance, counter
<1>2. ASSUME NEW u \in Threads \ {t} PROVE GoodRequest(u)'
  <2>1. pc'[u] = pc[u] /\ req'[u] = req[u]
    BY <1>0 DEF Request, CounterStep, IndexStep, Return, Add, Load, Put, PutAdd, PutCreate, Tombstone,
       Get, GetAt, RangeSince, Update, UpdateGeneration, UpdateCreated, UpdateCompare, UpdateLoad,
       UpdateStore, UpdateModified, UpdateAdvance, return, succeed, goto, StateTypeOK
  <2>2. GoodRequest(u)
    BY DEF HistoryInv
  <2>3. counter # 0 => counter' # 0
    BY <1>0, <1>1
  <2>. QED  BY <2>1, <2>2, <2>3 DEF GoodRequest
<1>3. GoodRequest(t)'
  <2>1. CASE Request(t)
    <3>1. PICK op \in Ops, s \in {"add", "ready"}, nodes \in NodeLists \cup {<<>>} :
              /\ pc'[t] = s /\ req'[t].op = op /\ req'[t].rev = NewRevision(0, 0, nodes)
              /\ s = "ready" => op \in {"get", "since"}
              /\ op = "put" => nodes \in NodeLists
      <4>1. PICK op \in Ops, k \in Keys :
              \/ /\ op \in {"put", "update", "tombstone"}
                 /\ \E nodes \in (IF op = "tombstone" THEN {<<>>} ELSE NodeLists),
                       assumed \in (IF op = "update" THEN 1..MaxRev ELSE {0}) :
                      req' = [req EXCEPT ![t] = [op |-> op, key |-> k, arg |-> assumed,
                                                 rev |-> NewRevision(0, 0, nodes)]]
                 /\ goto(t, "add")
              \/ /\ op \in {"get", "since"}
                 /\ \E from \in (IF op = "since" THEN 0..MaxRev ELSE {0}) :
                      req' = [req EXCEPT ![t] = [op |-> op, key |-> k, arg |-> from, rev |-> NoRev]]
                 /\ goto(t, "ready")
        BY <2>1 DEF Request
      <4>2. CASE op \in {"put", "update", "tombstone"}
        <5>1. PICK nodes \in (IF op = "tombstone" THEN {<<>>} ELSE NodeLists),
                   assumed \in (IF op = "update" THEN 1..MaxRev ELSE {0}) :
                req' = [req EXCEPT ![t] = [op |-> op, key |-> k, arg |-> assumed,
                                           rev |-> NewRevision(0, 0, nodes)]]
          BY <4>1, <4>2
        <5>2. goto(t, "add") /\ nodes \in NodeLists \cup {<<>>} /\ (op = "put" => nodes \in NodeLists)
          BY <4>1, <4>2
        <5>. DEFINE q == [op |-> op, key |-> k, arg |-> assumed, rev |-> NewRevision(0, 0, nodes)]
        <5>3. /\ pc'[t] = "add" /\ req'[t] = q
              /\ q.op = op /\ q.rev = NewRevision(0, 0, nodes)
          BY <1>0, <5>1, <5>2 DEF goto, StateTypeOK
        <5>. HIDE DEF q
        <5>. QED  BY <5>2, <5>3
      <4>3. CASE op \in {"get", "since"}
        <5>1. PICK from : req' = [req EXCEPT ![t] = [op |-> op, key |-> k, arg |-> from, rev |-> NoRev]]
          BY <4>1, <4>3
        <5>2. goto(t, "ready")
          BY <4>1, <4>3
        <5>. DEFINE q == [op |-> op, key |-> k, arg |-> from, rev |-> NoRev]
        <5>3. /\ pc'[t] = "ready" /\ req'[t] = q
              /\ q.op = op /\ q.rev = NewRevision(0, 0, <<>>) /\ op # "put"
          BY <1>0, <4>3, <5>1, <5>2 DEF goto, NoRev, StateTypeOK
        <5>. HIDE DEF q
        <5>. QED  BY <4>3, <5>3
      <4>. QED  BY <4>1, <4>2, <4>3
    <3>2. op # "update" /\ (op = "put" => nodes # <<>>)
      BY <3>1, NodeListsAssumption
    <3>3. pc'[t] = s /\ req'[t].op = op /\ req'[t].rev.nodes = nodes
      BY <1>0, <3>1 DEF StateTypeOK, NewRevision
    <3>. QED  BY <3>1, <3>2, <3>3 DEF GoodRequest, IsTombstone
  <2>2. CASE Add(t)
    <3>1. pc'[t] = "load" /\ req' = req /\ counter' = counter + 1
      BY <1>0, <2>2 DEF Add, goto, StateTypeOK, counter
    <3>2. counter' # 0
      <4>1. counter \in Nat
        BY <1>0
      <4>2. counter + 1 # 0
        BY <4>1
      <4>. QED  BY <3>1, <4>2
    <3>. QED  BY <1>0, <3>1, <3>2 DEF GoodRequest
  <2>3. CASE Load(t)
    <3>1. pc'[t] = "ready" /\ req'[t].op = req[t].op /\ req'[t].rev = [req[t].rev EXCEPT !.main = counter]
      BY <1>0, <2>3 DEF Load, goto, StateTypeOK, Requests
    <3>2. req'[t].rev.main = counter /\ req'[t].rev.nodes = req[t].rev.nodes /\ counter # 0
      BY <1>0, <2>3, <3>1 DEF Load, GoodRequest, Revision
    <3>. QED  BY <1>0, <3>1, <3>2 DEF GoodRequest, IsTombstone
  <2>4. CASE Return(t)
    BY <1>0, <2>4 DEF Return, goto, GoodRequest, NoRequest, StateTypeOK
  <2>5. CASE IndexStep(t)
    <3>1. req' = req
      BY <2>5 DEF IndexStep, Put, PutAdd, PutCreate, Tombstone, Get,
             GetAt, RangeSince, Update, UpdateGeneration, UpdateCreated, UpdateCompare,
             UpdateLoad, UpdateStore, UpdateModified, UpdateAdvance
    <3>2. pc'[t] \in {"get", "done"} \cup UpdateSteps \/ (pc[t] = "ready" /\ pc'[t] = "put")
      BY <1>0, <2>5 DEF IndexStep, Put, PutAdd, PutCreate, Tombstone, Get,
             GetAt, RangeSince, Update, UpdateGeneration, UpdateCreated, UpdateCompare,
             UpdateLoad, UpdateStore, UpdateModified, UpdateAdvance, calls, succeed, return, goto,
             StateTypeOK, UpdateSteps
    <3>. QED  BY <1>0, <3>1, <3>2 DEF GoodRequest, UpdateSteps
  <2>. QED  BY <2>1, <2>2, <2>3, <2>4, <2>5 DEF CounterStep
<1>. QED  BY <1>2, <1>3

(* Every step keeps the history of every key. *)
LEMMA HistoryNext ==
    ASSUME "update" \notin Ops, HistoryInv, [Next]_indexVars
    PROVE  HistoryInv'
<1>0. CoreInv /\ CoreInv' /\ tree \in [Keys -> KeyIndexes] /\ applied \in SUBSET Changes
  BY NextCore DEF HistoryInv, CoreInv, StateTypeOK
<1>1. CASE UNCHANGED indexVars
  BY <1>0, <1>1 DEF indexVars, HistoryInv, GoodRequest, counter
<1>2. CASE Next
  <2>1. \A u \in Threads : GoodRequest(u)'
    BY <1>2, RequestsStayGood DEF Next
  <2>2. PICK t \in Threads : Quiet(t) \/ UpdateWrites(t) \/ \E ki : PutWrites(t, ki)
    BY <1>0, <1>2, Steps
  <2>3. ASSUME pc[t] \in UpdateSteps PROVE FALSE
    BY <1>0, <2>3 DEF HistoryInv, GoodRequest, CoreInv, InCall
  <2>4. CASE Quiet(t)
    <3>1. tree' = tree
      BY <2>4, QuietTree
    <3>2. applied' = applied
      BY <2>3, <2>4 DEF Quiet, Request, Add, Load, PutAdd, Return, Get, GetAt, RangeSince, Update,
           UpdateGeneration, UpdateCompare, UpdateLoad, UpdateModified, Tombstone, return, UpdateSteps
    <3>. QED  BY <1>0, <2>1, <3>1, <3>2 DEF HistoryInv
  <2>5. CASE UpdateWrites(t)
    BY <2>3, <2>5 DEF UpdateWrites, UpdateCreated, UpdateStore, UpdateAdvance, UpdateSteps
  <2>6. ASSUME NEW ki, PutWrites(t, ki) PROVE HistoryInv'
    <3>1. /\ ki \in KeyIndexes /\ Good(ki)
          /\ \A r : Holds(ki, r) <=> Holds(item(t), r) \/ r = req[t].rev
      BY <2>6, PutGood
    <3>2. tree' = [tree EXCEPT ![req[t].key] = ki] /\ applied' = applied \cup {req[t]}
      BY <2>6 DEF PutWrites, setItem, succeed
    <3>3. req[t].key \in Keys /\ item(t) = tree[req[t].key]
      BY <1>0, StepTypes DEF item
    <3>4. \A k \in Keys : Good(tree'[k])
      BY <1>0, <3>1, <3>2, <3>3 DEF HistoryInv
    <3>5. \A c \in applied' : Holds(tree'[c.key], c.rev)
      <4>1. TAKE c \in applied'
      <4>2. CASE c.key # req[t].key /\ c \in applied
        BY <1>0, <3>2, <4>2 DEF HistoryInv, Changes
      <4>3. CASE c.key = req[t].key
        <5>1. tree'[c.key] = ki
          BY <1>0, <3>2, <3>3, <4>3
        <5>2. c \in applied => Holds(item(t), c.rev)
          BY <3>3, <4>3 DEF HistoryInv
        <5>. QED  BY <3>1, <3>2, <5>1, <5>2
      <4>. QED  BY <3>2, <4>2, <4>3
    <3>. QED  BY <1>0, <2>1, <3>4, <3>5 DEF HistoryInv
  <2>. QED  BY <2>2, <2>4, <2>5, <2>6
<1>. QED  BY <1>1, <1>2

(* The history of no key is good. *)
LEMMA InitHistory == Init => HistoryInv
<1>. SUFFICES ASSUME Init PROVE HistoryInv
  OBVIOUS
<1>1. Good(NewKeyIndex)
  <2>1. NewKeyIndex.generations = <<>> /\ NewKeyIndex.modified = NewRevision(0, 0, <<>>)
    BY DEF NewKeyIndex
  <2>2. ~InTree(NewKeyIndex) /\ Len(NewKeyIndex.generations) = 0
    BY <2>1 DEF InTree
  <2>3. \A r : ~Holds(NewKeyIndex, r)
    BY <2>2 DEF Holds, At
  <2>4. Ordered(NewKeyIndex)
    BY <2>1, <2>2, <2>3 DEF Ordered, NewRevision
  <2>. QED  BY <2>2, <2>4 DEF Good, Filled, Alive, liveRevs
<1>2. \A t \in Threads : GoodRequest(t)
  BY DEF Init, IndexInit, GoodRequest, NoRequest
<1>. QED  BY <1>1, <1>2, InitCore DEF HistoryInv, Init, IndexInit

(* Without Update the history of every key is good in every state. *)
THEOREM HistoryCorrect ==
    ASSUME "update" \notin Ops
    PROVE  Spec => []HistoryInv
<1>1. HistoryInv /\ [Next]_indexVars => HistoryInv'
  BY HistoryNext
<1>. QED  BY <1>1, InitHistory, PTL DEF Spec

-----------------------------------------------------------------------------
(* What the history gives the readers *)

(* Revs is the set of the revisions a keyIndex holds. *)
LEMMA RevsHolds ==
    ASSUME NEW ki \in KeyIndexes, NEW r
    PROVE  r \in Revs(ki) <=> Holds(ki, r)
<1>1. \A i \in 1..Len(ki.generations) :
          DOMAIN ki.generations[i].revs = 1..Len(ki.generations[i].revs)
  BY GenerationType
<1>2. r \in Revs(ki) <=> \E i \in 1..Len(ki.generations) : \E j \in 1..Len(ki.generations[i].revs) :
                            ki.generations[i].revs[j] = r
  BY <1>1 DEF Revs, ToSet
<1>3. ASSUME NEW i \in 1..Len(ki.generations), NEW j \in 1..Len(ki.generations[i].revs),
             ki.generations[i].revs[j] = r
      PROVE  Holds(ki, r)
  <2>1. At(ki, i, j, r) /\ i \in Nat /\ j \in Nat
    BY <1>3 DEF At
  <2>. QED  BY <2>1 DEF Holds
<1>4. Holds(ki, r) => \E i \in 1..Len(ki.generations) : \E j \in 1..Len(ki.generations[i].revs) :
                            ki.generations[i].revs[j] = r
  BY DEF Holds, At
<1>. QED  BY <1>2, <1>3, <1>4

(* put keeps the revisions of every generation sorted, in whatever order   *)
(* the threads bring revisions to the index.                               *)
THEOREM SortedCorrect ==
    ASSUME "update" \notin Ops
    PROVE  Spec => []GenerationsSorted
<1>1. HistoryInv => GenerationsSorted
  BY DEF HistoryInv, Good, Ordered, InOrder, GenerationsSorted, IsSorted
<1>. QED  BY <1>1, HistoryCorrect, PTL

(* modified is the newest revision of its key. *)
THEOREM ModifiedCorrect ==
    ASSUME "update" \notin Ops
    PROVE  Spec => []ModifiedIsNewest
<1>1. HistoryInv => ModifiedIsNewest
  <2>. SUFFICES ASSUME HistoryInv, NEW k \in Keys, InTree(tree[k])
                PROVE  /\ tree[k].modified \in Revs(tree[k])
                       /\ \A r \in Revs(tree[k]) : ~GreaterThan(r, tree[k].modified)
    BY DEF ModifiedIsNewest
  <2>. DEFINE ki == tree[k]
  <2>1. ki \in KeyIndexes /\ Ordered(ki)
    BY DEF HistoryInv, Good, CoreInv, StateTypeOK
  <2>. HIDE DEF ki
  <2>2. \A r : r \in Revs(ki) <=> Holds(ki, r)
    BY <2>1, RevsHolds
  <2>3. \A r : Holds(ki, r) => r \in Revision
    BY <2>1, GenerationType DEF Holds, At
  <2>4. InTree(ki)
    BY DEF ki
  <2>. QED  BY <2>1, <2>2, <2>3, <2>4 DEF Ordered, ki
<1>. QED  BY <1>1, HistoryCorrect, PTL

(* Get(key, 0) finds the newest revision of the live generation, and never *)
(* a tombstone.                                                            *)
THEOREM GetCorrect ==
    ASSUME "update" \notin Ops
    PROVE  Spec => []GetFindsNewest
<1>1. HistoryInv => GetFindsNewest
  <2>. SUFFICES ASSUME HistoryInv, NEW k \in Keys, InTree(tree[k])
                PROVE  LET found == get(tree[k], tree[k].modified.main)
                           revs  == Live(tree[k]).revs
                       IN  IF revs = <<>> THEN found.err
                           ELSE ~found.err /\ found.rev = Last(revs) /\ ~IsTombstone(found.rev)
    BY DEF GetFindsNewest
  <2>. DEFINE ki   == tree[k]
              revs == Live(ki).revs
  <2>1. ki \in KeyIndexes /\ Good(ki) /\ InTree(ki)
    BY DEF HistoryInv, CoreInv, StateTypeOK
  <2>. HIDE DEF ki
  <2>2. LET found == get(ki, ki.modified.main)
        IN  IF revs = <<>> THEN found.err ELSE ~found.err /\ found.rev = revs[Len(revs)]
    BY <2>1, GetNewest DEF Good
  <2>3. revs # <<>> => ~IsTombstone(revs[Len(revs)])
    <3>1. revs \in Seq(Revision) /\ revs = liveRevs(ki)
      BY <2>1, LiveType DEF liveRevs
    <3>2. revs # <<>> => Len(revs) \in 1..Len(revs)
      BY <3>1
    <3>. QED  BY <2>1, <3>1, <3>2 DEF Good, Alive
  <2>. QED  BY <2>2, <2>3 DEF Last, ki
<1>. QED  BY <1>1, HistoryCorrect, PTL

(* A change that the index acknowledged stays in it. *)
THEOREM AppliedCorrect ==
    ASSUME "update" \notin Ops
    PROVE  Spec => []AppliedKept
<1>1. HistoryInv => AppliedKept
  <2>. SUFFICES ASSUME HistoryInv, NEW c \in applied PROVE c.rev \in Revs(tree[c.key])
    BY DEF AppliedKept
  <2>1. tree[c.key] \in KeyIndexes
    BY DEF HistoryInv, CoreInv, StateTypeOK, Changes
  <2>. QED  BY <2>1, RevsHolds DEF HistoryInv
<1>. QED  BY <1>1, HistoryCorrect, PTL

(* What Get finds is the main number of the last live revision. *)
LEMMA VisibleType ==
    ASSUME NEW ki \in KeyIndexes
    PROVE  /\ Visible(ki) \in Nat
           /\ ~startsGeneration(ki) => Visible(ki) = LastRev(ki).main
<1>1. CASE startsGeneration(ki)
  BY <1>1 DEF Visible
<1>2. CASE ~startsGeneration(ki)
  <2>1. LastRev(ki) \in Revision
    BY <1>2, LastRevType
  <2>. QED  BY <1>2, <2>1 DEF Visible, Last, LastRev, Revision
<1>. QED  BY <1>1, <1>2

(* A put does not move it back. *)
LEMMA PutVisible ==
    ASSUME NEW ki \in KeyIndexes, NEW rev \in Revision, NEW created \in Nat, Ordered(ki)
    PROVE  Visible(put(ki, rev, created)) >= Visible(ki)
<1>. DEFINE new == put(ki, rev, created)
<1>1. new \in KeyIndexes /\ ~startsGeneration(new)
  <2>1. new \in KeyIndexes
    BY PutResult DEF SameButLive
  <2>2. CASE startsGeneration(ki)
    BY <2>1, <2>2, PutFirst
  <2>3. CASE ~startsGeneration(ki)
    BY <2>1, <2>3, PutLast
  <2>. QED  BY <2>2, <2>3
<1>2. CASE startsGeneration(ki)
  <2>1. Visible(ki) = 0
    BY <1>2 DEF Visible
  <2>2. Visible(new) \in Nat
    BY <1>1, VisibleType
  <2>. QED  BY <2>1, <2>2
<1>3. CASE ~startsGeneration(ki)
  <2>1. LastRev(new) = IF GreaterThan(rev, LastRev(ki)) THEN rev ELSE LastRev(ki)
    BY <1>3, PutLast
  <2>. HIDE DEF new
  <2>2. LastRev(ki) \in Revision
    BY <1>3, LastRevType
  <2>3. /\ LastRev(new).main >= LastRev(ki).main
        /\ LastRev(new).main \in Nat /\ LastRev(ki).main \in Nat
    BY <2>1, <2>2 DEF GreaterThan, Revision
  <2>4. Visible(new) = LastRev(new).main
    BY <1>1, VisibleType
  <2>5. Visible(ki) = LastRev(ki).main
    BY <1>3, VisibleType
  <2>. QED  BY <2>3, <2>4, <2>5 DEF new
<1>. QED  BY <1>2, <1>3

(* The revision that Get finds for a key does not go back before the next  *)
(* deletion of the key.                                                    *)
THEOREM VisibleCorrect ==
    ASSUME "update" \notin Ops
    PROVE  Spec => VisibleMonotone
<1>. DEFINE A == \A k \in Keys : Len(tree'[k].generations) = Len(tree[k].generations) =>
                                     Visible(tree'[k]) >= Visible(tree[k])
<1>1. HistoryInv /\ [Next]_indexVars => [A]_indexVars
  <2>. SUFFICES ASSUME HistoryInv, Next, NEW k \in Keys,
                       Len(tree'[k].generations) = Len(tree[k].generations)
                PROVE  Visible(tree'[k]) >= Visible(tree[k])
    OBVIOUS
  <2>0. CoreInv /\ tree \in [Keys -> KeyIndexes] /\ tree[k] \in KeyIndexes /\ Good(tree[k])
    BY DEF HistoryInv, CoreInv, StateTypeOK
  <2>1. PICK t \in Threads : Quiet(t) \/ UpdateWrites(t) \/ \E ki : PutWrites(t, ki)
    BY <2>0, Steps
  <2>2. CASE tree'[k] = tree[k]
    <3>1. Visible(tree[k]) \in Nat
      BY <2>0, VisibleType
    <3>. QED  BY <2>2, <3>1
  <2>3. CASE UpdateWrites(t)
    BY <2>3 DEF UpdateWrites, UpdateCreated, UpdateStore, UpdateAdvance, UpdateSteps,
                HistoryInv, GoodRequest, CoreInv, InCall
  <2>4. ASSUME NEW ki, PutWrites(t, ki), req[t].key = k
        PROVE  Visible(tree'[k]) >= Visible(tree[k])
    <3>1. tree'[k] = ki /\ item(t) = tree[k] /\ req[t].rev \in Revision
      BY <2>0, <2>4, StepTypes DEF PutWrites, setItem, item
    <3>2. CASE ki = tombstone(item(t), req[t].rev) /\ ~startsGeneration(item(t))
      <4>1. InTree(item(t)) /\ item(t) \in KeyIndexes
        BY <2>0, <3>1, <3>2 DEF startsGeneration
      <4>2. Len(ki.generations) # Len(item(t).generations)
        BY <3>1, <3>2, <4>1, TombstoneStarts
      <4>. QED  BY <3>1, <4>2
    <3>3. ASSUME NEW c \in Nat, ki = put(item(t), req[t].rev, c)
          PROVE  Visible(tree'[k]) >= Visible(tree[k])
      <4>1. item(t) \in KeyIndexes /\ Ordered(item(t))
        BY <2>0, <3>1 DEF Good
      <4>2. Visible(ki) >= Visible(item(t))
        BY <3>1, <3>3, <4>1, PutVisible
      <4>. QED  BY <3>1, <4>2
    <3>. QED  BY <2>4, <3>2, <3>3 DEF PutWrites
  <2>5. ASSUME NEW ki, PutWrites(t, ki), req[t].key # k PROVE tree'[k] = tree[k]
    BY <2>0, <2>5 DEF PutWrites, setItem
  <2>. QED  BY <2>1, <2>2, <2>3, <2>4, <2>5, QuietTree
<1>2. Spec => [][A]_indexVars
  BY <1>1, HistoryCorrect, PTL DEF Spec
<1>. QED  BY <1>2 DEF VisibleMonotone
=============================================================================
