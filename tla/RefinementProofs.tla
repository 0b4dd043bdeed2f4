--------------------------- MODULE RefinementProofs ---------------------------
(***************************************************************************)
(* The index without Update implements the abstract map of VersionedMap,   *)
(* for any number of threads, keys and revisions (see IndexRefinement).    *)
(***************************************************************************)
EXTENDS IndexProofs, IndexRefinement

-----------------------------------------------------------------------------
(* The register of a key *)

(* It is empty exactly when the live generation is. *)
LEMMA CurrentNone ==
    ASSUME NEW ki \in KeyIndexes, Alive(ki)
    PROVE  /\ Current(ki) = NoRev <=> startsGeneration(ki)
           /\ ~startsGeneration(ki) => Current(ki) = LastRev(ki)
<1>1. IsTombstone(NoRev)
  BY DEF IsTombstone, NoRev, NewRevision
<1>2. CASE startsGeneration(ki)
  BY <1>2 DEF Current
<1>3. CASE ~startsGeneration(ki)
  <2>1. Current(ki) = LastRev(ki)
    BY <1>3 DEF Current, LastRev
  <2>2. ~IsTombstone(LastRev(ki))
    BY <1>3, LastRevType
  <2>. QED  BY <1>1, <1>3, <2>1, <2>2
<1>. QED  BY <1>2, <1>3

(* A put keeps the newest of the register and its own revision. *)
LEMMA PutCurrent ==
    ASSUME NEW ki \in KeyIndexes, NEW rev \in Revision, NEW created \in Nat,
           Ordered(ki), Alive(ki)
    PROVE  Current(put(ki, rev, created)) = Map!newest(Current(ki), rev)
<1>. DEFINE new == put(ki, rev, created)
<1>1. CASE startsGeneration(ki)
  <2>1. ~startsGeneration(new) /\ LastRev(new) = rev
    BY <1>1, PutFirst
  <2>2. Current(ki) = NoRev
    BY <1>1 DEF Current
  <2>. HIDE DEF new
  <2>3. Current(new) = rev
    BY <2>1 DEF Current, LastRev
  <2>. QED  BY <2>2, <2>3 DEF Map!newest, new
<1>2. CASE ~startsGeneration(ki)
  <2>1. /\ ~startsGeneration(new)
        /\ LastRev(new) = IF GreaterThan(rev, LastRev(ki)) THEN rev ELSE LastRev(ki)
    BY <1>2, PutLast
  <2>2. Current(ki) # NoRev /\ Current(ki) = LastRev(ki)
    BY <1>2, CurrentNone
  <2>. HIDE DEF new
  <2>3. Current(new) = LastRev(new)
    BY <2>1 DEF Current, LastRev
  <2>4. Map!Newer(rev, Current(ki)) <=> GreaterThan(rev, LastRev(ki))
    BY <2>2 DEF Map!Newer, GreaterThan
  <2>. QED  BY <2>1, <2>2, <2>3, <2>4 DEF Map!newest, new
<1>. QED  BY <1>1, <1>2

(* A tombstone clears it. *)
LEMMA TombstoneCurrent ==
    ASSUME NEW ki \in KeyIndexes, NEW rev \in Revision, InTree(ki)
    PROVE  Current(tombstone(ki, rev)) = NoRev
  BY TombstoneStarts DEF Current

(* Get finds it. *)
LEMMA GetCurrent ==
    ASSUME NEW ki \in KeyIndexes, InTree(ki), Good(ki)
    PROVE  LET found == get(ki, ki.modified.main)
           IN  found.err = (Current(ki) = NoRev) /\ found.rev = Current(ki)
<1>. DEFINE found == get(ki, ki.modified.main)
<1>1. /\ IF Live(ki).revs = <<>> THEN found.err
         ELSE ~found.err /\ found.rev = Live(ki).revs[Len(Live(ki).revs)]
  BY GetNewest DEF Good
<1>2. found.err \in BOOLEAN
  <2>1. ki.modified.main \in Int
    BY DEF KeyIndexes, Revision
  <2>. QED  BY <2>1, GetType
<1>3. found.err => found.rev = NoRev
  <2>1. found = NotFound \/ found.err = FALSE
    BY DEF get
  <2>2. NotFound.rev = NoRev
    BY DEF NotFound, NoRev
  <2>. HIDE DEF found
  <2>. QED  BY <2>1, <2>2
<1>. HIDE DEF found
<1>4. Current(ki) = NoRev <=> startsGeneration(ki)
  BY CurrentNone DEF Good
<1>5. CASE Live(ki).revs = <<>>
  <2>1. startsGeneration(ki) /\ Current(ki) = NoRev
    BY <1>5 DEF startsGeneration, Current
  <2>2. found.err = TRUE
    BY <1>1, <1>2, <1>5
  <2>. QED  BY <1>3, <2>1, <2>2 DEF found
<1>6. CASE Live(ki).revs # <<>>
  <2>1. ~startsGeneration(ki)
    BY <1>6 DEF startsGeneration
  <2>2. found.err = FALSE /\ found.rev = Current(ki)
    BY <1>1, <1>2, <1>6, <2>1 DEF Current
  <2>3. Current(ki) # NoRev
    BY <1>4, <2>1
  <2>. QED  BY <2>2, <2>3 DEF found
<1>. QED  BY <1>5, <1>6

-----------------------------------------------------------------------------
(* What the threads do to each other *)

(* Where Update is not called, a step of thread t is one of these. *)
StepOf(t) ==
    \/ Request(t) \/ Add(t) \/ Load(t) \/ Return(t) \/ Put(t) \/ PutAdd(t) \/ PutCreate(t)
    \/ Tombstone(t) \/ Get(t) \/ GetAt(t) \/ RangeSince(t)

(* Nobody is inside Update. *)
LEMMA NoUpdate ==
    ASSUME HistoryInv, Next
    PROVE  \E t \in Threads : StepOf(t)
<1>1. PICK t \in Threads : Request(t) \/ CounterStep(t) \/ IndexStep(t) \/ Return(t)
  BY DEF Next
<1>2. req[t].op # "update" /\ pc[t] \notin UpdateSteps
  BY DEF HistoryInv, GoodRequest, CoreInv, InCall
<1>3. ~Update(t)
  BY <1>2 DEF Update, calls
<1>4. ~(UpdateGeneration(t) \/ UpdateCreated(t) \/ UpdateCompare(t) \/ UpdateLoad(t)
           \/ UpdateStore(t) \/ UpdateModified(t) \/ UpdateAdvance(t))
  BY <1>2 DEF UpdateGeneration, UpdateCreated, UpdateCompare, UpdateLoad, UpdateStore,
       UpdateModified, UpdateAdvance, UpdateSteps
<1>. QED  BY <1>1, <1>3, <1>4 DEF CounterStep, IndexStep, StepOf

(* A Get asks for the newest revision, and looks for it where modified is  *)
(* when it walks the generations.                                          *)
Reading(t) ==
    /\ req[t].op = "get" => req[t].arg = 0
    /\ pc[t] = "get" => req[t].op = "get" /\ loc[t].atRev = item(t).modified.main

(* The write lock is held alone. *)
Excluded(t, u) == pc[t] = "put" /\ t # u => pc[u] \notin {"put", "get"}

ReadInv ==
    /\ HistoryInv
    /\ ret = [t \in Threads |-> ret[t]]
    /\ \A t \in Threads : Reading(t)
    /\ \A t, u \in Threads : Excluded(t, u)

(* A step changes the state of its own thread. *)
LEMMA OthersStay ==
    ASSUME ReadInv, NEW t \in Threads, StepOf(t)
    PROVE  /\ \A u \in Threads \ {t} : /\ pc'[u] = pc[u] /\ req'[u] = req[u]
                                       /\ loc'[u] = loc[u] /\ ret'[u] = ret[u]
           /\ ret' = [u \in Threads |-> ret'[u]]
<1>0. /\ pc \in [Threads -> PCs] /\ req \in [Threads -> Requests]
      /\ loc \in [Threads -> Locals] /\ ret = [u \in Threads |-> ret[u]]
  BY DEF ReadInv, HistoryInv, CoreInv, StateTypeOK
<1>1. \E p : pc' = [pc EXCEPT ![t] = p]
  BY DEF StepOf, Request, Add, Load, Return, Put, PutAdd, PutCreate, Tombstone, Get, GetAt,
       RangeSince, succeed, return, goto
<1>2. req' = req \/ (\E r : req' = [req EXCEPT ![t] = r]) \/ (\E m : req' = [req EXCEPT ![t].rev.main = m])
  BY DEF StepOf, Request, Add, Load, Return, Put, PutAdd, PutCreate, Tombstone, Get, GetAt,
       RangeSince
<1>3. loc' = loc \/ (\E l : loc' = [loc EXCEPT ![t] = l]) \/ (\E m : loc' = [loc EXCEPT ![t].atRev = m])
  BY DEF StepOf, Request, Add, Load, Return, Put, PutAdd, PutCreate, Tombstone, Get, GetAt,
       RangeSince, succeed, return
<1>4. ret' = ret \/ \E r : ret' = [ret EXCEPT ![t] = r]
  BY DEF StepOf, Request, Add, Load, Return, Put, PutAdd, PutCreate, Tombstone, Get, GetAt,
       RangeSince, succeed, return
<1>5. \A u \in Threads \ {t} : pc'[u] = pc[u] /\ req'[u] = req[u] /\ loc'[u] = loc[u]
  BY <1>0, <1>1, <1>2, <1>3
<1>6. ret' = [u \in Threads |-> ret'[u]] /\ \A u \in Threads \ {t} : ret'[u] = ret[u]
  BY <1>0, <1>4
<1>. QED  BY <1>5, <1>6

(* The steps that change the tree are taken under the write lock.          *)
LEMMA WritersExclude ==
    ASSUME ReadInv, NEW t \in Threads, StepOf(t), NEW u \in Threads \ {t}, pc[u] = "get"
    PROVE  tree' = tree
<1>1. ~CanLock
  BY DEF CanLock, RLocked
<1>2. pc[t] # "put"
  BY DEF ReadInv, Excluded
<1>3. ~Put(t) /\ ~PutCreate(t) /\ ~Tombstone(t)
  BY <1>1, <1>2 DEF Put, PutCreate, Tombstone
<1>. QED  BY <1>3 DEF StepOf, Request, Add, Load, Return, PutAdd, Get, GetAt, RangeSince

(* Where a step leads its thread. *)
LEMMA LocksTaken ==
    ASSUME ReadInv, NEW t \in Threads, StepOf(t)
    PROVE  /\ pc'[t] = "put" => CanLock
           /\ pc'[t] = "get" => CanRLock /\ Get(t) /\ InTree(item(t))
<1>0. pc \in [Threads -> PCs]
  BY DEF ReadInv, HistoryInv, CoreInv, StateTypeOK
<1>1. CASE PutAdd(t)
  BY <1>0, <1>1 DEF PutAdd, goto
<1>2. CASE Get(t)
  BY <1>0, <1>2 DEF Get, return, goto
<1>3. CASE ~PutAdd(t) /\ ~Get(t)
  <2>1. pc'[t] \in {"add", "ready", "load", "idle", "done"}
    BY <1>0, <1>3 DEF StepOf, Request, Add, Load, Return, Put, PutCreate, Tombstone, GetAt,
         RangeSince, succeed, return, goto
  <2>. QED  BY <2>1
<1>. QED  BY <1>1, <1>2, <1>3

(* A thread that steps keeps its part of the invariant. *)
LEMMA ReadingOwn ==
    ASSUME ReadInv, NEW t \in Threads, StepOf(t)
    PROVE  Reading(t)'
<1>0. /\ pc \in [Threads -> PCs] /\ req \in [Threads -> Requests] /\ req[t] \in Requests
      /\ loc \in [Threads -> Locals] /\ loc[t] \in Locals /\ Reading(t)
  BY DEF ReadInv, HistoryInv, CoreInv, StateTypeOK
<1>1. CASE Request(t)
  <2>1. pc'[t] # "get"
    BY <1>0, <1>1 DEF Request, goto
  <2>2. PICK q : req' = [req EXCEPT ![t] = q] /\ (q.op = "get" => q.arg = 0)
    <3>1. PICK op \in Ops, k \in Keys :
            \/ /\ op \in {"put", "update", "tombstone"}
               /\ \E nodes, assumed :
                    req' = [req EXCEPT ![t] = [op |-> op, key |-> k, arg |-> assumed,
                                               rev |-> NewRevision(0, 0, nodes)]]
            \/ /\ op \in {"get", "since"}
               /\ \E from \in (IF op = "since" THEN 0..MaxRev ELSE {0}) :
                    req' = [req EXCEPT ![t] = [op |-> op, key |-> k, arg |-> from, rev |-> NoRev]]
      BY <1>1 DEF Request
    <3>2. CASE op \in {"put", "update", "tombstone"}
      <4>1. PICK nodes, assumed : req' = [req EXCEPT ![t] = [op |-> op, key |-> k, arg |-> assumed,
                                                             rev |-> NewRevision(0, 0, nodes)]]
        BY <3>1, <3>2
      <4>. DEFINE q == [op |-> op, key |-> k, arg |-> assumed, rev |-> NewRevision(0, 0, nodes)]
      <4>2. q.op # "get"
        BY <3>2
      <4>. QED  BY <4>1, <4>2
    <3>3. CASE op \in {"get", "since"}
      <4>1. PICK from \in (IF op = "since" THEN 0..MaxRev ELSE {0}) :
              req' = [req EXCEPT ![t] = [op |-> op, key |-> k, arg |-> from, rev |-> NoRev]]
        BY <3>1, <3>3
      <4>. DEFINE q == [op |-> op, key |-> k, arg |-> from, rev |-> NoRev]
      <4>2. q.op = "get" => q.arg = 0
        BY <3>3, <4>1
      <4>. QED  BY <4>1, <4>2
    <3>. QED  BY <3>1, <3>2, <3>3
  <2>. QED  BY <1>0, <2>1, <2>2 DEF Reading
<1>2. CASE Load(t)
  <2>1. pc'[t] # "get" /\ req'[t].op = req[t].op /\ req'[t].arg = req[t].arg
    BY <1>0, <1>2 DEF Load, goto, Requests
  <2>. QED  BY <1>0, <2>1 DEF Reading
<1>3. CASE Return(t)
  <2>1. pc'[t] # "get" /\ req'[t].op = "none"
    BY <1>0, <1>3 DEF Return, goto, NoRequest
  <2>. QED  BY <2>1 DEF Reading
<1>4. CASE Get(t) /\ InTree(item(t))
  <2>1. req[t].op = "get" /\ req[t].arg = 0
    BY <1>0, <1>4 DEF Get, calls, Reading
  <2>2. /\ req' = req /\ tree' = tree
        /\ loc' = [loc EXCEPT ![t].atRev = item(t).modified.main]
    BY <1>4, <2>1 DEF Get
  <2>3. loc'[t].atRev = item(t).modified.main /\ item(t)' = item(t)
    BY <1>0, <2>2 DEF Locals, item
  <2>. QED  BY <2>1, <2>2, <2>3 DEF Reading
<1>5. CASE ~Request(t) /\ ~Load(t) /\ ~Return(t) /\ ~(Get(t) /\ InTree(item(t)))
  <2>1. req' = req
    BY <1>5 DEF StepOf, Add, Put, PutAdd, PutCreate, Tombstone, Get, GetAt, RangeSince
  <2>2. pc'[t] # "get"
    BY <1>5, LocksTaken
  <2>. QED  BY <1>0, <2>1, <2>2 DEF Reading
<1>. QED  BY <1>1, <1>2, <1>3, <1>4, <1>5

(* Every step keeps the readers undisturbed and the writers alone. *)
LEMMA ReadNext ==
    ASSUME "update" \notin Ops, ReadInv, [Next]_indexVars
    PROVE  ReadInv'
<1>0. HistoryInv /\ HistoryInv'
  BY HistoryNext DEF ReadInv
<1>1. CASE UNCHANGED indexVars
  BY <1>0, <1>1 DEF indexVars, ReadInv, Reading, Excluded, item
<1>2. CASE Next
  <2>1. PICK t \in Threads : StepOf(t)
    BY <1>0, <1>2, NoUpdate
  <2>2. /\ ret' = [u \in Threads |-> ret'[u]]
        /\ \A u \in Threads \ {t} : pc'[u] = pc[u] /\ req'[u] = req[u] /\ loc'[u] = loc[u]
    BY <2>1, OthersStay
  <2>3. ASSUME NEW u \in Threads \ {t} PROVE Reading(u)'
    <3>1. Reading(u)
      BY DEF ReadInv
    <3>2. pc[u] = "get" => tree' = tree
      BY <2>1, WritersExclude
    <3>. QED  BY <2>2, <3>1, <3>2 DEF Reading, item
  <2>4. ASSUME NEW x \in Threads, NEW y \in Threads PROVE Excluded(x, y)'
    <3>0. Excluded(x, y)
      BY DEF ReadInv
    <3>1. CASE x = t /\ y # t
      <4>1. pc'[x] = "put" => pc[y] \notin {"put", "get"}
        BY <2>1, <3>1, LocksTaken DEF CanLock, WLocked, RLocked
      <4>. QED  BY <2>2, <3>1, <4>1 DEF Excluded
    <3>2. CASE y = t /\ x # t
      <4>1. pc'[y] \in {"put", "get"} => pc[x] # "put"
        BY <2>1, <3>2, LocksTaken DEF CanLock, CanRLock, WLocked
      <4>. QED  BY <2>2, <3>2, <4>1 DEF Excluded
    <3>3. CASE x # t /\ y # t
      BY <2>2, <3>0, <3>3 DEF Excluded
    <3>. QED  BY <3>1, <3>2, <3>3 DEF Excluded
  <2>. QED  BY <1>0, <2>1, <2>2, <2>3, <2>4, ReadingOwn DEF ReadInv
<1>. QED  BY <1>1, <1>2

(* It starts that way. *)
LEMMA InitRead ==
    ASSUME "update" \notin Ops, Init
    PROVE  ReadInv
<1>1. HistoryInv
  BY InitHistory
<1>2. \A t \in Threads : pc[t] = "idle" /\ req[t].op = "none"
  BY DEF Init, IndexInit, NoRequest
<1>. QED  BY <1>1, <1>2 DEF ReadInv, Reading, Excluded, Init, IndexInit

(* Without Update, nothing changes a keyIndex between the two steps of a   *)
(* Get that is looking at it.                                              *)
THEOREM ReadersCorrect ==
    ASSUME "update" \notin Ops
    PROVE  Spec => []ReadersUndisturbed
<1>1. Init => ReadInv
  BY InitRead
<1>2. ReadInv /\ [Next]_indexVars => ReadInv'
  BY ReadNext
<1>3. ReadInv => ReadersUndisturbed
  BY DEF ReadInv, Reading, ReadersUndisturbed
<1>. QED  BY <1>1, <1>2, <1>3, PTL DEF Spec

-----------------------------------------------------------------------------
(* The steps of the index as steps of the map *)

(* A step that changes neither the tree nor an answer is a stutter, and    *)
(* one that only drops an answer forgets it.                               *)
LEMMA MapQuiet ==
    ASSUME NEW t \in Threads, tree' = tree, applied' = applied,
           \A u \in Threads \ {t} : Answer(u)' = Answer(u)
    PROVE  /\ Answer(t)' = Answer(t) => UNCHANGED Map!mapVars
           /\ Answer(t)' = <<>> => Map!forget(t)
<1>1. [k \in Keys |-> Current(tree[k])]' = [k \in Keys |-> Current(tree[k])]
  OBVIOUS
<1>2. ASSUME Answer(t)' = Answer(t)
      PROVE  [u \in Threads |-> Answer(u)]' = [u \in Threads |-> Answer(u)]
  BY <1>2
<1>3. ASSUME Answer(t)' = <<>>
      PROVE  [u \in Threads |-> Answer(u)]' = [[u \in Threads |-> Answer(u)] EXCEPT ![t] = <<>>]
  BY <1>3
<1>. QED  BY <1>1, <1>2, <1>3 DEF Map!mapVars, Map!forget, Map!NoAnswer

(* A lookup that ends with the register of its key. *)
LEMMA MapLookUp ==
    ASSUME NEW t \in Threads, NEW k \in Keys, tree' = tree, applied' = applied,
           \A u \in Threads \ {t} : Answer(u)' = Answer(u),
           Answer(t) = <<>>,
           Answer(t)' = <<k, Current(tree[k]) = NoRev, Current(tree[k])>>
    PROVE  Map!lookUp(t)
<1>. DEFINE current == [x \in Keys |-> Current(tree[x])]
            got     == [u \in Threads |-> Answer(u)]
            answer  == <<k, Current(tree[k]) = NoRev, Current(tree[k])>>
<1>1. current' = current /\ current[k] = Current(tree[k])
  OBVIOUS
<1>2. got' = [got EXCEPT ![t] = answer] /\ got[t] = <<>>
  <2>. HIDE DEF answer
  <2>1. Answer(t)' = answer
    BY DEF answer
  <2>. QED  BY <2>1
<1>3. answer = <<k, current[k] = NoRev, current[k]>>
  OBVIOUS
<1>. QED  BY <1>1, <1>2, <1>3 DEF Map!lookUp, Map!NoAnswer

(* A change of one key. *)
LEMMA MapChange ==
    ASSUME NEW t \in Threads, NEW ki, req[t].key \in Keys, tree \in [Keys -> KeyIndexes],
           setItem(t, ki), applied' = applied \cup {req[t]},
           \A u \in Threads : Answer(u)' = Answer(u)
    PROVE  /\ req[t].op = "put" /\ Current(ki) = Map!newest(Current(item(t)), req[t].rev)
                  => Map!change("put")
           /\ (/\ req[t].op = "tombstone" /\ Current(item(t)) # NoRev /\ Current(ki) = NoRev)
                  => Map!change("tombstone")
<1>. DEFINE current == [k \in Keys |-> Current(tree[k])]
            got     == [u \in Threads |-> Answer(u)]
<1>1. current' = [current EXCEPT ![req[t].key] = Current(ki)] /\ current[req[t].key] = Current(item(t))
  BY DEF setItem, item
<1>2. got' = got /\ req[t] \in applied'
  OBVIOUS
<1>. QED  BY <1>1, <1>2 DEF Map!change

(* Every step of a thread is a step of the map, or a stutter. *)
LEMMA StepImplements ==
    ASSUME ReadInv, NEW t \in Threads, StepOf(t)
    PROVE  [Map!MapNext]_(Map!mapVars)
<1>0. /\ CoreInv /\ pc \in [Threads -> PCs] /\ req \in [Threads -> Requests]
      /\ tree \in [Keys -> KeyIndexes] /\ ret = [u \in Threads |-> ret[u]]
      /\ req[t].key \in Keys /\ req[t].rev \in Revision /\ item(t) \in KeyIndexes
      /\ item(t) = tree[req[t].key] /\ Good(item(t)) /\ Reading(t) /\ InCall(t) /\ counter \in Nat
  BY StepTypes DEF ReadInv, HistoryInv, CoreInv, StateTypeOK, item
<1>1. \A u \in Threads \ {t} : Answer(u)' = Answer(u)
  BY OthersStay DEF Answer
<1>2. ASSUME NEW ki, PutWrites(t, ki) PROVE Map!MapNext
  <2>1. setItem(t, ki) /\ applied' = applied \cup {req[t]} /\ req' = req
    BY <1>2 DEF PutWrites, succeed
  <2>2. req[t].op \in {"put", "tombstone"}
    BY <1>0, <1>2 DEF PutWrites, calls, InCall
  <2>3. Answer(t) = <<>> /\ Answer(t)' = <<>>
    BY <2>1, <2>2 DEF Answer
  <2>4. \A u \in Threads : Answer(u)' = Answer(u)
    BY <1>1, <2>3
  <2>5. ASSUME NEW c \in Nat, ki = put(item(t), req[t].rev, c), calls(t, "put") \/ pc[t] = "put"
        PROVE  Map!change("put")
    <3>1. Current(ki) = Map!newest(Current(item(t)), req[t].rev)
      BY <1>0, <2>5, PutCurrent DEF Good
    <3>2. req[t].op = "put"
      BY <1>0, <2>5 DEF calls, InCall
    <3>. QED  BY <1>0, <2>1, <2>4, <3>1, <3>2, MapChange
  <2>6. ASSUME ki = tombstone(item(t), req[t].rev), calls(t, "tombstone"), ~startsGeneration(item(t))
        PROVE  Map!change("tombstone")
    <3>1. Current(item(t)) # NoRev
      BY <1>0, <2>6, CurrentNone DEF Good
    <3>2. InTree(item(t))
      BY <2>6 DEF startsGeneration
    <3>3. Current(ki) = NoRev
      BY <1>0, <2>6, <3>2, TombstoneCurrent
    <3>4. req[t].op = "tombstone"
      BY <2>6 DEF calls
    <3>. QED  BY <1>0, <2>1, <2>4, <3>1, <3>3, <3>4, MapChange
  <2>. QED  BY <1>2, <2>5, <2>6 DEF PutWrites, Map!MapNext
<1>3. CASE Put(t)
  <2>1. PutWrites(t, put(item(t), req[t].rev, 0))
    BY <1>3 DEF Put, PutWrites
  <2>. QED  BY <1>2, <2>1
<1>4. CASE PutCreate(t)
  <2>1. PutWrites(t, put(item(t), req[t].rev, counter))
    BY <1>0, <1>4 DEF PutCreate, PutWrites
  <2>. QED  BY <1>2, <2>1
<1>5. CASE Tombstone(t) /\ ~startsGeneration(item(t))
  <2>1. PutWrites(t, tombstone(item(t), req[t].rev))
    BY <1>5 DEF Tombstone, PutWrites
  <2>. QED  BY <1>2, <2>1
<1>6. CASE Tombstone(t) /\ startsGeneration(item(t))
  <2>1. /\ tree' = tree /\ applied' = applied /\ req' = req
        /\ req[t].op = "tombstone"
    BY <1>6 DEF Tombstone, calls
  <2>2. Answer(t)' = Answer(t)
    BY <2>1 DEF Answer
  <2>. QED  BY <1>1, <2>1, <2>2, MapQuiet
<1>7. CASE Get(t) /\ ~InTree(item(t))
  <2>1. /\ tree' = tree /\ applied' = applied /\ req' = req
        /\ req[t].op = "get" /\ pc[t] = "ready"
        /\ pc'[t] = "done" /\ ret'[t] = failed
    BY <1>0, <1>7 DEF Get, calls, return, goto
  <2>2. Current(item(t)) = NoRev
    BY <1>7 DEF Current, startsGeneration
  <2>3. failed.err = TRUE /\ failed.rev = NoRev
    BY DEF failed, NoResult
  <2>4. Answer(t) = <<>>
    BY <2>1 DEF Answer
  <2>5. Answer(t)' = <<req[t].key, failed.err, failed.rev>>
    BY <2>1 DEF Answer
  <2>6. Answer(t)' = <<req[t].key, Current(item(t)) = NoRev, Current(item(t))>>
    BY <2>2, <2>3, <2>5
  <2>. QED  BY <1>0, <1>1, <2>1, <2>4, <2>6, MapLookUp DEF Map!MapNext
<1>8. CASE Get(t) /\ InTree(item(t))
  <2>1. /\ tree' = tree /\ applied' = applied /\ pc[t] = "ready" /\ pc'[t] = "get"
    BY <1>0, <1>8 DEF Get, calls, goto
  <2>2. Answer(t)' = Answer(t)
    BY <2>1 DEF Answer
  <2>. QED  BY <1>1, <2>1, <2>2, MapQuiet
<1>9. CASE GetAt(t)
  <2>. DEFINE found == get(item(t), item(t).modified.main)
  <2>1. req[t].op = "get" /\ loc[t].atRev = item(t).modified.main /\ InTree(item(t)) /\ pc[t] = "get"
    BY <1>0, <1>9 DEF GetAt, Reading, InCall
  <2>2. /\ tree' = tree /\ applied' = applied /\ req' = req /\ pc'[t] = "done"
        /\ ret'[t] = [NoResult EXCEPT !.err = found.err, !.rev = found.rev]
    BY <1>0, <1>9, <2>1 DEF GetAt, return, goto
  <2>3. found.err = (Current(item(t)) = NoRev) /\ found.rev = Current(item(t))
    BY <1>0, <2>1, GetCurrent
  <2>. HIDE DEF found
  <2>4. ret'[t].err = found.err /\ ret'[t].rev = found.rev
    BY <2>2 DEF NoResult
  <2>5. Answer(t) = <<>>
    BY <2>1 DEF Answer
  <2>6. Answer(t)' = <<req[t].key, found.err, found.rev>>
    BY <2>1, <2>2, <2>4 DEF Answer
  <2>7. Answer(t)' = <<req[t].key, Current(item(t)) = NoRev, Current(item(t))>>
    BY <2>3, <2>6
  <2>. QED  BY <1>0, <1>1, <2>2, <2>5, <2>7, MapLookUp DEF Map!MapNext
<1>10. CASE RangeSince(t)
  <2>1. tree' = tree /\ applied' = applied /\ req' = req /\ req[t].op = "since"
    BY <1>10 DEF RangeSince, calls
  <2>2. Answer(t)' = Answer(t)
    BY <2>1 DEF Answer
  <2>. QED  BY <1>1, <2>1, <2>2, MapQuiet
<1>11. CASE Request(t) \/ Add(t) \/ Load(t) \/ PutAdd(t)
  <2>1. tree' = tree /\ applied' = applied
    BY <1>11 DEF Request, Add, Load, PutAdd
  <2>2. pc[t] # "done" /\ pc'[t] # "done"
    BY <1>0, <1>11 DEF Request, Add, Load, PutAdd, calls, goto
  <2>3. Answer(t)' = Answer(t)
    BY <2>2 DEF Answer
  <2>. QED  BY <1>1, <2>1, <2>3, MapQuiet
<1>12. CASE Return(t)
  <2>1. tree' = tree /\ applied' = applied /\ pc'[t] = "idle"
    BY <1>0, <1>12 DEF Return, goto
  <2>2. Answer(t)' = <<>>
    BY <2>1 DEF Answer
  <2>3. Map!forget(t)
    BY <1>1, <2>1, <2>2, MapQuiet
  <2>. QED  BY <2>3 DEF Map!MapNext
<1>. QED  BY <1>3, <1>4, <1>5, <1>6, <1>7, <1>8, <1>9, <1>10, <1>11, <1>12 DEF StepOf

(* However the threads interleave their calls, Put, Tombstone and Get act  *)
(* as operations on a register per key that take effect at one instant     *)
(* between their invocation and their return.                              *)
THEOREM Implements ==
    ASSUME "update" \notin Ops
    PROVE  Spec => ImplementsMap
<1>1. Init => Map!MapInit
  <2>. SUFFICES ASSUME Init PROVE Map!MapInit
    OBVIOUS
  <2>1. \A k \in Keys : Current(tree[k]) = NoRev
    BY DEF Init, IndexInit, Current, startsGeneration, InTree, NewKeyIndex
  <2>2. \A t \in Threads : Answer(t) = <<>>
    BY DEF Init, IndexInit, Answer
  <2>. QED  BY <2>1, <2>2 DEF Map!MapInit, Map!NoAnswer, Init, IndexInit
<1>2. Init => ReadInv
  BY InitRead
<1>3. ReadInv /\ [Next]_indexVars => ReadInv'
  BY ReadNext
<1>4. ReadInv /\ [Next]_indexVars => [Map!MapNext]_(Map!mapVars)
  <2>. SUFFICES ASSUME ReadInv, [Next]_indexVars PROVE [Map!MapNext]_(Map!mapVars)
    OBVIOUS
  <2>1. CASE Next
    BY <2>1, NoUpdate, StepImplements DEF ReadInv
  <2>2. CASE UNCHANGED indexVars
    BY <2>2 DEF indexVars, Map!mapVars, Answer
  <2>. QED  BY <2>1, <2>2
<1>. QED  BY <1>1, <1>2, <1>3, <1>4, PTL DEF Spec, ImplementsMap, Map!MapSpec
=============================================================================
