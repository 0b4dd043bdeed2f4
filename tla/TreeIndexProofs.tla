--------------------------- MODULE TreeIndexProofs ---------------------------
(***************************************************************************)
(* Theorems about the index under any number of threads, keys and          *)
(* revisions (module IndexClients), from the lemmas of KeyIndexProofs.     *)
(***************************************************************************)
EXTENDS IndexClients, KeyIndexProofs

-----------------------------------------------------------------------------
(* Types.  What RangeSince returns is left out here: since is a fold.      *)

StateTypeOK ==
    /\ global_increasing_revision \in Nat
    /\ tree \in [Keys -> KeyIndexes]
    /\ pc \in [Threads -> PCs]
    /\ req \in [Threads -> Requests]
    /\ loc \in [Threads -> Locals]
    /\ applied \in SUBSET Changes

(* A method that takes several steps was called as itself, and the ones    *)
(* that work on a keyIndex found it in the tree.                           *)
InCall(t) ==
    /\ pc[t] \in UpdateSteps => req[t].op = "update"
    /\ pc[t] = "put" => req[t].op = "put"
    /\ pc[t] \in UpdateSteps \cup {"get"} => InTree(item(t))

CoreInv == StateTypeOK /\ \A t \in Threads : InCall(t)

(* The zero values of the variables have their types. *)
LEMMA ZeroStates ==
    NoRev \in Revision /\ NoRequest \in Requests /\ NoLocals \in Locals
<1>1. NoRev \in Revision
  BY ZeroTypes DEF NoRev
<1>2. (CHOOSE k \in Keys : TRUE) \in Keys
  BY KeysAssumption
<1>3. NoRequest \in Requests
  BY <1>1, <1>2 DEF NoRequest, Requests
<1>4. NoLocals \in Locals
  BY DEF NoLocals, Locals
<1>. QED  BY <1>1, <1>3, <1>4

(* The index starts in its types. *)
LEMMA InitCore == Init => CoreInv
<1>. SUFFICES ASSUME Init PROVE CoreInv
  OBVIOUS
<1>1. StateTypeOK
  BY ZeroStates, ZeroTypes DEF Init, IndexInit, StateTypeOK, PCs
<1>2. \A t \in Threads : pc[t] = "idle"
  BY DEF Init, IndexInit
<1>. QED  BY <1>1, <1>2 DEF CoreInv, InCall, UpdateSteps

(* A step that changes at most the keyIndex of t, and keeps it in the tree *)
(* if it was there, keeps the calls of the other threads as they are.      *)
LEMMA OthersInCall ==
    ASSUME CoreInv, NEW t \in Threads, NEW ki \in KeyIndexes,
           req[t].key \in Keys,
           InTree(item(t)) => InTree(ki),
           tree' = tree \/ setItem(t, ki),
           \A u \in Threads \ {t} : pc'[u] = pc[u] /\ req'[u] = req[u]
    PROVE  \A u \in Threads \ {t} : InCall(u)'
<1>1. \A k \in Keys : InTree(tree[k]) => InTree(tree'[k])
  BY DEF CoreInv, StateTypeOK, setItem, item
<1>2. TAKE u \in Threads \ {t}
<1>3. InCall(u) /\ req[u].key \in Keys
  BY DEF CoreInv, StateTypeOK, Requests
<1>. QED  BY <1>1, <1>3 DEF InCall, item

(* The steps that leave the tree alone keep the types. *)
LEMMA QuietCore ==
    ASSUME CoreInv, NEW t \in Threads,
           Request(t) \/ Add(t) \/ Load(t) \/ PutAdd(t) \/ Get(t) \/ GetAt(t) \/ RangeSince(t)
             \/ Update(t) \/ UpdateGeneration(t) \/ UpdateCompare(t) \/ UpdateLoad(t)
             \/ UpdateModified(t) \/ Return(t)
    PROVE  CoreInv'
<1>0. /\ StateTypeOK /\ InCall(t) /\ req[t] \in Requests /\ req[t].key \in Keys
      /\ item(t) \in KeyIndexes /\ item(t).modified \in Revision /\ loc[t] \in Locals
  BY DEF CoreInv, StateTypeOK, Requests, item, KeyIndexes
<1>1. CASE Request(t)
  <2>1. PICK r \in Requests : req' = [req EXCEPT ![t] = r]
    <3>1. PICK op \in Ops, k \in Keys :
            \/ /\ op \in {"put", "update", "tombstone"}
               /\ \E nodes \in (IF op = "tombstone" THEN {<<>>} ELSE NodeLists),
                     assumed \in (IF op = "update" THEN 1..MaxRev ELSE {0}) :
                    req' = [req EXCEPT ![t] = [op |-> op, key |-> k, arg |-> assumed,
                                               rev |-> NewRevision(0, 0, nodes)]]
            \/ /\ op \in {"get", "since"}
               /\ \E from \in (IF op = "since" THEN 0..MaxRev ELSE {0}) :
                    req' = [req EXCEPT ![t] = [op |-> op, key |-> k, arg |-> from, rev |-> NoRev]]
      BY <1>1 DEF Request
    <3>2. \A nodes \in NodeLists \cup {<<>>} : NewRevision(0, 0, nodes) \in Revision
      BY DEF NewRevision, Revision
    <3>. QED  BY <3>1, <3>2, ZeroStates, ClientsAssumption DEF Requests, Methods
  <2>2. tree' = tree /\ loc' = loc /\ applied' = applied /\ counter' = counter
        /\ \E s \in {"add", "ready"} : goto(t, s)
    BY <1>1 DEF Request, counter
  <2>3. StateTypeOK'
    BY <1>0, <2>1, <2>2 DEF StateTypeOK, PCs, goto, counter
  <2>4. InCall(t)'
    BY <1>0, <2>2 DEF InCall, StateTypeOK, goto, UpdateSteps
  <2>5. \A u \in Threads \ {t} : pc'[u] = pc[u] /\ req'[u] = req[u]
    BY <1>0, <2>1, <2>2 DEF StateTypeOK, goto
  <2>. QED  BY <1>0, <2>2, <2>3, <2>4, <2>5, OthersInCall DEF CoreInv
<1>2. CASE Add(t)
  <2>1. StateTypeOK'
    BY <1>2, <1>0, ZeroStates DEF Add, goto, counter, StateTypeOK, PCs, UpdateSteps
  <2>2. InCall(t)'
    BY <1>2, <1>0 DEF Add, goto, counter, InCall, item, StateTypeOK, UpdateSteps
  <2>3. tree' = tree /\ \A u \in Threads \ {t} : pc'[u] = pc[u] /\ req'[u] = req[u]
    BY <1>2, <1>0 DEF Add, goto, counter, StateTypeOK
  <2>. QED  BY <1>0, <2>1, <2>2, <2>3, OthersInCall DEF CoreInv
<1>3. CASE Load(t)
  <2>1. StateTypeOK'
    BY <1>3, <1>0, ZeroStates DEF Load, goto, counter, Requests, Revision, StateTypeOK, PCs, UpdateSteps
  <2>2. InCall(t)'
    BY <1>3, <1>0 DEF Load, goto, counter, Requests, Revision, InCall, item, StateTypeOK, UpdateSteps
  <2>3. tree' = tree /\ \A u \in Threads \ {t} : pc'[u] = pc[u] /\ req'[u] = req[u]
    BY <1>3, <1>0 DEF Load, goto, counter, Requests, Revision, StateTypeOK
  <2>. QED  BY <1>0, <2>1, <2>2, <2>3, OthersInCall DEF CoreInv
<1>4. CASE PutAdd(t)
  <2>1. StateTypeOK'
    BY <1>4, <1>0, ZeroStates DEF PutAdd, goto, counter, calls, StateTypeOK, PCs, UpdateSteps
  <2>2. InCall(t)'
    BY <1>4, <1>0 DEF PutAdd, goto, counter, calls, InCall, item, StateTypeOK, UpdateSteps
  <2>3. tree' = tree /\ \A u \in Threads \ {t} : pc'[u] = pc[u] /\ req'[u] = req[u]
    BY <1>4, <1>0 DEF PutAdd, goto, counter, calls, StateTypeOK
  <2>. QED  BY <1>0, <2>1, <2>2, <2>3, OthersInCall DEF CoreInv
<1>5. CASE Get(t)
  <2>1. StateTypeOK'
    <3>1. req[t].arg \in Int /\ item(t).modified.main \in Int
      BY <1>0 DEF Requests, Revision
    <3>2. loc' \in [Threads -> Locals]
      <4>1. CASE InTree(item(t))
        <5>1. PICK v \in Int : loc' = [loc EXCEPT ![t].atRev = v]
          BY <1>5, <3>1, <4>1 DEF Get
        <5>2. [loc[t] EXCEPT !.atRev = v] \in Locals
          BY <1>0 DEF Locals
        <5>. QED  BY <1>0, <5>1, <5>2 DEF StateTypeOK
      <4>2. CASE ~InTree(item(t))
        BY <1>5, <1>0, <4>2, ZeroStates DEF Get, return, StateTypeOK
      <4>. QED  BY <4>1, <4>2
    <3>. QED  BY <1>5, <1>0, <3>2 DEF Get, return, goto, StateTypeOK, PCs, UpdateSteps
  <2>2. InCall(t)'
    BY <1>5, <1>0 DEF Get, return, goto, calls, Locals, Requests, Revision, InCall, item, StateTypeOK, UpdateSteps
  <2>3. tree' = tree /\ \A u \in Threads \ {t} : pc'[u] = pc[u] /\ req'[u] = req[u]
    BY <1>5, <1>0 DEF Get, return, goto, calls, Locals, Requests, Revision, StateTypeOK
  <2>. QED  BY <1>0, <2>1, <2>2, <2>3, OthersInCall DEF CoreInv
<1>6. CASE GetAt(t)
  <2>1. StateTypeOK'
    BY <1>6, <1>0, ZeroStates DEF GetAt, return, goto, StateTypeOK, PCs, UpdateSteps
  <2>2. InCall(t)'
    BY <1>6, <1>0 DEF GetAt, return, goto, InCall, item, StateTypeOK, UpdateSteps
  <2>3. tree' = tree /\ \A u \in Threads \ {t} : pc'[u] = pc[u] /\ req'[u] = req[u]
    BY <1>6, <1>0 DEF GetAt, return, goto, StateTypeOK
  <2>. QED  BY <1>0, <2>1, <2>2, <2>3, OthersInCall DEF CoreInv
<1>7. CASE RangeSince(t)
  <2>1. StateTypeOK'
    BY <1>7, <1>0, ZeroStates DEF RangeSince, return, goto, StateTypeOK, PCs, UpdateSteps
  <2>2. InCall(t)'
    BY <1>7, <1>0 DEF RangeSince, return, goto, InCall, item, StateTypeOK, UpdateSteps
  <2>3. tree' = tree /\ \A u \in Threads \ {t} : pc'[u] = pc[u] /\ req'[u] = req[u]
    BY <1>7, <1>0 DEF RangeSince, return, goto, StateTypeOK
  <2>. QED  BY <1>0, <2>1, <2>2, <2>3, OthersInCall DEF CoreInv
<1>8. CASE Update(t)
  <2>1. StateTypeOK'
    BY <1>8, <1>0, ZeroStates DEF Update, return, goto, calls, StateTypeOK, PCs, UpdateSteps
  <2>2. InCall(t)'
    BY <1>8, <1>0 DEF Update, return, goto, calls, InCall, item, StateTypeOK, UpdateSteps
  <2>3. tree' = tree /\ \A u \in Threads \ {t} : pc'[u] = pc[u] /\ req'[u] = req[u]
    BY <1>8, <1>0 DEF Update, return, goto, calls, StateTypeOK
  <2>. QED  BY <1>0, <2>1, <2>2, <2>3, OthersInCall DEF CoreInv
<1>9. CASE UpdateGeneration(t)
  <2>1. StateTypeOK'
    BY <1>9, <1>0, ZeroStates DEF UpdateGeneration, goto, counter, StateTypeOK, PCs, UpdateSteps
  <2>2. InCall(t)'
    BY <1>9, <1>0 DEF UpdateGeneration, goto, counter, InCall, item, StateTypeOK, UpdateSteps
  <2>3. tree' = tree /\ \A u \in Threads \ {t} : pc'[u] = pc[u] /\ req'[u] = req[u]
    BY <1>9, <1>0 DEF UpdateGeneration, goto, counter, StateTypeOK
  <2>. QED  BY <1>0, <2>1, <2>2, <2>3, OthersInCall DEF CoreInv
<1>10. CASE UpdateCompare(t)
  <2>1. StateTypeOK'
    BY <1>10, <1>0, ZeroStates DEF UpdateCompare, goto, Locals, GreaterThan, StateTypeOK, PCs, UpdateSteps
  <2>2. InCall(t)'
    BY <1>10, <1>0 DEF UpdateCompare, goto, Locals, GreaterThan, InCall, item, StateTypeOK, UpdateSteps
  <2>3. tree' = tree /\ \A u \in Threads \ {t} : pc'[u] = pc[u] /\ req'[u] = req[u]
    BY <1>10, <1>0 DEF UpdateCompare, goto, Locals, GreaterThan, StateTypeOK
  <2>. QED  BY <1>0, <2>1, <2>2, <2>3, OthersInCall DEF CoreInv
<1>11. CASE UpdateLoad(t)
  <2>1. StateTypeOK'
    BY <1>11, <1>0, ZeroStates, LiveType DEF UpdateLoad, goto, Locals, InCall, StateTypeOK, PCs, UpdateSteps
  <2>2. InCall(t)'
    BY <1>11, <1>0 DEF UpdateLoad, goto, Locals, InCall, InCall, item, StateTypeOK, UpdateSteps
  <2>3. tree' = tree /\ \A u \in Threads \ {t} : pc'[u] = pc[u] /\ req'[u] = req[u]
    BY <1>11, <1>0 DEF UpdateLoad, goto, Locals, InCall, StateTypeOK
  <2>. QED  BY <1>0, <2>1, <2>2, <2>3, OthersInCall DEF CoreInv
<1>12. CASE UpdateModified(t)
  <2>1. StateTypeOK'
    <3>1. req[t] \in Changes /\ Live(item(t)).ver \in Nat
      BY <1>12, <1>0, LiveType DEF UpdateModified, InCall, Requests, Changes, UpdateSteps
    <3>2. loc' \in [Threads -> Locals] /\ applied' \in SUBSET Changes
      <4>1. [loc[t] EXCEPT !.ver = Live(item(t)).ver] \in Locals
        BY <1>0, <3>1 DEF Locals
      <4>. QED  BY <1>12, <1>0, <3>1, <4>1, ZeroStates DEF UpdateModified, succeed, return, StateTypeOK
    <3>. QED  BY <1>12, <1>0, <3>2 DEF UpdateModified, succeed, return, goto, StateTypeOK, PCs, UpdateSteps
  <2>2. InCall(t)'
    BY <1>12, <1>0 DEF UpdateModified, succeed, return, goto, Locals, InCall, Requests, Changes, InCall, item, StateTypeOK, UpdateSteps
  <2>3. tree' = tree /\ \A u \in Threads \ {t} : pc'[u] = pc[u] /\ req'[u] = req[u]
    BY <1>12, <1>0 DEF UpdateModified, succeed, return, goto, Locals, InCall, Requests, Changes, StateTypeOK
  <2>. QED  BY <1>0, <2>1, <2>2, <2>3, OthersInCall DEF CoreInv
<1>13. CASE Return(t)
  <2>1. StateTypeOK'
    BY <1>13, <1>0, ZeroStates DEF Return, goto, StateTypeOK, PCs, UpdateSteps
  <2>2. InCall(t)'
    BY <1>13, <1>0 DEF Return, goto, InCall, item, StateTypeOK, UpdateSteps
  <2>3. tree' = tree /\ \A u \in Threads \ {t} : pc'[u] = pc[u] /\ req'[u] = req[u]
    BY <1>13, <1>0 DEF Return, goto, StateTypeOK
  <2>. QED  BY <1>0, <2>1, <2>2, <2>3, OthersInCall DEF CoreInv
<1>. QED  BY <1>1, <1>2, <1>3, <1>4, <1>5, <1>6, <1>7, <1>8, <1>9, <1>10, <1>11, <1>12, <1>13

(* The steps that change the tree keep the types. *)
LEMMA WriteCore ==
    ASSUME CoreInv, NEW t \in Threads,
           Put(t) \/ PutCreate(t) \/ Tombstone(t)
             \/ UpdateCreated(t) \/ UpdateStore(t) \/ UpdateAdvance(t)
    PROVE  CoreInv'
<1>0. /\ StateTypeOK /\ InCall(t) /\ req[t] \in Requests /\ req[t].key \in Keys
      /\ req[t].rev \in Revision /\ item(t) \in KeyIndexes /\ counter \in Nat
      /\ loc[t].newer \in BOOLEAN /\ loc[t].revs \in Seq(Revision) /\ loc[t].ver \in Nat
  BY DEF CoreInv, StateTypeOK, Requests, item, Locals, counter
<1>1. CASE Put(t)
  <2>. DEFINE ki == put(item(t), req[t].rev, 0)
  <2>1. ki \in KeyIndexes /\ InTree(ki)
    BY <1>0, PutResult DEF SameButLive
  <2>2. setItem(t, ki)
    BY <1>1 DEF Put
  <2>. HIDE DEF ki
  <2>3. tree' \in [Keys -> KeyIndexes] /\ InTree(item(t))'
    BY <1>1, <1>0, <2>1, <2>2 DEF Put, setItem, item, StateTypeOK
  <2>4. StateTypeOK'
    BY <1>1, <1>0, <2>3, ZeroStates DEF Put, calls, succeed, return, goto, InCall, StateTypeOK, PCs, UpdateSteps, Requests, Changes
  <2>5. InCall(t)' /\ \A u \in Threads \ {t} : pc'[u] = pc[u] /\ req'[u] = req[u]
    BY <1>1, <1>0, <2>3 DEF Put, calls, succeed, return, goto, InCall, StateTypeOK, UpdateSteps
  <2>. QED  BY <1>0, <2>1, <2>2, <2>4, <2>5, OthersInCall DEF CoreInv
<1>2. CASE PutCreate(t)
  <2>. DEFINE ki == put(item(t), req[t].rev, counter)
  <2>1. ki \in KeyIndexes /\ InTree(ki)
    BY <1>0, PutResult DEF SameButLive
  <2>2. setItem(t, ki)
    BY <1>2 DEF PutCreate
  <2>. HIDE DEF ki
  <2>3. tree' \in [Keys -> KeyIndexes] /\ InTree(item(t))'
    BY <1>2, <1>0, <2>1, <2>2 DEF PutCreate, setItem, item, StateTypeOK
  <2>4. StateTypeOK'
    BY <1>2, <1>0, <2>3, ZeroStates DEF PutCreate, succeed, return, goto, InCall, StateTypeOK, PCs, UpdateSteps, Requests, Changes
  <2>5. InCall(t)' /\ \A u \in Threads \ {t} : pc'[u] = pc[u] /\ req'[u] = req[u]
    BY <1>2, <1>0, <2>3 DEF PutCreate, succeed, return, goto, InCall, StateTypeOK, UpdateSteps
  <2>. QED  BY <1>0, <2>1, <2>2, <2>4, <2>5, OthersInCall DEF CoreInv
<1>3. CASE Tombstone(t) /\ startsGeneration(item(t))
  <2>1. StateTypeOK' /\ tree' = tree
    BY <1>3, <1>0, ZeroStates DEF Tombstone, return, goto, StateTypeOK, PCs
  <2>2. InCall(t)' /\ \A u \in Threads \ {t} : pc'[u] = pc[u] /\ req'[u] = req[u]
    BY <1>3, <1>0 DEF Tombstone, return, goto, InCall, StateTypeOK, UpdateSteps
  <2>. QED  BY <1>0, <2>1, <2>2, OthersInCall DEF CoreInv
<1>4. CASE Tombstone(t) /\ ~startsGeneration(item(t))
  <2>. DEFINE ki == tombstone(item(t), req[t].rev)
  <2>1. ki \in KeyIndexes /\ InTree(ki)
    BY <1>0, TombstoneResult
  <2>2. setItem(t, ki)
    BY <1>4 DEF Tombstone
  <2>. HIDE DEF ki
  <2>3. tree' \in [Keys -> KeyIndexes] /\ InTree(item(t))'
    BY <1>4, <1>0, <2>1, <2>2 DEF Tombstone, setItem, item, StateTypeOK
  <2>4. StateTypeOK'
    <3>1. req[t] \in Changes
      BY <1>4, <1>0 DEF Tombstone, calls, Requests, Changes
    <3>. QED  BY <1>4, <1>0, <2>3, <3>1, ZeroStates DEF Tombstone, succeed, return, goto, StateTypeOK, PCs
  <2>5. InCall(t)' /\ \A u \in Threads \ {t} : pc'[u] = pc[u] /\ req'[u] = req[u]
    BY <1>4, <1>0, <2>3 DEF Tombstone, calls, succeed, return, goto, InCall, StateTypeOK, UpdateSteps
  <2>. QED  BY <1>0, <2>1, <2>2, <2>4, <2>5, OthersInCall DEF CoreInv
<1>5. CASE UpdateCreated(t)
  <2>. DEFINE ki == setCreated(item(t), counter)
  <2>. DEFINE g == [Live(item(t)) EXCEPT !.created = NewRevision(counter, 0, <<>>)]
  <2>0. InTree(item(t)) /\ g \in Generation
    BY <1>5, <1>0, LiveType, ZeroTypes DEF UpdateCreated, InCall, UpdateSteps, Generation
  <2>1. ki \in KeyIndexes /\ InTree(ki)
    <3>. HIDE DEF g
    <3>1. ki = setLive(item(t), g)
      BY DEF setCreated, g
    <3>. QED  BY <1>0, <2>0, <3>1, SetLive
  <2>2. setItem(t, ki)
    BY <1>5 DEF UpdateCreated
  <2>. HIDE DEF ki
  <2>3. tree' \in [Keys -> KeyIndexes] /\ InTree(item(t))'
    BY <1>5, <1>0, <2>1, <2>2 DEF UpdateCreated, setItem, item, StateTypeOK
  <2>4. StateTypeOK'
    BY <1>5, <1>0, <2>3, ZeroStates DEF UpdateCreated, goto, InCall, StateTypeOK, PCs, UpdateSteps, Requests, Changes
  <2>5. InCall(t)' /\ \A u \in Threads \ {t} : pc'[u] = pc[u] /\ req'[u] = req[u]
    BY <1>5, <1>0, <2>3 DEF UpdateCreated, goto, InCall, StateTypeOK, UpdateSteps
  <2>. QED  BY <1>0, <2>1, <2>2, <2>4, <2>5, OthersInCall DEF CoreInv
<1>6. CASE UpdateStore(t)
  <2>. DEFINE ki == setLive(item(t), [Live(item(t)) EXCEPT
                !.revs = insertRev(loc[t].revs, req[t].rev, loc[t].newer)])
  <2>0. InTree(item(t)) /\ [Live(item(t)) EXCEPT
            !.revs = insertRev(loc[t].revs, req[t].rev, loc[t].newer)] \in Generation
    <3>1. InTree(item(t)) /\ Live(item(t)) \in Generation
      BY <1>6, <1>0, LiveType DEF UpdateStore, InCall, UpdateSteps
    <3>2. insertRev(loc[t].revs, req[t].rev, loc[t].newer) \in Seq(Revision)
      BY <1>0, InsertRev
    <3>. QED  BY <3>1, <3>2 DEF Generation
  <2>1. ki \in KeyIndexes /\ InTree(ki)
    BY <1>0, <2>0, SetLive
  <2>2. setItem(t, ki)
    BY <1>6 DEF UpdateStore
  <2>. HIDE DEF ki
  <2>3. tree' \in [Keys -> KeyIndexes] /\ InTree(item(t))'
    BY <1>6, <1>0, <2>1, <2>2 DEF UpdateStore, setItem, item, StateTypeOK
  <2>4. StateTypeOK'
    BY <1>6, <1>0, <2>3, ZeroStates DEF UpdateStore, goto, InCall, StateTypeOK, PCs, UpdateSteps, Requests, Changes
  <2>5. InCall(t)' /\ \A u \in Threads \ {t} : pc'[u] = pc[u] /\ req'[u] = req[u]
    BY <1>6, <1>0, <2>3 DEF UpdateStore, goto, InCall, StateTypeOK, UpdateSteps
  <2>. QED  BY <1>0, <2>1, <2>2, <2>4, <2>5, OthersInCall DEF CoreInv
<1>7. CASE UpdateAdvance(t)
  <2>. DEFINE ki == [setLive(item(t), [Live(item(t)) EXCEPT !.ver = loc[t].ver + 1])
                      EXCEPT !.modified = req[t].rev]
  <2>. DEFINE g   == [Live(item(t)) EXCEPT !.ver = loc[t].ver + 1]
              new == setLive(item(t), g)
  <2>0. InTree(item(t)) /\ g \in Generation
    BY <1>7, <1>0, LiveType DEF UpdateAdvance, InCall, UpdateSteps, Generation
  <2>1. ki \in KeyIndexes /\ InTree(ki)
    <3>1. ki = [new EXCEPT !.modified = req[t].rev]
      OBVIOUS
    <3>. HIDE DEF ki, g
    <3>2. new \in KeyIndexes /\ InTree(new)
      BY <1>0, <2>0, SetLive
    <3>. HIDE DEF new
    <3>. QED  BY <1>0, <3>1, <3>2 DEF KeyIndexes, InTree
  <2>2. setItem(t, ki)
    BY <1>7 DEF UpdateAdvance
  <2>. HIDE DEF ki
  <2>3. tree' \in [Keys -> KeyIndexes] /\ InTree(item(t))'
    BY <1>7, <1>0, <2>1, <2>2 DEF UpdateAdvance, setItem, item, StateTypeOK
  <2>4. StateTypeOK'
    BY <1>7, <1>0, <2>3, ZeroStates DEF UpdateAdvance, succeed, return, goto, InCall, StateTypeOK, PCs, UpdateSteps, Requests, Changes
  <2>5. InCall(t)' /\ \A u \in Threads \ {t} : pc'[u] = pc[u] /\ req'[u] = req[u]
    BY <1>7, <1>0, <2>3 DEF UpdateAdvance, succeed, return, goto, InCall, StateTypeOK, UpdateSteps
  <2>. QED  BY <1>0, <2>1, <2>2, <2>4, <2>5, OthersInCall DEF CoreInv
<1>. QED  BY <1>1, <1>2, <1>3, <1>4, <1>5, <1>6, <1>7

(* Every step keeps the types. *)
LEMMA NextCore == CoreInv /\ [Next]_indexVars => CoreInv'
<1>. SUFFICES ASSUME CoreInv, [Next]_indexVars PROVE CoreInv'
  OBVIOUS
<1>1. CASE UNCHANGED indexVars
  BY <1>1 DEF indexVars, CoreInv, StateTypeOK, InCall, item
<1>2. CASE Next
  BY <1>2, QuietCore, WriteCore DEF Next, CounterStep, IndexStep
<1>. QED  BY <1>1, <1>2

(* The types hold in every reachable state. *)
THEOREM CoreCorrect == Spec => []CoreInv
  BY InitCore, NextCore, PTL DEF Spec
=============================================================================
