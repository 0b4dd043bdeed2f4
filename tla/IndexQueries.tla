---------------------------- MODULE IndexQueries ----------------------------
(***************************************************************************)
(* The methods of treeIndex that the handlers do not call: Range, Restore, *)
(* RangeSince with an end, and Equal.  They are operators on an index      *)
(* (keys -> keyIndex), evaluated on the states that IndexClients reaches;  *)
(* each holds the lock, so that it sees one such state.  Keys are numbers  *)
(* in the order of Less, above 0; 0 is the empty key.                      *)
(***************************************************************************)
EXTENDS IndexClients

Less(a, b) == a < b


ascend(index, key, end) ==
    SetToSortSeq({k \in DOMAIN index : InTree(index[k]) /\ ~Less(k, key) /\ (end = 0 \/ Less(k, end))},
                 Less)

(* Range with an end: the keys found, and their revisions. *)
RangeTo(index, key, end, atRev) ==
    LET keys == SelectSeq(ascend(index, key, end), LAMBDA k : ~get(index[k], atRev).err)
    IN  [i \in 1..Len(keys) |-> [key |-> keys[i], rev |-> get(index[keys[i]], atRev).rev]]

(* RangeSince with an end.  sort.Sort may order equal revisions anyhow;    *)
(* the order here is one of those.                                         *)
RangeSinceUnsorted(index, key, end, from) ==
    LET keys == ascend(index, key, end)
    IN  FlattenSeq([i \in 1..Len(keys) |-> since(index[keys[i]], from)])

LessRevision(a, b) == GreaterThan(b, a)

RangeSinceEnd(index, key, end, from) ==
    SortSeq(RangeSinceUnsorted(index, key, end, from), LessRevision)

-----------------------------------------------------------------------------
(* restore, on a keyIndex without generations, and Restore. *)

restoreFirst(created, modified, ver) ==
    [modified |-> modified, generations |-> <<[ver |-> 1, created |-> created, revs |-> <<modified>>]>>]

restore(created, modified, ver) ==
    [modified |-> modified, generations |-> <<[ver |-> ver, created |-> created, revs |-> <<modified>>]>>]

Restore(index, key, created, modified, ver) ==
    [index EXCEPT ![key] =
        IF InTree(@) THEN put(@, modified, 0) ELSE restore(created, modified, ver)]

-----------------------------------------------------------------------------
(* equal of generation and of keyIndex, and Equal. *)

generationEqual(a, b) ==
    /\ a.ver = b.ver
    /\ Len(a.revs) = Len(b.revs)
    /\ \A i \in 1..Len(a.revs) :
        ~(a.revs[i].main # b.revs[i].main /\ a.revs[i].sub # b.revs[i].sub)


equal(a, b) ==
    /\ a.modified.main = b.modified.main
    /\ a.modified.sub = b.modified.sub
    /\ Len(a.generations) = Len(b.generations)
    /\ \A i \in 1..Len(a.generations) : generationEqual(a.generations[i], b.generations[i])

Equal(a, b) ==
    LET in(index) == {k \in DOMAIN index : InTree(index[k])}
    IN  Cardinality(in(a)) = Cardinality(in(b)) /\ \A k \in in(a) : equal(a[k], b[k])

-----------------------------------------------------------------------------
(* Properties *)


(* "all Revisions from key(including) to end(excluding) at or after the    *)
(* given rev ... sorted in the order of Revision": called by one thread at *)
(* a time RangeSince returns that, over all keys and generations with an   *)
(* end, and for a single key without one, where the code does not sort.    *)
RangeSinceSorted ==
    CanLock /\ ChangesDiffer => \A key \in Keys, end \in Keys \cup {0}, from \in 1..counter :
        LET revs == RangeSinceEnd(tree, key, end, from)
            in   == {k \in Keys : k >= key /\ (end = 0 \/ k < end)}
            inOrder(r) == IsSorted(r, LAMBDA a, b : ~GreaterThan(a, b))
        IN  /\ inOrder(revs)
            /\ ToSet(revs) = {r \in UNION {Revs(tree[k]) : k \in in} : r.main >= from}
            /\ InTree(tree[key]) => inOrder(since(tree[key], from))

(* A key that is restored from what Get answered, in an index that does    *)
(* not have it, answers Get the same from that revision on, with the same  *)
(* creation and version, and goes on answering the same after a change or  *)
(* after it is restored once more by a newer revision.                     *)
RestoredAnswersSame ==
    CanLock => \A k \in Keys :
        LET found == get(tree[k], tree[k].modified.main)
            empty == [j \in Keys |-> NewKeyIndex]
            again == Restore(empty, k, found.created, found.rev, found.ver)
            newer == NewRevision(counter + 1, 0, CHOOSE n \in NodeLists : TRUE)
            answers(index) ==
                <<get(index[k], counter), get(put(index[k], newer, 0), counter + 1),
                  get(Restore(index, k, NoRev, newer, 0)[k], counter + 1),
                  get(tombstone(index[k], newer), counter + 1)>>
        IN  ~startsGeneration(tree[k]) => answers(tree) = answers(again)

(* The index after one or two more changes of k, in order or not. *)
changed(k) ==
    LET r(n) == NewRevision(counter + n, 0, CHOOSE nodes \in NodeLists : TRUE)
        with(ki) == [tree EXCEPT ![k] = ki]
    IN  {tree, with(put(tree[k], r(1), 0)), with(put(tree[k], r(2), 0)),
         with(put(put(tree[k], r(1), 0), r(2), 0)), with(put(put(tree[k], r(2), 0), r(1), 0)),
         with(tombstone(put(tree[k], r(1), 0), r(2)))}

=============================================================================
