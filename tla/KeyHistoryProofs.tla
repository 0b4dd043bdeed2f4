--------------------------- MODULE KeyHistoryProofs ---------------------------
(***************************************************************************)
(* What put and tombstone preserve of the history of a key, whatever the   *)
(* order in which revisions reach them.                                    *)
(***************************************************************************)
EXTENDS KeyIndexProofs

(* Revision r is at position j of generation i of ki. *)
At(ki, i, j, r) ==
    /\ i \in 1..Len(ki.generations) /\ j \in 1..Len(ki.generations[i].revs)
    /\ ki.generations[i].revs[j] = r

Holds(ki, r) == \E i, j \in Nat : At(ki, i, j, r)

(* The keyIndex part of NeverEmpty. *)
Filled(ki) ==
    InTree(ki) =>
        /\ ~isEmpty(ki)
        /\ \A i \in 1..(Len(ki.generations) - 1) : ki.generations[i].revs # <<>>

(* The revisions of a sequence are in order. *)
InOrder(revs) ==
    \A a, b \in 1..Len(revs) : a < b => ~GreaterThan(revs[a], revs[b])

(* Each generation is in order and modified is the newest revision. *)
Ordered(ki) ==
    /\ \A i \in 1..Len(ki.generations) : InOrder(ki.generations[i].revs)
    /\ \A r \in Revision : Holds(ki, r) => ~GreaterThan(r, ki.modified)
    /\ IF InTree(ki) THEN Holds(ki, ki.modified) ELSE ki.modified.main = 0 /\ ki.modified.sub = 0

(* No tombstone is in the live generation. *)
Alive(ki) ==
    \A j \in 1..Len(liveRevs(ki)) : ~IsTombstone(liveRevs(ki)[j])

-----------------------------------------------------------------------------
(* What put adds to has its type, in the tree or not. *)
LEMMA LiveRevsType ==
    ASSUME NEW ki \in KeyIndexes
    PROVE  liveRevs(ki) \in Seq(Revision) /\ Len(liveRevs(ki)) \in Nat
<1>1. liveRevs(ki) \in Seq(Revision)
  BY LiveType DEF liveRevs
<1>. QED  BY <1>1

(* Where put leaves a revision, in terms of the generations before it. *)
LEMMA PutGenerations ==
    ASSUME NEW ki \in KeyIndexes, NEW rev \in Revision, NEW created \in Nat
    PROVE  LET new == put(ki, rev, created)
               n   == Len(new.generations)
           IN  /\ n \in Nat \ {0} /\ n = IF InTree(ki) THEN Len(ki.generations) ELSE 1
               /\ \A i \in 1..(n - 1) : new.generations[i] = ki.generations[i]
               /\ new.generations[n].revs
                      = insertRev(liveRevs(ki), rev, GreaterThan(rev, ki.modified))
               /\ InTree(ki) => liveRevs(ki) = ki.generations[n].revs
<1>. DEFINE new == put(ki, rev, created)
            n   == Len(new.generations)
<1>1. /\ SameButLive(new, ki, IF GreaterThan(rev, ki.modified) THEN rev ELSE ki.modified)
      /\ Live(new).revs = insertRev(liveRevs(ki), rev, GreaterThan(rev, ki.modified))
  BY PutResult
<1>. HIDE DEF new
<1>2. n \in Nat \ {0}
  BY <1>1, LiveType DEF SameButLive
<1>. QED  BY <1>1, <1>2 DEF SameButLive, Live, liveRevs, new

(* put leaves no generation empty that was not, and its own is not. *)
LEMMA PutFilled ==
    ASSUME NEW ki \in KeyIndexes, NEW rev \in Revision, NEW created \in Nat, Filled(ki)
    PROVE  Filled(put(ki, rev, created)) /\ Live(put(ki, rev, created)).revs # <<>>
<1>. DEFINE new  == put(ki, rev, created)
            n    == Len(new.generations)
            revs == insertRev(liveRevs(ki), rev, GreaterThan(rev, ki.modified))
<1>1. /\ n \in Nat \ {0} /\ n = IF InTree(ki) THEN Len(ki.generations) ELSE 1
      /\ \A i \in 1..(n - 1) : new.generations[i] = ki.generations[i]
      /\ new.generations[n].revs = revs
  BY PutGenerations
<1>2. revs # <<>>
  <2>1. GreaterThan(rev, ki.modified) \in BOOLEAN
    BY DEF GreaterThan
  <2>2. revs \in Seq(Revision) /\ \E p \in 0..Len(liveRevs(ki)) : Inserted(revs, liveRevs(ki), rev, p)
    BY <2>1, LiveRevsType, InsertRev
  <2>. HIDE DEF revs
  <2>3. Len(revs) = Len(liveRevs(ki)) + 1
    BY <2>2 DEF Inserted
  <2>. QED  BY <2>2, <2>3, LiveRevsType
<1>. HIDE DEF new, revs
<1>3. ~isEmpty(new) /\ Live(new).revs # <<>>
  BY <1>1, <1>2 DEF isEmpty, Live
<1>4. \A i \in 1..(n - 1) : new.generations[i].revs # <<>>
  BY <1>1 DEF Filled
<1>. QED  BY <1>3, <1>4 DEF Filled, new

(* tombstone closes a generation that is not empty. *)
LEMMA TombstoneFilled ==
    ASSUME NEW ki \in KeyIndexes, NEW rev \in Revision, Filled(ki)
    PROVE  Filled(tombstone(ki, rev))
<1>. DEFINE new    == tombstone(ki, rev)
            closed == put(ki, rev, 0)
            n      == Len(closed.generations)
<1>1. /\ Len(new.generations) = n + 1
      /\ \A i \in 1..n : new.generations[i] = closed.generations[i]
  BY TombstoneResult
<1>2. n \in Nat \ {0} /\ Filled(closed) /\ InTree(closed) /\ closed.generations[n].revs # <<>>
  BY PutFilled, PutGenerations, PutResult DEF Live, SameButLive
<1>. HIDE DEF new, closed
<1>3. \A i \in 1..n : closed.generations[i].revs # <<>>
  BY <1>2 DEF Filled
<1>4. Len(new.generations) # 1
  BY <1>1, <1>2
<1>. QED  BY <1>1, <1>2, <1>3, <1>4 DEF Filled, isEmpty, new

-----------------------------------------------------------------------------
(* GreaterThan is a strict order of the pairs (main, sub). *)
LEMMA GreaterThanOrder ==
    ASSUME NEW a \in Revision, NEW b \in Revision, NEW c \in Revision
    PROVE  /\ ~GreaterThan(a, a)
           /\ GreaterThan(a, b) => ~GreaterThan(b, a)
           /\ ~GreaterThan(a, b) /\ ~GreaterThan(b, c) => ~GreaterThan(a, c)
           /\ GreaterThan(a, b) /\ ~GreaterThan(c, b) => GreaterThan(a, c)
           /\ ~GreaterThan(a, b) => a.main <= b.main
<1>1. /\ a.main \in Nat /\ b.main \in Nat /\ c.main \in Nat
      /\ a.sub \in Nat /\ b.sub \in Nat /\ c.sub \in Nat
  BY DEF Revision
<1>. QED  BY <1>1 DEF GreaterThan

(* insertRev keeps a sequence in order, wherever rev belongs, if newer is  *)
(* only passed for a revision that is not older than any of it.            *)
LEMMA InsertInOrder ==
    ASSUME NEW revs \in Seq(Revision), NEW rev \in Revision, NEW newer \in BOOLEAN,
           InOrder(revs),
           newer => \A i \in 1..Len(revs) : ~GreaterThan(revs[i], rev)
    PROVE  InOrder(insertRev(revs, rev, newer))
<1>. DEFINE new == insertRev(revs, rev, newer)
<1>1. PICK p \in 0..Len(revs) :
        /\ Inserted(new, revs, rev, p)
        /\ newer => p = Len(revs)
        /\ ~newer => /\ p # 0 => GreaterThan(rev, revs[p])
                     /\ \A i \in (p + 1)..Len(revs) : ~GreaterThan(rev, revs[i])
  BY InsertRev
<1>2. Len(revs) \in Nat /\ \A i \in 1..Len(revs) : revs[i] \in Revision
  OBVIOUS
<1>3. \A i \in 1..p : ~GreaterThan(revs[i], rev)
  <2>1. CASE newer
    BY <1>1, <1>2, <2>1
  <2>2. CASE ~newer
    <3>. SUFFICES ASSUME NEW i \in 1..p PROVE ~GreaterThan(revs[i], rev)
      OBVIOUS
    <3>1. p \in 1..Len(revs) /\ i \in 1..Len(revs) /\ GreaterThan(rev, revs[p])
      BY <1>1, <1>2, <2>2
    <3>2. ~GreaterThan(revs[i], revs[p])
      <4>1. CASE i < p
        BY <3>1, <4>1 DEF InOrder
      <4>2. CASE i = p
        BY <1>2, <3>1, <4>2, GreaterThanOrder
      <4>. QED  BY <3>1, <4>1, <4>2
    <3>3. ~GreaterThan(revs[p], rev)
      BY <1>2, <3>1, GreaterThanOrder
    <3>. QED  BY <1>2, <3>1, <3>2, <3>3, GreaterThanOrder
  <2>. QED  BY <2>1, <2>2
<1>4. \A i \in (p + 1)..Len(revs) : ~GreaterThan(rev, revs[i])
  BY <1>1, <1>2
<1>. HIDE DEF new
<1>5. /\ Len(new) = Len(revs) + 1
      /\ \A i \in 1..p : i \in 1..Len(revs) /\ new[i] = revs[i]
      /\ new[p + 1] = rev
      /\ \A i \in (p + 2)..Len(new) : i - 1 \in (p + 1)..Len(revs) /\ new[i] = revs[i - 1]
  BY <1>1, <1>2 DEF Inserted
<1>6. SUFFICES ASSUME NEW a \in 1..Len(new), NEW b \in 1..Len(new), a < b
               PROVE  ~GreaterThan(new[a], new[b])
  BY DEF InOrder, new
<1>7. CASE b <= p
  BY <1>5, <1>6, <1>7, <1>2 DEF InOrder
<1>8. CASE b = p + 1
  BY <1>3, <1>5, <1>6, <1>8
<1>9. CASE b > p + 1 /\ a = p + 1
  BY <1>4, <1>5, <1>6, <1>9, <1>2
<1>10. CASE b > p + 1 /\ a <= p
  <2>1. new[a] = revs[a] /\ new[b] = revs[b - 1] /\ a < b - 1
        /\ a \in 1..Len(revs) /\ b - 1 \in 1..Len(revs)
    BY <1>5, <1>10, <1>2
  <2>. QED  BY <2>1 DEF InOrder
<1>11. CASE b > p + 1 /\ a > p + 1
  <2>1. new[a] = revs[a - 1] /\ new[b] = revs[b - 1] /\ a - 1 < b - 1
        /\ a - 1 \in 1..Len(revs) /\ b - 1 \in 1..Len(revs)
    BY <1>5, <1>6, <1>11, <1>2
  <2>. QED  BY <2>1 DEF InOrder
<1>. QED  BY <1>7, <1>8, <1>9, <1>10, <1>11, <1>2

Has(revs, r) == \E j \in 1..Len(revs) : revs[j] = r

(* insertRev adds rev and keeps every other revision. *)
LEMMA InsertKeeps ==
    ASSUME NEW revs \in Seq(Revision), NEW rev \in Revision, NEW newer \in BOOLEAN, NEW r
    PROVE  Has(insertRev(revs, rev, newer), r) <=> r = rev \/ Has(revs, r)
<1>. DEFINE new == insertRev(revs, rev, newer)
<1>1. PICK p \in 0..Len(revs) : Inserted(new, revs, rev, p)
  BY InsertRev
<1>. HIDE DEF new
<1>2. Len(revs) \in Nat
  OBVIOUS
<1>3. ASSUME NEW j \in 1..Len(new), new[j] = r
      PROVE  r = rev \/ \E i \in 1..Len(revs) : revs[i] = r
  <2>1. CASE j <= p
    BY <1>1, <1>2, <1>3, <2>1 DEF Inserted
  <2>2. CASE j = p + 1
    BY <1>1, <1>2, <1>3, <2>2 DEF Inserted
  <2>3. CASE j > p + 1
    <3>1. j - 1 \in 1..Len(revs) /\ new[j] = revs[j - 1]
      BY <1>1, <1>2, <1>3, <2>3 DEF Inserted
    <3>. QED  BY <1>3, <3>1
  <2>. QED  BY <1>2, <2>1, <2>2, <2>3
<1>4. p + 1 \in 1..Len(new) /\ new[p + 1] = rev
  BY <1>1, <1>2 DEF Inserted
<1>5. ASSUME NEW j \in 1..Len(revs), revs[j] = r
      PROVE  \E i \in 1..Len(new) : new[i] = r
  <2>1. CASE j <= p
    BY <1>1, <1>2, <1>5, <2>1 DEF Inserted
  <2>2. CASE j > p
    <3>1. j + 1 \in 1..Len(new) /\ new[j + 1] = revs[(j + 1) - 1]
      BY <1>1, <1>2, <2>2 DEF Inserted
    <3>. QED  BY <1>5, <3>1
  <2>. QED  BY <1>2, <2>1, <2>2
<1>. QED  BY <1>3, <1>4, <1>5 DEF Has, new

(* put adds rev to the revisions of the key, and keeps every other one. *)
LEMMA PutHolds ==
    ASSUME NEW ki \in KeyIndexes, NEW rev \in Revision, NEW created \in Nat, NEW r
    PROVE  Holds(put(ki, rev, created), r) <=> Holds(ki, r) \/ r = rev
<1>. DEFINE new  == put(ki, rev, created)
            n    == Len(new.generations)
            revs == insertRev(liveRevs(ki), rev, GreaterThan(rev, ki.modified))
<1>1. /\ n \in Nat \ {0} /\ n = IF InTree(ki) THEN Len(ki.generations) ELSE 1
      /\ \A i \in 1..(n - 1) : new.generations[i] = ki.generations[i]
      /\ new.generations[n].revs = revs
      /\ InTree(ki) => liveRevs(ki) = ki.generations[n].revs
      /\ ~InTree(ki) => liveRevs(ki) = <<>> /\ Len(ki.generations) = 0
  BY PutGenerations DEF liveRevs, InTree
<1>2. Has(revs, r) <=> r = rev \/ Has(liveRevs(ki), r)
  <2>1. GreaterThan(rev, ki.modified) \in BOOLEAN
    BY DEF GreaterThan
  <2>. QED  BY <2>1, LiveRevsType, InsertKeeps
<1>. HIDE DEF new, revs
<1>3. ASSUME Holds(new, r) PROVE Holds(ki, r) \/ r = rev
  <2>1. PICK i, j \in Nat : At(new, i, j, r)
    BY <1>3 DEF Holds
  <2>2. CASE i = n
    <3>1. r = rev \/ Has(liveRevs(ki), r)
      BY <1>1, <1>2, <2>1, <2>2 DEF At, Has
    <3>2. ASSUME NEW m \in 1..Len(liveRevs(ki)), liveRevs(ki)[m] = r PROVE At(ki, n, m, r)
      BY <1>1, <3>2 DEF At
    <3>. QED  BY <1>1, <3>1, <3>2 DEF Holds, Has
  <2>3. CASE i # n
    <3>1. At(ki, i, j, r)
      BY <1>1, <2>1, <2>3 DEF At
    <3>. QED  BY <3>1 DEF Holds
  <2>. QED  BY <2>2, <2>3
<1>4. ASSUME Has(revs, r) PROVE Holds(new, r)
  <2>1. PICK m \in 1..Len(revs) : revs[m] = r
    BY <1>4 DEF Has
  <2>2. At(new, n, m, r) /\ n \in Nat /\ m \in Nat
    BY <1>1, <2>1 DEF At
  <2>. QED  BY <2>2 DEF Holds
<1>5. ASSUME Holds(ki, r) PROVE Holds(new, r)
  <2>1. PICK i, j \in Nat : At(ki, i, j, r)
    BY <1>5 DEF Holds
  <2>2. CASE i = n
    <3>1. InTree(ki)
      BY <1>1, <2>1 DEF At
    <3>2. Has(liveRevs(ki), r)
      BY <1>1, <2>1, <2>2, <3>1 DEF At, Has
    <3>. QED  BY <1>2, <1>4, <3>2
  <2>3. CASE i # n
    <3>1. At(new, i, j, r)
      BY <1>1, <2>1, <2>3 DEF At
    <3>. QED  BY <3>1 DEF Holds
  <2>. QED  BY <2>2, <2>3
<1>. QED  BY <1>2, <1>3, <1>4, <1>5 DEF new

(* put keeps each generation in order, and modified the newest revision. *)
LEMMA PutOrdered ==
    ASSUME NEW ki \in KeyIndexes, NEW rev \in Revision, NEW created \in Nat,
           Ordered(ki), rev.main # 0
    PROVE  Ordered(put(ki, rev, created))
<1>. DEFINE new   == put(ki, rev, created)
            n     == Len(new.generations)
            newer == GreaterThan(rev, ki.modified)
            revs  == insertRev(liveRevs(ki), rev, newer)
<1>1. /\ n \in Nat \ {0} /\ n = IF InTree(ki) THEN Len(ki.generations) ELSE 1
      /\ \A i \in 1..(n - 1) : new.generations[i] = ki.generations[i]
      /\ new.generations[n].revs = revs
      /\ InTree(ki) => liveRevs(ki) = ki.generations[n].revs
      /\ ~InTree(ki) => liveRevs(ki) = <<>> /\ Len(ki.generations) = 0
  BY PutGenerations DEF liveRevs, InTree
<1>2. InTree(new) /\ new.modified = IF newer THEN rev ELSE ki.modified
  BY PutResult DEF SameButLive
<1>3. /\ liveRevs(ki) \in Seq(Revision) /\ newer \in BOOLEAN /\ ki.modified \in Revision
      /\ \A j \in 1..Len(liveRevs(ki)) : liveRevs(ki)[j] \in Revision
  BY LiveRevsType DEF GreaterThan, KeyIndexes
<1>4. \A r \in Revision : Holds(new, r) <=> Holds(ki, r) \/ r = rev
  BY PutHolds
<1>5. InOrder(revs)
  <2>1. InOrder(liveRevs(ki))
    <3>1. CASE InTree(ki)
      <4>1. n \in 1..Len(ki.generations) /\ liveRevs(ki) = ki.generations[n].revs
        BY <1>1, <3>1
      <4>. HIDE DEF n
      <4>. QED  BY <4>1 DEF Ordered
    <3>2. CASE ~InTree(ki)
      BY <1>1, <3>2 DEF InOrder
    <3>. QED  BY <3>1, <3>2
  <2>2. ASSUME newer, NEW j \in 1..Len(liveRevs(ki)) PROVE ~GreaterThan(liveRevs(ki)[j], rev)
    <3>1. At(ki, n, j, liveRevs(ki)[j])
      BY <1>1 DEF At
    <3>2. ~GreaterThan(liveRevs(ki)[j], ki.modified)
      BY <1>1, <1>3, <3>1 DEF Holds, Ordered
    <3>3. ~GreaterThan(ki.modified, rev)
      BY <1>3, <2>2, GreaterThanOrder
    <3>. QED  BY <1>3, <3>2, <3>3, GreaterThanOrder
  <2>. HIDE DEF newer
  <2>. QED  BY <1>3, <2>1, <2>2, InsertInOrder
<1>. HIDE DEF new, revs
<1>6. \A i \in 1..n : InOrder(new.generations[i].revs)
  BY <1>1, <1>5 DEF Ordered
<1>7. ASSUME NEW r \in Revision, Holds(new, r) PROVE ~GreaterThan(r, new.modified)
  <2>1. CASE Holds(ki, r)
    <3>1. ~GreaterThan(r, ki.modified)
      BY <2>1 DEF Ordered
    <3>2. newer => ~GreaterThan(ki.modified, rev)
      BY <1>3, GreaterThanOrder
    <3>. QED  BY <1>2, <1>3, <3>1, <3>2, GreaterThanOrder
  <2>2. CASE r = rev
    BY <1>2, <1>3, <2>2, GreaterThanOrder
  <2>. QED  BY <1>4, <1>7, <2>1, <2>2
<1>8. Holds(new, new.modified)
  <2>1. CASE newer
    BY <1>2, <1>4, <2>1
  <2>2. CASE ~newer
    <3>1. InTree(ki)
      BY <2>2 DEF Ordered, GreaterThan, Revision
    <3>. QED  BY <1>2, <1>3, <1>4, <2>2, <3>1 DEF Ordered
  <2>. QED  BY <2>1, <2>2
<1>. QED  BY <1>2, <1>6, <1>7, <1>8 DEF Ordered, new

(* tombstone adds rev, too, and keeps every other revision. *)
LEMMA TombstoneHolds ==
    ASSUME NEW ki \in KeyIndexes, NEW rev \in Revision, NEW r
    PROVE  Holds(tombstone(ki, rev), r) <=> Holds(ki, r) \/ r = rev
<1>. DEFINE new    == tombstone(ki, rev)
            closed == put(ki, rev, 0)
            n      == Len(closed.generations)
<1>1. /\ Len(new.generations) = n + 1 /\ new.generations[n + 1].revs = <<>>
      /\ \A i \in 1..n : new.generations[i] = closed.generations[i]
  BY TombstoneResult DEF Live, NewGeneration
<1>2. n \in Nat /\ (Holds(closed, r) <=> Holds(ki, r) \/ r = rev)
  BY PutHolds, PutGenerations
<1>. HIDE DEF new, closed
<1>3. ASSUME NEW i \in Nat, NEW j \in Nat PROVE At(new, i, j, r) <=> At(closed, i, j, r)
  <2>1. CASE i = n + 1
    <3>1. Len(new.generations[i].revs) = 0
      BY <1>1, <2>1
    <3>. QED  BY <1>2, <2>1, <3>1 DEF At
  <2>2. CASE i # n + 1
    <3>1. i \in 1..(n + 1) <=> i \in 1..n
      BY <1>2, <2>2
    <3>2. i \in 1..n => new.generations[i] = closed.generations[i]
      BY <1>1
    <3>. QED  BY <1>1, <3>1, <3>2 DEF At
  <2>. QED  BY <2>1, <2>2
<1>. QED  BY <1>2, <1>3 DEF Holds, new

(* tombstone keeps each generation in order, and modified the newest. *)
LEMMA TombstoneOrdered ==
    ASSUME NEW ki \in KeyIndexes, NEW rev \in Revision, Ordered(ki), rev.main # 0
    PROVE  Ordered(tombstone(ki, rev))
<1>. DEFINE new    == tombstone(ki, rev)
            closed == put(ki, rev, 0)
            n      == Len(closed.generations)
<1>1. /\ Len(new.generations) = n + 1 /\ new.generations[n + 1].revs = <<>>
      /\ \A i \in 1..n : new.generations[i] = closed.generations[i]
      /\ InTree(new) /\ new.modified = closed.modified
  BY TombstoneResult DEF Live, NewGeneration
<1>2. /\ n \in Nat /\ Ordered(closed) /\ InTree(closed)
      /\ closed.modified \in Revision
  BY PutOrdered, PutGenerations, PutResult DEF SameButLive, KeyIndexes
<1>3. \A r \in Revision : Holds(new, r) <=> Holds(closed, r)
  BY TombstoneHolds, PutHolds
<1>. HIDE DEF new, closed
<1>4. \A i \in 1..(n + 1) : InOrder(new.generations[i].revs)
  <2>1. InOrder(<<>>)
    BY DEF InOrder
  <2>2. \A i \in 1..n : InOrder(closed.generations[i].revs)
    BY <1>2 DEF Ordered
  <2>. QED  BY <1>1, <1>2, <2>1, <2>2
<1>. QED  BY <1>1, <1>2, <1>3, <1>4 DEF Ordered, new

(* A put of a live revision keeps tombstones out of the live generation;   *)
(* tombstone leaves an empty one.                                          *)
LEMMA StaysAlive ==
    ASSUME NEW ki \in KeyIndexes, NEW rev \in Revision, NEW created \in Nat, Alive(ki)
    PROVE  /\ ~IsTombstone(rev) => Alive(put(ki, rev, created))
           /\ Alive(tombstone(ki, rev))
<1>1. ASSUME ~IsTombstone(rev) PROVE Alive(put(ki, rev, created))
  <2>. DEFINE new  == put(ki, rev, created)
              revs == insertRev(liveRevs(ki), rev, GreaterThan(rev, ki.modified))
  <2>1. liveRevs(new) = revs
    BY PutResult DEF SameButLive, liveRevs
  <2>2. \A r : Has(revs, r) <=> r = rev \/ Has(liveRevs(ki), r)
    <3>1. GreaterThan(rev, ki.modified) \in BOOLEAN
      BY DEF GreaterThan
    <3>. QED  BY <3>1, LiveRevsType, InsertKeeps
  <2>. HIDE DEF new, revs
  <2>3. \A j \in 1..Len(revs) : revs[j] = rev \/ \E i \in 1..Len(liveRevs(ki)) : revs[j] = liveRevs(ki)[i]
    BY <2>2 DEF Has
  <2>. QED  BY <1>1, <2>1, <2>3 DEF Alive, new
<1>2. Alive(tombstone(ki, rev))
  BY TombstoneResult DEF Alive, liveRevs, NewGeneration
<1>. QED  BY <1>1, <1>2

-----------------------------------------------------------------------------
(* get answers with an error or a revision, for every keyIndex. *)
LEMMA GetType ==
    ASSUME NEW ki \in KeyIndexes, NEW atRev \in Int
    PROVE  get(ki, atRev).err \in BOOLEAN /\ get(ki, atRev).rev \in Revision
<1>. DEFINE gi == findGeneration(ki, atRev)
            g  == ki.generations[gi]
            w  == walk(g, atRev)
<1>1. CASE gi = 0 \/ w = 0
  <2>1. get(ki, atRev) = NotFound
    BY <1>1 DEF get
  <2>. QED  BY <2>1, ZeroTypes DEF NotFound
<1>2. CASE gi # 0 /\ w # 0
  <2>1. Len(ki.generations) \in Nat /\ ki.generations \in Seq(Generation)
    BY DEF KeyIndexes
  <2>2. gi \in 1..Len(ki.generations)
    <3>. DEFINE n       == Len(ki.generations)
                gone(i) == i # n /\ tomb(ki.generations[i]) <= atRev
                stops   == {i \in 1..n : /\ ki.generations[i].revs # <<>>
                                         /\ gone(i) \/ ki.generations[i].revs[1].main <= atRev}
    <3>1. gi = 0 \/ gi = lastOf(stops)
      BY DEF findGeneration
    <3>2. stops \in SUBSET (1..n)
      OBVIOUS
    <3>. HIDE DEF stops
    <3>. QED  BY <1>2, <2>1, <3>1, <3>2, LastOf
  <2>3. g.revs \in Seq(Revision) /\ Len(g.revs) \in Nat
    <3>1. g \in Generation
      BY <2>1, <2>2
    <3>. QED  BY <3>1 DEF Generation
  <2>4. w \in 1..Len(g.revs)
    <3>. DEFINE upTo == {i \in 1..Len(g.revs) : g.revs[i].main <= atRev}
    <3>1. w = lastOf(upTo) /\ upTo \in SUBSET (1..Len(g.revs))
      BY DEF walk
    <3>. HIDE DEF upTo
    <3>. QED  BY <1>2, <2>3, <3>1, LastOf
  <2>5. get(ki, atRev).err = FALSE /\ get(ki, atRev).rev = g.revs[w]
    BY <1>2 DEF get
  <2>6. g.revs[w] \in Revision
    BY <2>3, <2>4
  <2>. HIDE DEF g, w
  <2>. QED  BY <2>5, <2>6
<1>. QED  BY <1>1, <1>2

(* The generations of a keyIndex have their types. *)
LEMMA GenerationType ==
    ASSUME NEW ki \in KeyIndexes, NEW i \in 1..Len(ki.generations)
    PROVE  LET revs == ki.generations[i].revs
           IN  /\ revs \in Seq(Revision) /\ Len(revs) \in Nat
               /\ revs # <<>> => Len(revs) \in 1..Len(revs)
               /\ \A j \in 1..Len(revs) : revs[j] \in Revision
<1>1. ki.generations[i] \in Generation
  BY DEF KeyIndexes
<1>2. ki.generations[i].revs \in Seq(Revision)
  BY <1>1 DEF Generation
<1>. QED  BY <1>2

(* No revision of the key is newer than modified. *)
LEMMA UpToModified ==
    ASSUME NEW ki \in KeyIndexes, Ordered(ki), NEW i \in 1..Len(ki.generations),
           NEW j \in 1..Len(ki.generations[i].revs)
    PROVE  ki.generations[i].revs[j].main <= ki.modified.main
<1>. DEFINE r == ki.generations[i].revs[j]
<1>1. r \in Revision /\ ki.modified \in Revision /\ i \in Nat /\ j \in Nat
  <2>1. r \in Revision /\ Len(ki.generations[i].revs) \in Nat
    BY GenerationType
  <2>2. ki.modified \in Revision /\ ki.generations \in Seq(Generation)
    BY DEF KeyIndexes
  <2>3. i \in Nat
    BY <2>2
  <2>4. j \in Nat
    BY <2>1
  <2>. QED  BY <2>1, <2>2, <2>3, <2>4
<1>2. At(ki, i, j, r)
  BY DEF At
<1>. HIDE DEF r
<1>3. ~GreaterThan(r, ki.modified)
  BY <1>1, <1>2 DEF Ordered, Holds
<1>. QED  BY <1>1, <1>3, GreaterThanOrder DEF r

(* get at modified finds the last revision of the live generation. *)
LEMMA GetNewest ==
    ASSUME NEW ki \in KeyIndexes, InTree(ki), Ordered(ki), Filled(ki)
    PROVE  LET found == get(ki, ki.modified.main)
           IN  IF Live(ki).revs = <<>> THEN found.err
               ELSE ~found.err /\ found.rev = Live(ki).revs[Len(Live(ki).revs)]
<1>. DEFINE atRev   == ki.modified.main
            n       == Len(ki.generations)
            gone(i) == i # n /\ tomb(ki.generations[i]) <= atRev
            stops   == {i \in 1..n : /\ ki.generations[i].revs # <<>>
                                     /\ gone(i) \/ ki.generations[i].revs[1].main <= atRev}
            last    == lastOf(stops)
            gi      == findGeneration(ki, atRev)
<1>1. n \in Nat \ {0} /\ n \in 1..n /\ Live(ki) = ki.generations[n]
  BY LiveType DEF Live
<1>2. gi = (IF stops = {} \/ gone(last) THEN 0 ELSE last)
  BY DEF findGeneration
<1>3. stops \in SUBSET (1..n) /\ (n \in stops => Live(ki).revs # <<>>)
  BY <1>1
<1>4. ASSUME NEW i \in 1..(n - 1) PROVE gone(i)
  <2>1. i \in 1..n /\ i # n /\ ki.generations[i].revs # <<>>
    BY <1>1 DEF Filled
  <2>2. Len(ki.generations[i].revs) \in 1..Len(ki.generations[i].revs)
    BY <2>1, GenerationType
  <2>3. tomb(ki.generations[i]) <= atRev
    BY <2>1, <2>2, UpToModified DEF tomb
  <2>. QED  BY <2>1, <2>3
<1>5. ASSUME Live(ki).revs # <<>> PROVE n \in stops
  <2>1. 1 \in 1..Len(ki.generations[n].revs)
    BY <1>1, <1>5, GenerationType
  <2>2. ki.generations[n].revs[1].main <= atRev
    BY <1>1, <2>1, UpToModified
  <2>. QED  BY <1>1, <1>5, <2>2
<1>6. ~gone(n)
  OBVIOUS
<1>7. last \in {0} \cup stops /\ \A y \in stops : y <= last
  <2>. HIDE DEF stops
  <2>. QED  BY <1>1, <1>3, LastOf
<1>. HIDE DEF stops, gone, last, n
<1>8. CASE Live(ki).revs = <<>>
  <2>1. ASSUME stops # {} PROVE last \in 1..(n - 1)
    <3>1. PICK y \in stops : y \in 1..n /\ y <= last
      BY <1>3, <1>7, <2>1
    <3>2. last # 0
      BY <1>1, <3>1
    <3>3. last \in stops /\ last \in 1..n
      BY <1>3, <1>7, <3>2
    <3>4. last # n
      BY <1>3, <1>8, <3>3
    <3>. QED  BY <1>1, <3>3, <3>4
  <2>2. gi = 0
    BY <1>2, <1>4, <2>1
  <2>. QED  BY <1>8, <2>2 DEF get, NotFound
<1>9. CASE Live(ki).revs # <<>>
  <2>. DEFINE revs == Live(ki).revs
              upTo == {i \in 1..Len(revs) : revs[i].main <= atRev}
              w    == walk(Live(ki), atRev)
  <2>1. last = n
    BY <1>1, <1>3, <1>5, <1>7, <1>9
  <2>2. gi = n /\ gi # 0
    BY <1>1, <1>2, <1>5, <1>6, <1>9, <2>1
  <2>3. Len(revs) \in Nat /\ Len(revs) \in 1..Len(revs)
    BY <1>1, <1>9, GenerationType DEF n
  <2>4. upTo = 1..Len(revs)
    BY <1>1, UpToModified DEF n
  <2>5. w = lastOf(1..Len(revs))
    BY <2>4 DEF walk
  <2>6. w = Len(revs) /\ w # 0
    <3>. DEFINE m   == Len(revs)
                all == 1..m
    <3>1. m \in Nat /\ all \in SUBSET (1..m) /\ m \in all /\ \A x \in {0} \cup all : x <= m
      BY <2>3
    <3>. HIDE DEF m, all
    <3>2. lastOf(all) \in {0} \cup all /\ m <= lastOf(all)
      BY <3>1, LastOf
    <3>3. lastOf(all) \in Nat /\ lastOf(all) <= m /\ m # 0
      BY <2>3, <3>1, <3>2 DEF all, m
    <3>. QED  BY <2>5, <3>1, <3>2, <3>3 DEF m, all
  <2>7. get(ki, atRev) = [err |-> FALSE, rev |-> revs[w], created |-> Live(ki).created,
                          ver |-> Live(ki).ver - (Len(revs) - w)]
    BY <1>1, <2>2, <2>6 DEF get
  <2>. QED  BY <1>9, <2>6, <2>7
<1>. QED  BY <1>8, <1>9

-----------------------------------------------------------------------------
(* The last revision of the live generation, which Get finds *)

LastRev(ki) == Live(ki).revs[Len(Live(ki).revs)]

(* It is a revision. *)
LEMMA LastRevType ==
    ASSUME NEW ki \in KeyIndexes, ~startsGeneration(ki)
    PROVE  /\ InTree(ki) /\ Live(ki).revs # <<>> /\ Live(ki).revs = liveRevs(ki)
           /\ Len(Live(ki).revs) \in 1..Len(Live(ki).revs)
           /\ LastRev(ki) \in Revision
           /\ Alive(ki) => ~IsTombstone(LastRev(ki))
<1>1. InTree(ki) /\ Live(ki).revs # <<>> /\ Live(ki).revs = liveRevs(ki)
  BY DEF startsGeneration, liveRevs
<1>2. Len(ki.generations) \in 1..Len(ki.generations) /\ Live(ki) = ki.generations[Len(ki.generations)]
  BY <1>1, LiveType DEF Live
<1>3. Len(Live(ki).revs) \in 1..Len(Live(ki).revs) /\ LastRev(ki) \in Revision
  BY <1>1, <1>2, GenerationType DEF LastRev
<1>. QED  BY <1>1, <1>3 DEF Alive, LastRev

(* A put into an empty generation leaves its revision alone there. *)
LEMMA PutFirst ==
    ASSUME NEW ki \in KeyIndexes, NEW rev \in Revision, NEW created \in Nat, startsGeneration(ki)
    PROVE  /\ ~startsGeneration(put(ki, rev, created))
           /\ LastRev(put(ki, rev, created)) = rev
<1>. DEFINE newer == GreaterThan(rev, ki.modified)
            new   == insertRev(<<>>, rev, newer)
            res   == put(ki, rev, created)
<1>1. newer \in BOOLEAN /\ <<>> \in Seq(Revision)
  BY DEF GreaterThan
<1>2. new \in Seq(Revision) /\ \E p \in 0..Len(<<>>) : Inserted(new, <<>>, rev, p)
  BY <1>1, InsertRev
<1>3. liveRevs(ki) = <<>>
  BY DEF startsGeneration, liveRevs
<1>4. Live(res).revs = new /\ InTree(res)
  BY <1>3, PutResult DEF SameButLive
<1>. HIDE DEF new, res, newer
<1>5. Len(new) = 1 /\ new[1] = rev
  BY <1>2 DEF Inserted
<1>6. new # <<>>
  BY <1>5
<1>7. ~startsGeneration(res) /\ LastRev(res) = rev
  BY <1>4, <1>5, <1>6 DEF startsGeneration, LastRev
<1>. QED  BY <1>7 DEF res

(* A put into a generation that has revisions makes its revision the last  *)
(* one exactly if it is newer than the last one was.                       *)
LEMMA PutLast ==
    ASSUME NEW ki \in KeyIndexes, NEW rev \in Revision, NEW created \in Nat,
           Ordered(ki), ~startsGeneration(ki)
    PROVE  /\ ~startsGeneration(put(ki, rev, created))
           /\ LastRev(put(ki, rev, created))
                  = IF GreaterThan(rev, LastRev(ki)) THEN rev ELSE LastRev(ki)
<1>. DEFINE old   == Live(ki).revs
            newer == GreaterThan(rev, ki.modified)
            new   == insertRev(old, rev, newer)
            n     == Len(ki.generations)
            res   == put(ki, rev, created)
<1>1. /\ InTree(ki) /\ old # <<>> /\ old = liveRevs(ki) /\ Len(old) \in 1..Len(old)
      /\ LastRev(ki) = old[Len(old)] /\ LastRev(ki) \in Revision
  BY LastRevType DEF LastRev
<1>2. Live(ki) = ki.generations[n] /\ n \in 1..n /\ n \in Nat
  BY <1>1, LiveType DEF Live
<1>3. old \in Seq(Revision) /\ Len(old) \in Nat
  BY <1>1, LiveType
<1>4. newer \in BOOLEAN
  BY DEF GreaterThan
<1>5. /\ new \in Seq(Revision)
      /\ \E p \in 0..Len(old) :
            /\ Inserted(new, old, rev, p)
            /\ newer => p = Len(old)
            /\ ~newer => /\ p # 0 => GreaterThan(rev, old[p])
                         /\ \A i \in (p + 1)..Len(old) : ~GreaterThan(rev, old[i])
  BY <1>3, <1>4, InsertRev
<1>6. Live(res).revs = new /\ InTree(res)
  BY <1>1, PutResult DEF SameButLive
<1>7. newer => GreaterThan(rev, LastRev(ki))
  <2>1. At(ki, n, Len(old), LastRev(ki))
    BY <1>1, <1>2 DEF At
  <2>2. ~GreaterThan(LastRev(ki), ki.modified) /\ ki.modified \in Revision
    BY <1>1, <1>2, <1>3, <2>1 DEF Ordered, Holds, KeyIndexes
  <2>. QED  BY <1>1, <2>2, GreaterThanOrder
<1>. HIDE DEF new, old, newer, res
<1>8. PICK p \in 0..Len(old) :
        /\ Inserted(new, old, rev, p)
        /\ newer => p = Len(old)
        /\ ~newer => /\ p # 0 => GreaterThan(rev, old[p])
                     /\ \A i \in (p + 1)..Len(old) : ~GreaterThan(rev, old[i])
  BY <1>5
<1>9. Len(new) = Len(old) + 1 /\ new # <<>>
  BY <1>1, <1>3, <1>5, <1>8 DEF Inserted
<1>10. CASE p = Len(old)
  <2>1. new[Len(new)] = rev
    BY <1>3, <1>8, <1>9, <1>10 DEF Inserted
  <2>2. GreaterThan(rev, LastRev(ki))
    BY <1>1, <1>7, <1>8, <1>10
  <2>. QED  BY <1>6, <1>9, <2>1, <2>2 DEF LastRev, startsGeneration, res
<1>11. CASE p # Len(old)
  <2>1. new[Len(new)] = old[Len(new) - 1] /\ Len(new) - 1 = Len(old)
    BY <1>3, <1>8, <1>9, <1>11 DEF Inserted
  <2>2. ~GreaterThan(rev, old[Len(old)])
    BY <1>1, <1>3, <1>8, <1>11
  <2>3. LastRev(res) = LastRev(ki)
    BY <1>1, <1>6, <2>1 DEF LastRev
  <2>. QED  BY <1>1, <1>6, <1>9, <2>2, <2>3 DEF startsGeneration, res
<1>. QED  BY <1>10, <1>11

(* A tombstone leaves a new, empty generation. *)
LEMMA TombstoneStarts ==
    ASSUME NEW ki \in KeyIndexes, NEW rev \in Revision, InTree(ki)
    PROVE  /\ startsGeneration(tombstone(ki, rev))
           /\ Len(tombstone(ki, rev).generations) # Len(ki.generations)
<1>1. startsGeneration(tombstone(ki, rev))
  BY TombstoneResult DEF startsGeneration, NewGeneration
<1>2. Len(put(ki, rev, 0).generations) = Len(ki.generations) /\ Len(ki.generations) \in Nat
  BY PutResult, LiveType DEF SameButLive
<1>3. Len(tombstone(ki, rev).generations) = Len(ki.generations) + 1
  BY <1>2, TombstoneResult
<1>. QED  BY <1>1, <1>2, <1>3
=============================================================================
