--------------------------- MODULE KeyIndexProofs ---------------------------
(***************************************************************************)
(* What the methods of keyIndex (module KeyIndex) return, for every        *)
(* history and every revision: the lemmas that the proofs about the index  *)
(* rest on.                                                                *)
(***************************************************************************)
EXTENDS KeyIndex, TLAPS, SequenceTheorems, WellFoundedInduction

-----------------------------------------------------------------------------
(* Least and greatest elements *)

(* A nonempty set of natural numbers has a least element. *)
LEMMA NatMin ==
    ASSUME NEW T \in SUBSET Nat, T # {}
    PROVE  \E m \in T : \A y \in T : m <= y
<1>1. PICK m \in T : \A y \in T : ~ (<<y, m>> \in OpToRel(<, Nat))
  BY WFMin, NatLessThanWellFounded
<1>2. \A y \in T : ~ (y < m)
  BY <1>1 DEF OpToRel
<1>. QED  BY <1>2

(* lastOf is the greatest of the positions, or 0: the loops of put, walk   *)
(* and findGeneration that run backwards stop there.                       *)
LEMMA LastOf ==
    ASSUME NEW n \in Nat, NEW S \in SUBSET (1..n)
    PROVE  /\ lastOf(S) \in {0} \cup S
           /\ \A y \in S : y <= lastOf(S)
<1>. DEFINE U == {0} \cup S
            T == {n - x : x \in U}
<1>1. T \in SUBSET Nat /\ T # {}
  <2>1. \A x \in U : n - x \in Nat
    OBVIOUS
  <2>2. n - 0 \in T
    OBVIOUS
  <2>. QED  BY <2>1, <2>2
<1>2. PICK m \in T : \A y \in T : m <= y
  BY <1>1, NatMin
<1>3. PICK x \in U : m = n - x
  BY <1>2
<1>4. \A y \in U : x >= y
  <2>1. TAKE y \in U
  <2>2. n - y \in T
    OBVIOUS
  <2>3. n - x <= n - y
    BY <1>2, <1>3, <2>2
  <2>4. x \in Int /\ y \in Int
    OBVIOUS
  <2>. QED  BY <2>3, <2>4
<1>5. \E z \in U : \A y \in U : z >= y
  BY <1>4
<1>6. Max(U) \in U /\ \A y \in U : Max(U) >= y
  BY <1>5 DEF Max
<1>. QED  BY <1>6 DEF lastOf

-----------------------------------------------------------------------------
(* put *)

(* new is old with x inserted after position p. *)
Inserted(new, old, x, p) ==
    /\ Len(new) = Len(old) + 1
    /\ \A i \in 1..(Len(old) + 1) :
          new[i] = IF i <= p THEN old[i] ELSE IF i = p + 1 THEN x ELSE old[i - 1]

(* What inserting an element into a sequence returns. *)
LEMMA InsertAtPosition ==
    ASSUME NEW S, NEW seq \in Seq(S), NEW p \in 0..Len(seq), NEW x \in S
    PROVE  /\ InsertAt(seq, p + 1, x) \in Seq(S)
           /\ Inserted(InsertAt(seq, p + 1, x), seq, x, p)
<1>. DEFINE left  == SubSeq(seq, 1, p)
            mid   == left \o <<x>>
            right == SubSeq(seq, p + 1, Len(seq))
            whole == mid \o right
<1>1. /\ left \in Seq(S) /\ Len(left) = p
      /\ \A i \in 1..p : left[i] = seq[i]
  OBVIOUS
<1>2. /\ right \in Seq(S) /\ Len(right) = Len(seq) - p
      /\ \A i \in 1..(Len(seq) - p) : right[i] = seq[p + i]
  OBVIOUS
<1>3. InsertAt(seq, p + 1, x) = whole
  <2>1. (p + 1) - 1 = p
    OBVIOUS
  <2>. QED  BY <2>1, Zenon DEF InsertAt
<1>. HIDE DEF left, right
<1>4. /\ mid \in Seq(S) /\ Len(mid) = p + 1
      /\ \A i \in 1..(p + 1) : mid[i] = IF i <= p THEN seq[i] ELSE x
  <2>1. <<x>> \in Seq(S) /\ Len(<<x>>) = 1 /\ <<x>>[1] = x
    OBVIOUS
  <2>. QED  BY <1>1, <2>1, ConcatProperties
<1>. HIDE DEF mid
<1>5. /\ whole \in Seq(S) /\ Len(whole) = Len(mid) + Len(right)
      /\ \A i \in 1..(Len(mid) + Len(right)) :
            whole[i] = IF i <= Len(mid) THEN mid[i] ELSE right[i - Len(mid)]
  BY <1>2, <1>4, ConcatProperties
<1>. HIDE DEF whole
<1>6. Len(whole) = Len(seq) + 1
  BY <1>2, <1>4, <1>5
<1>7. ASSUME NEW i \in 1..(Len(seq) + 1)
      PROVE  whole[i] = IF i <= p THEN seq[i] ELSE IF i = p + 1 THEN x ELSE seq[i - 1]
  <2>1. CASE i <= p + 1
    <3>1. i \in 1..(p + 1) /\ i \in 1..(Len(mid) + Len(right)) /\ i <= Len(mid)
      BY <1>2, <1>4, <2>1
    <3>. QED  BY <1>4, <1>5, <2>1, <3>1
  <2>2. CASE i > p + 1
    <3>1. Len(mid) = p + 1 /\ Len(mid) + Len(right) = Len(seq) + 1
      BY <1>2, <1>4
    <3>2. i \in 1..(Len(mid) + Len(right)) /\ ~(i <= Len(mid))
      BY <2>2, <3>1
    <3>3. whole[i] = right[i - Len(mid)]
      BY <1>5, <3>2, Zenon
    <3>4. i - (p + 1) \in 1..(Len(seq) - p) /\ p + (i - (p + 1)) = i - 1
      BY <2>2
    <3>5. right[i - (p + 1)] = seq[p + (i - (p + 1))]
      BY <1>2, <3>4, Zenon
    <3>6. whole[i] = seq[i - 1]
      BY <3>1, <3>3, <3>4, <3>5, Zenon
    <3>. QED  BY <2>2, <3>6
  <2>. QED  BY <2>1, <2>2
<1>. QED  BY <1>3, <1>5, <1>6, <1>7 DEF Inserted

(* insertRev puts rev in one place and shifts what follows; the place of a *)
(* revision that is not newer is right after the last one it is greater    *)
(* than.                                                                   *)
LEMMA InsertRev ==
    ASSUME NEW revs \in Seq(Revision), NEW rev \in Revision, NEW newer \in BOOLEAN
    PROVE  /\ insertRev(revs, rev, newer) \in Seq(Revision)
           /\ \E p \in 0..Len(revs) :
                /\ Inserted(insertRev(revs, rev, newer), revs, rev, p)
                /\ newer => p = Len(revs)
                /\ ~newer => /\ p # 0 => GreaterThan(rev, revs[p])
                             /\ \A i \in (p + 1)..Len(revs) : ~GreaterThan(rev, revs[i])
<1>1. CASE newer
  <2>1. insertRev(revs, rev, newer) = Append(revs, rev)
    BY <1>1 DEF insertRev
  <2>2. /\ Append(revs, rev) \in Seq(Revision)
        /\ Inserted(Append(revs, rev), revs, rev, Len(revs))
    BY DEF Inserted
  <2>3. Len(revs) \in 0..Len(revs)
    OBVIOUS
  <2>. QED  BY <1>1, <2>1, <2>2, <2>3
<1>2. CASE ~newer
  <2>. DEFINE I == {i \in 1..Len(revs) : GreaterThan(rev, revs[i])}
              p == lastOf(I)
  <2>1. Len(revs) \in Nat /\ I \in SUBSET (1..Len(revs))
    OBVIOUS
  <2>2. p \in {0} \cup I /\ \A y \in I : y <= p
    BY <2>1, LastOf
  <2>3. insertRev(revs, rev, newer) = InsertAt(revs, p + 1, rev)
    BY <1>2 DEF insertRev
  <2>. HIDE DEF p
  <2>4. p \in 0..Len(revs) /\ (p # 0 => GreaterThan(rev, revs[p]))
    BY <2>1, <2>2
  <2>5. \A i \in (p + 1)..Len(revs) : ~GreaterThan(rev, revs[i])
    <3>1. \A i \in (p + 1)..Len(revs) : i \notin I
      BY <2>1, <2>2, <2>4
    <3>. QED  BY <2>4, <3>1
  <2>. HIDE DEF I
  <2>6. /\ InsertAt(revs, p + 1, rev) \in Seq(Revision)
        /\ Inserted(InsertAt(revs, p + 1, rev), revs, rev, p)
    BY <2>4, InsertAtPosition
  <2>. QED  BY <1>2, <2>3, <2>4, <2>5, <2>6
<1>. QED  BY <1>1, <1>2

(* The zero values that put and the tree start from have their types. *)
LEMMA ZeroTypes ==
    /\ \A m \in Nat : NewRevision(m, 0, <<>>) \in Revision
    /\ NewGeneration \in Generation
    /\ NewKeyIndex \in KeyIndexes
<1>1. \A m \in Nat : NewRevision(m, 0, <<>>) \in Revision
  BY DEF NewRevision, Revision
<1>2. NewGeneration \in Generation
  BY <1>1 DEF NewGeneration, Generation
<1>3. NewKeyIndex \in KeyIndexes
  BY <1>1 DEF NewKeyIndex, KeyIndexes
<1>. QED  BY <1>1, <1>2, <1>3

(* A keyIndex in the tree has a live generation. *)
LEMMA LiveType ==
    ASSUME NEW ki \in KeyIndexes, InTree(ki)
    PROVE  /\ Len(ki.generations) \in Nat \ {0}
           /\ Live(ki) \in Generation
           /\ Live(ki).revs \in Seq(Revision) /\ Live(ki).ver \in Nat
<1>1. ki.generations \in Seq(Generation) /\ ki.generations # <<>>
  BY DEF KeyIndexes, InTree
<1>2. Len(ki.generations) \in Nat \ {0}
  BY <1>1
<1>3. Live(ki) \in Generation
  BY <1>1, <1>2 DEF Live
<1>. QED  BY <1>2, <1>3 DEF Generation

(* setLive changes the live generation and nothing else. *)
LEMMA SetLive ==
    ASSUME NEW ki \in KeyIndexes, InTree(ki), NEW g \in Generation
    PROVE  /\ setLive(ki, g) \in KeyIndexes
           /\ InTree(setLive(ki, g)) /\ Live(setLive(ki, g)) = g
           /\ setLive(ki, g).modified = ki.modified
           /\ Len(setLive(ki, g).generations) = Len(ki.generations)
           /\ \A i \in 1..(Len(ki.generations) - 1) :
                 setLive(ki, g).generations[i] = ki.generations[i]
<1>. DEFINE n   == Len(ki.generations)
            new == [ki.generations EXCEPT ![n] = g]
<1>1. ki.generations \in Seq(Generation) /\ n \in Nat \ {0}
  BY LiveType DEF KeyIndexes
<1>2. /\ new \in Seq(Generation) /\ Len(new) = n /\ new[n] = g
      /\ \A i \in 1..(n - 1) : new[i] = ki.generations[i]
  BY <1>1
<1>3. setLive(ki, g) = [ki EXCEPT !.generations = new]
  BY DEF setLive, KeyIndexes
<1>4. /\ setLive(ki, g).generations = new /\ setLive(ki, g).modified = ki.modified
      /\ setLive(ki, g) \in KeyIndexes
  BY <1>2, <1>3 DEF KeyIndexes
<1>. HIDE DEF new
<1>5. new # <<>>
  BY <1>1, <1>2
<1>. QED  BY <1>2, <1>4, <1>5 DEF InTree, Live

(* The revisions put adds to. *)
liveRevs(ki) == IF InTree(ki) THEN Live(ki).revs ELSE <<>>

(* advance moves modified forward and leaves the revisions alone. *)
LEMMA Advance ==
    ASSUME NEW ki \in KeyIndexes, InTree(ki), NEW rev \in Revision
    PROVE  /\ advance(ki, rev) \in KeyIndexes
           /\ InTree(advance(ki, rev)) /\ Live(advance(ki, rev)).revs = Live(ki).revs
           /\ advance(ki, rev).modified = IF GreaterThan(rev, ki.modified) THEN rev ELSE ki.modified
           /\ Len(advance(ki, rev).generations) = Len(ki.generations)
           /\ \A i \in 1..(Len(ki.generations) - 1) :
                 advance(ki, rev).generations[i] = ki.generations[i]
<1>1. CASE ~GreaterThan(rev, ki.modified)
  BY <1>1 DEF advance
<1>2. CASE GreaterThan(rev, ki.modified)
  <2>. DEFINE g   == [Live(ki) EXCEPT !.ver = @ + 1]
              new == setLive(ki, g)
  <2>1. g \in Generation /\ g.revs = Live(ki).revs
    BY LiveType DEF Generation
  <2>. HIDE DEF g
  <2>2. /\ new \in KeyIndexes /\ InTree(new) /\ Live(new) = g
        /\ Len(new.generations) = Len(ki.generations)
        /\ \A i \in 1..(Len(ki.generations) - 1) : new.generations[i] = ki.generations[i]
    BY <2>1, SetLive
  <2>3. advance(ki, rev) = [new EXCEPT !.modified = rev]
    BY <1>2 DEF advance, g
  <2>. HIDE DEF new
  <2>4. /\ advance(ki, rev) \in KeyIndexes
        /\ advance(ki, rev).generations = new.generations /\ advance(ki, rev).modified = rev
    BY <2>2, <2>3 DEF KeyIndexes
  <2>. QED  BY <1>2, <2>1, <2>2, <2>4 DEF InTree, Live
<1>. QED  BY <1>1, <1>2

(* new has the generations of old but for the live one, and modified m. *)
SameButLive(new, old, m) ==
    /\ new \in KeyIndexes /\ InTree(new) /\ new.modified = m
    /\ Len(new.generations) = IF InTree(old) THEN Len(old.generations) ELSE 1
    /\ \A i \in 1..(Len(new.generations) - 1) : new.generations[i] = old.generations[i]

(* put, up to the revisions: a live generation is there. *)
LEMMA PutOpens ==
    ASSUME NEW ki \in KeyIndexes, NEW created \in Nat
    PROVE  LET ki1 == IF startsGeneration(ki) THEN setCreated(withGeneration(ki), created)
                                              ELSE withGeneration(ki)
           IN  SameButLive(ki1, ki, ki.modified) /\ Live(ki1).revs = liveRevs(ki)
<1>. DEFINE ki0 == withGeneration(ki)
            g   == [Live(ki0) EXCEPT !.created = NewRevision(created, 0, <<>>)]
<1>1. SameButLive(ki0, ki, ki.modified) /\ Live(ki0).revs = liveRevs(ki)
  <2>1. CASE InTree(ki)
    <3>1. ki0 = ki
      BY <2>1 DEF withGeneration, InTree
    <3>. QED  BY <2>1, <3>1 DEF SameButLive, liveRevs
  <2>2. CASE ~InTree(ki)
    <3>1. ki0 = [ki EXCEPT !.generations = <<NewGeneration>>]
      BY <2>2 DEF withGeneration, InTree
    <3>2. /\ <<NewGeneration>> \in Seq(Generation) /\ Len(<<NewGeneration>>) = 1
          /\ <<NewGeneration>> # <<>> /\ <<NewGeneration>>[1] = NewGeneration
      BY ZeroTypes
    <3>3. /\ ki0 \in KeyIndexes /\ ki0.modified = ki.modified
          /\ ki0.generations = <<NewGeneration>>
      BY <3>1, <3>2 DEF KeyIndexes
    <3>4. NewGeneration.revs = <<>>
      BY DEF NewGeneration
    <3>. HIDE DEF ki0
    <3>. QED  BY <2>2, <3>2, <3>3, <3>4 DEF SameButLive, liveRevs, InTree, Live
  <2>. QED  BY <2>1, <2>2
<1>. HIDE DEF ki0
<1>2. g \in Generation /\ g.revs = Live(ki0).revs
  BY <1>1, LiveType, ZeroTypes DEF SameButLive, Generation
<1>3. setCreated(ki0, created) = setLive(ki0, g)
  BY DEF setCreated
<1>. HIDE DEF g
<1>4. SameButLive(setCreated(ki0, created), ki, ki.modified)
      /\ Live(setCreated(ki0, created)).revs = liveRevs(ki)
  BY <1>1, <1>2, <1>3, SetLive DEF SameButLive
<1>. QED  BY <1>1, <1>4 DEF ki0

(* What put does to a key: the revision goes to the live generation at the *)
(* place insertRev finds, and modified is the greater of the two.          *)
LEMMA PutResult ==
    ASSUME NEW ki \in KeyIndexes, NEW rev \in Revision, NEW created \in Nat
    PROVE  /\ SameButLive(put(ki, rev, created), ki,
                           IF GreaterThan(rev, ki.modified) THEN rev ELSE ki.modified)
           /\ Live(put(ki, rev, created)).revs
                  = insertRev(liveRevs(ki), rev, GreaterThan(rev, ki.modified))
<1>. DEFINE ki1   == IF startsGeneration(ki) THEN setCreated(withGeneration(ki), created)
                                             ELSE withGeneration(ki)
            newer == GreaterThan(rev, ki.modified)
            revs  == insertRev(Live(ki1).revs, rev, newer)
            g     == [Live(ki1) EXCEPT !.revs = revs]
            ki2   == setLive(ki1, g)
<1>1. SameButLive(ki1, ki, ki.modified) /\ Live(ki1).revs = liveRevs(ki)
  BY PutOpens
<1>2. put(ki, rev, created) = advance(ki2, rev)
  BY DEF put
<1>. HIDE DEF ki1
<1>3. ki1 \in KeyIndexes /\ InTree(ki1) /\ Live(ki1) \in Generation /\ Live(ki1).revs \in Seq(Revision)
  BY <1>1, LiveType DEF SameButLive
<1>4. newer \in BOOLEAN
  BY DEF GreaterThan
<1>. HIDE DEF newer
<1>5. revs \in Seq(Revision)
  BY <1>3, <1>4, InsertRev
<1>. HIDE DEF revs
<1>6. g \in Generation /\ g.revs = revs
  BY <1>3, <1>5 DEF Generation
<1>. HIDE DEF g
<1>7. SameButLive(ki2, ki, ki.modified) /\ Live(ki2) = g
  BY <1>1, <1>3, <1>6, SetLive DEF SameButLive
<1>. HIDE DEF ki2
<1>8. /\ SameButLive(advance(ki2, rev), ki, IF newer THEN rev ELSE ki.modified)
      /\ Live(advance(ki2, rev)).revs = revs
  BY <1>6, <1>7, Advance DEF SameButLive, newer
<1>. QED  BY <1>1, <1>2, <1>8 DEF revs, newer

(* What tombstone does to a key with a live revision: put, and an empty    *)
(* generation after it.                                                    *)
LEMMA TombstoneResult ==
    ASSUME NEW ki \in KeyIndexes, NEW rev \in Revision
    PROVE  LET new == tombstone(ki, rev)
               n   == Len(put(ki, rev, 0).generations)
           IN  /\ new \in KeyIndexes /\ InTree(new)
               /\ new.modified = put(ki, rev, 0).modified
               /\ Len(new.generations) = n + 1 /\ Live(new) = NewGeneration
               /\ \A i \in 1..n : new.generations[i] = put(ki, rev, 0).generations[i]
<1>. DEFINE closed == put(ki, rev, 0)
<1>1. closed \in KeyIndexes
  BY PutResult DEF SameButLive
<1>2. tombstone(ki, rev) = [closed EXCEPT !.generations = Append(closed.generations, NewGeneration)]
  BY DEF tombstone
<1>. HIDE DEF closed
<1>. DEFINE gs  == Append(closed.generations, NewGeneration)
            new == tombstone(ki, rev)
<1>3. /\ gs \in Seq(Generation) /\ Len(gs) = Len(closed.generations) + 1 /\ gs # <<>>
      /\ gs[Len(gs)] = NewGeneration
      /\ \A i \in 1..Len(closed.generations) : gs[i] = closed.generations[i]
  BY <1>1, ZeroTypes, AppendProperties DEF KeyIndexes
<1>4. new \in KeyIndexes /\ new.generations = gs /\ new.modified = closed.modified
  BY <1>1, <1>2, <1>3 DEF KeyIndexes
<1>. HIDE DEF gs, new
<1>. QED  BY <1>3, <1>4 DEF closed, new, InTree, Live
=============================================================================
