------------------------------ MODULE KeyIndex ------------------------------
(***************************************************************************)
(* The revision history of one key, pkg/index/key_index.go: a keyIndex is  *)
(* a sequence of generations, oldest first, and a generation is a          *)
(* sequence of revisions.  A tombstone closes a generation; the last       *)
(* generation is the live one.                                             *)
(*                                                                         *)
(* These are the methods of keyIndex and generation as operators: a method *)
(* that changes its receiver returns the new value.  put is split the way  *)
(* it touches shared memory (startsGeneration, setCreated, insertRev,      *)
(* advance), because treeIndex.Update runs it without exclusion.           *)
(***************************************************************************)
EXTENDS Integers, Sequences, FiniteSetsExt, SequencesExt

CONSTANT NodeLists   \* what Revision.nodes can hold; nil, the empty list, marks a tombstone

ASSUME NodeListsAssumption == <<>> \notin NodeLists

-----------------------------------------------------------------------------
(* Revisions: pkg/index/revision.go *)

Revision == [main : Nat, sub : Nat, nodes : NodeLists \cup {<<>>}]

NewRevision(main, sub, nodes) == [main |-> main, sub |-> sub, nodes |-> nodes]

GreaterThan(a, b) ==
    \/ a.main > b.main
    \/ a.main = b.main /\ a.sub > b.sub

IsTombstone(rev) == rev.nodes = <<>>

-----------------------------------------------------------------------------
(* A key that is not in the tree is the keyIndex without generations that  *)
(* treeIndex.Put would insert for it.                                      *)

Generation == [ver : Nat, created : Revision, revs : Seq(Revision)]

KeyIndexes == [modified : Revision, generations : Seq(Generation)]

NewGeneration == [ver |-> 0, created |-> NewRevision(0, 0, <<>>), revs |-> <<>>]

NewKeyIndex == [modified |-> NewRevision(0, 0, <<>>), generations |-> <<>>]

InTree(ki) == ki.generations # <<>>

Live(ki) == ki.generations[Len(ki.generations)]

(* keyIndex.isEmpty: tombstone, get and since panic on such a receiver. *)
isEmpty(ki) == Len(ki.generations) = 1 /\ ki.generations[1].revs = <<>>

-----------------------------------------------------------------------------
(* put *)

withGenerationAlways(ki) == [ki EXCEPT !.generations = Append(@, NewGeneration)]

withGeneration(ki) ==
    IF ki.generations = <<>> THEN [ki EXCEPT !.generations = <<NewGeneration>>] ELSE ki

startsGeneration(ki) == InTree(ki) => Live(ki).revs = <<>>

setLive(ki, g) == [ki EXCEPT !.generations[Len(ki.generations)] = g]

(* created is what GetGlobalIncreasingRevision returned. *)
setCreated(ki, created) ==
    setLive(ki, [Live(ki) EXCEPT !.created = NewRevision(created, 0, <<>>)])

(* Where a loop that runs backwards stops; 0 when it runs through. *)
lastOf(positions) == Max({0} \cup positions)

(* A revision that is not newer than modified goes right after the last    *)
(* revision of the live generation it is greater than.                     *)
insertRevOverwrites(revs, rev, newer) ==
    LET i == lastOf({j \in 1..Len(revs) : GreaterThan(rev, revs[j])})
    IN  IF newer THEN Append(revs, rev) ELSE SubSeq(revs, 1, i) \o <<rev>>

insertRevAppends(revs, rev, newer) == Append(revs, rev)

insertRev(revs, rev, newer) ==
    IF newer
    THEN Append(revs, rev)
    ELSE InsertAt(revs, lastOf({i \in 1..Len(revs) : GreaterThan(rev, revs[i])}) + 1, rev)

advanceBack(ki, rev) ==
    [setLive(ki, [Live(ki) EXCEPT !.ver = @ - 1]) EXCEPT !.modified = rev]

advanceAlways(ki, rev) ==
    [setLive(ki, [Live(ki) EXCEPT !.ver = @ + 1]) EXCEPT !.modified = rev]

advance(ki, rev) ==
    IF GreaterThan(rev, ki.modified)
    THEN [setLive(ki, [Live(ki) EXCEPT !.ver = @ + 1]) EXCEPT !.modified = rev]
    ELSE ki

put(ki, rev, created) ==
    LET ki0 == withGeneration(ki)
        ki1 == IF startsGeneration(ki) THEN setCreated(ki0, created) ELSE ki0
        revs == insertRev(Live(ki1).revs, rev, GreaterThan(rev, ki.modified))
    IN  advance(setLive(ki1, [Live(ki1) EXCEPT !.revs = revs]), rev)

-----------------------------------------------------------------------------
(* tombstone, after its early return on an empty live generation: put does *)
(* not start a generation here, so it takes no revision for created.       *)

tombstoneKeepsGeneration(ki, rev) == put(ki, rev, 0)

tombstone(ki, rev) ==
    LET closed == put(ki, rev, 0)
    IN  [closed EXCEPT !.generations = Append(@, NewGeneration)]

-----------------------------------------------------------------------------
(* get: 0 stands for the nil generation and for walk's -1. *)

tomb(g) == g.revs[Len(g.revs)].main

findGeneration(ki, atRev) ==
    LET n == Len(ki.generations)
        gone(i) == i # n /\ tomb(ki.generations[i]) <= atRev
        stops == {i \in 1..n : /\ ki.generations[i].revs # <<>>
                               /\ gone(i) \/ ki.generations[i].revs[1].main <= atRev}
    IN  IF stops = {} \/ gone(lastOf(stops)) THEN 0 ELSE lastOf(stops)

walkBefore(g, atRev) == lastOf({i \in 1..Len(g.revs) : g.revs[i].main < atRev})

walk(g, atRev) == lastOf({i \in 1..Len(g.revs) : g.revs[i].main <= atRev})

NotFound == [err |-> TRUE, rev |-> NewRevision(0, 0, <<>>),
             created |-> NewRevision(0, 0, <<>>), ver |-> 0]

get(ki, atRev) ==
    LET gi == findGeneration(ki, atRev)
        g  == ki.generations[gi]
        n  == walk(g, atRev)
    IN  IF gi = 0 \/ n = 0
        THEN NotFound
        ELSE [err |-> FALSE, rev |-> g.revs[n], created |-> g.created,
              ver |-> g.ver - (Len(g.revs) - n)]

-----------------------------------------------------------------------------
(* since *)

sinceStartLive(ki, rev) == Len(ki.generations)

sinceStart(ki, rev) ==
    LET since == NewRevision(rev, 0, <<>>)
    IN  Max({1} \cup {i \in 2..Len(ki.generations) :
                         /\ ki.generations[i].revs # <<>>
                         /\ GreaterThan(since, ki.generations[i].created)})

(* Of neighbours with the same main revision only the last one is kept. *)
keepRev(revs, r) ==
    IF revs # <<>> /\ Last(revs).main = r.main
    THEN [revs EXCEPT ![Len(revs)] = r]
    ELSE Append(revs, r)

since(ki, rev) ==
    LET from == sinceStart(ki, rev)
        all  == FlattenSeq([i \in 1..(Len(ki.generations) - from + 1) |->
                               ki.generations[from + i - 1].revs])
    IN  FoldLeft(keepRev, <<>>,
                 SelectSeq(all, LAMBDA r : ~GreaterThan(NewRevision(rev, 0, <<>>), r)))
=============================================================================
