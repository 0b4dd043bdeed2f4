---------------------------- MODULE VersionedMap ----------------------------
(***************************************************************************)
(* What the index promises its callers, without its generations, locks and *)
(* steps: a register per key.  A put makes its revision the current one    *)
(* unless a newer one is, in whatever order revisions come; a tombstone    *)
(* clears the register; a lookup returns it, at one instant.               *)
(***************************************************************************)
EXTENDS Integers

CONSTANTS
    Keys, Threads,
    None           \* the register of a key that has no value

VARIABLES
    current,       \* per key, the current revision
    got,           \* per thread, what its lookup returned: key, error, revision
    applied        \* the changes that have taken place

mapVars == <<current, got, applied>>

Newer(a, b) == a.main > b.main \/ (a.main = b.main /\ a.sub > b.sub)

newest(old, rev) == IF old = None \/ Newer(rev, old) THEN rev ELSE old

NoAnswer == <<>>

MapInit ==
    /\ current = [k \in Keys |-> None]
    /\ got = [t \in Threads |-> NoAnswer]
    /\ applied = {}

change(op) ==
    \E c \in applied' :
        /\ applied' = applied \cup {c}
        /\ c.op = op /\ c.key \in Keys
        /\ IF op = "put" THEN current' = [current EXCEPT ![c.key] = newest(@, c.rev)]
           ELSE current[c.key] # None /\ current' = [current EXCEPT ![c.key] = None]
        /\ UNCHANGED got

lookUp(t) ==
    /\ got[t] = NoAnswer
    /\ \E k \in Keys : got' = [got EXCEPT ![t] = <<k, current[k] = None, current[k]>>]
    /\ UNCHANGED <<current, applied>>

forget(t) ==
    /\ got' = [got EXCEPT ![t] = NoAnswer]
    /\ UNCHANGED <<current, applied>>

MapNext == change("put") \/ change("tombstone") \/ \E t \in Threads : lookUp(t) \/ forget(t)

MapSpec == MapInit /\ [][MapNext]_mapVars
=============================================================================
