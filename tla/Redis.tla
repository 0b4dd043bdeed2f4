------------------------------- MODULE Redis -------------------------------
(***************************************************************************)
(* The pools of pkg/database/redis.go: Put, Get and Delete dial a new      *)
(* connection each, and Dial tries again with growing pauses.              *)
(***************************************************************************)
EXTENDS Integers, Sequences, SequencesExt

CONSTANT RedisRetryCount

(* What a server does with a connection: refuses it, accepts it and leaves *)
(* PING unanswered, or serves it.                                          *)
Reactions == {"refused", "mute", "up"}

Attempts == [1..(RedisRetryCount + 1) -> Reactions]

(* The first connection is not pinged. *)
firstDial(reaction) == [err |-> reaction = "refused", mute |-> reaction = "mute", leaked |-> 0]

(* A connection whose PING fails is dropped without being closed. *)
retryForever(d, reaction) ==
    [err |-> reaction # "up", mute |-> FALSE,
     leaked |-> d.leaked + (IF reaction = "mute" THEN 1 ELSE 0)]

retry(d, reaction) ==
    IF ~d.err THEN d
    ELSE [err |-> reaction # "up", mute |-> FALSE,
          leaked |-> d.leaked + (IF reaction = "mute" THEN 1 ELSE 0)]

Dial(attempts) == FoldLeft(retry, firstDial(Head(attempts)), Tail(attempts))

(* How dialling a store that may fail can end, and one that does not. *)
FaultyDials == {Dial(a) : a \in Attempts}

Dials(fails) == IF fails THEN FaultyDials ELSE {firstDial("up")}
=============================================================================
