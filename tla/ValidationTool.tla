--------------------------- MODULE ValidationTool ---------------------------
(***************************************************************************)
(* validation/consistency_log.go: clients that write and read one key of   *)
(* the service for a while, each keeping a log of its operations with the  *)
(* times they began and ended, for a linearizability checker.  A client is *)
(* a thread of KVService.  The way of a request and of its answer takes no *)
(* time here; in the tool it only makes the logged intervals wider.        *)
(***************************************************************************)
EXTENDS KVService

CONSTANT MaxEvents   \* bound: operations per client; in the tool, DURATION ends the loop

ASSUME ToolAssumption == MaxEvents \in Nat

VARIABLES
    now,      \* the clock, time.Now().UnixNano(); 0 until the first client starts
    client,   \* per client, its EVENT_ID, when its operation began, and whether it runs
    events    \* per client, its log file

toolVars == <<now, client, events>>

ToolInit ==
    /\ Init
    /\ now = 0
    /\ client = [t \in Threads |-> [EVENT_ID |-> 0, start |-> 0, running |-> TRUE]]
    /\ events = [t \in Threads |-> <<>>]

quiet == \A t \in Threads : h[t].step = "idle"

(* "The test key may be already existing": somebody wrote it before. *)
Earlier(t) ==
    /\ now = 0 /\ counter = 0 /\ quiet
    /\ BeginCreate(t) /\ UNCHANGED toolVars

EarlierDone(t) == now = 0 /\ Answer(t) /\ UNCHANGED toolVars

-----------------------------------------------------------------------------
(* main: the next operation of a client. *)
next(t) ==
    /\ client[t].running /\ client[t].EVENT_ID < MaxEvents
    /\ now = 0 => quiet
    /\ now' = now + 1
    /\ client' = [client EXCEPT ![t] = [@ EXCEPT !.EVENT_ID = @ + 1, !.start = now']]
    /\ UNCHANGED events

Write(t) == next(t) /\ BeginCreate(t)

ReadAnyTime(t) == next(t) /\ BeginGet(t)

(* The first operation cannot be a read. *)
Read(t) == client[t].EVENT_ID > 0 /\ next(t) /\ BeginGet(t)

(* The line of the log: what was answered, and when. *)
event(t) ==
    [op |-> IF h[t].verb = "get" THEN "read" ELSE "write",
     value |-> IF h[t].verb = "get" THEN h[t].got[1] ELSE h[t].val,
     start |-> client[t].start, end |-> now', revision |-> h[t].rev.main]

(* An error cannot be parsed, and ends the client. *)
Log(t) ==
    /\ now > 0 /\ Answer(t)
    /\ now' = now + 1
    /\ events' = IF h[t].err THEN events ELSE [events EXCEPT ![t] = Append(@, event(t))]
    /\ client' = [client EXCEPT ![t].running = ~h[t].err]

Serve(t) == h[t].step # "answer" /\ Step(t) /\ UNCHANGED toolVars

ToolNext ==
    \/ \E t \in Threads : Earlier(t) \/ EarlierDone(t) \/ Write(t) \/ Read(t) \/ Log(t) \/ Serve(t)
    \/ AsyncJob /\ UNCHANGED toolVars

ToolSpec == ToolInit /\ [][ToolNext]_<<vars, toolVars>>

-----------------------------------------------------------------------------
(* Properties *)

logged == UNION {ToSet(events[t]) : t \in Threads}

(* "The test key may be already existing. To make sure porcupine work, the *)
(* first operation cannot be READ": every value that a client reads is one *)
(* that a client wrote, in a log or about to be, never the one that was    *)
(* there before, although each client only minds its own first operation.  *)
ReadsKnown ==
    WritesDistinct => \A e \in logged : e.op = "read" =>
        \/ \E f \in logged : f.op = "write" /\ f.revision = e.revision /\ f.value = e.value
        \/ \E t \in Threads : /\ h[t].verb = "create" /\ h[t].val = e.value
                              /\ e.revision \in {req[t].rev.main, h[t].rev.main}

(* The logs together are linearizable, with the revisions as the order: an *)
(* operation that ends before another begins does not have a newer         *)
(* revision, a write has a newer one than everything that ended before it, *)
(* and a read has the value of the write of its revision.                  *)
LogLinearizable ==
    WritesDistinct => \A e, f \in logged :
        /\ e.end < f.start => IF f.op = "write" THEN e.revision < f.revision
                                                ELSE e.revision <= f.revision
        /\ e.revision = f.revision => e.value = f.value
=============================================================================
