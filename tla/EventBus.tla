------------------------------ MODULE EventBus ------------------------------
(***************************************************************************)
(* The in-process event bus (core/events.py): an unbounded queue, and one  *)
(* task that takes the events off it and runs all handlers of an event     *)
(* concurrently before it takes the next.                                  *)
(*                                                                         *)
(* The handlers of an event start one after another in one turn of the     *)
(* event loop: Dispatch is that turn, busy the handlers then suspended.    *)
(* Whatever a handler raises, _safe_handle logs: raising is finishing.     *)
(* Without Redis, publish does not suspend.                                *)
(***************************************************************************)
EXTENDS Integers, Sequences, SequencesExt

Sentinel == [type |-> "none"]      \* the None that stop() queues

VARIABLES
    queue,     \* events, and perhaps the sentinel, not yet taken
    running,   \* _running
    loop,      \* the dispatch task: "none", "get", "handle" or "over"
    busy,      \* handlers of the event last taken that have not finished
    sent,      \* history: events published
    given      \* history: events handed to their handlers, in order

busVars == <<queue, running, loop, busy, sent, given>>

BusInit ==
    /\ queue = <<>> /\ sent = <<>> /\ given = <<>>
    /\ running = FALSE /\ loop = "none" /\ busy = {}

PutBad(events) == queue' = events \o queue /\ sent' = sent \o events
Put(events) == queue' = queue \o events /\ sent' = sent \o events

Publish(event) ==
    /\ Put(<<event>>)
    /\ UNCHANGED <<running, loop, busy, given>>

Start ==
    /\ ~running
    /\ loop = "none"
    /\ running' = TRUE
    /\ loop' = "get"
    /\ UNCHANGED <<queue, busy, sent, given>>

(* The head of the loop, once the handlers are done.  wait_for gives up    *)
(* after a second, only to look at _running again.                         *)
ResumeBad == IF running /\ queue # <<>> THEN "get" ELSE "over"
Resume == IF running THEN "get" ELSE "over"

(* The next event: its handlers publish events and, but for waits, finish. *)
Dispatch(events, waits) ==
    /\ loop = "get"
    /\ queue # <<>>
    /\ Head(queue) # Sentinel
    /\ queue' = Tail(queue) \o events
    /\ sent' = sent \o events
    /\ given' = Append(given, Head(queue))
    /\ busy' = waits
    /\ loop' = IF waits = {} THEN Resume ELSE "handle"
    /\ UNCHANGED running

(* A handler finishes; gather() waits for the others.                      *)
Finish(handler) ==
    /\ loop = "handle"
    /\ handler \in busy
    /\ busy' = busy \ {handler}
    /\ loop' = IF busy = {handler} THEN Resume ELSE "handle"
    /\ UNCHANGED <<queue, running, sent, given>>

Break ==
    /\ loop = "get"
    /\ queue # <<>>
    /\ Head(queue) = Sentinel
    /\ queue' = Tail(queue)
    /\ loop' = "over"
    /\ UNCHANGED <<running, busy, sent, given>>

(* stop(): the events queued ahead of the sentinel are not waited for: the *)
(* loop ends with the event it handles, or is about to take.               *)
StopBad ==
    /\ loop # "none"
    /\ UNCHANGED busVars
Stop ==
    /\ loop # "none"
    /\ running' = FALSE
    /\ queue' = Append(queue, Sentinel)
    /\ UNCHANGED <<loop, busy, sent, given>>

(* The event whose handlers run.                                           *)
Current == Last(given)

Phase == IF running \/ loop = "none" THEN "open"
         ELSE IF loop = "over" THEN "closed" ELSE "closing"
Channel == INSTANCE EventChannel WITH phase <- Phase
=============================================================================
