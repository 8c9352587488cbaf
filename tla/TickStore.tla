----------------------------- MODULE TickStore ------------------------------
(***************************************************************************)
(* Persistence of ticks (market_data/store.py); that of candles, one       *)
(* insert for each and no second try, changes nothing here.  A flush       *)
(* copies the buffer, awaits the database and, after the commit, cuts off  *)
(* as many ticks as it copied, whatever the buffer then begins with.  Two  *)
(* flushes can overlap: the one a tick starts when the buffer is full, and *)
(* that of the shutdown.                                                   *)
(*                                                                         *)
(* The primary key of a tick is its time and instrument, and the insert    *)
(* says ON CONFLICT DO NOTHING: the first tick of a key stays.             *)
(***************************************************************************)
EXTENDS Integers, Sequences

CONSTANTS
    BufferSize,    \* _buffer_size
    MaxFailures    \* bound: database calls that fail

VARIABLES
    buffer,    \* _tick_buffer
    rows,      \* table ticks
    flushing,  \* flushing[f]: the ticks flusher f copied, <<>> when it is idle
    failures,  \* database calls that failed
    final      \* history: the shutdown's flush, how many ticks it copied, the
               \* ticks buffered since, and what has become of it: "none",
               \* "copied", "overtaken" by a flush that committed, "failed"

storeVars == <<buffer, rows, flushing, failures, final>>

ASSUME StoreAssumption == BufferSize \in Nat \ {0} /\ MaxFailures \in Nat

Flushers == {"dispatch", "shutdown"}

StoreInit ==
    /\ buffer = <<>> /\ rows = {} /\ failures = 0
    /\ flushing = [f \in Flushers |-> <<>>]
    /\ final = [phase |-> "none", copied |-> 0, since |-> {}]

Key(t) == <<t.time, t.tok>>
Insert(table, ticks) ==
    LET Fresh(k) == /\ \A r \in table : Key(r) # Key(ticks[k])
                    /\ \A j \in 1..k - 1 : Key(ticks[j]) # Key(ticks[k])
    IN  table \cup {ticks[k] : k \in {k \in DOMAIN ticks : Fresh(k)}}

Full(ticks) == Len(ticks) >= BufferSize

(* _on_tick, up to the await of the flush it starts.                       *)
BufferTick(t) ==
    /\ buffer' = Append(buffer, t)
    /\ flushing' = IF Full(buffer')
                   THEN [flushing EXCEPT !["dispatch"] = buffer'] ELSE flushing
    /\ final' = IF final.phase = "none" THEN final
                ELSE [final EXCEPT !.since = final.since \cup {t}]
    /\ UNCHANGED <<rows, failures>>

StartFlush ==
    /\ flushing' = [flushing EXCEPT !["shutdown"] = buffer]
    /\ final' = [phase |-> "copied", copied |-> Len(buffer), since |-> {}]
    /\ UNCHANGED <<buffer, rows, failures>>

Ends(f) ==
    /\ flushing[f] # <<>>
    /\ flushing' = [flushing EXCEPT ![f] = <<>>]

CutBad(ticks, n) == <<>>
Cut(ticks, n) == SubSeq(ticks, n + 1, Len(ticks))

Becomes(phase) == final' = [final EXCEPT !.phase = phase]

Commit(f) ==
    /\ Ends(f)
    /\ rows' = Insert(rows, flushing[f])
    /\ buffer' = Cut(buffer, Len(flushing[f]))
    /\ Becomes(IF f = "dispatch" /\ flushing["shutdown"] # <<>>
               THEN "overtaken" ELSE final.phase)
    /\ UNCHANGED failures

(* The insert or the commit raises.  reached: the database has committed,  *)
(* only the answer is lost.                                                *)
FlushFails(f, reached) ==
    /\ Ends(f)
    /\ failures < MaxFailures
    /\ failures' = failures + 1
    /\ rows' = IF reached THEN Insert(rows, flushing[f]) ELSE rows
    /\ Becomes(IF f = "shutdown" THEN "failed" ELSE final.phase)
    /\ UNCHANGED buffer
=============================================================================
