------------------------------- MODULE Runner -------------------------------
(***************************************************************************)
(* The strategy runner (strategy/runner.py) with the subscriptions of the  *)
(* tick feed (market_data/feed.py): which strategies run, which ticks they *)
(* want, and how a tick goes round them.                                   *)
(*                                                                         *)
(* _on_tick iterates over the dictionary _strategy_tokens and awaits every *)
(* strategy's on_tick and the orders of its signal; a strategy started or  *)
(* stopped over HTTP meanwhile changes the dictionary under the iterator.  *)
(* Starting and stopping a strategy do not suspend.  A serial number tells *)
(* the instances of a strategy apart, and gives the dictionary its order.  *)
(***************************************************************************)
EXTENDS Integers, FiniteSets

CONSTANTS
    Sids,          \* strategy ids
    Wanted,        \* sets of tokens a strategy may subscribe to
    MaxStarts      \* bound: strategies started

VARIABLES
    subs,      \* feed._subscriptions: sets of strategy ids by token
    tokens,    \* _strategy_tokens: its items, by nr in order of insertion
    strategies,\* _strategies: ids of the running strategies
    round,     \* the iteration of _on_tick, or NoRound
    serial,    \* strategies started so far
    leftover   \* history: ids whose failed start left tokens in the feed

runnerVars == <<subs, tokens, strategies, round, serial, leftover>>

NoRound == [last |-> -1]

RunnerInit ==
    /\ subs = [tok \in UNION Wanted |-> {}]
    /\ tokens = {} /\ strategies = {} /\ round = NoRound /\ serial = 0
    /\ leftover = {}

Entry(sid) == {e \in tokens : e.sid = sid}
TokensOf(sid) == UNION {e.toks : e \in Entry(sid)}

(* Assigning to a key of the dictionary keeps its place.                   *)
SetTokens(sid, toks) ==
    IF Entry(sid) = {}
    THEN tokens \cup {[sid |-> sid, toks |-> toks, nr |-> serial + 1]}
    ELSE {IF e.sid = sid THEN [e EXCEPT !.toks = toks] ELSE e : e \in tokens}

Disturbs == round' = IF round = NoRound THEN round
                     ELSE [round EXCEPT !.calm = FALSE]

(* add_strategy, behind the 409 of a strategy that runs.  A start that     *)
(* fails leaves its subscriptions, in the feed and in the runner.          *)
AddStrategy(sid, toks, starts) ==
    /\ sid \notin strategies
    /\ serial < MaxStarts
    /\ serial' = serial + 1
    /\ subs' = [tok \in DOMAIN subs |->
                   subs[tok] \cup {s \in {sid} : tok \in toks}]
    /\ tokens' = SetTokens(sid, toks)
    /\ strategies' = strategies \cup {s \in {sid} : starts}
    /\ leftover' = leftover \cup {s \in {sid} : ~starts}
    /\ Disturbs

Without(gone) == {e \in tokens : e.sid \notin gone}
Remaining(gone) == [tok \in DOMAIN subs |-> subs[tok] \ gone]

(* remove_strategy, behind the 404 of a strategy that does not run, and    *)
(* stop_all.                                                               *)
DropBad(gone) ==
    /\ strategies' = strategies \ gone
    /\ tokens' = tokens
    /\ subs' = Remaining(gone)
    /\ leftover' = leftover \ gone
    /\ Disturbs
    /\ UNCHANGED serial
Drop(gone) ==
    /\ strategies' = strategies \ gone
    /\ tokens' = Without(gone)
    /\ subs' = Remaining(gone)
    /\ leftover' = leftover \ gone
    /\ Disturbs
    /\ UNCHANGED serial

RemoveStrategy(sid) == sid \in strategies /\ Drop({sid})

RoundFrame == UNCHANGED <<subs, tokens, strategies, serial, leftover>>

(* calm: was no strategy started or stopped since the round began?         *)
StartRound(tok) ==
    /\ round' = [tok |-> tok, size |-> Cardinality(tokens),
                 left |-> Cardinality(tokens),
                 last |-> 0, called |-> {}, calm |-> TRUE]
    /\ RoundFrame

Ahead == {e \in tokens : e.nr > round.last}
UpNext == CHOOSE e \in Ahead : \A d \in Ahead : e.nr <= d.nr

(* The iterator raises when the dictionary's size has changed, or when it  *)
(* meets more keys than there were: the strategies behind miss the tick.   *)
Raises == \/ Cardinality(tokens) # round.size
          \/ Ahead # {} /\ round.left = 0

(* A strategy is called if it wants the tick and runs.                     *)
Calls(e) == round.tok \in e.toks /\ e.sid \in strategies

(* The next strategy in the dictionary.  Its orders are placed, or refused,*)
(* before the one behind has its turn.                                     *)
VisitBad ==
    /\ round # NoRound
    /\ ~Raises
    /\ Ahead # {}
    /\ LET e == UpNext IN
         round' = [round EXCEPT !.left = @ - 1,
                                !.last = IF Calls(e) THEN e.nr ELSE serial,
                                !.called = @ \cup {s \in {e.sid} : Calls(e)}]
    /\ RoundFrame
Visit ==
    /\ round # NoRound
    /\ ~Raises
    /\ Ahead # {}
    /\ LET e == UpNext IN
         round' = [round EXCEPT !.left = @ - 1, !.last = e.nr,
                                !.called = @ \cup {s \in {e.sid} : Calls(e)}]
    /\ RoundFrame

EndRound ==
    /\ round # NoRound
    /\ Raises \/ Ahead = {}
    /\ round' = NoRound
    /\ RoundFrame
=============================================================================
