---------------------------- MODULE EventChannel ----------------------------
(***************************************************************************)
(* What the event bus promises its publishers and handlers: the events are *)
(* handed out one at a time, in the order in which they were published,    *)
(* none skipped and none twice, until the channel closes.  Handling an     *)
(* event may publish others.                                               *)
(***************************************************************************)
EXTENDS Naturals, Sequences, SequencesExt

VARIABLES
    sent,      \* events published, in order
    given,     \* events handed to their handlers, in order
    phase      \* "open", "closing" once asked to, "closed"

Init == sent = <<>> /\ given = <<>> /\ phase = "open"

Send == IsPrefix(sent, sent') /\ UNCHANGED <<given, phase>>

Give ==
    /\ phase # "closed"
    /\ Len(given) < Len(sent)
    /\ given' = Append(given, sent[Len(given) + 1])
    /\ IsPrefix(sent, sent')
    /\ \/ UNCHANGED phase
       \/ phase = "closing" /\ phase' = "closed"

(* Once it is asked to close, the channel may drop what it was sent.       *)
Close == phase = "open" /\ phase' = "closing" /\ UNCHANGED <<sent, given>>
End == phase = "closing" /\ phase' = "closed" /\ UNCHANGED <<sent, given>>

Next == Send \/ Give \/ Close \/ End

Safe == Init /\ [][Next]_<<sent, given, phase>>

(* An event published is handed out, unless the channel is asked to close: *)
(* the first limit of them.                                                *)
Delivers(limit) ==
    \A n \in 1..limit :
        Len(sent) >= n ~> Len(given) >= n \/ phase # "open"
=============================================================================
