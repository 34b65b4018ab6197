------------------------------ MODULE Delivery ------------------------------
(***************************************************************************)
(* What iter_messages() promises subscribe(), without streams, polls,      *)
(* threads or failures: messages the server holds come in some order and   *)
(* are handed over in that order, one at a time, the next one when the     *)
(* last is dealt with.  Only a stop drops what has come.                   *)
(***************************************************************************)
EXTENDS Naturals, Sequences

CONSTANTS Msgs, NoMsg

VARIABLES
    held,      \* messages the server has and no ack for
    buffer,    \* messages that have come and are not handed over
    hand,      \* the message the subscriber works on
    stop,      \* the subscriber is asked to stop
    over       \* it has stopped

delivery == <<held, buffer, hand, stop, over>>

Init ==
    /\ held \in SUBSET Msgs
    /\ buffer = <<>>
    /\ hand = NoMsg
    /\ stop = FALSE
    /\ over = FALSE

Arrive(m) ==
    /\ ~over
    /\ held' = held \cup {m}
    /\ UNCHANGED <<buffer, hand, stop, over>>

RequestStop ==
    /\ stop' = TRUE
    /\ UNCHANGED <<held, buffer, hand, over>>

\* Messages line up behind those that came before.
Bring ==
    /\ ~over
    /\ Len(buffer) <= Len(buffer')
    /\ \A i \in DOMAIN buffer' : IF i <= Len(buffer) THEN buffer'[i] = buffer[i]
                                 ELSE buffer'[i] \in held
    /\ UNCHANGED <<held, hand, stop, over>>

HandOver ==
    /\ ~over
    /\ hand = NoMsg
    /\ buffer # <<>>
    /\ hand' = Head(buffer)
    /\ buffer' = Tail(buffer)
    /\ UNCHANGED <<held, stop, over>>

\* Acked or not.
DealtWith ==
    /\ ~over
    /\ hand # NoMsg
    /\ hand' = NoMsg
    /\ held' \in {held, held \ {hand}}
    /\ UNCHANGED <<buffer, stop, over>>

Leave ==
    /\ stop
    /\ over' = TRUE
    /\ buffer' = <<>>
    /\ hand' = NoMsg
    /\ UNCHANGED <<held, stop>>

Next ==
    \/ (\E m \in Msgs : Arrive(m)) \/ RequestStop
    \/ Bring \/ HandOver \/ DealtWith \/ Leave

Spec == Init /\ [][Next]_delivery
=============================================================================
