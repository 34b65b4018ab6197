------------------------------ MODULE Mailbox ------------------------------
(***************************************************************************)
(* What the receive loop promises the server, the human and the sender,    *)
(* without calls, buffers, windows, drains or processes: one message at a  *)
(* time goes one step forward, and nothing is ever taken back.  A message  *)
(* is answered again only if the record of its last answer is lost.        *)
(***************************************************************************)
EXTENDS Naturals

CONSTANTS Msgs, Eligible

VARIABLES
    held,      \* messages the server redelivers
    waiting,   \* messages kept until there is a chat, or until a call succeeds
    tried,     \* messages for which forward() returned, True or False
    buried,    \* messages given up, on the record
    answers,   \* how many answers to each message reached its sender
    account    \* what is known of its last one: "none", "sent", "recorded", "lost"

mailbox == <<held, waiting, tried, buried, answers, account>>

Init ==
    /\ held = Msgs
    /\ waiting = {} /\ tried = {} /\ buried = {}
    /\ answers = [m \in Msgs |-> 0]
    /\ account = [m \in Msgs |-> "none"]

Keep(m) ==
    /\ waiting' = waiting \cup {m}
    /\ UNCHANGED <<held, tried, buried, answers, account>>

\* The human is shown the message, or the chat refused it.
Try(m) ==
    /\ tried' = tried \cup {m}
    /\ UNCHANGED <<held, waiting, buried, answers, account>>

\* After forward(), and only an answer not accounted for is repeated.
Answer(m) ==
    /\ m \in Eligible \cap tried
    /\ account[m] \in {"none", "lost"}
    /\ answers' = [answers EXCEPT ![m] = @ + 1]
    /\ \E known \in {"sent", "lost"} : account' = [account EXCEPT ![m] = known]
    /\ UNCHANGED <<held, waiting, tried, buried>>

\* The new record may push out old ones.
Record(m) ==
    /\ account[m] = "sent"
    /\ \E out \in SUBSET {n \in Msgs : account[n] = "recorded"} :
           account' = [n \in Msgs |-> IF n = m THEN "recorded"
                                      ELSE IF n \in out THEN "lost" ELSE account[n]]
    /\ UNCHANGED <<held, waiting, tried, buried, answers>>

LoseAccount(m) ==
    /\ account[m] = "sent"
    /\ account' = [account EXCEPT ![m] = "lost"]
    /\ UNCHANGED <<held, waiting, tried, buried, answers>>

\* The server forgets a message only when it was tried, waits, or was given up.
Ack(m) ==
    /\ m \in tried \cup waiting \cup buried
    /\ held' = held \ {m}
    /\ UNCHANGED <<waiting, tried, buried, answers, account>>

Settle(m) ==
    /\ m \in tried \ held
    /\ waiting' = waiting \ {m}
    /\ UNCHANGED <<held, tried, buried, answers, account>>

Bury(m) ==
    /\ m \in waiting
    /\ waiting' = waiting \ {m}
    /\ buried' = buried \cup {m}
    /\ UNCHANGED <<held, tried, answers, account>>

Next ==
    \E m \in Msgs : \/ Keep(m) \/ Try(m) \/ Answer(m) \/ Record(m) \/ LoseAccount(m)
                    \/ Ack(m) \/ Settle(m) \/ Bury(m)

Spec == Init /\ [][Next]_mailbox
=============================================================================
