------------------------------- MODULE Turns -------------------------------
(***************************************************************************)
(* What LangGraphAdapter's callers may take for granted, without tasks,    *)
(* locks or snapshots: a thread has one turn at a time, and each begins on *)
(* the state the one before it left.  Only a turn that finds a question    *)
(* open goes on with what it finds; any other starts over.                 *)
(***************************************************************************)
CONSTANTS Msgs, Threads, ThreadOf, NoMsg, Stalled

VARIABLES
    running,   \* the message whose turn runs in each thread, if any
    open,      \* what the last turn of a thread left open
    said       \* the turn of the thread's last AI message

turns == <<running, open, said>>

Init ==
    /\ running = [th \in Threads |-> {}]
    /\ open = [th \in Threads |-> NoMsg]
    /\ said = [th \in Threads |-> NoMsg]

Begin(m) ==
    /\ running[ThreadOf[m]] = {}
    /\ running' = [running EXCEPT ![ThreadOf[m]] = {m}]
    /\ open' = (IF open[ThreadOf[m]] \in Msgs THEN open
                ELSE [open EXCEPT ![ThreadOf[m]] = NoMsg])
    /\ UNCHANGED said

\* A turn that returns leaves its own question or none; one that raises may
\* leave what it found, its own question, or a graph that stalled.
End(m) ==
    /\ running[ThreadOf[m]] = {m}
    /\ running' = [running EXCEPT ![ThreadOf[m]] = {}]
    /\ \E left \in {NoMsg, m, Stalled, open[ThreadOf[m]]} :
           open' = [open EXCEPT ![ThreadOf[m]] = left]
    /\ said' \in {said, [said EXCEPT ![ThreadOf[m]] = m]}

\* The process dies, the threads do not.
Die ==
    /\ running' = [th \in Threads |-> {}]
    /\ UNCHANGED <<open, said>>

Next == Die \/ \E m \in Msgs : Begin(m) \/ End(m)

Spec == Init /\ [][Next]_turns
=============================================================================
