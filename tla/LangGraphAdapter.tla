-------------------------- MODULE LangGraphAdapter --------------------------
(***************************************************************************)
(* adapter-langgraph/clawtell_langgraph/adapter.py: inject() looks at the  *)
(* thread's state, then either starts a turn or resumes an interrupt, under*)
(* a lock per thread id.  The graph's checkpointer outlives the process.   *)
(*                                                                         *)
(* Kept: the lock's queue, the awaits between looking and acting, what a   *)
(* turn may leave open, which AI message _extract_reply finds.  Abstracted:*)
(* an AI message is the message whose turn produced it; prompts, tool calls*)
(* and the text of refusals.  The graph is external: it may answer, stay   *)
(* silent, pause, raise or hang.                                           *)
(***************************************************************************)
EXTENDS Naturals, SequencesExt

CONSTANTS
    Tasks,       \* tasks that call inject() (subscribe() is one)
    Msgs,
    Threads,     \* thread ids
    ThreadOf,    \* thread_id_resolver
    NoMsg,
    Stalled,     \* a turn failed halfway: next nodes, but no interrupt
    MaxCalls,    \* bound: calls of inject()
    MaxHangs,    \* bound: turns that never end
    MaxCrashes   \* bound: process deaths

ASSUME LangGraphAssumption ==
    /\ ThreadOf \in [Msgs -> Threads]
    /\ NoMsg \notin Msgs
    /\ Stalled \notin Msgs
    /\ NoMsg # Stalled
    /\ MaxCalls \in Nat
    /\ MaxHangs \in Nat
    /\ MaxCrashes \in Nat

VARIABLES
    pc,          \* what each task is about to do
    msg,         \* the message it handles, or had last
    resumes,     \* the snapshot it took was paused at an interrupt
    reply,       \* the turn whose AI message its last inject() returned
    line,        \* tasks at each thread's lock; the first one holds it
    open,        \* checkpointer: what the last turn of a thread left open
    said,        \* checkpointer: the turn of the thread's last AI message
    hung,        \* tasks whose turn never ends
    calls,
    hangs,
    crashes

process == <<pc, msg, resumes, reply, line, hung>>
bounds == <<calls, hangs, crashes>>
vars == <<pc, msg, resumes, reply, line, open, said, hung, calls, hangs, crashes>>

\* The type invariant; a task that is not idle is in its thread's line.
TypeOK ==
    /\ pc \in [Tasks -> {"idle", "lock", "looked", "turn"}]
    /\ msg \in [Tasks -> Msgs \cup {NoMsg}]
    /\ resumes \in [Tasks -> BOOLEAN]
    /\ reply \in [Tasks -> Msgs \cup {NoMsg}]
    /\ line \in [Threads -> Seq(Tasks)]
    /\ open \in [Threads -> Msgs \cup {NoMsg, Stalled}]
    /\ said \in [Threads -> Msgs \cup {NoMsg}]
    /\ hung \subseteq {t \in Tasks : pc[t] = "turn"}
    /\ \A t \in Tasks : pc[t] # "idle" =>
            msg[t] \in Msgs /\ t \in ToSet(line[ThreadOf[msg[t]]])
    /\ calls \in 0 .. MaxCalls
    /\ hangs \in 0 .. MaxHangs
    /\ crashes \in 0 .. MaxCrashes

-----------------------------------------------------------------------------
\* Mutant: one lock for all threads.
OneLock(m) == CHOOSE th \in Threads : TRUE

\* _lock_for
LockOf(m) == ThreadOf[m]

\* Mutant: every call gets a lock of its own.
HoldsAny(t) == TRUE

Holds(t) == t = Head(line[LockOf(msg[t])])

\* The end of inject(): the lock goes to the next in line, the caller gets turn
\* r's text.
Leave(t, r) ==
    /\ pc' = [pc EXCEPT ![t] = "idle"]
    /\ reply' = [reply EXCEPT ![t] = r]
    /\ line' = [line EXCEPT ![LockOf(msg[t])] = Tail(@)]

Init ==
    /\ pc = [t \in Tasks |-> "idle"]
    /\ msg = [t \in Tasks |-> NoMsg]
    /\ resumes = [t \in Tasks |-> FALSE]
    /\ reply = [t \in Tasks |-> NoMsg]
    /\ line = [th \in Threads |-> <<>>]
    /\ open = [th \in Threads |-> NoMsg]
    /\ said = [th \in Threads |-> NoMsg]
    /\ hung = {}
    /\ calls = 0
    /\ hangs = 0
    /\ crashes = 0

\* A message is delivered, for the first time or again.
Call(t, m) ==
    /\ pc[t] = "idle"
    /\ \A u \in Tasks : pc[u] # "idle" => msg[u] # m
    /\ calls < MaxCalls
    /\ calls' = calls + 1
    /\ pc' = [pc EXCEPT ![t] = "lock"]
    /\ msg' = [msg EXCEPT ![t] = m]
    /\ reply' = [reply EXCEPT ![t] = NoMsg]
    /\ line' = [line EXCEPT ![LockOf(m)] = Append(@, t)]
    /\ UNCHANGED <<resumes, open, said, hung, hangs, crashes>>

\* Mutant: next nodes are taken for a pause.
LookAtNext(t) ==
    /\ pc[t] = "lock"
    /\ Holds(t)
    /\ pc' = [pc EXCEPT ![t] = "looked"]
    /\ resumes' = [resumes EXCEPT ![t] = open[ThreadOf[msg[t]]] # NoMsg]
    /\ UNCHANGED <<msg, reply, line, open, said, hung, bounds>>

\* aget_state(): paused means next nodes and an interrupt among their tasks.
Look(t) ==
    /\ pc[t] = "lock"
    /\ Holds(t)
    /\ pc' = [pc EXCEPT ![t] = "looked"]
    /\ resumes' = [resumes EXCEPT ![t] = open[ThreadOf[msg[t]]] \in Msgs]
    /\ UNCHANGED <<msg, reply, line, open, said, hung, bounds>>

\* aget_state() raises.
LookFails(t) ==
    /\ pc[t] = "lock"
    /\ Holds(t)
    /\ Leave(t, NoMsg)
    /\ UNCHANGED <<msg, resumes, open, said, hung, bounds>>

\* ainvoke() begins.  New input makes the graph start over, and drops what the
\* thread had open.
Enter(t) ==
    /\ pc[t] = "looked"
    /\ pc' = [pc EXCEPT ![t] = "turn"]
    /\ open' = (IF resumes[t] THEN open ELSE [open EXCEPT ![ThreadOf[msg[t]]] = NoMsg])
    /\ UNCHANGED <<msg, resumes, reply, line, said, hung, bounds>>

\* What a turn writes to its thread: what it leaves open, and whether it has
\* produced an AI message with text.
Writes(t, left) ==
    /\ open' = [open EXCEPT ![ThreadOf[msg[t]]] = left]
    /\ \/ said' = [said EXCEPT ![ThreadOf[msg[t]]] = msg[t]]
       \/ UNCHANGED said

\* ainvoke() returns at the end of the graph or at an interrupt; the reply is
\* the last AI message of the whole thread.
Returns(t) ==
    /\ pc[t] = "turn"
    /\ t \notin hung
    /\ \E left \in {NoMsg, msg[t]} : Writes(t, left)
    /\ Leave(t, said'[ThreadOf[msg[t]]])
    /\ UNCHANGED <<msg, resumes, hung, bounds>>

\* It raises: a refusal.  The interrupt it was to resume may be open still.
Raises(t) ==
    /\ pc[t] = "turn"
    /\ t \notin hung
    /\ \E left \in {open[ThreadOf[msg[t]]], msg[t], Stalled} : Writes(t, left)
    /\ Leave(t, NoMsg)
    /\ UNCHANGED <<msg, resumes, hung, bounds>>

Hang(t) ==
    /\ pc[t] = "turn"
    /\ hangs < MaxHangs
    /\ hangs' = hangs + 1
    /\ hung' = hung \cup {t}
    /\ UNCHANGED <<pc, msg, resumes, reply, line, open, said, calls, crashes>>

\* A turn that got further before is the behaviour in which Raises comes first.
Crash ==
    /\ crashes < MaxCrashes
    /\ crashes' = crashes + 1
    /\ pc' = [t \in Tasks |-> "idle"]
    /\ msg' = [t \in Tasks |-> NoMsg]
    /\ resumes' = [t \in Tasks |-> FALSE]
    /\ reply' = [t \in Tasks |-> NoMsg]
    /\ line' = [th \in Threads |-> <<>>]
    /\ hung' = {}
    /\ UNCHANGED <<open, said, calls, hangs>>

Step(t) == Look(t) \/ LookFails(t) \/ Enter(t) \/ Returns(t) \/ Raises(t)

Next ==
    \/ \E t \in Tasks : Step(t) \/ Hang(t) \/ (\E m \in Msgs : Call(t, m))
    \/ Crash

Spec == Init /\ [][Next]_vars

\* The event loop runs; a turn ends unless it hangs.
Fairness == \A t \in Tasks : WF_vars(Step(t))

FairSpec == Spec /\ Fairness

-----------------------------------------------------------------------------
(***************************************************************************)
(* Properties.                                                             *)
(***************************************************************************)

\* An interrupt stays open until a turn resumes it: no message that was taken
\* for a new turn, on a snapshot from before the pause, makes the graph start
\* over and drop the question.
InterruptKept ==
    [][\A th \in Threads : open[th] \in Msgs /\ open'[th] # open[th] =>
            \E t \in Tasks : pc[t] = "turn" /\ resumes[t] /\ ThreadOf[msg[t]] = th]_vars

\* A message is handed over as an answer only while its thread has an open
\* interrupt: not after somebody else answered it, and not to a thread that
\* only stalled on an error.
ResumeMeetsInterrupt ==
    \A t \in Tasks : pc[t] \in {"looked", "turn"} /\ resumes[t] =>
        open[ThreadOf[msg[t]]] \in Msgs

\* However many tasks call inject(), the turns of a thread come one after
\* another, each on the state the one before left: looking and acting are one.
Running ==
    [th \in Threads |-> {msg[t] : t \in {u \in Tasks : pc[u] = "turn" /\ ThreadOf[msg[u]] = th}}]

OneByOne == INSTANCE Turns WITH running <- Running

TurnsInOrder == OneByOne!Spec

\* A turn that never ends holds up its own thread and no other: every other
\* inject() returns.
OtherThreadsProceed ==
    \A t \in Tasks :
        pc[t] # "idle" ~>
            \/ pc[t] = "idle"
            \/ \E u \in hung : ThreadOf[msg[u]] = ThreadOf[msg[t]]

(***************************************************************************)
(* What the adapter contract says of inject(), and a run refutes.          *)
(***************************************************************************)

\* core/clawtell_core/adapter.py:78: inject() runs the agent on the inbound
\* message and returns the reply, or None if the agent declined to respond.
ReplyIsToThisMessage ==
    \A t \in Tasks : pc[t] = "idle" => reply[t] \in {NoMsg, msg[t]}
=============================================================================
