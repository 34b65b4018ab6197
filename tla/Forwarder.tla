----------------------------- MODULE Forwarder -----------------------------
(***************************************************************************)
(* The program of telegram/README.md: one process, one event loop, the     *)
(* Telegram bridge's task and the receive loop, sharing the adapter.       *)
(*                                                                         *)
(* Bridge and Subscribe are composed.  The adapter's chat is one variable: *)
(* the bridge sets it, the loop reads it in get_chat() and goes on with    *)
(* what it has read.  The loop sees only whether there is a chat; which    *)
(* one a message goes to is kept here.                                     *)
(*                                                                         *)
(* Two tasks of one event loop: the bridge runs while the loop awaits, and *)
(* the loop runs while the bridge awaits, which it does between answers    *)
(* only.  A restart loses both tasks and attaches before it subscribes.    *)
(***************************************************************************)
EXTENDS Naturals, Sequences, FiniteSets, FiniteSetsExt

CONSTANTS
    Chats, NoChat, BatchLimit, MaxUpdates,             \* Bridge
    Msgs, Eligible, NoMsg, DedupSize, MaxCopies, MaxFaults,  \* Subscribe
    MaxAttempts, DeadLetterCap, RepliedCap,            \* its queue
    MaxCrashes                                         \* both

VARIABLES
    chat, log, confirmed, offset, chatFile, task, batch,
    chatBy, fileBy, saved,                             \* Bridge
    file, unacked, buffer, dedup, due, pc, mode, cur, reply, todo,
    tried, shown, sent, unrecorded, buried, faults,    \* Subscribe
    crashes                                            \* both

VARIABLES
    target,      \* the chat in hand, as the update that bound it (0: none)
    newest,      \* history: the latest update whose chat was forwarded to
    steady       \* history: every answer was worked off and saved to its end

bridge == <<chat, log, confirmed, offset, chatFile, task, batch,
            chatBy, fileBy, saved>>
loop == <<file, unacked, buffer, dedup, due, pc, mode, cur, reply, todo,
          tried, shown, sent, unrecorded, buried, faults>>
vars == <<bridge, loop, crashes, target, newest, steady>>

B == INSTANCE Bridge WITH file <- chatFile, pc <- task

ASSUME ForwarderAssumption ==
    /\ B!BridgeAssumption
    /\ Eligible \subseteq Msgs
    /\ NoMsg \notin Msgs
    /\ {DedupSize, MaxAttempts, DeadLetterCap, RepliedCap} \subseteq Nat \ {0}
    /\ {MaxCopies, MaxFaults} \subseteq Nat

\* No sender is in a directory: this is the setup with one active chat.
S == INSTANCE Subscribe WITH chat <- (chat # NoChat), Listed <- {}

-----------------------------------------------------------------------------
Init ==
    /\ B!Init
    /\ S!Init
    /\ target = 0
    /\ newest = 0
    /\ steady = TRUE

\* Mutant: the bridge awaits between two updates of an answer.
BridgeAwaitsAnywhere == task # "down"

\* The bridge's task awaits, or has raised: the loop may run.
BridgeAwaits == task \in {"poll", "dead"}

\* Mutant: the bridge in a thread of its own.
LoopAwaitsAlways == TRUE

\* The loop awaits, or has not begun: the bridge's task may run.
LoopAwaits == pc \in {"idle", "reack", "inject", "forward", "send", "ack"}

\* attach() comes before create_task() and subscribe().
Attach ==
    /\ B!Attach
    /\ UNCHANGED <<loop, crashes, target, newest, steady>>

\* An answer worked off, one update at a time, with no await in between.
Progress == B!PollOnce \/ B!HandleUpdate \/ B!Save \/ B!SaveFails \/ B!BatchDone

BridgeTask(Step) ==
    /\ LoopAwaits
    /\ Step
    /\ steady' = (steady /\ task' # "dead")
    /\ UNCHANGED <<loop, target, newest>>

\* What get_chat() returned stays with the message in hand, whatever the
\* bridge binds meanwhile.
KeepsTarget ==
    target' = (IF cur' = NoMsg THEN 0 ELSE IF cur' # cur THEN chatBy ELSE target)

\* forward() has been awaited, whatever came of it.
Forwards ==
    newest' = (IF pc = "forward" THEN Max({newest, target}) ELSE newest)

LoopTask ==
    /\ BridgeAwaits
    /\ UNCHANGED <<bridge, crashes, steady>>
    /\ S!Loop
    /\ KeepsTarget
    /\ Forwards

Write ==
    /\ \E c \in Chats \cup {NoChat} : B!Write(c)
    /\ UNCHANGED <<loop, target, newest, steady>>

\* The rest of the loop's environment: deliveries and the clock.
Outside(Step) ==
    /\ task # "down"
    /\ UNCHANGED <<bridge, crashes, target, newest, steady>>
    /\ Step

Crash ==
    /\ B!Crash
    /\ S!Crash
    /\ target' = 0
    /\ steady' = (steady /\ task \notin {"handle", "save"})
    /\ UNCHANGED newest

Next ==
    \/ Attach \/ BridgeTask(Progress) \/ BridgeTask(B!PollFails) \/ LoopTask
    \/ Write \/ Crash
    \/ Outside(S!DrainTimer)
    \/ \E m \in Msgs : Outside(S!Deliver(m))

Spec == Init /\ [][Next]_vars

(***************************************************************************)
(* The event loop's ready queue is first in, first out: neither task can   *)
(* keep the other from running by being ready again.  The server           *)
(* redelivers, the clock advances, a repeated getUpdates is answered.      *)
(***************************************************************************)
Fairness ==
    /\ WF_vars(Attach)
    /\ SF_vars(BridgeTask(Progress))
    /\ SF_vars(LoopTask)
    /\ WF_vars(Outside(S!DrainTimer))
    /\ \A m \in Msgs : WF_vars(Outside(S!Deliver(m)))

FairSpec == Spec /\ Fairness

(***************************************************************************)
(* Properties.                                                             *)
(***************************************************************************)

\* No message goes to a chat older than one a message went to before, neither
\* for a chat read before an await nor over a restart, which replays updates
\* that were handled already.  An older chat can come back only if a save
\* failed, or if a process died halfway through an answer: a replay that dies
\* leaves an older chat in chat.json than it found there.
ForwardsForward ==
    steady /\ pc = "forward" => target >= newest

\* Once a chat was saved, no message has to wait for one again.
NoWaitOnceSaved == [][S!Queued' \ S!Queued # {} => saved = {}]_vars

\* To the loop the bridge is no more than Subscribe's environment: it binds a
\* chat while the loop awaits, never unbinds one, and a new process starts
\* with what was saved.
ImplementsLoop == S!Spec

\* What the bridge promises by itself holds beside the loop.
BridgeTypes == B!TypeOK

ConfirmedWasSaved == B!ConfirmedWasSaved

LastWriterWins == B!LastWriterWins
=============================================================================
