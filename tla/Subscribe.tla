----------------------------- MODULE Subscribe -----------------------------
(***************************************************************************)
(* The receive loop of core/clawtell_core/subscribe.py against its disk,   *)
(* the ClawTell server, the agent and the human's chat: subscribe(),       *)
(* _process() and _drain(), one action per stretch of code between two     *)
(* calls that can fail, be slow, or be the last thing a process does.      *)
(*                                                                         *)
(* Kept: the order of the calls, every exception path, what survives a     *)
(* crash (inbox-queue.json) and what does not (dedup window, transport     *)
(* buffer, drain clock, chat binding).  Abstracted: message content, which *)
(* chat a binding names (only whether a sender has one), the transport     *)
(* (a bounded buffer of deliveries), the text of replies and errors.       *)
(***************************************************************************)
EXTENDS QueueFile, FiniteSets

CONSTANTS
    Msgs,        \* ids of the messages addressed to this name
    Eligible,    \* those with auto_reply_eligible = true
    Listed,      \* those whose sender the chat directory names (or "_default")
    NoMsg,       \* no message in hand
    DedupSize,   \* DEDUP_WINDOW
    MaxCopies,   \* bound: copies of one message in the transport buffer
    MaxCrashes,  \* bound: process deaths
    MaxFaults    \* bound: calls that raise, or fail without saying so

ASSUME SubscribeAssumption ==
    /\ Eligible \subseteq Msgs
    /\ Listed \subseteq Msgs
    /\ NoMsg \notin Msgs
    /\ DedupSize \in Nat \ {0}
    /\ MaxCopies \in Nat
    /\ MaxCrashes \in Nat
    /\ MaxFaults \in Nat

VARIABLES
    file,        \* inbox-queue.json
    unacked,     \* messages the server still holds and redelivers
    chat,        \* whether bind_chat() has been called in this process
    buffer,      \* ids delivered by the transport, not yet taken by the loop
    dedup,       \* _DedupWindow, oldest first
    due,         \* drain_interval has elapsed since last_drain
    pc,          \* what the loop is about to do (for a call: is awaiting)
    mode,        \* "direct" inside _process, "drain" inside _drain
    cur,         \* the message in hand
    reply,       \* inject() returned a reply that is not a refusal
    todo         \* rest of _drain's snapshot of the pending list

(***************************************************************************)
(* History: what the outside world has seen.  No action reads it, except   *)
(* to stop at a bound.                                                     *)
(***************************************************************************)
VARIABLES
    tried,       \* messages whose forward() has returned
    shown,       \* copies of each message in the human's chat
    sent,        \* replies to each message that reached its sender
    unrecorded,  \* messages with a reply not in file.replied, or no longer
    buried,      \* messages ever dead-lettered
    crashes,
    faults

disk == <<file>>
loop == <<pc, mode, cur, reply, todo>>
history == <<tried, shown, sent, unrecorded, buried>>
vars == <<file, unacked, chat, buffer, dedup, due, pc, mode, cur, reply, todo,
          tried, shown, sent, unrecorded, buried, crashes, faults>>

Pcs == {"idle", "reack", "inject", "forward", "send", "mark", "ack",
        "dequeue", "attempt", "post", "next"}

LoopTypes ==
    /\ pc \in Pcs
    /\ mode \in {"direct", "drain"}
    /\ cur \in Msgs \cup {NoMsg}
    /\ pc \notin {"idle", "post", "next"} => cur \in Msgs
    /\ todo \in Seq(Msgs)

FlagTypes ==
    /\ chat \in BOOLEAN
    /\ due \in BOOLEAN
    /\ reply \in BOOLEAN

HistoryTypes ==
    /\ tried \subseteq Msgs
    /\ shown \in [Msgs -> Nat]
    /\ sent \in [Msgs -> Nat]
    /\ unrecorded \subseteq Msgs
    /\ buried \subseteq Msgs
    /\ crashes \in Nat
    /\ faults \in Nat

\* The type invariant: a message is in hand whenever a call is made for one.
TypeOK ==
    /\ file \in QueueContent(Msgs)
    /\ unacked \subseteq Msgs
    /\ buffer \in Seq(Msgs)
    /\ dedup \in Seq(Msgs)
    /\ LoopTypes
    /\ FlagTypes
    /\ HistoryTypes

-----------------------------------------------------------------------------
Queued == Ids(file.pending)

\* adapter.get_chat(sender) is not None
HasChat(m) == m \in Listed \/ chat

\* Mutant: the window never takes an id in.
ForgetfulRemember(m) == IF m \in ToSet(dedup) THEN Append(dedup, m) ELSE dedup

\* _DedupWindow.add
Remember(m) ==
    IF m \in ToSet(dedup)
    THEN dedup
    ELSE LET d == Append(dedup, m)
         IN  IF Len(d) > DedupSize THEN Tail(d) ELSE d

\* One call misbehaves.
Fault == faults < MaxFaults /\ faults' = faults + 1

NoFault == UNCHANGED faults

\* The except clause around a dispatch: _process returns False, so the id is
\* not remembered; _drain counts an attempt.
Fail == pc' = (IF mode = "direct" THEN "post" ELSE "attempt")

\* First call of a dispatch, with a chat to forward to.
Dispatch(m) ==
    /\ cur' = m
    /\ reply' = FALSE
    /\ pc' = (IF m \in Eligible THEN "inject" ELSE "forward")

LetGo(where) ==
    /\ pc' = where
    /\ cur' = NoMsg
    /\ reply' = FALSE

-----------------------------------------------------------------------------
Init ==
    /\ file = EmptyContent
    /\ unacked = Msgs
    /\ chat \in BOOLEAN
    /\ buffer = <<>>
    /\ dedup = <<>>
    /\ due \in BOOLEAN  \* last_drain = 0.0 against a clock that may be younger
    /\ pc = "idle"
    /\ mode = "direct"
    /\ cur = NoMsg
    /\ reply = FALSE
    /\ todo = <<>>
    /\ tried = {}
    /\ shown = [m \in Msgs |-> 0]
    /\ sent = [m \in Msgs |-> 0]
    /\ unrecorded = {}
    /\ buried = {}
    /\ crashes = 0
    /\ faults = 0

(***************************************************************************)
(* The environment.                                                        *)
(***************************************************************************)

\* The server delivers, and redelivers for as long as it has no ack.
Deliver(m) ==
    /\ m \in unacked
    /\ Cardinality({i \in DOMAIN buffer : buffer[i] = m}) < MaxCopies
    /\ buffer' = Append(buffer, m)
    /\ UNCHANGED <<disk, unacked, chat, dedup, due, loop, history, crashes, faults>>

DrainTimer ==
    /\ ~due
    /\ due' = TRUE
    /\ UNCHANGED <<disk, unacked, chat, buffer, dedup, loop, history, crashes, faults>>

\* Another task of the event loop binds a chat: only while the loop awaits.
BindChat ==
    /\ ~chat
    /\ pc \in {"idle", "reack", "inject", "forward", "send", "ack"}
    /\ chat' = TRUE
    /\ UNCHANGED <<disk, unacked, buffer, dedup, due, loop, history, crashes, faults>>

(***************************************************************************)
(* The process dies (or is stopped, or an OSError from the queue escapes   *)
(* subscribe()) and a new one starts.  A call that had already reached the *)
(* other side is the behaviour in which the call's own step comes first.   *)
(* The new process has a chat only if something had persisted it.          *)
(***************************************************************************)
Crash ==
    /\ crashes < MaxCrashes
    /\ crashes' = crashes + 1
    /\ chat' \in {chat, FALSE}
    /\ buffer' = <<>>
    /\ dedup' = <<>>
    /\ due' \in BOOLEAN
    /\ pc' = "idle"
    /\ mode' = "direct"
    /\ cur' = NoMsg
    /\ reply' = FALSE
    /\ todo' = <<>>
    /\ unrecorded' = (IF pc = "mark" THEN unrecorded \cup {cur} ELSE unrecorded)
    /\ UNCHANGED <<disk, unacked, tried, shown, sent, buried, faults>>

(***************************************************************************)
(* subscribe(): take the next delivery.                                    *)
(***************************************************************************)
Take(m) ==
    /\ pc = "idle"
    /\ buffer # <<>>
    /\ m = Head(buffer)
    /\ buffer' = Tail(buffer)

\* Seen before: only ack again.
TakeDuplicate(m) ==
    /\ Take(m)
    /\ m \in ToSet(dedup)
    /\ pc' = "reack"
    /\ cur' = m
    /\ UNCHANGED <<disk, unacked, chat, dedup, due, mode, reply, todo, history, crashes, faults>>

\* _process branch 1: queue it, remember it, do not ack.
TakeUnbound(m) ==
    /\ Take(m)
    /\ m \notin ToSet(dedup)
    /\ ~HasChat(m)
    /\ file' = Enqueue(file, m)
    /\ dedup' = Remember(m)
    /\ pc' = "post"
    /\ UNCHANGED <<unacked, chat, due, mode, cur, reply, todo, history, crashes, faults>>

\* Mutant: the id is remembered on receipt, before the dispatch succeeded.
TakeBoundRemembering(m) ==
    /\ Take(m)
    /\ m \notin ToSet(dedup)
    /\ HasChat(m)
    /\ Dispatch(m)
    /\ dedup' = Remember(m)
    /\ UNCHANGED <<disk, unacked, chat, due, mode, todo, history, crashes, faults>>

\* _process branches 2 and 3.
TakeBound(m) ==
    /\ Take(m)
    /\ m \notin ToSet(dedup)
    /\ HasChat(m)
    /\ Dispatch(m)
    /\ UNCHANGED <<disk, unacked, chat, dedup, due, mode, todo, history, crashes, faults>>

\* The defensive ack; its exception is dropped, and `continue` goes straight
\* to the next delivery.
ReAck ==
    /\ pc = "reack"
    /\ \/ unacked' = unacked \ {cur} /\ (NoFault \/ Fault)
       \/ UNCHANGED unacked /\ Fault
    /\ LetGo("idle")
    /\ UNCHANGED <<disk, chat, buffer, dedup, due, mode, todo, history, crashes>>

(***************************************************************************)
(* The dispatch calls, shared by _process and _drain.                      *)
(***************************************************************************)

\* Mutant: the reply goes out before forward() is called.
InjectThenSend ==
    /\ pc = "inject"
    /\ reply' \in BOOLEAN
    /\ pc' = (IF reply' THEN "send" ELSE "forward")
    /\ UNCHANGED <<disk, unacked, chat, buffer, dedup, due, mode, cur, todo, history, crashes, faults>>

\* adapter.inject(), for an eligible message.
Inject ==
    /\ pc = "inject"
    /\ \/ /\ reply' \in BOOLEAN  \* a reply, or None or a refusal
          /\ pc' = "forward"
          /\ NoFault
       \/ Fault /\ Fail /\ UNCHANGED reply
    /\ UNCHANGED <<disk, unacked, chat, buffer, dedup, due, mode, cur, todo, history, crashes>>

\* The human sees the message.
Show == shown' = [shown EXCEPT ![cur] = @ + 1]

\* Mutant: has_replied() is not asked.
ForwardThenSend ==
    /\ pc = "forward"
    /\ Show
    /\ tried' = tried \cup {cur}
    /\ pc' = (IF reply THEN "send" ELSE "ack")
    /\ UNCHANGED <<disk, unacked, chat, buffer, dedup, due, mode, cur, reply, todo,
                   sent, unrecorded, buried, crashes, faults>>

\* forward() returns -- its Boolean result is not looked at -- or raises,
\* and then the human may have seen the message all the same (also: forward()
\* returned and has_replied() could not read the queue file).
Forward ==
    /\ pc = "forward"
    /\ \/ /\ \/ Show /\ NoFault
             \/ UNCHANGED shown /\ Fault
          /\ tried' = tried \cup {cur}
          /\ pc' = (IF reply /\ ~HasReplied(file, cur) THEN "send" ELSE "ack")
       \/ /\ Show \/ UNCHANGED shown
          /\ Fault
          /\ Fail
          /\ UNCHANGED tried
    /\ UNCHANGED <<disk, unacked, chat, buffer, dedup, due, mode, cur, reply, todo,
                   sent, unrecorded, buried, crashes>>

\* A failed client.send(): _process logs it and goes on to ack, _drain counts
\* an attempt.
GiveUpReply == pc' = (IF mode = "direct" THEN "ack" ELSE "attempt")

Reach == sent' = [sent EXCEPT ![cur] = @ + 1]

Send ==
    /\ pc = "send"
    /\ \/ /\ Reach
          /\ pc' = "mark"
          /\ NoFault
          /\ UNCHANGED unrecorded
       \/ /\ Fault
          /\ GiveUpReply
          /\ \/ UNCHANGED <<sent, unrecorded>>
             \/ Reach /\ unrecorded' = unrecorded \cup {cur}
    /\ UNCHANGED <<disk, unacked, chat, buffer, dedup, due, mode, cur, reply, todo,
                   tried, shown, buried, crashes>>

\* queue.mark_replied(); the write can fail like the send before it.
Mark ==
    /\ pc = "mark"
    /\ \/ /\ file' = MarkReplied(file, cur)
          /\ unrecorded' = unrecorded \cup (ToSet(file.replied) \ ToSet(file'.replied))
          /\ pc' = "ack"
          /\ NoFault
       \/ /\ Fault
          /\ GiveUpReply
          /\ unrecorded' = unrecorded \cup {cur}
          /\ UNCHANGED disk
    /\ UNCHANGED <<unacked, chat, buffer, dedup, due, mode, cur, reply, todo,
                   tried, shown, sent, buried, crashes>>

\* Mutant: the drain takes a message off the queue although its ack failed.
AckAndDequeueAnyway ==
    /\ pc = "ack"
    /\ \/ unacked' = unacked \ {cur} /\ NoFault
       \/ UNCHANGED unacked /\ Fault
    /\ \/ mode = "direct" /\ dedup' = Remember(cur) /\ LetGo("post")
       \/ mode = "drain" /\ pc' = "dequeue" /\ UNCHANGED <<dedup, cur, reply>>
    /\ UNCHANGED <<disk, chat, buffer, due, mode, todo, history, crashes>>

\* client.ack(); when it raises the ack may have landed.
Ack ==
    /\ pc = "ack"
    /\ \/ /\ unacked' = unacked \ {cur}
          /\ NoFault
          /\ \/ mode = "direct" /\ dedup' = Remember(cur) /\ LetGo("post")
             \/ mode = "drain" /\ pc' = "dequeue" /\ UNCHANGED <<dedup, cur, reply>>
       \/ /\ unacked' \in {unacked, unacked \ {cur}}
          /\ Fault
          /\ Fail
          /\ UNCHANGED <<dedup, cur, reply>>
    /\ UNCHANGED <<disk, chat, buffer, due, mode, todo, history, crashes>>

(***************************************************************************)
(* subscribe(): after a dispatch, drain if it is time to.                  *)
(***************************************************************************)
Post ==
    /\ pc = "post"
    /\ \/ /\ due
          /\ due' = FALSE
          /\ mode' = "drain"
          /\ todo' = [i \in DOMAIN file.pending |-> file.pending[i].id]
          /\ LetGo("next")
       \/ /\ ~due
          /\ LetGo("idle")
          /\ UNCHANGED <<due, mode, todo>>
    /\ UNCHANGED <<disk, unacked, chat, buffer, dedup, history, crashes, faults>>

(***************************************************************************)
(* _drain()                                                                *)
(***************************************************************************)

\* Mutant: an entry without a chat costs an attempt.
NextQueuedImpatient ==
    /\ pc = "next"
    /\ \/ /\ todo = <<>>
          /\ mode' = "direct"
          /\ LetGo("idle")
          /\ UNCHANGED todo
       \/ /\ todo # <<>>
          /\ todo' = Tail(todo)
          /\ UNCHANGED mode
          /\ \/ HasChat(Head(todo)) /\ Dispatch(Head(todo))
             \/ ~HasChat(Head(todo)) /\ cur' = Head(todo) /\ pc' = "attempt" /\ UNCHANGED reply
    /\ UNCHANGED <<disk, unacked, chat, buffer, dedup, due, history, crashes, faults>>

\* Mutant: the drain goes on for as long as the file has entries.
NextQueuedUntilEmpty ==
    /\ pc = "next"
    /\ \/ /\ file.pending = <<>>
          /\ mode' = "direct"
          /\ LetGo("idle")
          /\ UNCHANGED todo
       \/ /\ todo = <<>>
          /\ file.pending # <<>>
          /\ todo' = [i \in DOMAIN file.pending |-> file.pending[i].id]
          /\ UNCHANGED <<mode, pc, cur, reply>>
       \/ /\ todo # <<>>
          /\ file.pending # <<>>
          /\ todo' = Tail(todo)
          /\ UNCHANGED mode
          /\ \/ HasChat(Head(todo)) /\ Dispatch(Head(todo))
             \/ ~HasChat(Head(todo)) /\ UNCHANGED <<pc, cur, reply>>
    /\ UNCHANGED <<disk, unacked, chat, buffer, dedup, due, history, crashes, faults>>

\* The next entry of the snapshot; one still without a chat is passed over.
NextQueued ==
    /\ pc = "next"
    /\ \/ /\ todo = <<>>
          /\ mode' = "direct"
          /\ LetGo("idle")
          /\ UNCHANGED todo
       \/ /\ todo # <<>>
          /\ todo' = Tail(todo)
          /\ UNCHANGED mode
          /\ \/ HasChat(Head(todo)) /\ Dispatch(Head(todo))
             \/ ~HasChat(Head(todo)) /\ UNCHANGED <<pc, cur, reply>>
    /\ UNCHANGED <<disk, unacked, chat, buffer, dedup, due, history, crashes, faults>>

DequeueDone ==
    /\ pc = "dequeue"
    /\ \/ /\ file' = Dequeue(file, cur)
          /\ dedup' = Remember(cur)
          /\ NoFault
          /\ LetGo("next")
       \/ /\ Fault
          /\ Fail
          /\ UNCHANGED <<disk, dedup, cur, reply>>
    /\ UNCHANGED <<unacked, chat, buffer, due, mode, todo, history, crashes>>

CountAttempt ==
    /\ pc = "attempt"
    /\ file' = MarkAttempt(file, cur)
    /\ buried' = buried \cup (Queued \ Ids(file'.pending))
    /\ LetGo("next")
    /\ UNCHANGED <<unacked, chat, buffer, dedup, due, mode, todo,
                   tried, shown, sent, unrecorded, crashes, faults>>

-----------------------------------------------------------------------------
Loop ==
    \/ \E m \in Msgs : TakeDuplicate(m) \/ TakeUnbound(m) \/ TakeBound(m)
    \/ ReAck \/ Inject \/ Forward \/ Send \/ Mark \/ Ack
    \/ Post \/ NextQueued \/ DequeueDone \/ CountAttempt

Next ==
    \/ Loop
    \/ \E m \in Msgs : Deliver(m)
    \/ DrainTimer \/ BindChat \/ Crash

Spec == Init /\ [][Next]_vars

(***************************************************************************)
(* The event loop runs its ready tasks, the server redelivers what is not  *)
(* acked, the clock advances.  Nobody has to bind a chat.                  *)
(***************************************************************************)
Fairness ==
    /\ WF_vars(Loop)
    /\ \A m \in Msgs : WF_vars(Deliver(m))
    /\ WF_vars(DrainTimer)

FairSpec == Spec /\ Fairness

-----------------------------------------------------------------------------
(***************************************************************************)
(* Properties.                                                             *)
(***************************************************************************)

\* Taken care of, from the receiver's side: forward() returned for it, be it
\* with False, or it waits in the queue, or the queue gave up on it loudly.
Safe(m) == m \in tried \/ m \in Queued \/ m \in buried

\* No message is acked before forward() returned for it, or it is queued on disk
\* or dead-lettered: not by the defensive re-ack of a duplicate, not across a
\* crash, whatever call fails.
NoSilentLoss == \A m \in Msgs \ unacked : Safe(m)

\* A sender gets a second reply to one message only if a reply that reached it
\* is missing from file.replied: the process died or the write failed between
\* client.send() and mark_replied(), send() raised after the fact, or the
\* record was evicted.  (queue.py:13-15 promises less narrowly that a crash
\* between the reply and the ack never causes a second one.)
SecondReplyExplained == \A m \in Msgs : sent[m] > 1 => m \in unrecorded

\* No sender is answered before forward() returned for the message, in this
\* process or an earlier one, and only an eligible message is answered: the
\* send comes after forward() on both paths, also for a message that is in the
\* buffer and in the queue at once.  forward() may have returned False, and then
\* the human has seen nothing.
ForwardReturnsFirst ==
    \A m \in Msgs : sent[m] > 0 => m \in Eligible \cap tried

\* With a dedup window that holds every message in play, each further copy in
\* the human's chat is paid for: one by a failed call, two by a crash, after
\* which a queued message is both redelivered and drained.
CopiesBounded == \A m \in Msgs : shown[m] <= 1 + 2 * crashes + faults

\* A dead letter has cost MaxAttempts failed calls: a crash, a chat that is not
\* bound or a redelivery never counts as an attempt.
DeadLetterEarned == buried # {} => faults >= MaxAttempts

\* A message leaves the queue only after forward() returned for it and it was
\* acked, or into the dead letters.
LeavesQueueSettled ==
    [][\A m \in Queued \ Queued' :
            m \in buried' \/ (m \in tried /\ m \notin unacked)]_vars

\* In the end every message is acked, unless it waits in the queue or the queue
\* gave it up: none is redelivered for ever because a dispatch of it failed, and
\* the loop comes back for each from every drain, also from one whose entries
\* find no chat.  Whether a redelivered message that waits in the queue is
\* acked is left open.
EveryMessageSettled ==
    \A m \in Msgs : <>[](m \notin unacked \/ m \in Queued \/ m \in buried)

\* What is known of a message's last reply; of none, if it is not on record and
\* no record of it was lost.
Account ==
    [m \in Msgs |-> IF m \in ToSet(file.replied) THEN "recorded"
                    ELSE IF pc = "mark" /\ cur = m THEN "sent"
                    ELSE IF m \in unrecorded THEN "lost" ELSE "none"]

Box == INSTANCE Mailbox WITH
    held <- unacked, waiting <- Queued, answers <- sent, account <- Account

\* Whatever fails, dies or comes twice, the loop is a mailbox: each step takes
\* one message one step forward, or is none of the outside world's business.
MailboxKept == Box!Spec

(***************************************************************************)
(* The inductive strengthening of the invariants above.                    *)
(***************************************************************************)

\* What makes the acks safe: an id is remembered, acked or about to be acked
\* only once its message is safe.
HeldSafely ==
    /\ NoSilentLoss
    /\ \A m \in ToSet(dedup) : Safe(m)
    /\ pc = "reack" => Safe(cur)
    /\ pc \in {"send", "mark", "ack", "dequeue"} => cur \in tried
    /\ pc = "dequeue" => cur \notin unacked

\* What makes replies single: one that went out is on record, or is known to be
\* missing, or is about to be recorded; and none is sent for one on record.
RepliesAccounted ==
    /\ \A m \in Msgs : sent[m] > 0 =>
            m \in ToSet(file.replied) \cup unrecorded \/ (pc = "mark" /\ cur = m)
    /\ pc = "send" => cur \notin ToSet(file.replied)
    /\ SecondReplyExplained

\* What puts forward() first: only an eligible message gets a reply, and the
\* calls that send one come after forward().
RepliesAfterForward ==
    /\ pc \in {"inject", "send", "mark"} => cur \in Eligible
    /\ pc = "forward" /\ reply => cur \in Eligible
    /\ ForwardReturnsFirst

\* The inductive invariant: no state in which one of the three could break next.
LoopInv ==
    /\ TypeOK
    /\ HeldSafely
    /\ RepliesAccounted
    /\ RepliesAfterForward

(***************************************************************************)
(* What the documentation says of the loop, and a run refutes.             *)
(***************************************************************************)

\* docs/troubleshooting.md: the queue drains once a chat is bound.
DrainsOnceBound ==
    \A m \in Msgs : (m \in Queued /\ chat) ~> (m \notin Queued \/ ~chat)
=============================================================================
