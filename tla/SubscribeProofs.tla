-------------------------- MODULE SubscribeProofs --------------------------
(***************************************************************************)
(* The receive loop for any number of messages, crashes and failures, any  *)
(* window and any caps: what it never loses, repeats or answers too early, *)
(* what a dead letter has cost, for a window that holds every message in   *)
(* play how often a message is shown, and that it implements a mailbox.    *)
(***************************************************************************)
EXTENDS Subscribe, QueueFileProofs, FiniteSetTheorems

-----------------------------------------------------------------------------
\* The dedup window holds ids it held before and the one added.
LEMMA RememberProperties ==
    ASSUME TypeOK, NEW m \in Msgs
    PROVE  /\ Remember(m) \in Seq(Msgs)
           /\ ToSet(Remember(m)) \subseteq ToSet(dedup) \cup {m}
<1> DEFINE d == Append(dedup, m)
<1>1. dedup \in Seq(Msgs)
  BY DEF TypeOK
<1>2. /\ d \in Seq(Msgs) /\ Len(d) = Len(dedup) + 1
      /\ \A i \in 1 .. Len(d) : d[i] = IF i <= Len(dedup) THEN dedup[i] ELSE m
  BY <1>1
<1> HIDE DEF d
<1>3. /\ Tail(d) \in Seq(Msgs) /\ Len(Tail(d)) = Len(dedup)
      /\ \A i \in 1 .. Len(Tail(d)) : Tail(d)[i] = d[i + 1]
  BY <1>2, <1>1
<1>4. ToSet(d) \subseteq ToSet(dedup) \cup {m}
  BY <1>1, <1>2 DEF ToSet
<1>5. ToSet(Tail(d)) \subseteq ToSet(d)
  BY <1>1, <1>2, <1>3 DEF ToSet
<1> QED
  BY <1>1, <1>2, <1>3, <1>4, <1>5 DEF Remember, d

LEMMA InitTypeOK == Init => TypeOK
<1> SUFFICES ASSUME Init PROVE TypeOK
  OBVIOUS
<1> USE DEF Init
<1>1. file \in QueueContent(Msgs)
  BY DEF EmptyContent, QueueContent, Entry
<1>2. LoopTypes
  BY DEF LoopTypes, Pcs
<1>3. FlagTypes
  BY DEF FlagTypes
<1>4. HistoryTypes
  BY DEF HistoryTypes
<1> QED
  BY <1>1, <1>2, <1>3, <1>4 DEF TypeOK

\* Every step keeps the types.
LEMMA NextTypeOK == TypeOK /\ [Next]_vars => TypeOK'
<1> SUFFICES ASSUME TypeOK, [Next]_vars PROVE TypeOK'
  OBVIOUS
<1> USE SubscribeAssumption, QueueAssumption DEF TypeOK, history, loop, disk
<1>1. ASSUME NEW m \in Msgs, TakeDuplicate(m) PROVE TypeOK'
  <2> USE <1>1 DEF TakeDuplicate, Take
  <2>1. LoopTypes'
    BY DEF LoopTypes, Pcs
  <2>2. FlagTypes'
    BY DEF FlagTypes
  <2>3. HistoryTypes'
    BY DEF HistoryTypes, LoopTypes, Pcs
  <2> QED
    BY <2>1, <2>2, <2>3
<1>2. ASSUME NEW m \in Msgs, TakeUnbound(m) PROVE TypeOK'
  <2> USE <1>2 DEF TakeUnbound, Take
  <2>4. file' \in QueueContent(Msgs)
    BY EnqueueProperties
  <2>5. dedup' \in Seq(Msgs)
    BY RememberProperties
  <2>1. LoopTypes'
    BY DEF LoopTypes, Pcs
  <2>2. FlagTypes'
    BY DEF FlagTypes
  <2>3. HistoryTypes'
    BY DEF HistoryTypes, LoopTypes, Pcs
  <2> QED
    BY <2>1, <2>2, <2>3, <2>4, <2>5
<1>3. ASSUME NEW m \in Msgs, TakeBound(m) PROVE TypeOK'
  <2> USE <1>3 DEF TakeBound, Take, Dispatch
  <2>1. LoopTypes'
    BY DEF LoopTypes, Pcs
  <2>2. FlagTypes'
    BY DEF FlagTypes
  <2>3. HistoryTypes'
    BY DEF HistoryTypes, LoopTypes, Pcs
  <2> QED
    BY <2>1, <2>2, <2>3
<1>4. CASE ReAck
  <2> USE <1>4 DEF ReAck, LetGo, Fault, NoFault
  <2>1. LoopTypes'
    BY DEF LoopTypes, Pcs
  <2>2. FlagTypes'
    BY DEF FlagTypes
  <2>3. HistoryTypes'
    BY DEF HistoryTypes, LoopTypes, Pcs
  <2> QED
    BY <2>1, <2>2, <2>3
<1>5. CASE Inject
  <2> USE <1>5 DEF Inject, Fault, NoFault, Fail
  <2>1. LoopTypes'
    BY DEF LoopTypes, Pcs
  <2>2. FlagTypes'
    BY DEF FlagTypes
  <2>3. HistoryTypes'
    BY DEF HistoryTypes, LoopTypes, Pcs
  <2> QED
    BY <2>1, <2>2, <2>3
<1>6. CASE Forward
  <2> USE <1>6 DEF Forward, Show, Fault, NoFault, Fail
  <2>1. LoopTypes'
    BY DEF LoopTypes, Pcs
  <2>2. FlagTypes'
    BY DEF FlagTypes
  <2>3. HistoryTypes'
    BY DEF HistoryTypes, LoopTypes, Pcs
  <2> QED
    BY <2>1, <2>2, <2>3
<1>7. CASE Send
  <2> USE <1>7 DEF Send, Reach, GiveUpReply, Fault, NoFault
  <2>1. LoopTypes'
    BY DEF LoopTypes, Pcs
  <2>2. FlagTypes'
    BY DEF FlagTypes
  <2>3. HistoryTypes'
    <3>1. cur \in Msgs
      BY DEF LoopTypes
    <3>2. sent' \in [Msgs -> Nat]
      <4>1. sent' = sent \/ sent' = [sent EXCEPT ![cur] = @ + 1]
        OBVIOUS
      <4>2. sent \in [Msgs -> Nat]
        BY DEF HistoryTypes
      <4> QED
        BY ONLY <3>1, <4>1, <4>2
    <3>3. unrecorded' \subseteq Msgs
      BY <3>1 DEF HistoryTypes
    <3>4. faults' \in Nat
      BY DEF HistoryTypes
    <3> QED
      BY <3>2, <3>3, <3>4 DEF HistoryTypes
  <2> QED
    BY <2>1, <2>2, <2>3
<1>8. CASE Mark
  <2> USE <1>8 DEF Mark, GiveUpReply, Fault, NoFault
  <2>1. LoopTypes'
    BY DEF LoopTypes, Pcs
  <2>2. FlagTypes'
    BY DEF FlagTypes
  <2>3. unrecorded' \subseteq Msgs
    <3>1. ToSet(file.replied) \subseteq Msgs
      BY DEF QueueContent, ToSet
    <3> QED
      BY <3>1 DEF HistoryTypes, LoopTypes
  <2>4. HistoryTypes'
    BY <2>3 DEF HistoryTypes
  <2>5. file' \in QueueContent(Msgs)
    BY MarkRepliedProperties DEF LoopTypes
  <2> QED
    BY <2>1, <2>2, <2>4, <2>5
<1>9. CASE Ack
  <2> USE <1>9 DEF Ack, LetGo, Fault, NoFault, Fail
  <2>4. dedup' \in Seq(Msgs)
    BY RememberProperties DEF LoopTypes
  <2>1. LoopTypes'
    BY DEF LoopTypes, Pcs
  <2>2. FlagTypes'
    BY DEF FlagTypes
  <2>3. HistoryTypes'
    BY DEF HistoryTypes, LoopTypes, Pcs
  <2> QED
    BY <2>1, <2>2, <2>3, <2>4
<1>10. CASE Post
  <2> USE <1>10 DEF Post, LetGo
  <2>1. todo' \in Seq(Msgs)
    <3>1. file.pending \in Seq(Entry(Msgs))
      BY DEF QueueContent
    <3>2. \A i \in 1 .. Len(file.pending) : file.pending[i].id \in Msgs
      <4> TAKE i \in 1 .. Len(file.pending)
      <4> DEFINE e == file.pending[i]
      <4>1. e \in Entry(Msgs)
        BY <3>1
      <4> HIDE DEF e
      <4>2. e.id \in Msgs
        BY <4>1 DEF Entry
      <4> QED
        BY <4>2 DEF e
    <3>3. CASE due
      <4>1. todo' = [i \in 1 .. Len(file.pending) |-> file.pending[i].id]
        BY <3>1, <3>3
      <4> QED
        BY <3>1, <3>2, <4>1
    <3> QED
      BY <3>3 DEF LoopTypes
  <2>2. LoopTypes'
    BY <2>1 DEF LoopTypes, Pcs
  <2>3. FlagTypes'
    BY DEF FlagTypes
  <2>4. HistoryTypes'
    BY DEF HistoryTypes
  <2> QED
    BY <2>2, <2>3, <2>4
<1>11. CASE NextQueued
  <2> USE <1>11 DEF NextQueued, LetGo, Dispatch
  <2>1. todo # <<>> => Head(todo) \in Msgs /\ Tail(todo) \in Seq(Msgs)
    BY DEF LoopTypes
  <2>2. LoopTypes'
    BY <2>1 DEF LoopTypes, Pcs
  <2>3. FlagTypes'
    BY DEF FlagTypes
  <2>4. HistoryTypes'
    BY DEF HistoryTypes
  <2> QED
    BY <2>2, <2>3, <2>4
<1>12. CASE DequeueDone
  <2> USE <1>12 DEF DequeueDone, LetGo, Fault, NoFault, Fail
  <2>4. file' \in QueueContent(Msgs)
    BY DequeueProperties
  <2>5. dedup' \in Seq(Msgs)
    BY RememberProperties DEF LoopTypes
  <2>1. LoopTypes'
    BY DEF LoopTypes, Pcs
  <2>2. FlagTypes'
    BY DEF FlagTypes
  <2>3. HistoryTypes'
    BY DEF HistoryTypes, LoopTypes, Pcs
  <2> QED
    BY <2>1, <2>2, <2>3, <2>4, <2>5
<1>13. CASE CountAttempt
  <2> USE <1>13 DEF CountAttempt, LetGo
  <2>1. file' \in QueueContent(Msgs)
    BY MarkAttemptProperties
  <2>2. Queued \subseteq Msgs
    BY PendingIds DEF Queued
  <2>3. LoopTypes'
    BY DEF LoopTypes, Pcs
  <2>4. FlagTypes'
    BY DEF FlagTypes
  <2>5. HistoryTypes'
    BY <2>2 DEF HistoryTypes
  <2> QED
    BY <2>1, <2>3, <2>4, <2>5
<1>14. ASSUME NEW m \in Msgs, Deliver(m) PROVE TypeOK'
  <2> USE <1>14 DEF Deliver
  <2>1. LoopTypes'
    BY DEF LoopTypes, Pcs
  <2>2. FlagTypes'
    BY DEF FlagTypes
  <2>3. HistoryTypes'
    BY DEF HistoryTypes, LoopTypes, Pcs
  <2> QED
    BY <2>1, <2>2, <2>3
<1>15. CASE DrainTimer
  <2> USE <1>15 DEF DrainTimer
  <2>1. LoopTypes'
    BY DEF LoopTypes, Pcs
  <2>2. FlagTypes'
    BY DEF FlagTypes
  <2>3. HistoryTypes'
    BY DEF HistoryTypes, LoopTypes, Pcs
  <2> QED
    BY <2>1, <2>2, <2>3
<1>16. CASE BindChat
  <2> USE <1>16 DEF BindChat
  <2>1. LoopTypes'
    BY DEF LoopTypes, Pcs
  <2>2. FlagTypes'
    BY DEF FlagTypes
  <2>3. HistoryTypes'
    BY DEF HistoryTypes, LoopTypes, Pcs
  <2> QED
    BY <2>1, <2>2, <2>3
<1>17. CASE Crash
  <2> USE <1>17 DEF Crash
  <2>1. LoopTypes'
    BY DEF LoopTypes, Pcs
  <2>2. FlagTypes'
    BY DEF FlagTypes
  <2>3. HistoryTypes'
    BY DEF HistoryTypes, LoopTypes, Pcs
  <2> QED
    BY <2>1, <2>2, <2>3
<1>18. CASE UNCHANGED vars
  <2> USE <1>18 DEF vars
  <2>1. LoopTypes'
    BY DEF LoopTypes, Pcs
  <2>2. FlagTypes'
    BY DEF FlagTypes
  <2>3. HistoryTypes'
    BY DEF HistoryTypes, LoopTypes, Pcs
  <2> QED
    BY <2>1, <2>2, <2>3
<1> QED
  BY <1>1, <1>2, <1>3, <1>4, <1>5, <1>6, <1>7, <1>8, <1>9, <1>10, <1>11,
     <1>12, <1>13, <1>14, <1>15, <1>16, <1>17, <1>18 DEF Next, Loop

\* The types of the receive loop hold in every reachable state.
THEOREM TypeCorrect == Spec => []TypeOK
BY InitTypeOK, NextTypeOK, PTL DEF Spec

-----------------------------------------------------------------------------
(***************************************************************************)
(* No silent loss.                                                         *)
(***************************************************************************)

\* A message that is safe stays safe: it leaves the queue only when forwarded
\* or dead-lettered.
LEMMA SafeStays ==
    ASSUME TypeOK, HeldSafely, [Next]_vars, NEW m \in Msgs, Safe(m)
    PROVE  Safe(m)'
<1> USE DEF Safe, Queued
<1>1. CASE UNCHANGED <<file, tried, buried>>
  BY <1>1
<1>2. ASSUME NEW n \in Msgs, TakeUnbound(n) PROVE Safe(m)'
  <2>1. Ids(file'.pending) = Ids(file.pending) \cup {n}
    BY <1>2, EnqueueProperties DEF TakeUnbound, TypeOK
  <2> QED
    BY <1>2, <2>1 DEF TakeUnbound, history
<1>3. CASE Forward
  BY <1>3 DEF Forward, disk
<1>4. CASE Mark
  <2>1. file' \in {file, MarkReplied(file, cur)} /\ cur \in Msgs
    BY <1>4 DEF Mark, disk, TypeOK, LoopTypes
  <2>2. file'.pending = file.pending
    BY <2>1, QueueAssumption, MarkRepliedProperties DEF TypeOK
  <2> QED
    BY <1>4, <2>2 DEF Mark
<1>5. CASE DequeueDone
  <2>1. file' \in {file, Dequeue(file, cur)}
    BY <1>5 DEF DequeueDone, disk
  <2>2. Ids(file.pending) \ {cur} \subseteq Ids(file'.pending)
    BY <2>1, DequeueProperties DEF TypeOK
  <2>3. cur \in tried
    BY <1>5 DEF DequeueDone, HeldSafely
  <2> QED
    BY <1>5, <2>2, <2>3 DEF DequeueDone, history
<1>6. CASE CountAttempt
  BY <1>6 DEF CountAttempt
<1> QED
  <2>1. CASE UNCHANGED vars
    BY <2>1, <1>1 DEF vars
  <2>2. CASE Next
    BY <2>2, <1>1, <1>2, <1>3, <1>4, <1>5, <1>6
       DEF Next, Loop, TakeDuplicate, TakeBound, ReAck, Inject, Send, Ack, Post,
           NextQueued, Deliver, DrainTimer, BindChat, Crash, history, disk
  <2> QED
    BY <2>1, <2>2

LEMMA InitHeldSafely == Init => HeldSafely
BY DEF Init, HeldSafely, NoSilentLoss, ToSet

\* The step of the induction, one conjunct at a time.
LEMMA NextHeldSafely == TypeOK /\ TypeOK' /\ HeldSafely /\ [Next]_vars => HeldSafely'
<1> SUFFICES ASSUME TypeOK, TypeOK', HeldSafely, [Next]_vars PROVE HeldSafely'
  OBVIOUS
<1>a. \A m \in Msgs : Safe(m) => Safe(m)'
  BY SafeStays
<1>b. tried \subseteq tried' /\ unacked' \subseteq unacked
  BY DEF Next, Loop, vars, TakeDuplicate, TakeUnbound, TakeBound, ReAck, Inject, Forward,
         Send, Mark, Ack, Post, NextQueued, DequeueDone, CountAttempt, Deliver,
         DrainTimer, BindChat, Crash, history, disk
<1>1. NoSilentLoss'
  <2> SUFFICES ASSUME NEW m \in Msgs, m \notin unacked' PROVE Safe(m)'
    BY DEF NoSilentLoss
  <2>1. CASE m \notin unacked
    BY <2>1, <1>a DEF HeldSafely, NoSilentLoss
  <2>2. CASE m \in unacked
    <3>1. (ReAck \/ Ack) /\ m = cur
      BY <2>2 DEF Next, Loop, vars, TakeDuplicate, TakeUnbound, TakeBound, ReAck, Inject,
                  Forward, Send, Mark, Ack, Post, NextQueued, DequeueDone, CountAttempt,
                  Deliver, DrainTimer, BindChat, Crash, history, disk
    <3>2. Safe(m)
      BY <3>1 DEF ReAck, Ack, HeldSafely, Safe
    <3> QED
      BY <3>2, <1>a
  <2> QED
    BY <2>1, <2>2
<1>2. \A m \in ToSet(dedup') : Safe(m)'
  <2>0. dedup \in Seq(Msgs) /\ ToSet(dedup) \subseteq Msgs
    BY DEF TypeOK, ToSet
  <2>1. CASE dedup' = dedup \/ dedup' = <<>>
    BY <2>0, <2>1, <1>a DEF HeldSafely, ToSet
  <2>2. ASSUME NEW n \in Msgs, TakeUnbound(n) PROVE \A m \in ToSet(dedup') : Safe(m)'
    <3>1. ToSet(dedup') \subseteq ToSet(dedup) \cup {n}
      BY <2>2, RememberProperties DEF TakeUnbound
    <3>2. Ids(file'.pending) = Ids(file.pending) \cup {n}
      BY <2>2, EnqueueProperties DEF TakeUnbound, TypeOK
    <3> QED
      BY <2>0, <3>1, <3>2, <1>a DEF HeldSafely, Safe, Queued
  <2>3. CASE Ack \/ DequeueDone
    <3>1. cur \in Msgs /\ cur \in tried'
      BY <2>3, <1>b DEF Ack, DequeueDone, HeldSafely, TypeOK, LoopTypes
    <3>2. ToSet(dedup') \subseteq ToSet(dedup) \cup {cur}
      BY <2>3, <3>1, RememberProperties DEF Ack, DequeueDone
    <3> QED
      BY <2>0, <3>1, <3>2, <1>a DEF HeldSafely, Safe
  <2> QED
    BY <2>1, <2>2, <2>3
       DEF Next, Loop, vars, TakeDuplicate, TakeBound, ReAck, Inject, Forward, Send, Mark,
           Post, NextQueued, CountAttempt, Deliver, DrainTimer, BindChat, Crash
<1>3. pc' = "reack" => Safe(cur)'
  <2>1. CASE UNCHANGED <<pc, cur>>
    <3>1. pc = "reack" => cur \in Msgs /\ Safe(cur)
      BY DEF HeldSafely, TypeOK, LoopTypes
    <3> QED
      BY <2>1, <3>1, <1>a DEF Safe, Queued
  <2>2. ASSUME NEW n \in Msgs, TakeDuplicate(n) PROVE Safe(cur)'
    <3>1. Safe(n)' /\ cur' = n
      BY <2>2, <1>a DEF TakeDuplicate, HeldSafely
    <3> QED
      BY <3>1 DEF Safe, Queued
  <2> QED
    BY <2>1, <2>2
       DEF Next, Loop, vars, TakeUnbound, TakeBound, Dispatch, LetGo, Fail, GiveUpReply,
           ReAck, Inject, Forward, Send, Mark, Ack, Post, NextQueued, DequeueDone,
           CountAttempt, Deliver, DrainTimer, BindChat, Crash, loop
<1>4. pc' \in {"send", "mark", "ack", "dequeue"} => cur' \in tried'
  BY <1>b DEF Next, Loop, vars, TakeDuplicate, TakeUnbound, TakeBound, Dispatch, LetGo,
         Fail, GiveUpReply, ReAck, Inject, Forward, Send, Mark, Ack, Post, NextQueued,
         DequeueDone, CountAttempt, Deliver, DrainTimer, BindChat, Crash, loop, HeldSafely
<1>5. pc' = "dequeue" => cur' \notin unacked'
  BY <1>b DEF Next, Loop, vars, TakeDuplicate, TakeUnbound, TakeBound, Dispatch, LetGo,
         Fail, GiveUpReply, ReAck, Inject, Forward, Send, Mark, Ack, Post, NextQueued,
         DequeueDone, CountAttempt, Deliver, DrainTimer, BindChat, Crash, loop, HeldSafely
<1> QED
  BY <1>1, <1>2, <1>3, <1>4, <1>5 DEF HeldSafely

\* A message the server no longer holds has been forwarded, or is on disk, or
\* is a dead letter.
THEOREM NothingLostSilently == Spec => []NoSilentLoss
<1>1. Init => TypeOK /\ HeldSafely
  BY InitTypeOK, InitHeldSafely
<1>2. TypeOK /\ HeldSafely /\ [Next]_vars => (TypeOK /\ HeldSafely)'
  BY NextTypeOK, NextHeldSafely
<1>3. HeldSafely => NoSilentLoss
  BY DEF HeldSafely
<1> QED
  BY <1>1, <1>2, <1>3, PTL DEF Spec

-----------------------------------------------------------------------------
(***************************************************************************)
(* No unexplained second reply.                                            *)
(***************************************************************************)

LEMMA InitRepliesAccounted == Init => RepliesAccounted
BY DEF Init, RepliesAccounted, SecondReplyExplained

\* A step that touches neither replies nor their records leaves the accounts
\* as they were.
LEMMA AccountsUntouched ==
    ASSUME RepliesAccounted, UNCHANGED <<sent, unrecorded>>,
           file'.replied = file.replied, pc # "mark",
           pc' = "send" => cur' \notin ToSet(file.replied)
    PROVE  RepliesAccounted'
BY DEF RepliesAccounted, SecondReplyExplained

\* The step of the induction: only a send, a record and a crash touch them.
LEMMA NextRepliesAccounted ==
    TypeOK /\ RepliesAccounted /\ [Next]_vars => RepliesAccounted'
<1> SUFFICES ASSUME TypeOK, RepliesAccounted, [Next]_vars PROVE RepliesAccounted'
  OBVIOUS
<1> USE DEF history, loop, disk
<1>1. ASSUME NEW m \in Msgs, TakeDuplicate(m) PROVE RepliesAccounted'
  BY <1>1, AccountsUntouched DEF TakeDuplicate, Take
<1>2. ASSUME NEW m \in Msgs, TakeUnbound(m) PROVE RepliesAccounted'
  <2>1. file'.replied = file.replied
    BY <1>2, EnqueueProperties DEF TakeUnbound, TypeOK
  <2> QED
    BY <1>2, <2>1, AccountsUntouched DEF TakeUnbound, Take
<1>3. ASSUME NEW m \in Msgs, TakeBound(m) PROVE RepliesAccounted'
  BY <1>3, AccountsUntouched DEF TakeBound, Take, Dispatch
<1>4. CASE ReAck
  BY <1>4, AccountsUntouched DEF ReAck, LetGo
<1>5. CASE Inject
  BY <1>5, AccountsUntouched DEF Inject, Fail
<1>6. CASE Forward
  BY <1>6, AccountsUntouched DEF Forward, Fail, HasReplied
<1>7. CASE Send
  <2>1. cur \in Msgs /\ sent \in [Msgs -> Nat]
    BY <1>7 DEF Send, TypeOK, LoopTypes, HistoryTypes
  <2>2. file' = file /\ cur' = cur /\ pc = "send" /\ pc' # "send"
    BY <1>7 DEF Send, GiveUpReply
  <2>3. sent[cur] > 0 => cur \in unrecorded
    BY <2>1, <2>2 DEF RepliesAccounted
  <2>4. CASE sent' = sent
    BY <1>7, <2>2, <2>4 DEF Send, RepliesAccounted, SecondReplyExplained, Reach
  <2>5. CASE Reach /\ (pc' = "mark" \/ cur \in unrecorded') /\ unrecorded \subseteq unrecorded'
    <3>1. \A m \in Msgs : m # cur => sent'[m] = sent[m]
      BY <2>1, <2>5 DEF Reach
    <3>2. sent'[cur] = sent[cur] + 1
      BY <2>1, <2>5 DEF Reach
    <3>3. sent'[cur] > 1 => cur \in unrecorded'
      BY <2>1, <2>3, <2>5, <3>2
    <3> QED
      BY <2>1, <2>2, <2>5, <3>1, <3>3 DEF RepliesAccounted, SecondReplyExplained
  <2> QED
    BY <1>7, <2>4, <2>5 DEF Send
<1>8. CASE Mark
  <2>1. cur \in Msgs /\ cur' = cur /\ pc = "mark" /\ pc' \notin {"send", "mark"} /\ sent' = sent
    BY <1>8 DEF Mark, GiveUpReply, TypeOK, LoopTypes
  <2>2. CASE file' = MarkReplied(file, cur)
            /\ unrecorded' = unrecorded \cup (ToSet(file.replied) \ ToSet(file'.replied))
    <3>1. cur \in ToSet(file'.replied)
      BY <2>1, <2>2, QueueAssumption, MarkRepliedProperties DEF TypeOK
    <3> QED
      BY <2>1, <2>2, <3>1 DEF RepliesAccounted, SecondReplyExplained
  <2>3. CASE file' = file /\ unrecorded' = unrecorded \cup {cur}
    BY <2>1, <2>3 DEF RepliesAccounted, SecondReplyExplained
  <2> QED
    BY <1>8, <2>2, <2>3 DEF Mark
<1>9. CASE Ack
  BY <1>9, AccountsUntouched DEF Ack, LetGo, Fail
<1>10. CASE Post
  BY <1>10, AccountsUntouched DEF Post, LetGo
<1>11. CASE NextQueued
  BY <1>11, AccountsUntouched DEF NextQueued, LetGo, Dispatch
<1>12. CASE DequeueDone
  <2>1. file'.replied = file.replied
    BY <1>12, DequeueProperties DEF DequeueDone, TypeOK
  <2> QED
    BY <1>12, <2>1, AccountsUntouched DEF DequeueDone, LetGo, Fail
<1>13. CASE CountAttempt
  <2>1. file'.replied = file.replied
    BY <1>13, MarkAttemptProperties, QueueAssumption DEF CountAttempt, TypeOK
  <2> QED
    BY <1>13, <2>1, AccountsUntouched DEF CountAttempt, LetGo
<1>14. CASE Crash
  BY <1>14 DEF Crash, RepliesAccounted, SecondReplyExplained
<1>15. CASE \/ \E m \in Msgs : Deliver(m)
            \/ DrainTimer \/ BindChat \/ UNCHANGED vars
  BY <1>15 DEF Deliver, DrainTimer, BindChat, vars, RepliesAccounted, SecondReplyExplained
<1> QED
  BY <1>1, <1>2, <1>3, <1>4, <1>5, <1>6, <1>7, <1>8, <1>9, <1>10, <1>11,
     <1>12, <1>13, <1>14, <1>15 DEF Next, Loop

\* A sender is answered twice only when the first answer is not on record.
THEOREM SecondRepliesExplained == Spec => []SecondReplyExplained
<1>1. Init => TypeOK /\ RepliesAccounted
  BY InitTypeOK, InitRepliesAccounted
<1>2. TypeOK /\ RepliesAccounted /\ [Next]_vars => (TypeOK /\ RepliesAccounted)'
  BY NextTypeOK, NextRepliesAccounted
<1>3. RepliesAccounted => SecondReplyExplained
  BY DEF RepliesAccounted
<1> QED
  BY <1>1, <1>2, <1>3, PTL DEF Spec

-----------------------------------------------------------------------------
(***************************************************************************)
(* forward() first.                                                        *)
(***************************************************************************)

LEMMA InitRepliesAfterForward == Init => RepliesAfterForward
BY DEF Init, RepliesAfterForward, ForwardReturnsFirst

\* The step of the induction; that a call which follows forward() has its
\* message forwarded is a part of HeldSafely.
LEMMA NextRepliesAfterForward ==
    TypeOK /\ HeldSafely /\ RepliesAfterForward /\ [Next]_vars => RepliesAfterForward'
<1> SUFFICES ASSUME TypeOK, HeldSafely, RepliesAfterForward, [Next]_vars
             PROVE  RepliesAfterForward'
  OBVIOUS
<1>1. pc' \in {"inject", "send", "mark"} => cur' \in Eligible
  BY DEF RepliesAfterForward, Next, Loop, vars, TakeDuplicate, TakeUnbound, TakeBound,
         Dispatch, LetGo, Fail, GiveUpReply, ReAck, Inject, Forward, Send, Mark, Ack, Post,
         NextQueued, DequeueDone, CountAttempt, Deliver, DrainTimer, BindChat, Crash, loop
<1>2. pc' = "forward" /\ reply' => cur' \in Eligible
  BY DEF RepliesAfterForward, Next, Loop, vars, TakeDuplicate, TakeUnbound, TakeBound,
         Dispatch, LetGo, Fail, GiveUpReply, ReAck, Inject, Forward, Send, Mark, Ack, Post,
         NextQueued, DequeueDone, CountAttempt, Deliver, DrainTimer, BindChat, Crash, loop
<1>3. ForwardReturnsFirst'
  <2>1. CASE sent' = sent
    <3>1. tried \subseteq tried'
      BY DEF Next, Loop, vars, TakeDuplicate, TakeUnbound, TakeBound, ReAck, Inject,
             Forward, Send, Mark, Ack, Post, NextQueued, DequeueDone, CountAttempt, Deliver,
             DrainTimer, BindChat, Crash, history, disk
    <3> QED
      BY <2>1, <3>1 DEF ForwardReturnsFirst, RepliesAfterForward
  <2>2. CASE Send /\ Reach
    <3>1. cur \in Msgs /\ cur \in tried \cap Eligible /\ tried' = tried
      BY <2>2 DEF Send, HeldSafely, RepliesAfterForward, TypeOK, LoopTypes
    <3>2. \A m \in Msgs : m # cur => sent'[m] = sent[m]
      BY <2>2 DEF Reach, TypeOK, HistoryTypes
    <3> QED
      BY <3>1, <3>2 DEF ForwardReturnsFirst, RepliesAfterForward
  <2> QED
    BY <2>1, <2>2
       DEF Next, Loop, vars, TakeDuplicate, TakeUnbound, TakeBound, ReAck, Inject, Forward,
           Send, Mark, Ack, Post, NextQueued, DequeueDone, CountAttempt, Deliver,
           DrainTimer, BindChat, Crash, history
<1> QED
  BY <1>1, <1>2, <1>3 DEF RepliesAfterForward

\* LoopInv is inductive.
LEMMA InitLoopInv == Init => LoopInv
BY InitTypeOK, InitHeldSafely, InitRepliesAccounted, InitRepliesAfterForward DEF LoopInv

LEMMA NextLoopInv == LoopInv /\ [Next]_vars => LoopInv'
BY NextTypeOK, NextHeldSafely, NextRepliesAccounted, NextRepliesAfterForward DEF LoopInv

\* The inductive invariant holds in every reachable state.
THEOREM LoopInvariant == Spec => []LoopInv
BY InitLoopInv, NextLoopInv, PTL DEF Spec

\* Nobody is answered for whose message forward() has not returned.
THEOREM ForwardAlwaysFirst == Spec => []ForwardReturnsFirst
<1>1. LoopInv => ForwardReturnsFirst
  BY DEF LoopInv, RepliesAfterForward
<1> QED
  BY <1>1, LoopInvariant, PTL

-----------------------------------------------------------------------------
(***************************************************************************)
(* The way out of the queue.                                               *)
(***************************************************************************)

\* Only _drain's last call and the dead-lettering of an entry shorten the queue.
LEMMA StepLeavesQueueSettled ==
    ASSUME LoopInv, [Next]_vars, NEW m \in Queued \ Queued'
    PROVE  m \in buried' \/ (m \in tried /\ m \notin unacked)
<1>1. CASE DequeueDone
  <2>1. file' \in {file, Dequeue(file, cur)}
    BY <1>1 DEF DequeueDone, disk
  <2>2. Ids(file.pending) \ {cur} \subseteq Ids(file'.pending)
    BY <2>1, DequeueProperties DEF LoopInv, TypeOK
  <2>3. m = cur
    BY <2>2 DEF Queued
  <2> QED
    BY <1>1, <2>3 DEF DequeueDone, LoopInv, HeldSafely
<1>2. CASE CountAttempt
  BY <1>2 DEF CountAttempt, Queued
<1>3. ASSUME NEW n \in Msgs, TakeUnbound(n) PROVE FALSE
  <2>1. Ids(file'.pending) = Ids(file.pending) \cup {n}
    BY <1>3, EnqueueProperties DEF TakeUnbound, LoopInv, TypeOK
  <2> QED
    BY <2>1 DEF Queued
<1>4. CASE Mark
  <2>1. file' \in {file, MarkReplied(file, cur)} /\ cur \in Msgs
    BY <1>4 DEF Mark, disk, LoopInv, TypeOK, LoopTypes
  <2>2. file'.pending = file.pending
    BY <2>1, QueueAssumption, MarkRepliedProperties DEF LoopInv, TypeOK
  <2> QED
    BY <2>2 DEF Queued
<1>5. CASE UNCHANGED file
  BY <1>5 DEF Queued
<1> QED
  BY <1>1, <1>2, <1>3, <1>4, <1>5
     DEF Next, Loop, vars, TakeDuplicate, TakeBound, ReAck, Inject, Forward, Send, Ack,
         Post, NextQueued, Deliver, DrainTimer, BindChat, Crash, disk

\* A queued message leaves the queue forwarded and acked, or as a dead letter.
THEOREM QueueLeftSettled == Spec => LeavesQueueSettled
<1>1. LoopInv /\ [Next]_vars =>
          [\A m \in Queued \ Queued' :
               m \in buried' \/ (m \in tried /\ m \notin unacked)]_vars
  BY StepLeavesQueueSettled
<1> QED
  BY <1>1, LoopInvariant, PTL DEF Spec, LeavesQueueSettled
-----------------------------------------------------------------------------
(***************************************************************************)
(* The mailbox: every step of the loop is one of its steps, or none.       *)
(***************************************************************************)

\* The account of a message depends on the records and on the call in progress.
LEMMA AccountOf ==
    ASSUME NEW m \in Msgs
    PROVE  Account[m] = IF m \in ToSet(file.replied) THEN "recorded"
                        ELSE IF pc = "mark" /\ cur = m THEN "sent"
                        ELSE IF m \in unrecorded THEN "lost" ELSE "none"
BY DEF Account

\* The accounts are a function of the messages.
LEMMA AccountIsFunction ==
    /\ Account = [m \in Msgs |-> Account[m]]
    /\ Account' = [m \in Msgs |-> Account'[m]]
BY DEF Account

\* A step outside mark_replied() that leaves the records alone leaves the
\* accounts alone.
LEMMA AccountUntouched ==
    ASSUME file'.replied = file.replied, unrecorded' = unrecorded,
           (pc # "mark" /\ pc' # "mark") \/ UNCHANGED <<pc, cur>>
    PROVE  Account' = Account
BY DEF Account

\* What the mailbox sees of a step: nothing but the changes it names.
BoxUnchanged == UNCHANGED <<unacked, Queued, tried, buried, sent, Account>>

\* A send that reached the sender is an answer; so is one that raised after it.
LEMMA SendIsAnswer ==
    ASSUME LoopInv, Send
    PROVE  Box!Answer(cur) \/ BoxUnchanged
<1>1. /\ cur \in Msgs /\ cur \in Eligible /\ cur \in tried
      /\ cur \notin ToSet(file.replied) /\ pc = "send"
  BY DEF Send, LoopInv, TypeOK, LoopTypes, HeldSafely, RepliesAccounted, RepliesAfterForward
<1>2. /\ UNCHANGED <<unacked, tried, buried, file, cur>>
      /\ Queued' = Queued
  BY DEF Send, disk, Queued
<1>3. CASE sent' = sent
  <2>1. Reach => sent'[cur] = sent[cur] + 1 /\ sent[cur] \in Nat
    BY <1>1 DEF Reach, LoopInv, TypeOK, HistoryTypes
  <2>2. ~Reach
    BY <1>3, <2>1
  <2>3. unrecorded' = unrecorded /\ pc' # "mark"
    BY <2>2 DEF Send, GiveUpReply
  <2> QED
    BY <1>1, <1>2, <1>3, <2>3, AccountUntouched DEF BoxUnchanged
<1>4. CASE Reach
  <2>1. Account[cur] \in {"none", "lost"}
    BY <1>1, AccountOf
  <2>2. \/ pc' = "mark" /\ unrecorded' = unrecorded
        \/ pc' # "mark" /\ unrecorded' = unrecorded \cup {cur}
        \/ pc' # "mark" /\ unrecorded' = unrecorded /\ sent' = sent
    BY DEF Send, GiveUpReply
  <2>3. sent' # sent
    <3>1. sent'[cur] = sent[cur] + 1 /\ sent[cur] \in Nat
      BY <1>1, <1>4 DEF Reach, LoopInv, TypeOK, HistoryTypes
    <3> QED
      BY <3>1
  <2>4. \E known \in {"sent", "lost"} : Account' = [Account EXCEPT ![cur] = known]
    <3>1. CASE pc' = "mark" /\ unrecorded' = unrecorded
      <4>1. Account' = [Account EXCEPT ![cur] = "sent"]
        BY <1>1, <1>2, <3>1 DEF Account
      <4> QED
        BY <4>1
    <3>2. CASE pc' # "mark" /\ unrecorded' = unrecorded \cup {cur}
      <4>1. Account' = [Account EXCEPT ![cur] = "lost"]
        BY <1>1, <1>2, <3>2 DEF Account
      <4> QED
        BY <4>1
    <3> QED
      BY <2>2, <2>3, <3>1, <3>2
  <2> QED
    BY <1>1, <1>2, <1>4, <2>1, <2>4 DEF Box!Answer, Reach
<1> QED
  BY <1>3, <1>4 DEF Send

\* mark_replied() records the answer and may push out others, or fails.
LEMMA MarkIsRecord ==
    ASSUME LoopInv, Mark
    PROVE  Box!Record(cur) \/ Box!LoseAccount(cur) \/ BoxUnchanged
<1>1. cur \in Msgs /\ pc = "mark" /\ pc' # "mark" /\ file \in QueueContent(Msgs)
  BY DEF Mark, GiveUpReply, LoopInv, TypeOK, LoopTypes
<1>2. UNCHANGED <<unacked, tried, buried, sent, cur>>
  BY DEF Mark
<1>3. CASE file' = MarkReplied(file, cur)
           /\ unrecorded' = unrecorded \cup (ToSet(file.replied) \ ToSet(file'.replied))
  <2>1. /\ cur \in ToSet(file'.replied)
        /\ ToSet(file'.replied) \subseteq ToSet(file.replied) \cup {cur}
        /\ file'.pending = file.pending
    BY <1>1, <1>3, QueueAssumption, MarkRepliedProperties, MarkRepliedKeeps
  <2>2. Queued' = Queued
    BY <2>1 DEF Queued
  <2>3. CASE cur \in ToSet(file.replied)
    <3>1. file' = file /\ unrecorded' = unrecorded
      BY <1>3, <2>3 DEF MarkReplied, HasReplied
    <3>2. Account' = Account
      BY <1>1, <1>2, <2>3, <3>1 DEF Account
    <3> QED
      BY <1>2, <2>2, <3>2 DEF BoxUnchanged
  <2>4. CASE cur \notin ToSet(file.replied)
    <3> DEFINE out == ToSet(file.replied) \ ToSet(file'.replied)
    <3>1. Account[cur] = "sent"
      BY <1>1, <2>4, AccountOf
    <3>2. out \in SUBSET {n \in Msgs : Account[n] = "recorded"}
      <4>1. file.replied \in Seq(Msgs)
        BY <1>1 DEF QueueContent
      <4>2. ToSet(file.replied) \subseteq Msgs
        BY <4>1 DEF ToSet
      <4> QED
        BY <4>2, AccountOf
    <3>3. ASSUME NEW n \in Msgs
          PROVE  Account'[n] = IF n = cur THEN "recorded"
                               ELSE IF n \in out THEN "lost" ELSE Account[n]
      <4>1. Account'[n] = IF n \in ToSet(file'.replied) THEN "recorded"
                          ELSE IF n \in unrecorded' THEN "lost" ELSE "none"
        BY <1>1 DEF Account
      <4>2. n # cur => Account[n] = IF n \in ToSet(file.replied) THEN "recorded"
                                    ELSE IF n \in unrecorded THEN "lost" ELSE "none"
        BY AccountOf
      <4> QED
        BY <1>3, <2>1, <4>1, <4>2
    <3>4. Account' = [n \in Msgs |-> IF n = cur THEN "recorded"
                                     ELSE IF n \in out THEN "lost" ELSE Account[n]]
      <4> HIDE DEF out
      <4> QED
        BY <3>3, AccountIsFunction
    <3> HIDE DEF out
    <3> QED
      BY <1>2, <2>2, <3>1, <3>2, <3>4 DEF Box!Record
  <2> QED
    BY <2>3, <2>4
<1>4. CASE file' = file /\ unrecorded' = unrecorded \cup {cur}
  <2>1. Queued' = Queued
    BY <1>4 DEF Queued
  <2>2. CASE cur \in ToSet(file.replied)
    <3>1. Account' = Account
      BY <1>1, <1>2, <1>4, <2>2 DEF Account
    <3> QED
      BY <1>2, <2>1, <3>1 DEF BoxUnchanged
  <2>3. CASE cur \notin ToSet(file.replied)
    <3>1. Account[cur] = "sent"
      BY <1>1, <2>3, AccountOf
    <3>2. Account' = [Account EXCEPT ![cur] = "lost"]
      BY <1>1, <1>4, <2>3 DEF Account
    <3> QED
      BY <1>2, <2>1, <3>1, <3>2 DEF Box!LoseAccount
  <2> QED
    BY <2>2, <2>3
<1> QED
  BY <1>3, <1>4 DEF Mark, disk

\* A death between send() and mark_replied() loses the account, nothing else.
LEMMA CrashLosesAccount ==
    ASSUME LoopInv, Crash
    PROVE  (cur \in Msgs /\ Box!LoseAccount(cur)) \/ BoxUnchanged
<1>1. /\ UNCHANGED <<unacked, tried, buried, sent, file>> /\ pc' = "idle"
      /\ unrecorded' = (IF pc = "mark" THEN unrecorded \cup {cur} ELSE unrecorded)
      /\ Queued' = Queued
  BY DEF Crash, disk, Queued
<1>2. CASE pc = "mark" /\ cur \notin ToSet(file.replied)
  <2>1. cur \in Msgs
    BY <1>2 DEF LoopInv, TypeOK, LoopTypes
  <2>2. Account[cur] = "sent"
    BY <1>2, <2>1, AccountOf
  <2>3. Account' = [Account EXCEPT ![cur] = "lost"]
    BY <1>1, <1>2, <2>1 DEF Account
  <2> QED
    BY <1>1, <2>1, <2>2, <2>3 DEF Box!LoseAccount
<1>3. CASE ~(pc = "mark" /\ cur \notin ToSet(file.replied))
  <2>1. Account' = Account
    BY <1>1, <1>3 DEF Account
  <2> QED
    BY <1>1, <2>1 DEF BoxUnchanged
<1> QED
  BY <1>2, <1>3

\* The steps that write the queue move a message in, out, or to the dead letters.
LEMMA QueueStepsAreBoxSteps ==
    ASSUME LoopInv
    PROVE  /\ \A m \in Msgs : TakeUnbound(m) => Box!Keep(m)
           /\ DequeueDone => Box!Settle(cur) \/ BoxUnchanged
           /\ CountAttempt => Box!Bury(cur) \/ BoxUnchanged
<1>0. file \in QueueContent(Msgs)
  BY DEF LoopInv, TypeOK
<1>1. ASSUME NEW m \in Msgs, TakeUnbound(m) PROVE Box!Keep(m)
  <2>1. /\ file'.replied = file.replied /\ unrecorded' = unrecorded
        /\ Queued' = Queued \cup {m} /\ pc = "idle" /\ pc' = "post"
    BY <1>0, <1>1, EnqueueProperties DEF TakeUnbound, Take, history, Queued
  <2>2. Account' = Account
    BY <2>1, AccountUntouched
  <2> QED
    BY <1>1, <2>1, <2>2 DEF TakeUnbound, history, Box!Keep
<1>2. ASSUME DequeueDone PROVE Box!Settle(cur) \/ BoxUnchanged
  <2>1. cur \in tried \ unacked /\ pc = "dequeue"
    BY <1>2 DEF DequeueDone, LoopInv, HeldSafely
  <2>2. file' \in {file, Dequeue(file, cur)} /\ pc' # "mark"
    BY <1>2 DEF DequeueDone, disk, LetGo, Fail
  <2>3. Queued' \in {Queued, Queued \ {cur}} /\ file'.replied = file.replied
    <3>1. CASE file' = file
      BY <3>1 DEF Queued
    <3>2. CASE file' = Dequeue(file, cur)
      <4>1. /\ Ids(file.pending) \ {cur} \subseteq Ids(file'.pending)
            /\ Ids(file'.pending) \subseteq Ids(file.pending)
            /\ file'.replied = file.replied
        BY <1>0, <3>2, DequeueProperties
      <4> QED
        BY <4>1 DEF Queued
    <3> QED
      BY <2>2, <3>1, <3>2
  <2>4. Account' = Account
    BY <1>2, <2>1, <2>2, <2>3, AccountUntouched DEF DequeueDone, history
  <2> QED
    BY <1>2, <2>1, <2>3, <2>4 DEF DequeueDone, history, Box!Settle, BoxUnchanged
<1>3. ASSUME CountAttempt PROVE Box!Bury(cur) \/ BoxUnchanged
  <2>1. file' = MarkAttempt(file, cur) /\ pc = "attempt" /\ pc' = "next"
    BY <1>3 DEF CountAttempt, LetGo
  <2>2. /\ file'.replied = file.replied
        /\ Queued \ {cur} \subseteq Queued' /\ Queued' \subseteq Queued
    BY <1>0, <2>1, QueueAssumption, MarkAttemptProperties DEF Queued
  <2>3. Account' = Account
    BY <1>3, <2>1, <2>2, AccountUntouched DEF CountAttempt
  <2>4. buried' = buried \cup (Queued \ Queued')
    BY <1>3 DEF CountAttempt, Queued
  <2> QED
    BY <1>3, <2>2, <2>3, <2>4 DEF CountAttempt, Box!Bury, BoxUnchanged
<1> QED
  BY <1>1, <1>2, <1>3

\* A return of forward() is the mailbox's Try, both acks are the server's.
LEMMA CallsAreBoxSteps ==
    ASSUME LoopInv
    PROVE  /\ Forward => Box!Try(cur) \/ BoxUnchanged
           /\ ReAck \/ Ack => Box!Ack(cur) \/ BoxUnchanged
<1>1. ASSUME Forward PROVE Box!Try(cur) \/ BoxUnchanged
  <2>1. Account' = Account /\ Queued' = Queued
    BY <1>1, AccountUntouched DEF Forward, Fail, disk, Queued
  <2> QED
    BY <1>1, <2>1 DEF Forward, Box!Try, BoxUnchanged
<1>2. ASSUME ReAck \/ Ack PROVE Box!Ack(cur) \/ BoxUnchanged
  <2>1. Account' = Account /\ Queued' = Queued
    BY <1>2, AccountUntouched DEF ReAck, Ack, Fail, LetGo, disk, history, Queued
  <2>2. cur \in tried \cup Queued \cup buried
    BY <1>2 DEF ReAck, Ack, LoopInv, HeldSafely, Safe
  <2>3. unacked' \in {unacked, unacked \ {cur}} /\ UNCHANGED <<tried, buried, sent>>
    BY <1>2 DEF ReAck, Ack, history
  <2> QED
    BY <2>1, <2>2, <2>3 DEF Box!Ack, BoxUnchanged
<1> QED
  BY <1>1, <1>2

\* All other steps are the loop's own business.
LEMMA InnerSteps ==
    ASSUME \/ \E m \in Msgs : TakeDuplicate(m) \/ TakeBound(m) \/ Deliver(m)
           \/ Inject \/ Post \/ NextQueued \/ DrainTimer \/ BindChat \/ UNCHANGED vars
    PROVE  BoxUnchanged
<1>1. UNCHANGED <<unacked, file, tried, buried, sent, unrecorded>>
  BY DEF TakeDuplicate, TakeBound, Inject, Post, NextQueued, Deliver, DrainTimer, BindChat,
         vars, history, disk
<1>2. (pc # "mark" /\ pc' # "mark") \/ UNCHANGED <<pc, cur>>
  BY DEF TakeDuplicate, TakeBound, Take, Dispatch, Inject, Fail, Post, LetGo, NextQueued,
         Deliver, DrainTimer, BindChat, vars, loop
<1> QED
  BY <1>1, <1>2, AccountUntouched DEF BoxUnchanged, Queued

\* One step of the loop, one case per kind of step.
LEMMA BoxStep == LoopInv /\ [Next]_vars => [Box!Next]_(Box!mailbox)
<1> SUFFICES ASSUME LoopInv, [Next]_vars PROVE [Box!Next]_(Box!mailbox)
  OBVIOUS
<1>1. CASE BoxUnchanged
  BY <1>1 DEF BoxUnchanged, Box!mailbox
<1>2. ASSUME NEW m \in Msgs, TakeUnbound(m) PROVE Box!Next
  BY <1>2, QueueStepsAreBoxSteps DEF Box!Next
<1>3. CASE ReAck \/ Forward \/ Send \/ Mark \/ Ack \/ DequeueDone \/ CountAttempt
  <2>1. cur \in Msgs
    BY <1>3 DEF ReAck, Forward, Send, Mark, Ack, DequeueDone, CountAttempt, LoopInv, TypeOK, LoopTypes
  <2>2. \/ Box!Try(cur) \/ Box!Answer(cur) \/ Box!Record(cur) \/ Box!LoseAccount(cur)
        \/ Box!Ack(cur) \/ Box!Settle(cur) \/ Box!Bury(cur) \/ BoxUnchanged
    BY <1>3, CallsAreBoxSteps, SendIsAnswer, MarkIsRecord, QueueStepsAreBoxSteps
  <2> QED
    BY <1>1, <2>1, <2>2 DEF Box!Next
<1>4. CASE Crash
  BY <1>1, <1>4, CrashLosesAccount DEF Box!Next
<1> QED
  BY <1>1, <1>2, <1>3, <1>4, InnerSteps DEF Next, Loop

\* The receive loop (subscribe(), _process(), _drain()) implements Mailbox.
THEOREM LoopIsMailbox == Spec => MailboxKept
<1>1. Init => Box!Init
  BY DEF Init, Box!Init, Account, Queued, Ids, EmptyContent, ToSet
<1> QED
  BY <1>1, BoxStep, LoopInvariant, PTL DEF Spec, MailboxKept, Box!Spec
-----------------------------------------------------------------------------
(***************************************************************************)
(* The way into the queue.                                                 *)
(***************************************************************************)

\* Only a message that was received without a chat is queued.
LEMMA QueuedWithoutChat ==
    ASSUME TypeOK, Next, Queued' \ Queued # {} PROVE pc = "idle" /\ ~chat
<1>1. CASE DequeueDone
  <2>1. file' \in {file, Dequeue(file, cur)}
    BY <1>1 DEF DequeueDone, disk
  <2> QED
    BY <2>1, DequeueProperties DEF TypeOK, Queued
<1>2. CASE CountAttempt
  <2>1. file' = MarkAttempt(file, cur)
    BY <1>2 DEF CountAttempt
  <2> QED
    BY <2>1, QueueAssumption, MarkAttemptProperties DEF TypeOK, Queued
<1>3. ASSUME NEW n \in Msgs, TakeUnbound(n) PROVE pc = "idle" /\ ~chat
  BY <1>3 DEF TakeUnbound, Take, HasChat
<1>4. CASE Mark
  <2>1. file' \in {file, MarkReplied(file, cur)} /\ cur \in Msgs
    BY <1>4 DEF Mark, disk, TypeOK, LoopTypes
  <2> QED
    BY <2>1, QueueAssumption, MarkRepliedProperties DEF TypeOK, Queued
<1>5. CASE UNCHANGED file
  BY <1>5 DEF Queued
<1> QED
  BY <1>1, <1>2, <1>3, <1>4, <1>5
     DEF Next, Loop, TakeDuplicate, TakeBound, ReAck, Inject, Forward, Send, Ack,
         Post, NextQueued, Deliver, DrainTimer, BindChat, Crash, disk
-----------------------------------------------------------------------------
(***************************************************************************)
(* What an attempt costs.                                                  *)
(***************************************************************************)

\* No message is queued twice, whether it comes from the stream or is counted.
OnceQueued == Distinct(file.pending)

\* What makes DeadLetterEarned inductive: the attempts of an entry are paid for
\* by failed calls, and so is the one that is about to be counted.
AttemptsPaid ==
    /\ DeadLetterEarned
    /\ \E paid \in Nat :
           /\ AtMost(file.pending, paid)
           /\ paid <= faults
           /\ pc = "attempt" => paid < faults

\* A step that leaves the queue alone counts an attempt only for a failed call.
LEMMA PaidUntouched ==
    ASSUME TypeOK, AttemptsPaid, file'.pending = file.pending, buried' = buried,
           (NoFault /\ pc' # "attempt") \/ Fault
    PROVE  AttemptsPaid'
<1> DEFINE after == faults'
<1>1. (after = faults /\ pc' # "attempt") \/ after = faults + 1
  BY DEF NoFault, Fault
<1>2. faults' = after
  OBVIOUS
<1> HIDE DEF after
<1>3. PICK paid \in Nat : /\ AtMost(file.pending, paid)
                          /\ paid <= faults
                          /\ pc = "attempt" => paid < faults
  BY DEF AttemptsPaid
<1>4. faults \in Nat /\ MaxAttempts \in Nat
  BY QueueAssumption DEF TypeOK, HistoryTypes
<1>5. paid <= after /\ (pc' = "attempt" => paid < after)
  BY <1>1, <1>3, <1>4
<1>6. faults >= MaxAttempts => after >= MaxAttempts
  BY <1>1, <1>4
<1>7. AtMost(file'.pending, paid)
  BY <1>3
<1> QED
  BY <1>2, <1>5, <1>6, <1>7 DEF AttemptsPaid, DeadLetterEarned

\* Every step keeps ids single and attempts paid for.
LEMMA NextAttemptsPaid ==
    ASSUME TypeOK, OnceQueued, AttemptsPaid, [Next]_vars
    PROVE  OnceQueued' /\ AttemptsPaid'
<1>1. file \in QueueContent(Msgs) /\ faults \in Nat /\ Distinct(file.pending)
  BY DEF TypeOK, HistoryTypes, OnceQueued
<1>2. PICK paid \in Nat : /\ AtMost(file.pending, paid)
                          /\ paid <= faults
                          /\ pc = "attempt" => paid < faults
  BY DEF AttemptsPaid
<1>3. ASSUME NEW m \in Msgs, TakeUnbound(m) PROVE OnceQueued' /\ AttemptsPaid'
  <2>1. /\ file' = Enqueue(file, m) /\ pc' # "attempt"
        /\ faults' = faults /\ buried' = buried
    BY <1>3 DEF TakeUnbound, history
  <2>2. Distinct(file'.pending) /\ AtMost(file'.pending, paid)
    BY <2>1, <1>1, <1>2, EnqueueEntries
  <2> QED
    BY <2>1, <2>2, <1>2 DEF OnceQueued, AttemptsPaid, DeadLetterEarned
<1>4. CASE Mark
  <2>1. file' \in {file, MarkReplied(file, cur)} /\ cur \in Msgs
    BY <1>4 DEF Mark, disk, TypeOK, LoopTypes
  <2>2. file'.pending = file.pending
    BY <2>1, <1>1, QueueAssumption, MarkRepliedProperties
  <2>3. buried' = buried /\ ((NoFault /\ pc' # "attempt") \/ Fault)
    BY <1>4 DEF Mark
  <2> QED
    BY <1>1, <2>2, <2>3, PaidUntouched DEF OnceQueued
<1>5. CASE DequeueDone
  <2>1. CASE UNCHANGED file
    <3>1. buried' = buried /\ ((NoFault /\ pc' # "attempt") \/ Fault)
      BY <1>5 DEF DequeueDone, history, LetGo
    <3> QED
      BY <2>1, <3>1, PaidUntouched DEF OnceQueued
  <2>2. CASE file' = Dequeue(file, cur) /\ faults' = faults /\ pc' # "attempt"
    <3>1. Distinct(file'.pending) /\ AtMost(file'.pending, paid)
      BY <2>2, <1>1, <1>2, DequeueEntries
    <3> QED
      BY <1>5, <2>2, <3>1, <1>2
         DEF DequeueDone, history, OnceQueued, AttemptsPaid, DeadLetterEarned
  <2> QED
    BY <1>5, <2>1, <2>2 DEF DequeueDone, disk, NoFault, LetGo
<1>6. CASE CountAttempt
  <2>1. /\ file' = MarkAttempt(file, cur)
        /\ buried' = buried \cup (Ids(file.pending) \ Ids(file'.pending))
        /\ pc = "attempt" /\ pc' # "attempt" /\ faults' = faults
    BY <1>6 DEF CountAttempt, LetGo, Queued
  <2>2. /\ Distinct(file'.pending) /\ AtMost(file'.pending, paid + 1)
        /\ Ids(file.pending) \ Ids(file'.pending) # {} => MaxAttempts <= paid + 1
    BY <2>1, <1>1, <1>2, MarkAttemptEntries
  <2>3. paid + 1 \in Nat /\ paid + 1 <= faults
    BY <2>1, <1>1, <1>2
  <2>4. MaxAttempts <= paid + 1 => faults >= MaxAttempts
    BY <2>3, <1>1, QueueAssumption
  <2> QED
    BY <2>1, <2>2, <2>3, <2>4 DEF OnceQueued, AttemptsPaid, DeadLetterEarned
<1>7. CASE UNCHANGED <<file, buried>> /\ ((NoFault /\ pc' # "attempt") \/ Fault)
  BY <1>7, PaidUntouched DEF OnceQueued
<1>8. CASE UNCHANGED <<file, buried, faults, pc>>
  BY <1>8 DEF OnceQueued, AttemptsPaid, DeadLetterEarned
<1> QED
  <2> USE DEF history, disk, loop
  <2>1. CASE ReAck \/ Inject \/ Forward \/ Send \/ Ack
    BY <2>1, <1>7 DEF ReAck, Inject, Forward, Send, Ack, LetGo
  <2>2. CASE Post \/ NextQueued \/ Crash
    BY <2>2, <1>7, <1>8 DEF Post, NextQueued, Crash, LetGo, Dispatch, NoFault
  <2>3. CASE \E m \in Msgs : TakeDuplicate(m) \/ TakeBound(m)
    BY <2>3, <1>7 DEF TakeDuplicate, TakeBound, Dispatch, NoFault
  <2>4. CASE DrainTimer \/ BindChat \/ \E m \in Msgs : Deliver(m)
    BY <2>4, <1>8 DEF DrainTimer, BindChat, Deliver
  <2>5. CASE UNCHANGED vars
    BY <2>5, <1>8 DEF vars
  <2> QED
    BY <2>1, <2>2, <2>3, <2>4, <2>5, <1>3, <1>4, <1>5, <1>6 DEF Next, Loop

LEMMA AttemptsAlwaysPaid == Spec => [](TypeOK /\ OnceQueued /\ AttemptsPaid)
<1>1. Init => OnceQueued /\ AttemptsPaid
  <2> SUFFICES ASSUME Init PROVE OnceQueued /\ AttemptsPaid
    OBVIOUS
  <2>1. OnceQueued
    BY DEF Init, EmptyContent, OnceQueued, Distinct
  <2>2. AtMost(file.pending, 0)
    BY DEF Init, EmptyContent, AtMost
  <2> QED
    BY <2>1, <2>2 DEF Init, AttemptsPaid, DeadLetterEarned
<1>2. TypeOK /\ OnceQueued /\ AttemptsPaid /\ [Next]_vars => OnceQueued' /\ AttemptsPaid'
  BY NextAttemptsPaid
<1> QED
  BY <1>1, <1>2, TypeCorrect, PTL DEF Spec

\* Every dead letter has cost as many failed calls as the queue allows, however
\* often the process died or the message came again.
THEOREM DeadLettersEarned == Spec => []DeadLetterEarned
<1>1. AttemptsPaid => DeadLetterEarned
  BY DEF AttemptsPaid
<1> QED
  BY <1>1, AttemptsAlwaysPaid, PTL
-----------------------------------------------------------------------------
(***************************************************************************)
(* How often the human sees a message.                                     *)
(***************************************************************************)

\* The dedup window holds every message in play (the code keeps 500 ids).
WindowHoldsAll == IsFiniteSet(Msgs) /\ Cardinality(Msgs) <= DedupSize

\* Then it forgets none: a full window would hold each of them already.
LEMMA NothingForgotten ==
    ASSUME TypeOK, WindowHoldsAll, IsInjective(dedup), NEW m \in Msgs
    PROVE  /\ ToSet(Remember(m)) = ToSet(dedup) \cup {m}
           /\ IsInjective(Remember(m))
<1>1. dedup \in Seq(Msgs)
  BY DEF TypeOK
<1>2. CASE m \in ToSet(dedup)
  BY <1>2 DEF Remember
<1>3. CASE m \notin ToSet(dedup)
  <2> DEFINE d == Append(dedup, m)
             n == Len(dedup) + 1
  <2>1. /\ d \in Seq(Msgs) /\ Len(d) = n /\ n \in Nat
        /\ DOMAIN d = 1 .. n /\ DOMAIN dedup = 1 .. Len(dedup) /\ Len(dedup) \in Nat
        /\ \A i \in 1 .. n : d[i] = IF i <= Len(dedup) THEN dedup[i] ELSE m
    BY <1>1
  <2> HIDE DEF d
  <2>2. ToSet(d) = ToSet(dedup) \cup {m}
    <3>1. d[n] = m /\ n \in DOMAIN d
      BY <2>1
    <3>2. \A i \in DOMAIN dedup : i \in DOMAIN d /\ d[i] = dedup[i]
      BY <2>1
    <3>3. \A i \in DOMAIN d : (i \in DOMAIN dedup /\ d[i] = dedup[i]) \/ d[i] = m
      BY <2>1
    <3> QED
      BY <3>1, <3>2, <3>3 DEF ToSet
  <2>3. IsInjective(d)
    <3>1. \A i \in DOMAIN dedup : dedup[i] # m
      BY <1>3 DEF ToSet
    <3>2. ASSUME NEW i \in 1 .. n, NEW j \in 1 .. n, d[i] = d[j] PROVE i = j
      BY <2>1, <3>1, <3>2 DEF IsInjective
    <3> QED
      BY <2>1, <3>2 DEF IsInjective
  <2>4. ~(n > DedupSize)
    <3>1. d \in Injection(1 .. n, Msgs)
      <4>1. d \in [1 .. n -> Msgs]
        BY <2>1
      <4> QED
        BY <4>1, <2>3 DEF Injection
    <3>2. Cardinality(1 .. n) <= Cardinality(Msgs)
      BY <3>1, FS_Injection DEF WindowHoldsAll
    <3>3. Cardinality(1 .. n) = n
      BY <2>1, FS_Interval
    <3>4. Cardinality(Msgs) \in Nat
      BY FS_CardinalityType DEF WindowHoldsAll
    <3> QED
      BY <3>2, <3>3, <3>4, <2>1, SubscribeAssumption DEF WindowHoldsAll
  <2>5. Remember(m) = d
    BY <1>3, <2>1, <2>4 DEF Remember, d
  <2> QED
    BY <2>2, <2>3, <2>5
<1> QED
  BY <1>2, <1>3

\* One message in hand at a time: on the stream one that is not remembered yet,
\* in a drain one that is queued and not waiting further back in the snapshot.
OneInHand ==
    /\ IsInjective(dedup)
    /\ pc \in {"idle", "post", "reack"} => mode = "direct"
    /\ pc \in {"next", "dequeue", "attempt"} => mode = "drain"
    /\ mode = "direct" /\ pc \in {"inject", "forward", "send", "mark", "ack"} =>
           cur \notin ToSet(dedup)
    /\ mode = "drain" => ToSet(todo) \subseteq Queued /\ IsInjective(todo)
    /\ mode = "drain" /\ pc # "next" => cur \in Queued /\ cur \notin ToSet(todo)
\* What is taken off the front of a snapshot is not further back in it.
LEMMA SnapshotFront ==
    ASSUME NEW T, NEW s \in Seq(T), IsInjective(s), s # <<>>
    PROVE  /\ Head(s) \in ToSet(s) /\ Head(s) \notin ToSet(Tail(s))
           /\ ToSet(Tail(s)) \subseteq ToSet(s) /\ IsInjective(Tail(s))
<1> DEFINE t == Tail(s)
<1>1. /\ Len(s) \in Nat /\ Len(s) >= 1 /\ Head(s) = s[1]
      /\ DOMAIN s = 1 .. Len(s) /\ DOMAIN t = 1 .. Len(t) /\ Len(t) = Len(s) - 1
      /\ \A i \in 1 .. Len(t) : t[i] = s[i + 1]
  OBVIOUS
<1> HIDE DEF t
<1>2. \A i \in DOMAIN t : i + 1 \in DOMAIN s /\ i + 1 # 1
  BY <1>1
<1>3. 1 \in DOMAIN s
  BY <1>1
<1>4. Head(s) \notin ToSet(t)
  BY <1>1, <1>2, <1>3 DEF ToSet, IsInjective
<1>5. ToSet(t) \subseteq ToSet(s)
  BY <1>1, <1>2 DEF ToSet
<1>6. IsInjective(t)
  <2>1. \A i, j \in DOMAIN t : i + 1 = j + 1 => i = j
    BY <1>1
  <2> QED
    BY <2>1, <1>1, <1>2 DEF IsInjective
<1> QED
  BY <1>1, <1>3, <1>4, <1>5, <1>6 DEF ToSet, t

\* Every step keeps it so.
LEMMA NextOneInHand ==
    ASSUME TypeOK, OnceQueued, WindowHoldsAll, OneInHand, [Next]_vars
    PROVE  OneInHand'
<1> USE DEF history, disk, loop
<1>0. /\ file \in QueueContent(Msgs) /\ dedup \in Seq(Msgs) /\ todo \in Seq(Msgs)
      /\ Distinct(file.pending) /\ IsInjective(dedup) /\ mode \in {"direct", "drain"}
  BY DEF TypeOK, LoopTypes, OnceQueued, OneInHand
<1>1. ASSUME NEW m \in Msgs, TakeDuplicate(m) \/ TakeBound(m) PROVE OneInHand'
  BY <1>1 DEF TakeDuplicate, TakeBound, Take, Dispatch, OneInHand
<1>2. ASSUME NEW m \in Msgs, TakeUnbound(m) PROVE OneInHand'
  <2>1. IsInjective(dedup')
    BY <1>0, <1>2, NothingForgotten DEF TakeUnbound
  <2> QED
    BY <1>2, <2>1 DEF TakeUnbound, Take, OneInHand
<1>3. CASE ReAck
  BY <1>3 DEF ReAck, LetGo, OneInHand
<1>4. CASE Inject
  BY <1>0, <1>4 DEF Inject, Fail, OneInHand, Queued
<1>5. CASE Forward
  BY <1>0, <1>5 DEF Forward, Fail, OneInHand, Queued
<1>6. CASE Send
  BY <1>0, <1>6 DEF Send, GiveUpReply, OneInHand, Queued
<1>7. CASE Mark
  <2>1. file' \in {file, MarkReplied(file, cur)} /\ cur \in Msgs
    BY <1>7 DEF Mark, TypeOK, LoopTypes
  <2>2. Queued' = Queued
    BY <2>1, <1>0, QueueAssumption, MarkRepliedProperties DEF Queued
  <2> QED
    BY <1>0, <1>7, <2>2 DEF Mark, GiveUpReply, OneInHand
<1>8. CASE Ack
  <2>1. cur \in Msgs
    BY <1>8 DEF Ack, TypeOK, LoopTypes
  <2>2. IsInjective(Remember(cur))
    BY <2>1, <1>0, NothingForgotten
  <2> QED
    BY <1>0, <1>8, <2>2 DEF Ack, Fail, LetGo, OneInHand, Queued
<1>9. CASE Post
  <2>1. CASE ~due
    BY <1>9, <2>1 DEF Post, LetGo, OneInHand
  <2>2. CASE due
    <3>1. /\ todo' = [i \in DOMAIN file.pending |-> file.pending[i].id]
          /\ pc' = "next" /\ mode' = "drain" /\ file' = file /\ dedup' = dedup
      BY <1>9, <2>2 DEF Post, LetGo
    <3>2. ToSet(todo') = Queued' /\ IsInjective(todo')
      BY <3>1, <1>0 DEF ToSet, Queued, Ids, IsInjective, Distinct
    <3> QED
      BY <3>1, <3>2, <1>0 DEF OneInHand
  <2> QED
    BY <2>1, <2>2
<1>10. CASE NextQueued
  <2>1. CASE todo = <<>>
    BY <1>10, <2>1 DEF NextQueued, LetGo, OneInHand
  <2>2. CASE todo # <<>>
    <3>1. /\ mode = "drain" /\ ToSet(todo) \subseteq Queued /\ IsInjective(todo)
      BY <1>10 DEF NextQueued, OneInHand
    <3>2. /\ Head(todo) \in ToSet(todo) /\ Head(todo) \notin ToSet(Tail(todo))
          /\ ToSet(Tail(todo)) \subseteq ToSet(todo) /\ IsInjective(Tail(todo))
      BY <1>0, <2>2, <3>1, SnapshotFront
    <3>3. /\ todo' = Tail(todo) /\ UNCHANGED <<mode, file, dedup>>
          /\ \/ pc' \in {"inject", "forward"} /\ cur' = Head(todo)
             \/ pc' = "next"
      BY <1>10, <2>2 DEF NextQueued, Dispatch
    <3> QED
      BY <3>1, <3>2, <3>3, <1>0 DEF OneInHand, Queued
  <2> QED
    BY <2>1, <2>2
<1>11. CASE DequeueDone
  <2>1. cur \in Msgs /\ mode = "drain" /\ ToSet(todo) \subseteq Queued \ {cur} /\ IsInjective(todo)
    BY <1>11 DEF DequeueDone, TypeOK, LoopTypes, OneInHand
  <2>2. CASE UNCHANGED file
    BY <1>11, <2>1, <2>2, NothingForgotten, <1>0 DEF DequeueDone, Fail, LetGo, OneInHand, Queued
  <2>3. CASE file' = Dequeue(file, cur) /\ dedup' = Remember(cur) /\ pc' = "next"
    <3>1. Queued \ {cur} \subseteq Queued'
      BY <2>3, <1>0, DequeueProperties DEF Queued
    <3>2. IsInjective(dedup')
      BY <2>1, <2>3, <1>0, NothingForgotten
    <3>3. UNCHANGED <<mode, todo>>
      BY <1>11 DEF DequeueDone
    <3> QED
      BY <2>1, <2>3, <3>1, <3>2, <3>3 DEF OneInHand
  <2> QED
    BY <1>11, <2>2, <2>3 DEF DequeueDone, LetGo
<1>12. CASE CountAttempt
  <2>1. mode = "drain" /\ ToSet(todo) \subseteq Queued \ {cur} /\ IsInjective(todo)
    BY <1>12 DEF CountAttempt, OneInHand
  <2>2. /\ file' = MarkAttempt(file, cur) /\ pc' = "next"
        /\ UNCHANGED <<mode, todo, dedup>>
    BY <1>12 DEF CountAttempt, LetGo
  <2>3. Queued \ {cur} \subseteq Queued'
    BY <2>2, <1>0, QueueAssumption, MarkAttemptProperties DEF Queued
  <2> QED
    BY <2>1, <2>2, <2>3, <1>0 DEF OneInHand
<1>13. CASE Crash
  <2>1. IsInjective(<<>>)
    BY DEF IsInjective
  <2> QED
    BY <1>13, <2>1 DEF Crash, OneInHand
<1>14. CASE UNCHANGED <<file, dedup, loop>>
  BY <1>14 DEF OneInHand, Queued
<1> QED
  BY <1>1, <1>2, <1>3, <1>4, <1>5, <1>6, <1>7, <1>8, <1>9, <1>10, <1>11, <1>12, <1>13, <1>14
     DEF Next, Loop, vars, Deliver, DrainTimer, BindChat
\* The message in hand has been forwarded, and nothing has failed since.
Settling(m, path) == cur = m /\ mode = path /\ pc \in {"send", "mark", "ack", "dequeue"}

\* The human may yet see m without a crash or a failed call: because it is not
\* remembered, or because it is queued.
OpenOnStream(m) == m \notin ToSet(dedup) /\ ~Settling(m, "direct")

OpenInQueue(m) == m \in Queued /\ ~Settling(m, "drain")

Count(b) == IF b THEN 1 ELSE 0

\* What makes CopiesBounded inductive: the copies still to come are paid for,
\* too.  A crash opens the stream again for a message that is queued as well.
PaidFor(m) ==
    shown[m] + Count(OpenOnStream(m)) + Count(OpenInQueue(m)) <= 1 + 2 * crashes + faults

CopiesPaid == \A m \in Msgs : PaidFor(m)

\* A step that opens no path, shows nothing, or pays for the one thing it does.
LEMMA StillPaid ==
    ASSUME TypeOK, TypeOK', NEW m \in Msgs, PaidFor(m), UNCHANGED crashes,
           \/ /\ shown'[m] = shown[m] /\ (NoFault \/ Fault)
              /\ OpenOnStream(m)' => OpenOnStream(m)
              /\ OpenInQueue(m)' => OpenInQueue(m)
           \/ /\ shown'[m] = shown[m] /\ Fault
              /\ \/ OpenOnStream(m)' => OpenOnStream(m)
                 \/ OpenInQueue(m)' => OpenInQueue(m)
           \/ /\ shown'[m] = shown[m] + 1 /\ Fault
              /\ OpenOnStream(m)' => OpenOnStream(m)
              /\ OpenInQueue(m)' => OpenInQueue(m)
           \/ /\ shown'[m] = shown[m] + 1 /\ (NoFault \/ Fault)
              /\ OpenOnStream(m) /\ ~OpenOnStream(m)'
              /\ OpenInQueue(m)' => OpenInQueue(m)
           \/ /\ shown'[m] = shown[m] + 1 /\ (NoFault \/ Fault)
              /\ OpenInQueue(m) /\ ~OpenInQueue(m)'
              /\ OpenOnStream(m)' => OpenOnStream(m)
           \/ /\ shown'[m] = shown[m] /\ (NoFault \/ Fault)
              /\ OpenOnStream(m) /\ ~OpenOnStream(m)'
    PROVE  PaidFor(m)'
<1> DEFINE copies == shown'[m]
           after == faults'
           stream == OpenOnStream(m)'
           queue == OpenInQueue(m)'
<1>1. /\ shown[m] \in Nat /\ crashes \in Nat /\ faults \in Nat
      /\ after \in {faults, faults + 1}
      /\ Fault => after = faults + 1
      /\ copies \in {shown[m], shown[m] + 1}
  BY DEF TypeOK, HistoryTypes, Fault, NoFault
<1>2. /\ PaidFor(m)' = (shown'[m] + Count(stream) + Count(queue) <= 1 + 2 * crashes' + faults')
      /\ shown'[m] = copies /\ faults' = after /\ crashes' = crashes
  BY DEF PaidFor, Count
<1> HIDE DEF copies, after, stream, queue
<1>3. shown[m] + Count(OpenOnStream(m)) + Count(OpenInQueue(m)) <= 1 + 2 * crashes + faults
  BY DEF PaidFor
<1>4. copies + Count(stream) + Count(queue) <= 1 + 2 * crashes + after
  <2>1. CASE copies = shown[m] /\ (stream => OpenOnStream(m)) /\ (queue => OpenInQueue(m))
    BY <1>1, <1>3, <2>1 DEF Count
  <2>2. CASE copies = shown[m] /\ after = faults + 1 /\ (stream => OpenOnStream(m))
    BY <1>1, <1>3, <2>2 DEF Count
  <2>3. CASE copies = shown[m] /\ after = faults + 1 /\ (queue => OpenInQueue(m))
    BY <1>1, <1>3, <2>3 DEF Count
  <2>4. CASE /\ copies = shown[m] + 1 /\ after = faults + 1
             /\ stream => OpenOnStream(m)
             /\ queue => OpenInQueue(m)
    BY <1>1, <1>3, <2>4 DEF Count
  <2>5. CASE OpenOnStream(m) /\ ~stream /\ (queue => OpenInQueue(m))
    BY <1>1, <1>3, <2>5 DEF Count
  <2>6. CASE OpenInQueue(m) /\ ~queue /\ (stream => OpenOnStream(m))
    BY <1>1, <1>3, <2>6 DEF Count
  <2>7. CASE copies = shown[m] /\ OpenOnStream(m) /\ ~stream
    BY <1>1, <1>3, <2>7 DEF Count
  <2> QED
    BY <1>1, <1>2, <2>1, <2>2, <2>3, <2>4, <2>5, <2>6, <2>7 DEF stream, queue
<1> QED
  BY <1>2, <1>4
\* Nothing but what is in hand, the window and the queue decides what is open.
LEMMA PathsUntouched ==
    ASSUME TypeOK, TypeOK', NEW m \in Msgs, PaidFor(m),
           UNCHANGED <<crashes, shown, dedup, file>>, NoFault \/ Fault,
           \A path \in {"direct", "drain"} : Settling(m, path) => Settling(m, path)'
    PROVE  PaidFor(m)'
BY StillPaid DEF OpenOnStream, OpenInQueue, Queued

\* Every step keeps the copies of a message paid for.
LEMMA NextPaidFor ==
    ASSUME TypeOK, TypeOK', OnceQueued, WindowHoldsAll, OneInHand, [Next]_vars,
           NEW m \in Msgs, PaidFor(m)
    PROVE  PaidFor(m)'
<1> USE DEF history, disk, loop
<1>0. /\ file \in QueueContent(Msgs) /\ dedup \in Seq(Msgs)
      /\ Distinct(file.pending) /\ IsInjective(dedup) /\ mode \in {"direct", "drain"}
      /\ shown \in [Msgs -> Nat]
  BY DEF TypeOK, LoopTypes, HistoryTypes, OnceQueued, OneInHand
<1>1. ASSUME NEW n \in Msgs, TakeDuplicate(n) \/ TakeBound(n) PROVE PaidFor(m)'
  BY <1>1, PathsUntouched DEF TakeDuplicate, TakeBound, Take, Dispatch, Settling, NoFault
<1>2. ASSUME NEW n \in Msgs, TakeUnbound(n) PROVE PaidFor(m)'
  <2>1. /\ pc = "idle" /\ pc' = "post" /\ n \notin ToSet(dedup)
        /\ UNCHANGED <<shown, crashes, faults>>
    BY <1>2 DEF TakeUnbound, Take
  <2>2. Queued' = Queued \cup {n} /\ ToSet(dedup') = ToSet(dedup) \cup {n}
    <3>1. file' = Enqueue(file, n) /\ dedup' = Remember(n)
      BY <1>2 DEF TakeUnbound
    <3>2. Queued' = Queued \cup {n}
      BY <3>1, <1>0, EnqueueProperties DEF Queued
    <3> QED
      BY <3>1, <3>2, <1>0, NothingForgotten
  <2>3. CASE m = n
    <3>1. OpenOnStream(m) /\ ~OpenOnStream(m)'
      BY <2>1, <2>2, <2>3 DEF OpenOnStream, Settling
    <3> QED
      BY <2>1, <3>1, StillPaid DEF NoFault
  <2>4. CASE m # n
    <3>1. /\ OpenOnStream(m)' => OpenOnStream(m)
          /\ OpenInQueue(m)' => OpenInQueue(m)
      BY <2>1, <2>2, <2>4 DEF OpenOnStream, OpenInQueue, Settling
    <3> QED
      BY <2>1, <3>1, StillPaid DEF NoFault
  <2> QED
    BY <2>3, <2>4
<1>3. CASE ReAck \/ Inject
  BY <1>3, PathsUntouched DEF ReAck, Inject, LetGo, Settling
<1>4. CASE Forward
  <2>1. /\ pc = "forward" /\ UNCHANGED <<crashes, dedup, file, cur, mode>>
        /\ shown' = shown \/ shown' = [shown EXCEPT ![cur] = @ + 1]
        /\ \/ pc' \in {"send", "ack"} /\ (NoFault \/ Fault)
           \/ pc' \in {"post", "attempt"} /\ Fault
    BY <1>4 DEF Forward, Show, Fail
  <2>2. Queued' = Queued
    BY <2>1 DEF Queued
  <2>3. CASE m # cur
    <3>1. shown'[m] = shown[m]
      BY <2>1, <2>3, <1>0
    <3>2. /\ OpenOnStream(m)' => OpenOnStream(m)
          /\ OpenInQueue(m)' => OpenInQueue(m)
      BY <2>1, <2>2, <2>3 DEF OpenOnStream, OpenInQueue, Settling
    <3> QED
      BY <2>1, <3>1, <3>2, StillPaid
  <2>4. CASE m = cur
    <3>1. shown'[m] = shown[m] \/ shown'[m] = shown[m] + 1
      BY <2>1, <2>4, <1>0
    <3>2. /\ OpenOnStream(m)' => OpenOnStream(m)
          /\ OpenInQueue(m)' => OpenInQueue(m)
      BY <2>1, <2>2 DEF OpenOnStream, OpenInQueue, Settling
    <3>3. CASE pc' \in {"post", "attempt"} /\ Fault
      BY <2>1, <3>1, <3>2, <3>3, StillPaid
    <3>4. CASE pc' \in {"send", "ack"} /\ mode = "direct"
      <4>1. OpenOnStream(m) /\ ~OpenOnStream(m)'
        BY <2>1, <2>4, <3>4 DEF OpenOnStream, Settling, OneInHand
      <4> QED
        BY <2>1, <3>1, <3>2, <4>1, StillPaid
    <3>5. CASE pc' \in {"send", "ack"} /\ mode = "drain"
      <4>1. OpenInQueue(m) /\ ~OpenInQueue(m)'
        BY <2>1, <2>4, <3>5 DEF OpenInQueue, Settling, OneInHand
      <4> QED
        BY <2>1, <3>1, <3>2, <4>1, StillPaid
    <3> QED
      BY <2>1, <3>3, <3>4, <3>5, <1>0
  <2> QED
    BY <2>3, <2>4
<1>5. ASSUME UNCHANGED <<crashes, shown, dedup, cur, mode>>, Queued' = Queued,
             pc \in {"send", "mark", "ack", "dequeue"},
             \/ pc' \in {"send", "mark", "ack", "dequeue"} /\ (NoFault \/ Fault)
             \/ Fault
      PROVE  PaidFor(m)'
  <2>1. CASE pc' \in {"send", "mark", "ack", "dequeue"} /\ (NoFault \/ Fault)
    <3>1. /\ OpenOnStream(m)' => OpenOnStream(m)
          /\ OpenInQueue(m)' => OpenInQueue(m)
      BY <1>5, <2>1 DEF OpenOnStream, OpenInQueue, Settling
    <3> QED
      BY <1>5, <2>1, <3>1, StillPaid
  <2>2. CASE Fault
    <3>1. \/ OpenOnStream(m)' => OpenOnStream(m)
          \/ OpenInQueue(m)' => OpenInQueue(m)
      BY <1>5, <1>0 DEF OpenOnStream, OpenInQueue, Settling
    <3> QED
      BY <1>5, <2>2, <3>1, StillPaid
  <2> QED
    BY <1>5, <2>1, <2>2
<1>6. CASE Send
  BY <1>5, <1>6 DEF Send, Queued
<1>7. CASE Mark
  <2>1. file' \in {file, MarkReplied(file, cur)} /\ cur \in Msgs
    BY <1>7 DEF Mark, TypeOK, LoopTypes
  <2>2. Queued' = Queued
    BY <2>1, <1>0, QueueAssumption, MarkRepliedProperties DEF Queued
  <2> QED
    BY <1>5, <1>7, <2>2 DEF Mark
<1>8. CASE Ack
  <2>1. ASSUME dedup' = dedup, cur' = cur, Fault \/ (NoFault /\ pc' = "dequeue")
        PROVE  PaidFor(m)'
    BY <1>5, <1>8, <2>1 DEF Ack, Queued
  <2>2. CASE mode = "direct" /\ dedup' = Remember(cur) /\ NoFault
    <3>1. cur \in Msgs /\ pc = "ack" /\ UNCHANGED <<crashes, shown, file, mode>>
      BY <1>8 DEF Ack, TypeOK, LoopTypes
    <3>2. ToSet(dedup') = ToSet(dedup) \cup {cur}
      BY <1>0, <2>2, <3>1, NothingForgotten
    <3>3. /\ OpenOnStream(m)' => OpenOnStream(m)
          /\ OpenInQueue(m)' => OpenInQueue(m)
      BY <2>2, <3>1, <3>2 DEF OpenOnStream, OpenInQueue, Settling, Queued
    <3> QED
      BY <2>2, <3>1, <3>3, StillPaid
  <2>3. \/ dedup' = dedup /\ cur' = cur /\ (Fault \/ (NoFault /\ pc' = "dequeue"))
        \/ mode = "direct" /\ dedup' = Remember(cur) /\ NoFault
    BY <1>8 DEF Ack
  <2> QED
    BY <2>1, <2>2, <2>3
<1>9. CASE Post \/ NextQueued
  BY <1>9, PathsUntouched DEF Post, NextQueued, Settling, NoFault
<1>10. CASE DequeueDone
  <2>1. CASE UNCHANGED <<file, dedup, cur>> /\ Fault
    BY <1>5, <1>10, <2>1 DEF DequeueDone, LetGo, Queued
  <2>2. CASE file' = Dequeue(file, cur) /\ dedup' = Remember(cur) /\ NoFault
    <3>1. /\ cur \in Msgs /\ pc = "dequeue" /\ pc' = "next" /\ mode = "drain"
          /\ UNCHANGED <<crashes, shown>>
      BY <1>10, <2>2, <1>0 DEF DequeueDone, TypeOK, LoopTypes, HistoryTypes, OneInHand, LetGo,
                          NoFault, Fault
    <3>2. ToSet(dedup') = ToSet(dedup) \cup {cur}
      BY <1>0, <2>2, <3>1, NothingForgotten
    <3>3. Queued' \subseteq Queued \ {cur}
      BY <1>0, <2>2, DequeueProperties, DequeueEntries DEF Queued
    <3>4. /\ OpenOnStream(m)' => OpenOnStream(m)
          /\ OpenInQueue(m)' => OpenInQueue(m)
      BY <3>1, <3>2, <3>3 DEF OpenOnStream, OpenInQueue, Settling
    <3> QED
      BY <2>2, <3>1, <3>4, StillPaid
  <2> QED
    BY <1>10, <2>1, <2>2 DEF DequeueDone
<1>11. CASE CountAttempt
  <2>1. /\ file' = MarkAttempt(file, cur) /\ pc = "attempt"
        /\ UNCHANGED <<crashes, shown, dedup, faults>>
    BY <1>11 DEF CountAttempt
  <2>2. Queued' \subseteq Queued
    BY <2>1, <1>0, QueueAssumption, MarkAttemptProperties DEF Queued
  <2>3. /\ OpenOnStream(m)' => OpenOnStream(m)
        /\ OpenInQueue(m)' => OpenInQueue(m)
    BY <2>1, <2>2 DEF OpenOnStream, OpenInQueue, Settling
  <2> QED
    BY <2>1, <2>3, StillPaid DEF NoFault
<1>12. CASE Crash
  <2> DEFINE born == crashes'
             left == Count(OpenOnStream(m)') + Count(OpenInQueue(m)')
  <2>1. born = crashes + 1 /\ shown'[m] = shown[m] /\ faults' = faults /\ crashes' = born
    BY <1>12 DEF Crash
  <2>2. left \in 0 .. 2
    BY DEF Count
  <2>3. /\ shown[m] + Count(OpenOnStream(m)) + Count(OpenInQueue(m)) <= 1 + 2 * crashes + faults
        /\ Count(OpenOnStream(m)) \in 0 .. 1 /\ Count(OpenInQueue(m)) \in 0 .. 1
        /\ shown[m] \in Nat /\ crashes \in Nat /\ faults \in Nat
    BY DEF PaidFor, Count, TypeOK, HistoryTypes
  <2>4. PaidFor(m)' = (shown[m] + Count(OpenOnStream(m)') + Count(OpenInQueue(m)') <= 1 + 2 * born + faults)
    BY <2>1 DEF PaidFor, Count
  <2>5. Count(OpenOnStream(m)') \in 0 .. 1 /\ Count(OpenInQueue(m)') \in 0 .. 1
    BY DEF Count
  <2> DEFINE x == Count(OpenOnStream(m)')
             y == Count(OpenInQueue(m)')
  <2> HIDE DEF born, x, y
  <2>6. shown[m] + x + y <= 1 + 2 * born + faults
    BY <2>1, <2>3, <2>5 DEF x, y
  <2> QED
    BY <2>4, <2>6 DEF x, y
<1>13. CASE UNCHANGED <<file, dedup, loop, shown, crashes, faults>>
  BY <1>13, PathsUntouched DEF Settling, NoFault
<1> QED
  BY <1>1, <1>2, <1>3, <1>4, <1>6, <1>7, <1>8, <1>9, <1>10, <1>11, <1>12, <1>13
     DEF Next, Loop, vars, Deliver, DrainTimer, BindChat

\* With a window that holds every message in play, each copy of a message after
\* the first costs a failed call, or half a crash.
THEOREM CopiesAlwaysBounded ==
    ASSUME WindowHoldsAll PROVE Spec => []CopiesBounded
<1>1. Init => OneInHand /\ CopiesPaid
  <2> SUFFICES ASSUME Init PROVE OneInHand /\ CopiesPaid
    OBVIOUS
  <2>1. OneInHand
    BY DEF Init, OneInHand, IsInjective
  <2>2. ASSUME NEW m \in Msgs PROVE PaidFor(m)
    <3>1. shown[m] = 0 /\ crashes = 0 /\ faults = 0 /\ m \notin Queued
      BY DEF Init, Queued, Ids, EmptyContent
    <3> QED
      BY <3>1 DEF PaidFor, Count, OpenInQueue
  <2> QED
    BY <2>1, <2>2 DEF CopiesPaid
<1>2. TypeOK /\ TypeOK' /\ OnceQueued /\ OneInHand /\ CopiesPaid /\ [Next]_vars
          => (OneInHand /\ CopiesPaid)'
  BY WindowHoldsAll, NextOneInHand, NextPaidFor DEF CopiesPaid
<1>3. TypeOK /\ CopiesPaid => CopiesBounded
  <2> SUFFICES ASSUME TypeOK, CopiesPaid, NEW m \in Msgs
               PROVE  shown[m] <= 1 + 2 * crashes + faults
    BY DEF CopiesBounded
  <2>1. /\ shown[m] + Count(OpenOnStream(m)) + Count(OpenInQueue(m)) <= 1 + 2 * crashes + faults
        /\ Count(OpenOnStream(m)) \in 0 .. 1 /\ Count(OpenInQueue(m)) \in 0 .. 1
        /\ shown[m] \in Nat /\ crashes \in Nat /\ faults \in Nat
    BY DEF CopiesPaid, PaidFor, Count, TypeOK, HistoryTypes
  <2> QED
    BY <2>1
<1> QED
  BY <1>1, <1>2, <1>3, AttemptsAlwaysPaid, PTL DEF Spec
=============================================================================
