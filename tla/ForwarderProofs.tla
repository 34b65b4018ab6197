-------------------------- MODULE ForwarderProofs --------------------------
(***************************************************************************)
(* The bridge by itself; the two tasks of the forwarder beside each other, *)
(* each as its own module describes it; and what they promise together     *)
(* about the chat a message goes to.  For any messages, updates and bounds.*)
(***************************************************************************)
EXTENDS Forwarder, TLAPS

-----------------------------------------------------------------------------
(***************************************************************************)
(* The bridge.                                                             *)
(***************************************************************************)

\* Nothing is lost if Telegram drops update u.
Covered(u) == log[u] # NoChat => u \in saved

\* The same, but for the update whose chat is about to be saved.
InHand(u) == Covered(u) \/ (task = "save" /\ u = chatBy)

\* What makes ConfirmedWasSaved inductive: whatever the offset, and the update
\* that comes next, have passed is saved or in hand.  After a failed save the
\* offset is ahead, and never used again.
Passed ==
    /\ \A u \in B!Updates : u <= confirmed => Covered(u)
    /\ task # "dead" => \A u \in B!Updates : u < offset => InHand(u)
    /\ batch # <<>> => \A u \in B!Updates : u < Head(batch) => InHand(u)
    /\ \A i \in 1 .. Len(batch) - 1 : batch[i + 1] = batch[i] + 1
    /\ task = "save" => chatBy \in B!Updates
    /\ task \notin {"handle", "save"} => batch = <<>>

\* An answer carries what Telegram holds, up to the limit.
LEMMA AnsweredBounds ==
    ASSUME B!BridgeAssumption, NEW n \in Nat, NEW from \in 0 .. n, Len(log) = n
    PROVE  /\ B!Answered(from) \in 0 .. (n - from)
           /\ B!Answered(from) <= BatchLimit
           /\ B!Answered(from) \in {BatchLimit, n - from}
<1>1. BatchLimit \in Nat
  BY DEF B!BridgeAssumption
<1>2. CASE BatchLimit <= n - from
  <2>1. B!Min({BatchLimit, n - from}) = BatchLimit
    BY <1>1, <1>2 DEF B!Min
  <2> QED
    BY <2>1, <1>1, <1>2 DEF B!Answered
<1>3. CASE n - from < BatchLimit
  <2>1. B!Min({BatchLimit, n - from}) = n - from
    BY <1>1, <1>3 DEF B!Min
  <2> QED
    BY <2>1, <1>1, <1>3 DEF B!Answered
<1> QED
  BY <1>1, <1>2, <1>3

\* A getUpdates confirms what the offset has passed, or what was confirmed.
LEMMA ConfirmBounds ==
    ASSUME B!TypeOK, B!Confirm
    PROVE  /\ confirmed' \in 0 .. Len(log)
           /\ confirmed <= confirmed'
           /\ confirmed' = confirmed \/ confirmed' = offset - 1
<1>1. confirmed \in 0 .. Len(log) /\ offset \in 0 .. Len(log) + 1 /\ Len(log) \in Nat
  BY DEF B!TypeOK
<1>2. CASE offset = 0
  BY <1>1, <1>2 DEF B!Confirm
<1>3. CASE offset # 0 /\ confirmed <= offset - 1
  <2>1. B!Max({confirmed, offset - 1}) = offset - 1
    BY <1>1, <1>3 DEF B!Max
  <2> QED
    BY <2>1, <1>1, <1>3 DEF B!Confirm
<1>4. CASE offset # 0 /\ offset - 1 < confirmed
  <2>1. B!Max({confirmed, offset - 1}) = confirmed
    BY <1>1, <1>4 DEF B!Max
  <2> QED
    BY <2>1, <1>1, <1>4 DEF B!Confirm
<1> QED
  BY <1>1, <1>2, <1>3, <1>4

\* The types at the start.
LEMMA InitBridgeTypes ==
    ASSUME B!BridgeAssumption PROVE B!Init => B!TypeOK
BY DEF B!BridgeAssumption, B!Init, B!TypeOK, B!Updates

\* What one write to the bot leaves as it was.
LEMMA WriteGrows ==
    ASSUME B!TypeOK, NEW c \in Chats \cup {NoChat}, B!Write(c)
    PROVE  /\ log' \in Seq(Chats \cup {NoChat})
           /\ Len(log') = Len(log) + 1
           /\ Len(log) \in Nat
           /\ B!Updates \subseteq B!Updates'
           /\ \A u \in B!Updates : log'[u] = log[u]
BY DEF B!TypeOK, B!Write, B!Updates

\* Every step keeps the types.
LEMMA NextBridgeTypes ==
    ASSUME B!BridgeAssumption, B!TypeOK, Passed, [B!Next]_(B!vars) PROVE B!TypeOK'
<1>0. Len(log) \in Nat
  BY DEF B!TypeOK
<1>1. CASE B!Attach
  BY <1>1 DEF B!TypeOK, B!Attach, B!server, B!Updates
<1>2. CASE B!PollOnce
  <2>1. confirmed' \in 0 .. Len(log)
    BY <1>2, ConfirmBounds DEF B!PollOnce
  <2>2. B!Answered(confirmed') \in 0 .. (Len(log) - confirmed')
    BY <2>1, <1>0, AnsweredBounds
  <2>3. batch' \in Seq(B!Updates)
    BY <1>2, <2>1, <2>2, <1>0 DEF B!PollOnce, B!Updates
  <2> QED
    BY <1>2, <2>1, <2>3 DEF B!TypeOK, B!PollOnce, B!Updates
<1>3. CASE B!HandleUpdate
  <2>1. /\ Head(batch) \in B!Updates
        /\ batch' \in Seq(B!Updates)
        /\ offset' = Head(batch) + 1
    BY <1>3 DEF B!TypeOK, B!HandleUpdate
  <2>2. offset' \in 0 .. Len(log) + 1
    BY <2>1, <1>0 DEF B!Updates
  <2>3. log[Head(batch)] \in Chats \cup {NoChat}
    BY <2>1 DEF B!TypeOK, B!Updates
  <2>4. \/ UNCHANGED <<chat, chatBy>>
        \/ chat' = log[Head(batch)] /\ chatBy' = Head(batch)
    BY <1>3 DEF B!HandleUpdate
  <2>5. chat' \in Chats \cup {NoChat} /\ chatBy' \in 0 .. Len(log)
    BY <2>1, <2>3, <2>4, <1>0 DEF B!TypeOK, B!Updates
  <2> QED
    BY <1>3, <2>1, <2>2, <2>5 DEF B!TypeOK, B!HandleUpdate, B!server, B!Updates
<1>4. CASE B!Save
  <2>1. chatBy \in B!Updates
    BY <1>4 DEF Passed, B!Save
  <2> QED
    BY <1>4, <2>1 DEF B!TypeOK, B!Save, B!server, B!Updates
<1>5. CASE B!BatchDone
  BY <1>5 DEF B!TypeOK, B!BatchDone, B!server, B!Updates
<1>6. CASE B!PollFails
  <2>1. confirmed' \in 0 .. Len(log)
    BY <1>6, ConfirmBounds DEF B!PollFails, B!TypeOK
  <2> QED
    BY <1>6, <2>1 DEF B!TypeOK, B!PollFails, B!Updates
<1>7. CASE B!SaveFails
  BY <1>7 DEF B!TypeOK, B!SaveFails, B!server, B!Updates
<1>8. CASE B!Crash
  BY <1>8 DEF B!TypeOK, B!Crash, B!server, B!Updates, B!BridgeAssumption
<1>9. CASE \E c \in Chats \cup {NoChat} : B!Write(c)
  <2> PICK c \in Chats \cup {NoChat} : B!Write(c)
    BY <1>9
  <2>1. batch' \in Seq(B!Updates')
    BY WriteGrows DEF B!TypeOK, B!Write
  <2> QED
    BY WriteGrows, <2>1 DEF B!TypeOK, B!Write
<1>10. CASE UNCHANGED B!vars
  BY <1>10 DEF B!TypeOK, B!vars, B!server, B!Updates
<1> QED
  BY <1>1, <1>2, <1>3, <1>4, <1>5, <1>6, <1>7, <1>8, <1>9, <1>10 DEF B!Next, B!Bridge

\* Nothing has been passed yet.
LEMMA InitPassed == B!Init => Passed
BY DEF B!Init, Passed, B!Updates

\* Every step keeps what was passed saved or in hand.
LEMMA NextPassed ==
    ASSUME B!BridgeAssumption, B!TypeOK, Passed, [B!Next]_(B!vars) PROVE Passed'
<1>0. /\ Len(log) \in Nat
      /\ batch \in Seq(B!Updates)
      /\ offset \in 0 .. Len(log) + 1
      /\ confirmed \in 0 .. Len(log)
  BY DEF B!TypeOK
<1> USE DEF B!Updates
<1>1. CASE B!Attach
  BY <1>1 DEF Passed, B!Attach, B!server, Covered, InHand
<1>2. CASE B!PollOnce
  <2>1. /\ confirmed' \in 0 .. Len(log)
        /\ confirmed' = confirmed \/ confirmed' = offset - 1
    BY <1>2, ConfirmBounds DEF B!PollOnce
  <2>2. B!Answered(confirmed') \in 0 .. (Len(log) - confirmed')
    BY <2>1, <1>0, AnsweredBounds
  <2>3. \A u \in B!Updates : u <= confirmed' => Covered(u)
    BY <1>2, <2>1, <1>0 DEF Passed, B!PollOnce, InHand
  <2>4. \A u \in B!Updates : Covered(u) => Covered(u)'
    BY <1>2 DEF B!PollOnce, Covered
  <2>5. batch' # <<>> => Head(batch') = confirmed' + 1
    BY <1>2, <2>1, <2>2 DEF B!PollOnce
  <2>6. \A i \in 1 .. Len(batch') - 1 : batch'[i + 1] = batch'[i] + 1
    BY <1>2, <2>1, <2>2 DEF B!PollOnce
  <2>7. \A u \in B!Updates : u < offset => Covered(u)
    BY <1>2 DEF B!PollOnce, Passed, InHand
  <2>8. log' = log /\ offset' = offset /\ task' = "handle"
    BY <1>2 DEF B!PollOnce
  <2>9. \A u \in B!Updates : u <= confirmed' => Covered(u)'
    BY <2>3, <2>4
  <2>10. \A u \in B!Updates : u < offset' => InHand(u)'
    BY <2>4, <2>7, <2>8 DEF InHand
  <2>11. batch' # <<>> => \A u \in B!Updates : u < Head(batch') => InHand(u)'
    BY <2>1, <2>5, <2>9 DEF InHand
  <2> QED
    BY <2>6, <2>8, <2>9, <2>10, <2>11 DEF Passed
<1>3. CASE B!HandleUpdate
  <2> DEFINE h == Head(batch)
  <2>1. /\ h \in B!Updates
        /\ batch' = Tail(batch)
        /\ Len(batch') = Len(batch) - 1
        /\ \A i \in 1 .. Len(batch') : batch'[i] = batch[i + 1]
        /\ Len(batch) \in Nat \ {0}
        /\ h = batch[1]
    BY <1>3, <1>0 DEF B!HandleUpdate
  <2>2. /\ log' = log /\ saved' = saved /\ confirmed' = confirmed
        /\ offset' = h + 1
        /\ task = "handle"
    BY <1>3 DEF B!HandleUpdate, B!server
  <2>3. \/ log[h] = NoChat /\ task' = "handle"
        \/ task' = "save" /\ chatBy' = h
    BY <1>3, <2>2 DEF B!HandleUpdate
  <2>4. \A u \in B!Updates : u < h => Covered(u)
    BY <2>1, <2>2 DEF Passed, InHand
  <2>5. \A u \in B!Updates : u < h + 1 => InHand(u)'
    BY <2>1, <2>2, <2>3, <2>4, <1>0 DEF InHand, Covered
  <2>6. batch' # <<>> => Head(batch') = h + 1
    BY <2>1 DEF Passed
  <2>7. \A i \in 1 .. Len(batch') - 1 : batch'[i + 1] = batch'[i] + 1
    BY <2>1 DEF Passed
  <2> HIDE DEF h
  <2>8. \A u \in B!Updates : u <= confirmed => Covered(u)'
    BY <2>2 DEF Passed, Covered
  <2> QED
    BY <2>1, <2>2, <2>3, <2>5, <2>6, <2>7, <2>8 DEF Passed
<1>4. CASE B!Save
  <2>1. \A u \in B!Updates : InHand(u) => Covered(u)'
    BY <1>4 DEF B!Save, B!server, InHand, Covered
  <2> QED
    BY <1>4, <2>1 DEF Passed, B!Save, B!server, InHand, Covered
<1>5. CASE B!BatchDone
  BY <1>5 DEF Passed, B!BatchDone, B!server, Covered, InHand
<1>6. CASE B!PollFails
  <2>1. confirmed' \in 0 .. Len(log) /\ (confirmed' = confirmed \/ confirmed' = offset - 1)
    BY <1>6, <1>0, ConfirmBounds DEF B!PollFails
  <2>2. \A u \in B!Updates : u <= confirmed' => Covered(u)
    BY <1>6, <2>1, <1>0 DEF Passed, B!PollFails, InHand
  <2> QED
    BY <1>6, <2>2 DEF Passed, B!PollFails, Covered, InHand
<1>7. CASE B!SaveFails
  BY <1>7 DEF Passed, B!SaveFails, B!server, Covered, InHand
<1>8. CASE B!Crash
  BY <1>8, <1>0 DEF Passed, B!Crash, B!server, Covered, InHand
<1>9. CASE \E c \in Chats \cup {NoChat} : B!Write(c)
  <2> PICK c \in Chats \cup {NoChat} : B!Write(c)
    BY <1>9
  <2>1. /\ Len(log') = Len(log) + 1
        /\ \A u \in B!Updates : log'[u] = log[u]
    BY WriteGrows
  <2>2. UNCHANGED <<confirmed, offset, task, batch, chatBy, saved>>
    BY DEF B!Write
  <2>3. \A u \in B!Updates : InHand(u) => InHand(u)'
    BY <2>1, <2>2 DEF InHand, Covered
  <2>4. \A u \in B!Updates : Covered(u) => Covered(u)'
    BY <2>1, <2>2 DEF Covered
  <2>5. batch # <<>> => Head(batch) \in B!Updates
    BY <1>0
  <2> QED
    BY <1>0, <2>1, <2>2, <2>3, <2>4, <2>5 DEF Passed
<1>10. CASE UNCHANGED B!vars
  BY <1>10 DEF Passed, B!vars, B!server, Covered, InHand
<1> QED
  BY <1>1, <1>2, <1>3, <1>4, <1>5, <1>6, <1>7, <1>8, <1>9, <1>10 DEF B!Next, B!Bridge

\* Every step of the forwarder is a step of the bridge or leaves it alone.
LEMMA StepOfBridge == [Next]_vars => [B!Next]_(B!vars)
<1> SUFFICES ASSUME [Next]_vars PROVE B!Next \/ UNCHANGED B!vars
  OBVIOUS
<1> USE DEF B!Next, B!Bridge
<1>1. CASE Attach
  BY <1>1 DEF Attach
<1>2. CASE BridgeTask(Progress) \/ BridgeTask(B!PollFails)
  BY <1>2 DEF BridgeTask, Progress
<1>3. CASE LoopTask
  BY <1>3 DEF LoopTask, bridge, B!vars
<1>4. CASE Write
  BY <1>4 DEF Write
<1>5. CASE Crash
  BY <1>5 DEF Crash
<1>6. CASE Outside(S!DrainTimer) \/ \E m \in Msgs : Outside(S!Deliver(m))
  BY <1>6 DEF Outside, bridge, B!vars
<1>7. CASE UNCHANGED vars
  BY <1>7 DEF vars, bridge, B!vars
<1> QED
  BY <1>1, <1>2, <1>3, <1>4, <1>5, <1>6, <1>7 DEF Next

\* So what every step of the bridge keeps, the forwarder keeps.
LEMMA BridgeSound == Spec => [](BridgeTypes /\ ConfirmedWasSaved)
<1>1. B!BridgeAssumption
  BY ForwarderAssumption
<1>2. Init => B!TypeOK /\ Passed
  BY <1>1, InitBridgeTypes, InitPassed DEF Init
<1>3. B!TypeOK /\ Passed /\ [Next]_vars => (B!TypeOK /\ Passed)'
  BY <1>1, StepOfBridge, NextBridgeTypes, NextPassed
<1>4. B!TypeOK /\ Passed => BridgeTypes /\ ConfirmedWasSaved
  BY DEF Passed, ConfirmedWasSaved, BridgeTypes, Covered, B!ConfirmedWasSaved
<1> QED
  BY <1>2, <1>3, <1>4, PTL DEF Spec

\* Beside the loop, too, the bridge's offset never passes the end of the log,
\* and the rest of its types hold.
THEOREM BridgeTypeCorrect == Spec => []BridgeTypes
BY BridgeSound, PTL

\* Telegram drops an update only after its chat reached chat.json, whatever the
\* loop does meanwhile.
THEOREM ConfirmedAlwaysSaved == Spec => []ConfirmedWasSaved
BY BridgeSound, PTL

-----------------------------------------------------------------------------
(***************************************************************************)
(* The receive loop.                                                       *)
(***************************************************************************)

\* A process that has not attached yet has no chat and an idle loop.
NotBegun == task = "down" => chat = NoChat /\ pc = "idle"

\* The loop does not start before the bridge is attached.
LEMMA NextNotBegun ==
    ASSUME NotBegun, [Next]_vars PROVE NotBegun'
<1>1. CASE Attach
  BY <1>1 DEF NotBegun, Attach, B!Attach
<1>2. CASE BridgeTask(Progress) \/ BridgeTask(B!PollFails)
  <2>1. task' # "down"
    BY <1>2 DEF BridgeTask, Progress, B!PollOnce, B!HandleUpdate, B!Save, B!SaveFails,
                B!BatchDone, B!PollFails
  <2> QED
    BY <2>1 DEF NotBegun
<1>3. CASE LoopTask
  BY <1>3 DEF NotBegun, LoopTask, BridgeAwaits, bridge
<1>4. CASE Write
  BY <1>4 DEF NotBegun, Write, B!Write, loop
<1>5. CASE Crash
  BY <1>5 DEF NotBegun, Crash, B!Crash, S!Crash
<1>6. CASE Outside(S!DrainTimer) \/ \E m \in Msgs : Outside(S!Deliver(m))
  BY <1>6 DEF NotBegun, Outside, bridge
<1>7. CASE UNCHANGED vars
  BY <1>7 DEF NotBegun, vars, bridge, loop
<1> QED
  BY <1>1, <1>2, <1>3, <1>4, <1>5, <1>6, <1>7 DEF Next

\* A change of the adapter's chat is none to the loop, or binds the first one.
LEMMA ChatOnlyBound ==
    ASSUME LoopAwaits, UNCHANGED <<loop, crashes>>,
           chat' = chat \/ chat' # NoChat
    PROVE  [S!Next]_(S!vars)
<1> USE DEF loop, S!disk, S!loop, S!history
<1>1. CASE chat = NoChat /\ chat' # NoChat
  BY <1>1 DEF LoopAwaits, S!BindChat, S!Next
<1>2. CASE (chat' # NoChat) = (chat # NoChat)
  BY <1>2 DEF S!vars
<1> QED
  BY <1>1, <1>2

\* Every step of the forwarder is a step of the loop, of its environment, or none.
LEMMA StepOfLoop ==
    ASSUME NotBegun, [Next]_vars PROVE [S!Next]_(S!vars)
<1>1. CASE Attach
  <2>1. LoopAwaits /\ (chat' = chat \/ chat' # NoChat)
    BY <1>1 DEF NotBegun, Attach, B!Attach, LoopAwaits
  <2> QED
    BY <1>1, <2>1, ChatOnlyBound DEF Attach
<1>2. CASE BridgeTask(Progress)
  <2>1. Progress /\ LoopAwaits /\ UNCHANGED loop
    BY <1>2 DEF BridgeTask
  <2>2. UNCHANGED crashes /\ (chat' = chat \/ chat' # NoChat)
    BY <2>1 DEF Progress, B!PollOnce, B!HandleUpdate, B!Save, B!SaveFails, B!BatchDone
  <2> QED
    BY <2>1, <2>2, ChatOnlyBound
<1>3. CASE BridgeTask(B!PollFails)
  BY <1>3 DEF BridgeTask, B!PollFails, loop, S!vars
<1>4. CASE LoopTask
  BY <1>4 DEF LoopTask, S!Next
<1>5. CASE Write
  BY <1>5 DEF Write, B!Write, loop, S!vars
<1>6. CASE Crash
  BY <1>6 DEF Crash, S!Next
<1>7. CASE Outside(S!DrainTimer) \/ \E m \in Msgs : Outside(S!Deliver(m))
  BY <1>7 DEF Outside, S!Next
<1>8. CASE UNCHANGED vars
  BY <1>8 DEF vars, bridge, loop, S!vars
<1> QED
  BY <1>1, <1>2, <1>3, <1>4, <1>5, <1>6, <1>7, <1>8 DEF Next

\* To the loop the bridge is no more than its environment: all that is proved
\* of Subscribe holds with a bridge beside it.
THEOREM ForwarderImplementsLoop == Spec => ImplementsLoop
<1>1. Init => S!Init /\ NotBegun
  BY DEF Init, B!Init, S!Init, NotBegun
<1>2. NotBegun /\ [Next]_vars => NotBegun'
  BY NextNotBegun
<1>3. NotBegun /\ [Next]_vars => [S!Next]_(S!vars)
  BY StepOfLoop
<1> QED
  BY <1>1, <1>2, <1>3, PTL DEF Spec, ImplementsLoop, S!Spec
-----------------------------------------------------------------------------
(***************************************************************************)
(* What SubscribeProofs proves of the loop, too, holds in the forwarder.   *)
(***************************************************************************)
SP == INSTANCE SubscribeProofs WITH chat <- (chat # NoChat), Listed <- {}

LEMMA LoopAssumptions == SP!SubscribeAssumption /\ SP!QueueAssumption
BY ForwarderAssumption DEF SP!SubscribeAssumption, SP!QueueAssumption, B!BridgeAssumption

LEMMA SameDeliver ==
    ASSUME NEW m \in Msgs, S!Deliver(m) PROVE SP!Deliver(m)
<1>1. ASSUME NEW X PROVE S!Cardinality(X) = SP!Cardinality(X)
  BY Zenon DEF S!Cardinality, SP!Cardinality
<1> QED
  BY <1>1, Zenon DEF S!Deliver, SP!Deliver, S!disk, SP!disk, S!loop, SP!loop,
                     S!history, SP!history

\* The two instances describe the same steps.
LEMMA SameNext == S!Next => SP!Next
<1> USE DEF S!disk, SP!disk, S!loop, SP!loop, S!history, SP!history,
            S!Queued, SP!Queued, S!HasChat, SP!HasChat, S!Remember, SP!Remember,
            S!ToSet, SP!ToSet, S!Fault, SP!Fault, S!NoFault, SP!NoFault,
            S!Fail, SP!Fail, S!Dispatch, SP!Dispatch, S!LetGo, SP!LetGo,
            S!Take, SP!Take, S!Ids, SP!Ids
<1>1. S!DrainTimer \/ S!BindChat \/ S!Crash => SP!DrainTimer \/ SP!BindChat \/ SP!Crash
  BY DEF S!DrainTimer, SP!DrainTimer, S!BindChat, SP!BindChat, S!Crash, SP!Crash
<1>2. ASSUME NEW m \in Msgs, S!TakeDuplicate(m) PROVE SP!TakeDuplicate(m)
  BY <1>2 DEF S!TakeDuplicate, SP!TakeDuplicate
<1>3. ASSUME NEW m \in Msgs, S!TakeUnbound(m) PROVE SP!TakeUnbound(m)
  BY <1>3 DEF S!TakeUnbound, SP!TakeUnbound, S!Enqueue, SP!Enqueue
<1>4. ASSUME NEW m \in Msgs, S!TakeBound(m) PROVE SP!TakeBound(m)
  BY <1>4 DEF S!TakeBound, SP!TakeBound
<1>5. S!ReAck => SP!ReAck
  BY DEF S!ReAck, SP!ReAck
<1>6. S!Inject => SP!Inject
  BY DEF S!Inject, SP!Inject
<1>7. S!Forward => SP!Forward
  BY DEF S!Forward, SP!Forward, S!Show, SP!Show, S!HasReplied, SP!HasReplied
<1>8. S!Send => SP!Send
  BY DEF S!Send, SP!Send, S!GiveUpReply, SP!GiveUpReply, S!Reach, SP!Reach
<1>9. S!Mark => SP!Mark
  BY DEF S!Mark, SP!Mark, S!MarkReplied, SP!MarkReplied, S!HasReplied, SP!HasReplied,
         S!LastN, SP!LastN, S!GiveUpReply, SP!GiveUpReply
<1>10. S!Ack => SP!Ack
  BY DEF S!Ack, SP!Ack
<1>11. S!Post => SP!Post
  BY DEF S!Post, SP!Post
<1>12. S!NextQueued => SP!NextQueued
  BY DEF S!NextQueued, SP!NextQueued
<1>13. S!DequeueDone => SP!DequeueDone
  BY DEF S!DequeueDone, SP!DequeueDone, S!Dequeue, SP!Dequeue, S!Without, SP!Without,
         S!Position, SP!Position, S!RemoveAt, SP!RemoveAt
<1>14. S!CountAttempt => SP!CountAttempt
  BY DEF S!CountAttempt, SP!CountAttempt, S!MarkAttempt, SP!MarkAttempt,
         S!Without, SP!Without, S!Position, SP!Position, S!RemoveAt, SP!RemoveAt,
         S!LastN, SP!LastN, S!Tried, SP!Tried, S!Exhausted, SP!Exhausted
<1> QED
  BY <1>1, <1>2, <1>3, <1>4, <1>5, <1>6, <1>7, <1>8, <1>9, <1>10, <1>11, <1>12,
     <1>13, <1>14, SameDeliver DEF S!Next, SP!Next, S!Loop, SP!Loop

\* Beside the bridge the loop runs as its own specification says.
LEMMA RunsLoop == Spec => SP!Spec
<1>1. Init => SP!Init /\ NotBegun
  BY DEF Init, B!Init, S!Init, SP!Init, NotBegun, S!EmptyContent, SP!EmptyContent
<1>2. NotBegun /\ [Next]_vars => NotBegun'
  BY NextNotBegun
<1>3. NotBegun /\ [Next]_vars => [SP!Next]_(SP!vars)
  <2>1. NotBegun /\ [Next]_vars => S!Next \/ UNCHANGED S!vars
    BY StepOfLoop
  <2>2. UNCHANGED S!vars => UNCHANGED SP!vars
    BY DEF S!vars, SP!vars
  <2> QED
    BY <2>1, <2>2, SameNext
<1> QED
  BY <1>1, <1>2, <1>3, PTL DEF Spec, SP!Spec

\* The loop's types hold beside the bridge, and a process begins as it should.
LEMMA LoopSound == Spec => [](NotBegun /\ SP!TypeOK)
<1>1. SP!Spec => []SP!TypeOK
  BY LoopAssumptions, SP!TypeCorrect
<1>2. Init => NotBegun
  BY DEF Init, B!Init, S!Init, NotBegun
<1>3. NotBegun /\ [Next]_vars => NotBegun'
  BY NextNotBegun
<1> QED
  BY <1>1, <1>2, <1>3, RunsLoop, PTL DEF Spec

\* What the receive loop promises holds with a real bridge beside it: no ack
\* before a message is safe, no second reply without a reason, no answer
\* before forward() returned, no dead letter for less than MaxAttempts failures.
THEOREM LoopKeepsItsPromises ==
    Spec => [](S!NoSilentLoss /\ S!SecondReplyExplained /\ S!ForwardReturnsFirst /\ S!DeadLetterEarned)
<1>1. SP!Spec => []SP!NoSilentLoss
  BY LoopAssumptions, SP!NothingLostSilently
<1>2. SP!Spec => []SP!SecondReplyExplained
  BY LoopAssumptions, SP!SecondRepliesExplained
<1>3. SP!Spec => []SP!ForwardReturnsFirst
  BY LoopAssumptions, SP!ForwardAlwaysFirst
<1>4. SP!Spec => []SP!DeadLetterEarned
  BY LoopAssumptions, SP!DeadLettersEarned
<1>5. /\ SP!NoSilentLoss => S!NoSilentLoss
      /\ SP!SecondReplyExplained => S!SecondReplyExplained
      /\ SP!ForwardReturnsFirst => S!ForwardReturnsFirst
      /\ SP!DeadLetterEarned => S!DeadLetterEarned
  BY DEF SP!NoSilentLoss, S!NoSilentLoss, SP!Safe, S!Safe, SP!Queued, S!Queued, SP!Ids, S!Ids,
         SP!SecondReplyExplained, S!SecondReplyExplained, SP!ForwardReturnsFirst, S!ForwardReturnsFirst,
         SP!DeadLetterEarned, S!DeadLetterEarned
<1> QED
  BY <1>1, <1>2, <1>3, <1>4, <1>5, RunsLoop, PTL

\* So does the mailbox the loop is to server, human and sender.
THEOREM LoopStaysMailbox == Spec => S!MailboxKept
<1>1. SP!Spec => SP!MailboxKept
  BY LoopAssumptions, SP!LoopIsMailbox
<1>2. SP!Queued = S!Queued /\ SP!Account = S!Account
  BY DEF SP!Queued, S!Queued, SP!Ids, S!Ids, SP!ToSet, S!ToSet, SP!Account, S!Account
<1>3. SP!Queued' = S!Queued' /\ SP!Account' = S!Account'
  BY DEF SP!Queued, S!Queued, SP!Ids, S!Ids, SP!ToSet, S!ToSet, SP!Account, S!Account
<1>4. SP!Box!Init => S!Box!Init
  BY <1>2 DEF SP!Box!Init, S!Box!Init
<1>5. [SP!Box!Next]_(SP!Box!mailbox) => [S!Box!Next]_(S!Box!mailbox)
  <2>1. UNCHANGED SP!Box!mailbox => UNCHANGED S!Box!mailbox
    BY <1>2, <1>3 DEF SP!Box!mailbox, S!Box!mailbox
  <2>2. ASSUME NEW m \in Msgs
        PROVE  /\ SP!Box!Keep(m) => S!Box!Keep(m)
               /\ SP!Box!Try(m) => S!Box!Try(m)
               /\ SP!Box!Answer(m) => S!Box!Answer(m)
               /\ SP!Box!Record(m) => S!Box!Record(m)
               /\ SP!Box!LoseAccount(m) => S!Box!LoseAccount(m)
               /\ SP!Box!Ack(m) => S!Box!Ack(m)
               /\ SP!Box!Settle(m) => S!Box!Settle(m)
               /\ SP!Box!Bury(m) => S!Box!Bury(m)
    BY <1>2, <1>3 DEF SP!Box!Keep, S!Box!Keep, SP!Box!Try, S!Box!Try,
           SP!Box!Answer, S!Box!Answer, SP!Box!Record, S!Box!Record,
           SP!Box!LoseAccount, S!Box!LoseAccount, SP!Box!Ack, S!Box!Ack,
           SP!Box!Settle, S!Box!Settle, SP!Box!Bury, S!Box!Bury
  <2>3. SP!Box!Next => S!Box!Next
    BY <2>2 DEF SP!Box!Next, S!Box!Next
  <2> QED
    BY <2>1, <2>3
<1> QED
  BY <1>1, <1>4, <1>5, RunsLoop, PTL DEF SP!MailboxKept, S!MailboxKept, SP!Box!Spec, S!Box!Spec

\* If the dedup window holds every message in play, each copy in the human's chat
\* after the first was paid for by a failed call or a death of both tasks.
THEOREM LoopCopiesBounded ==
    ASSUME SP!WindowHoldsAll PROVE Spec => []S!CopiesBounded
<1>1. SP!Spec => []SP!CopiesBounded
  BY LoopAssumptions, SP!CopiesAlwaysBounded
<1>2. SP!CopiesBounded => S!CopiesBounded
  BY DEF SP!CopiesBounded, S!CopiesBounded
<1> QED
  BY <1>1, <1>2, RunsLoop, PTL

-----------------------------------------------------------------------------
(***************************************************************************)
(* The chat in hand against the chats that were bound and saved.           *)
(***************************************************************************)

\* An update that bound a chat, by its number; 0 for none.
BoundBy(x) == x = 0 \/ (x \in 1..Len(log) /\ log[x] # NoChat)

\* The numbers the two tasks remember are such updates.
BoundNumbers == \A x \in {newest, target, chatBy, fileBy} : BoundBy(x)

\* An answer is a run of updates; neither it nor what was bound goes beyond
\* what one getUpdates would bring anew if the process died now.
BatchInReach ==
    /\ \A i \in 1..(Len(batch) - 1) : batch[i + 1] = batch[i] + 1
    /\ \A i \in 1..Len(batch) : batch[i] <= confirmed + BatchLimit
    /\ chatBy <= confirmed + BatchLimit
    /\ fileBy <= confirmed + BatchLimit

\* In the middle of an answer: update x is still to come in it, or is behind
\* and no later than what is bound.
PastOrAhead(x) ==
    \/ \E i \in 1..Len(batch) : batch[i] = x
    \/ x <= chatBy /\ (batch # <<>> => x < Head(batch))

\* While every answer is worked off to its end: what is bound between two
\* answers is what is on disk, and no older than any message's chat.
SteadyChat ==
    steady =>
        /\ task # "dead"
        /\ task \in {"poll", "handle"} => chatBy = fileBy
        /\ task \in {"down", "poll"} => newest <= fileBy /\ target <= fileBy
        /\ task \in {"handle", "save"} => PastOrAhead(newest) /\ PastOrAhead(target)
        /\ cur # NoMsg => target >= newest

\* Once a chat was saved, every running process has one between two answers.
SavedIsBound ==
    /\ saved # {} => chatFile # NoChat
    /\ saved # {} /\ task # "down" => chat # NoChat
    /\ task = "save" => chat # NoChat

\* The inductive invariant of the two tasks.
ForwarderInv == BoundNumbers /\ BatchInReach /\ SteadyChat /\ SavedIsBound
\* The types the argument below needs.
LEMMA BridgeNumbers ==
    ASSUME BridgeTypes
    PROVE  /\ Len(log) \in Nat /\ confirmed \in Nat
           /\ chatBy \in Nat /\ chatBy <= Len(log)
           /\ fileBy \in Nat /\ fileBy <= Len(log)
           /\ batch \in Seq(1 .. Len(log)) /\ Len(batch) \in Nat
BY DEF BridgeTypes, B!TypeOK, B!Updates

\* The inductive invariant at the start.
LEMMA InitForwarderInv == Init => ForwarderInv
BY ForwarderAssumption
   DEF Init, B!Init, S!Init, ForwarderInv, BoundNumbers, BoundBy, BatchInReach,
       SteadyChat, PastOrAhead, SavedIsBound, B!BridgeAssumption

\* Once the updates behind it are dropped, what was bound comes first in the
\* next answer, or is behind it.
LEMMA PollKeeps ==
    ASSUME BridgeTypes, ForwarderInv, BridgeTask(B!PollOnce)
    PROVE  ForwarderInv'
<1> DEFINE from == confirmed'
           n == B!Answered(from)
           next == batch'
<1>1. /\ task = "poll" /\ task' = "handle"
      /\ next = [i \in 1 .. n |-> from + i]
      /\ UNCHANGED <<log, chatFile, chat, chatBy, fileBy, saved, cur, newest, target>>
      /\ steady' = (steady /\ task' # "dead")
  BY DEF BridgeTask, B!PollOnce, loop
<1>2. from \in 0 .. Len(log) /\ confirmed <= from
  <2>1. B!TypeOK /\ B!Confirm
    BY DEF BridgeTypes, BridgeTask, B!PollOnce
  <2> QED
    BY <2>1, ConfirmBounds
<1>3. n \in Nat /\ n <= BatchLimit /\ n \in {BatchLimit, Len(log) - from}
  <2>1. B!BridgeAssumption
    BY ForwarderAssumption
  <2>2. n = B!Answered(from)
    OBVIOUS
  <2> HIDE DEF n, from
  <2> QED
    BY <2>1, <2>2, <1>2, AnsweredBounds, BridgeNumbers
<1>4. BatchLimit \in Nat
  BY ForwarderAssumption DEF B!BridgeAssumption
<1>5. BoundNumbers' /\ SavedIsBound'
  BY <1>1 DEF ForwarderInv, BoundNumbers, BoundBy, SavedIsBound
<1>6. /\ confirmed' = from /\ batch' = next
      /\ chatBy' = chatBy /\ fileBy' = fileBy
  BY <1>1
<1> HIDE DEF n, from, next
<1>7. /\ Len(log) \in Nat /\ confirmed \in Nat /\ chatBy \in Nat /\ fileBy \in Nat
      /\ chatBy <= Len(log) /\ from \in Nat
      /\ chatBy <= from + BatchLimit /\ fileBy <= from + BatchLimit
  <2>1. chatBy <= confirmed + BatchLimit /\ fileBy <= confirmed + BatchLimit
    BY DEF ForwarderInv, BatchInReach
  <2> QED
    BY <2>1, <1>2, <1>4, BridgeNumbers
<1>8. /\ Len(next) = n /\ \A i \in 1 .. n : next[i] = from + i
      /\ next # <<>> => n # 0 /\ Head(next) = from + 1
  BY <1>1, <1>3, <1>7
<1>9. BatchInReach'
  <2>1. /\ \A i \in 1..(Len(next) - 1) : next[i + 1] = next[i] + 1
        /\ \A i \in 1..Len(next) : next[i] <= from + BatchLimit
    BY <1>3, <1>4, <1>7, <1>8
  <2> QED
    BY <2>1, <1>6, <1>7 DEF BatchInReach
<1>10. ASSUME NEW x, BoundBy(x), x <= chatBy
       PROVE  (\E i \in 1..Len(next) : next[i] = x) \/ (x <= chatBy /\ (next # <<>> => x < Head(next)))
  <2>1. x \in Nat /\ x <= Len(log) /\ x <= from + BatchLimit
    BY <1>4, <1>7, <1>10 DEF BoundBy
  <2>2. CASE x <= from
    BY <2>1, <2>2, <1>7, <1>8, <1>10
  <2>3. CASE x > from
    <3>1. x - from \in 1 .. n
      BY <2>1, <2>3, <1>3, <1>4, <1>7
    <3>2. next[x - from] = x
      BY <3>1, <2>1, <1>7, <1>8
    <3> QED
      BY <3>1, <3>2, <1>8
  <2> QED
    BY <2>1, <2>2, <2>3, <1>7
<1>11. SteadyChat'
  <2> SUFFICES ASSUME steady'
               PROVE  /\ task' # "dead"
                      /\ chatBy' = fileBy'
                      /\ PastOrAhead(newest)' /\ PastOrAhead(target)'
                      /\ cur' # NoMsg => target' >= newest'
    BY <1>1 DEF SteadyChat
  <2>1. /\ chatBy = fileBy /\ newest <= chatBy /\ target <= chatBy
        /\ cur # NoMsg => target >= newest
    BY <1>1 DEF ForwarderInv, SteadyChat
  <2>2. PastOrAhead(newest)' /\ PastOrAhead(target)'
    BY <1>1, <1>6, <1>10, <2>1 DEF ForwarderInv, BoundNumbers, PastOrAhead
  <2> QED
    BY <1>1, <2>1, <2>2
<1> QED
  BY <1>5, <1>9, <1>11 DEF ForwarderInv
\* An update of the answer in hand is bound, and the next one comes up.
LEMMA HandleKeeps ==
    ASSUME BridgeTypes, ForwarderInv, BridgeTask(B!HandleUpdate)
    PROVE  ForwarderInv'
<1> DEFINE h == Head(batch)
           rest == Tail(batch)
           by == IF log[h] = NoChat THEN chatBy ELSE h
<1>1. /\ task = "handle" /\ batch # <<>>
      /\ batch' = rest /\ chatBy' = by
      /\ UNCHANGED <<log, confirmed, chatFile, fileBy, saved, cur, newest, target>>
      /\ steady' = (steady /\ task' # "dead")
  BY DEF BridgeTask, B!HandleUpdate, B!server, loop
<1>2. \/ log[h] = NoChat /\ task' = "handle" /\ chat' = chat
      \/ log[h] # NoChat /\ task' = "save" /\ chat' # NoChat
  BY DEF BridgeTask, B!HandleUpdate
<1>3. /\ Len(log) \in Nat /\ confirmed \in Nat /\ chatBy \in Nat /\ BatchLimit \in Nat
      /\ batch \in Seq(1 .. Len(log)) /\ Len(batch) \in Nat
  BY ForwarderAssumption, BridgeNumbers DEF B!BridgeAssumption
<1>4. /\ Len(batch) >= 1 /\ h = batch[1] /\ h \in 1 .. Len(log)
      /\ Len(rest) = Len(batch) - 1
      /\ \A i \in 1 .. Len(rest) : rest[i] = batch[i + 1]
      /\ rest # <<>> => Len(batch) > 1 /\ Head(rest) = batch[2]
  BY <1>1, <1>3
<1>5. /\ \A i \in 1..(Len(batch) - 1) : batch[i + 1] = batch[i] + 1
      /\ \A i \in 1..Len(batch) : batch[i] <= confirmed + BatchLimit
      /\ chatBy <= confirmed + BatchLimit
      /\ fileBy <= confirmed + BatchLimit
  BY DEF ForwarderInv, BatchInReach
<1>6. rest # <<>> => Head(rest) = h + 1
  BY <1>3, <1>4, <1>5
<1> HIDE DEF h, rest
<1>7. BatchInReach'
  <2>0. Len(batch) \in Nat /\ Len(rest) \in Nat
    BY <1>3, <1>4
  <2>1. /\ \A i \in 1..(Len(rest) - 1) : rest[i + 1] = rest[i] + 1
        /\ \A i \in 1..Len(rest) : rest[i] <= confirmed + BatchLimit
    <3>1. ASSUME NEW i \in 1..(Len(rest) - 1) PROVE rest[i + 1] = rest[i] + 1
      <4>1. /\ i + 1 \in 1 .. (Len(batch) - 1)
            /\ rest[i] = batch[i + 1] /\ rest[i + 1] = batch[(i + 1) + 1]
        BY ONLY <2>0, <3>1, <1>4
      <4> QED
        BY <4>1, <1>5
    <3>2. ASSUME NEW i \in 1..Len(rest) PROVE rest[i] <= confirmed + BatchLimit
      <4>1. i + 1 \in 1 .. Len(batch) /\ rest[i] = batch[i + 1]
        BY ONLY <2>0, <3>2, <1>4
      <4> QED
        BY <4>1, <1>5
    <3> QED
      BY <3>1, <3>2
  <2>2. by <= confirmed + BatchLimit
    BY <1>4, <1>5
  <2> QED
    BY <2>1, <2>2, <1>1, <1>5 DEF BatchInReach
<1>8. BoundNumbers'
  <2>1. BoundBy(by)
    BY <1>4 DEF ForwarderInv, BoundNumbers, BoundBy
  <2> QED
    BY <2>1, <1>1 DEF ForwarderInv, BoundNumbers, BoundBy
<1>9. SavedIsBound'
  BY <1>1, <1>2 DEF ForwarderInv, SavedIsBound
<1>10. ASSUME NEW x, BoundBy(x), PastOrAhead(x)
       PROVE  (\E i \in 1..Len(rest) : rest[i] = x) \/ (x <= by /\ (rest # <<>> => x < Head(rest)))
  <2>1. x \in Nat
    BY <1>3, <1>10 DEF BoundBy
  <2>2. CASE x <= chatBy /\ x < h
    BY <2>1, <2>2, <1>3, <1>4, <1>6
  <2>3. CASE x = h
    <3>1. log[h] # NoChat
      BY <2>3, <1>4, <1>10 DEF BoundBy
    <3> QED
      BY <2>1, <2>3, <3>1, <1>4, <1>6
  <2>4. ASSUME NEW i \in 1 .. Len(batch), i # 1, batch[i] = x
        PROVE  \E j \in 1 .. Len(rest) : rest[j] = x
    <3>1. i - 1 \in 1 .. Len(rest) /\ rest[i - 1] = batch[(i - 1) + 1] /\ (i - 1) + 1 = i
      BY <2>4, <1>3, <1>4
    <3> QED
      BY <3>1, <2>4
  <2> QED
    BY <2>2, <2>3, <2>4, <1>1, <1>4, <1>10 DEF PastOrAhead, h
<1>11. SteadyChat'
  <2> SUFFICES ASSUME steady'
               PROVE  /\ task' # "dead"
                      /\ task' = "handle" => chatBy' = fileBy'
                      /\ PastOrAhead(newest)' /\ PastOrAhead(target)'
                      /\ cur' # NoMsg => target' >= newest'
    BY <1>2 DEF SteadyChat
  <2>1. /\ chatBy = fileBy /\ PastOrAhead(newest) /\ PastOrAhead(target)
        /\ cur # NoMsg => target >= newest
    BY <1>1 DEF ForwarderInv, SteadyChat
  <2>2. BoundBy(newest) /\ BoundBy(target)
    BY DEF ForwarderInv, BoundNumbers
  <2> HIDE DEF by
  <2>3. PastOrAhead(newest)' /\ PastOrAhead(target)'
    BY <1>1, <1>10, <2>1, <2>2 DEF PastOrAhead
  <2>4. task' = "handle" => by = chatBy
    BY <1>2 DEF by
  <2> QED
    BY <1>1, <1>2, <2>1, <2>3, <2>4
<1> QED
  BY <1>7, <1>8, <1>9, <1>11 DEF ForwarderInv

\* What has been bound is saved, or a failed save ends the steady time; at the
\* end of an answer nothing is ahead.
LEMMA SaveKeeps ==
    ASSUME BridgeTypes, ForwarderInv,
           BridgeTask(B!Save) \/ BridgeTask(B!SaveFails) \/ BridgeTask(B!BatchDone)
    PROVE  ForwarderInv'
<1> USE DEF BridgeTask, loop, B!server, ForwarderInv
<1>1. CASE BridgeTask(B!Save)
  BY <1>1 DEF B!Save, BoundNumbers, BoundBy, BatchInReach, SteadyChat, PastOrAhead,
              SavedIsBound
<1>2. CASE BridgeTask(B!SaveFails)
  <2>1. /\ batch' = <<>> /\ steady' = FALSE /\ task # "down" /\ task' = "dead"
        /\ UNCHANGED <<log, confirmed, chat, chatFile, chatBy, fileBy, saved, newest, target>>
    BY <1>2 DEF B!SaveFails
  <2>2. BatchInReach'
    BY <2>1 DEF BatchInReach
  <2> QED
    BY <2>1, <2>2 DEF BoundNumbers, BoundBy, SteadyChat, SavedIsBound
<1>3. CASE BridgeTask(B!BatchDone)
  <2>1. /\ task = "handle" /\ task' = "poll" /\ batch = <<>>
        /\ steady' => steady
        /\ UNCHANGED <<log, confirmed, chat, chatFile, batch, chatBy, fileBy, saved,
                       cur, newest, target>>
    BY <1>3 DEF B!BatchDone
  <2>2. ASSUME NEW x, PastOrAhead(x) PROVE x <= chatBy
    BY <2>1, <2>2 DEF PastOrAhead
  <2>3. SteadyChat'
    BY <2>1, <2>2 DEF SteadyChat
  <2> QED
    BY <2>1, <2>3 DEF BoundNumbers, BoundBy, BatchInReach, SavedIsBound
<1> QED
  BY <1>1, <1>2, <1>3

\* The loop takes what is bound for a message it begins with, and keeps it.
LEMMA LoopKeeps ==
    ASSUME BridgeTypes, ForwarderInv, LoopTask PROVE ForwarderInv'
<1>1. /\ UNCHANGED bridge /\ task \in {"poll", "dead"} /\ steady' = steady
      /\ target' = (IF cur' = NoMsg THEN 0 ELSE IF cur' # cur THEN chatBy ELSE target)
      /\ newest' = (IF pc = "forward" THEN Max({newest, target}) ELSE newest)
  BY DEF LoopTask, BridgeAwaits, KeepsTarget, Forwards
<1>2. BoundBy(newest) /\ BoundBy(target) /\ BoundBy(chatBy)
  BY DEF ForwarderInv, BoundNumbers
<1>3. newest \in Nat /\ target \in Nat /\ chatBy \in Nat /\ fileBy \in Nat
  BY <1>2, BridgeNumbers DEF BoundBy
<1>4. Max({newest, target}) = IF newest >= target THEN newest ELSE target
  <2>1. CASE newest >= target
    BY <1>3, <2>1 DEF Max
  <2>2. CASE target > newest
    BY <1>3, <2>2 DEF Max
  <2> QED
    BY <1>3, <2>1, <2>2
<1>5. BoundNumbers' /\ BatchInReach' /\ SavedIsBound'
  BY <1>1, <1>2, <1>4 DEF ForwarderInv, BoundNumbers, BoundBy, BatchInReach,
                          SavedIsBound, bridge
<1>6. SteadyChat'
  <2> SUFFICES ASSUME steady
               PROVE  /\ task # "dead" /\ chatBy = fileBy
                      /\ newest' <= fileBy /\ target' <= fileBy
                      /\ cur' # NoMsg => target' >= newest'
    BY <1>1 DEF SteadyChat, bridge
  <2>1. /\ task = "poll" /\ chatBy = fileBy /\ newest <= fileBy /\ target <= fileBy
        /\ cur # NoMsg => target >= newest
    BY <1>1 DEF ForwarderInv, SteadyChat
  <2> QED
    BY <1>1, <1>3, <1>4, <2>1
<1> QED
  BY <1>5, <1>6 DEF ForwarderInv

\* Every step keeps the inductive invariant.
LEMMA NextForwarderInv ==
    ASSUME BridgeTypes, ForwarderInv, [Next]_vars PROVE ForwarderInv'
<1> USE DEF ForwarderInv
<1>1. CASE Attach
  BY <1>1 DEF Attach, B!Attach, B!server, loop, BoundNumbers, BoundBy, BatchInReach,
              SteadyChat, SavedIsBound
<1>2. CASE BridgeTask(Progress)
  BY <1>2, PollKeeps, HandleKeeps, SaveKeeps DEF BridgeTask, Progress
<1>3. CASE BridgeTask(B!PollFails)
  <2> DEFINE from == confirmed'
  <2>1. confirmed \in Nat /\ from \in Nat /\ confirmed <= from
    <3>1. B!TypeOK /\ (B!Confirm \/ UNCHANGED confirmed)
      BY <1>3 DEF BridgeTypes, BridgeTask, B!PollFails
    <3> QED
      BY <3>1, ConfirmBounds, BridgeNumbers
  <2>2. /\ UNCHANGED <<log, chat, chatFile, task, batch, chatBy, fileBy, saved,
                       cur, newest, target>>
        /\ steady' => steady
        /\ confirmed' = from
    BY <1>3 DEF BridgeTask, B!PollFails, loop
  <2> HIDE DEF from
  <2>3. BoundNumbers' /\ SteadyChat' /\ SavedIsBound'
    BY <2>2 DEF BoundNumbers, BoundBy, SteadyChat, PastOrAhead, SavedIsBound
  <2>4. BatchLimit \in Nat /\ chatBy \in Nat /\ fileBy \in Nat /\ Len(batch) \in Nat
        /\ \A i \in 1 .. Len(batch) : batch[i] \in Nat
    BY ForwarderAssumption, BridgeNumbers DEF B!BridgeAssumption
  <2>5. /\ \A i \in 1..Len(batch) : batch[i] <= from + BatchLimit
        /\ chatBy <= from + BatchLimit /\ fileBy <= from + BatchLimit
    BY <2>1, <2>4 DEF BatchInReach
  <2>6. BatchInReach'
    BY <2>2, <2>5 DEF BatchInReach
  <2> QED
    BY <2>3, <2>6
<1>4. CASE LoopTask
  BY <1>4, LoopKeeps
<1>5. CASE Write
  <2>1. PICK c : log' = Append(log, c)
    BY <1>5 DEF Write, B!Write
  <2>2. /\ Len(log') = Len(log) + 1 /\ Len(log) \in Nat
        /\ \A u \in 1 .. Len(log) : log'[u] = log[u]
    BY <2>1, <1>5 DEF BridgeTypes, B!TypeOK, Write, B!Write
  <2>3. UNCHANGED <<confirmed, chat, chatFile, task, batch, chatBy, fileBy, saved,
                    cur, newest, target, steady>>
    BY <1>5 DEF Write, B!Write, loop
  <2>4. BoundNumbers'
    BY <2>2, <2>3 DEF BoundNumbers, BoundBy
  <2> QED
    BY <2>3, <2>4 DEF BatchInReach, SteadyChat, PastOrAhead, SavedIsBound
<1>6. CASE Crash
  <2>1. /\ task # "down" /\ task' = "down" /\ batch' = <<>> /\ chatBy' = 0
        /\ UNCHANGED <<log, confirmed, chatFile, fileBy, saved, newest>>
        /\ target' = 0 /\ cur' = NoMsg
        /\ steady' => steady /\ task \notin {"handle", "save"}
    BY <1>6 DEF Crash, B!Crash, S!Crash, B!server
  <2>2. BatchLimit \in Nat /\ confirmed \in Nat /\ fileBy \in Nat
    BY ForwarderAssumption, BridgeNumbers DEF B!BridgeAssumption
  <2>3. steady' => task = "poll"
    BY <2>1 DEF BridgeTypes, B!TypeOK, SteadyChat
  <2>4. steady' => newest <= fileBy /\ 0 <= fileBy
    BY <2>1, <2>2, <2>3 DEF SteadyChat
  <2>5. SteadyChat'
    BY <2>1, <2>4 DEF SteadyChat
  <2>6. 0 <= confirmed + BatchLimit
    BY <2>2
  <2>7. BatchInReach'
    BY <2>1, <2>6 DEF BatchInReach
  <2>8. BoundNumbers'
    BY <2>1 DEF BoundNumbers, BoundBy
  <2>9. SavedIsBound'
    BY <2>1 DEF SavedIsBound
  <2> QED
    BY <2>5, <2>7, <2>8, <2>9
<1>7. CASE Outside(S!DrainTimer) \/ \E m \in Msgs : Outside(S!Deliver(m))
  <2>1. UNCHANGED <<bridge, cur, newest, target, steady>>
    BY <1>7 DEF Outside, bridge, S!DrainTimer, S!Deliver, S!loop
  <2> QED
    BY <2>1 DEF bridge, BoundNumbers, BoundBy, BatchInReach, SteadyChat, PastOrAhead,
                SavedIsBound
<1>8. CASE UNCHANGED vars
  BY <1>8 DEF vars, bridge, loop, BoundNumbers, BoundBy,
              BatchInReach, SteadyChat, PastOrAhead, SavedIsBound
<1> QED
  BY <1>1, <1>2, <1>3, <1>4, <1>5, <1>6, <1>7, <1>8 DEF Next

LEMMA ForwarderInvariant == Spec => [](ForwarderInv /\ BridgeTypes /\ SP!TypeOK)
<1>1. ForwarderInv /\ BridgeTypes /\ [Next]_vars => ForwarderInv'
  BY NextForwarderInv
<1> QED
  BY <1>1, InitForwarderInv, BridgeTypeCorrect, LoopSound, PTL DEF Spec

\* As long as every answer was worked off and saved to its end, no message goes
\* to an older chat than one before it, whatever is bound while it is in hand
\* and however many processes come after one another.
THEOREM ForwardedForward == Spec => []ForwardsForward
<1>1. ForwarderInv /\ SP!TypeOK => ForwardsForward
  <2> SUFFICES ASSUME ForwarderInv, SP!TypeOK, steady, pc = "forward"
               PROVE  target >= newest
    BY DEF ForwardsForward
  <2>1. cur # NoMsg
    BY ForwarderAssumption DEF SP!TypeOK, SP!LoopTypes
  <2> QED
    BY <2>1 DEF ForwarderInv, SteadyChat
<1> QED
  BY <1>1, ForwarderInvariant, PTL

\* After the first saved chat the loop queues nothing any more: every later
\* process has a chat before it receives.
THEOREM NeverWaitsOnceSaved == Spec => NoWaitOnceSaved
<1>1. ForwarderInv /\ SP!TypeOK /\ NotBegun /\ [Next]_vars =>
          [S!Queued' \ S!Queued # {} => saved = {}]_vars
  <2> SUFFICES ASSUME ForwarderInv, SP!TypeOK, NotBegun, Next,
                      S!Queued' \ S!Queued # {}
               PROVE  saved = {}
    OBVIOUS
  <2>1. S!Next \/ UNCHANGED S!vars
    BY StepOfLoop
  <2>2. SP!Queued' \ SP!Queued # {}
    BY DEF S!Queued, SP!Queued, S!Ids, SP!Ids
  <2>3. SP!Next
    BY <2>1, <2>2, SameNext DEF S!vars, SP!Queued
  <2>4. chat = NoChat
    BY <2>2, <2>3, LoopAssumptions, SP!QueuedWithoutChat
  <2>5. task # "down"
    BY <2>2 DEF Next, Attach, BridgeTask, Write, Outside, LoopTask, BridgeAwaits, Crash, S!Crash,
                SP!Queued, S!disk, loop
  <2> QED
    BY <2>4, <2>5 DEF ForwarderInv, SavedIsBound
<1> QED
  BY <1>1, ForwarderInvariant, LoopSound, PTL DEF Spec, NoWaitOnceSaved
=============================================================================
