-------------------------- MODULE TransportProofs --------------------------
(***************************************************************************)
(* That connections do not overlap, that nothing a stream or a poll has    *)
(* brought is passed over, that the poll fallback opens only after enough  *)
(* failures in a row, and that messages are handed over in the order they  *)
(* came: for every set of messages, threshold and size of the hand-over    *)
(* queue.                                                                  *)
(***************************************************************************)
EXTENDS Transport, SequenceTheorems, FiniteSetTheorems, TLAPS

\* Every message owed still waits in the hand-over queue, or in the batch.
WaitsIn(seq) == \A m \in owed : \E i \in DOMAIN seq : seq[i] = m

\* A thread that is not done has put messages only; its last item is the end
\* or the error.
QueueEnds ==
    /\ producer \in {"reading", "ending", "breaking"} => \A i \in DOMAIN q : q[i] \in Msgs
    /\ producer = "done" =>
           /\ q # <<>> /\ q[Len(q)] \in {End, Broken}
           /\ \A i \in 1..(Len(q) - 1) : q[i] \in Msgs

\* While a stream is read its thread owns the queue and every message owed is
\* in it; while a batch is read, in the batch; else nothing is left over.
StreamOwned ==
    /\ pc \in {"stream", "streamed"} => producer # "none" /\ QueueEnds /\ WaitsIn(q)
    /\ pc \in {"batch", "polled"} => WaitsIn(batch)
    /\ pc \notin {"stream", "streamed", "stopped"} => producer \in {"none", "done"} /\ q = <<>>
    /\ pc \notin {"stream", "streamed", "batch", "polled", "stopped"} => owed = {}

\* The failure counter never runs ahead of the failures in a row.
FailuresInStreak == failures <= streak

\* The inductive invariant.
IInv == TypeOK /\ StreamOwned /\ FailuresInStreak

-----------------------------------------------------------------------------
(***************************************************************************)
(* Sequences.                                                              *)
(***************************************************************************)

\* What a poll of everything that is held returns holds all of it.
LEMMA PollBrings ==
    ASSUME NEW S, IsFiniteSet(S)
    PROVE  SetToSeq(S) \in Seq(S) /\ \A m \in S : \E i \in DOMAIN SetToSeq(S) : SetToSeq(S)[i] = m
<1> DEFINE n == Cardinality(S)
           f == SetToSeq(S)
<1>1. n \in Nat /\ ExistsBijection(1..n, S)
  BY FS_CardinalityType
<1>2. \E g \in [1..n -> S] : IsInjective(g)
  BY <1>1 DEF ExistsBijection, Bijection, Injection, IsInjective
<1>3. f \in [1..n -> S] /\ IsInjective(f)
  BY <1>2 DEF SetToSeq
<1> HIDE DEF f
<1>4. f \in Injection(1..n, S)
  BY <1>3 DEF Injection
<1>5. Cardinality(1..n) = n
  BY <1>1, FS_Interval
<1>6. f \in Surjection(1..n, S)
  BY <1>4, <1>5, FS_Injection
<1> QED
  BY <1>1, <1>3, <1>6 DEF Surjection, f

\* Appending an item and taking the first one, by their positions.
LEMMA AppendedItem ==
    ASSUME NEW T, NEW s \in Seq(T), NEW x \in T
    PROVE  /\ Append(s, x) \in Seq(T)
           /\ Len(Append(s, x)) = Len(s) + 1
           /\ \A i \in 1..Len(s) : Append(s, x)[i] = s[i]
           /\ Append(s, x)[Len(s) + 1] = x
OBVIOUS

LEMMA TakenItem ==
    ASSUME NEW T, NEW s \in Seq(T), s # <<>>
    PROVE  /\ Tail(s) \in Seq(T) /\ Head(s) \in T /\ Head(s) = s[1]
           /\ Len(s) \in Nat \ {0}
           /\ Len(Tail(s)) = Len(s) - 1
           /\ \A i \in 1..(Len(s) - 1) : Tail(s)[i] = s[i + 1]
           /\ \A i \in 2..Len(s) : Tail(s)[i - 1] = s[i]
OBVIOUS

LEMMA NoItems ==
    ASSUME NEW T, NEW s \in Seq(T), Len(s) = 0
    PROVE  s = <<>>
OBVIOUS

\* Who waits behind the first item still waits when it is taken.
LEMMA WaitsBehind ==
    ASSUME NEW T, NEW s \in Seq(T), s # <<>>, NEW ms,
           \A m \in ms : \E i \in DOMAIN s : s[i] = m
    PROVE  \A m \in ms \ {Head(s)} : \E i \in DOMAIN Tail(s) : Tail(s)[i] = m
<1> SUFFICES ASSUME NEW m \in ms, m # Head(s)
             PROVE  \E i \in DOMAIN Tail(s) : Tail(s)[i] = m
  OBVIOUS
<1>1. PICK i \in 1..Len(s) : s[i] = m
  OBVIOUS
<1>2. i \in 2..Len(s)
  BY <1>1, TakenItem
<1>3. i - 1 \in DOMAIN Tail(s) /\ Tail(s)[i - 1] = m
  BY <1>1, <1>2, TakenItem
<1> QED
  BY <1>3

-----------------------------------------------------------------------------
(***************************************************************************)
(* Steps.                                                                  *)
(***************************************************************************)

LEMMA InitIInv == Init => IInv
<1> SUFFICES ASSUME Init
             PROVE  IInv
  OBVIOUS
<1>1. TypeOK
  <2>1. NoMsg \notin Msgs /\ Threshold \in Nat /\ QueueSize \in Nat
    BY TransportAssumption
  <2>2. <<>> \in Seq(Msgs) /\ <<>> \in Seq(Msgs \cup {End, Broken}) /\ Len(<<>>) = 0
    OBVIOUS
  <2>3. /\ q = <<>> /\ batch = <<>> /\ pc = "top" /\ producer = "none" /\ hand = NoMsg
        /\ held \subseteq Msgs /\ stop = FALSE /\ inWindow = FALSE
        /\ failures = 0 /\ streak = 0 /\ given = {} /\ owed = {}
    BY DEF Init
  <2>4. /\ q \in Seq(Msgs \cup {End, Broken}) /\ batch \in Seq(Msgs) /\ Len(q) <= QueueSize
    BY <2>1, <2>2, <2>3
  <2>5. failures \in 0..Threshold /\ streak \in 0..Threshold
    BY <2>1, <2>3
  <2> QED
    BY <2>1, <2>3, <2>4, <2>5 DEF TypeOK, Pcs
<1>2. StreamOwned
  BY DEF Init, StreamOwned
<1> QED
  BY <1>1, <1>2 DEF Init, IInv, FailuresInStreak

\* The environment touches neither queue nor batch.
LEMMA EnvironmentKeeps ==
    ASSUME IInv, (\E m \in Msgs : Arrive(m)) \/ RequestStop \/ WindowExpires \/ UNCHANGED vars
    PROVE  IInv'
BY DEF Arrive, RequestStop, WindowExpires, vars, window, thread,
       IInv, TypeOK, StreamOwned, QueueEnds, WaitsIn, FailuresInStreak

\* The steps of the loop that move it from one place to the next.
LEMMA LoopKeeps ==
    ASSUME IInv, Top \/ PollFails \/ PauseEnds \/ CheckWindow \/ Connect \/ BackoffEnds
    PROVE  IInv'
<1> USE TransportAssumption DEF window, thread, IInv, TypeOK, StreamOwned, FailuresInStreak, Pcs
<1>1. CASE Top
  BY <1>1 DEF Top, InFallback
<1>2. CASE PollFails \/ PauseEnds \/ BackoffEnds
  BY <1>2 DEF PollFails, PauseEnds, BackoffEnds
<1>3. CASE CheckWindow
  BY <1>3 DEF CheckWindow
<1>4. CASE Connect
  BY <1>4 DEF Connect, QueueEnds, WaitsIn
<1> QED
  BY <1>1, <1>2, <1>3, <1>4

LEMMA PollAnswersKeeps ==
    ASSUME IInv, PollAnswers
    PROVE  IInv'
<1>1. held \subseteq Msgs /\ IsFiniteSet(held)
  BY TransportAssumption, FS_Subset DEF IInv, TypeOK
<1>2. /\ SetToSeq(held) \in Seq(held)
      /\ \A m \in held : \E i \in DOMAIN SetToSeq(held) : SetToSeq(held)[i] = m
  BY <1>1, PollBrings
<1> DEFINE b == SetToSeq(held)
<1>3. b \in Seq(Msgs)
  BY <1>1, <1>2
<1>4. batch' = b /\ given' = held /\ owed' = held /\ pc' = "batch" /\ pc = "poll"
  BY DEF PollAnswers
<1>5. WaitsIn(batch)'
  BY <1>2, <1>4 DEF WaitsIn
<1> HIDE DEF b
<1> QED
  BY <1>1, <1>3, <1>4, <1>5
  DEF PollAnswers, window, thread, IInv, TypeOK, StreamOwned, FailuresInStreak, Pcs

LEMMA YieldPolledKeeps ==
    ASSUME IInv, YieldPolled
    PROVE  IInv'
<1>1. batch \in Seq(Msgs) /\ batch # <<>> /\ WaitsIn(batch)
  BY DEF YieldPolled, IInv, TypeOK, StreamOwned
<1>2. Tail(batch) \in Seq(Msgs) /\ Head(batch) \in Msgs
  BY <1>1, TakenItem
<1>3. WaitsIn(batch)'
  BY <1>1, WaitsBehind DEF YieldPolled, WaitsIn
<1> QED
  BY <1>2, <1>3
  DEF YieldPolled, window, thread, IInv, TypeOK, StreamOwned, FailuresInStreak, Pcs

\* An empty batch owes nothing.
LEMMA BatchDoneKeeps ==
    ASSUME IInv, BatchDone
    PROVE  IInv'
<1>1. owed = {}
  BY DEF BatchDone, IInv, StreamOwned, WaitsIn
<1> QED
  BY <1>1
  DEF BatchDone, window, thread, IInv, TypeOK, StreamOwned, FailuresInStreak, Pcs

\* A message that is taken is not the last item of a thread that is done.
LEMMA YieldStreamedKeeps ==
    ASSUME IInv, YieldStreamed
    PROVE  IInv'
<1> DEFINE T == Msgs \cup {End, Broken}
<1>1. q \in Seq(T) /\ q # <<>> /\ WaitsIn(q) /\ QueueEnds /\ Head(q) \in Msgs
  BY DEF YieldStreamed, IInv, TypeOK, StreamOwned
<1>2. /\ Tail(q) \in Seq(T) /\ Head(q) = q[1]
      /\ Len(q) \in Nat \ {0} /\ Len(Tail(q)) = Len(q) - 1
      /\ \A i \in 1..(Len(q) - 1) : Tail(q)[i] = q[i + 1]
  BY <1>1, TakenItem
<1>3. WaitsIn(q)'
  BY <1>1, WaitsBehind DEF YieldStreamed, WaitsIn
<1>4. QueueEnds'
  <2>1. q' = Tail(q) /\ producer' = producer
    BY DEF YieldStreamed
  <2>2. CASE producer \in {"reading", "ending", "breaking"}
    <3>1. \A i \in 1..Len(q) : q[i] \in Msgs
      BY <1>1, <2>2 DEF QueueEnds
    <3>2. \A i \in 1..(Len(q) - 1) : Tail(q)[i] \in Msgs
      BY <1>2, <3>1
    <3>3. DOMAIN Tail(q) = 1..(Len(q) - 1)
      BY <1>2
    <3> QED
      BY <2>1, <2>2, <3>2, <3>3 DEF QueueEnds
  <2>3. CASE producer = "done"
    <3>1. q[Len(q)] \in {End, Broken} /\ \A i \in 1..(Len(q) - 1) : q[i] \in Msgs
      BY <1>1, <2>3 DEF QueueEnds
    <3>2. Len(q) > 1
      BY <1>1, <1>2, <3>1, TransportAssumption
    <3>3. Tail(q) # <<>> /\ Tail(q)[Len(q) - 1] = q[Len(q)]
      <4>1. Len(q) - 1 \in 1..(Len(q) - 1) /\ (Len(q) - 1) + 1 = Len(q)
        BY <1>2, <3>2
      <4>2. Tail(q)[Len(q) - 1] = q[(Len(q) - 1) + 1]
        BY <1>2, <4>1
      <4>3. Len(Tail(q)) # Len(<<>>)
        <5>1. Len(Tail(q)) = Len(q) - 1
          BY <1>2
        <5>2. Len(q) - 1 # 0
          BY <3>2, <1>2
        <5>3. Len(<<>>) = 0
          OBVIOUS
        <5> QED
          BY <5>1, <5>2, <5>3
      <4> QED
        BY <4>1, <4>2, <4>3
    <3>4. \A i \in 1..((Len(q) - 1) - 1) : Tail(q)[i] \in Msgs
      BY <1>2, <3>1
    <3> QED
      BY <1>2, <2>1, <2>3, <3>1, <3>3, <3>4 DEF QueueEnds
  <2>4. CASE producer = "none"
    BY <2>1, <2>4 DEF QueueEnds
  <2> QED
    BY <2>2, <2>3, <2>4 DEF IInv, TypeOK
<1>5. Len(q') <= QueueSize
  BY <1>2, TransportAssumption DEF YieldStreamed, IInv, TypeOK
<1> QED
  BY <1>1, <1>2, <1>3, <1>4, <1>5
  DEF YieldStreamed, window, thread, IInv, TypeOK, StreamOwned, FailuresInStreak, Pcs

\* Only a thread that is done has put an item that is no message, and that
\* item is the last: nothing is left behind it, and nothing is owed.
LEMMA LastItem ==
    ASSUME IInv, pc = "stream", q # <<>>, Head(q) \in {End, Broken}
    PROVE  producer = "done" /\ Tail(q) = <<>> /\ owed = {}
<1> DEFINE T == Msgs \cup {End, Broken}
<1>1. q \in Seq(T) /\ WaitsIn(q) /\ QueueEnds /\ producer # "none" /\ owed \subseteq Msgs
  BY DEF IInv, TypeOK, StreamOwned
<1>2. Head(q) = q[1] /\ Len(q) \in Nat \ {0} /\ Len(Tail(q)) = Len(q) - 1 /\ Tail(q) \in Seq(T)
  BY <1>1, TakenItem
<1>3. q[1] \notin Msgs
  BY <1>2, TransportAssumption
<1>4. producer = "done"
  BY <1>1, <1>2, <1>3 DEF QueueEnds, IInv, TypeOK
<1>5. Len(q) = 1
  BY <1>1, <1>2, <1>3, <1>4 DEF QueueEnds
<1>6. Tail(q) = <<>>
  <2> DEFINE t == Tail(q)
  <2>1. t \in Seq(T) /\ Len(t) = 0
    BY <1>2, <1>5
  <2> HIDE DEF t, T
  <2>2. t = <<>>
    BY <2>1, NoItems
  <2> QED
    BY <2>2 DEF t
<1>7. owed = {}
  BY <1>1, <1>3, <1>5 DEF WaitsIn
<1> QED
  BY <1>4, <1>6, <1>7

LEMMA StreamOverKeeps ==
    ASSUME IInv, StreamEnds \/ StreamFails
    PROVE  IInv'
<1>1. producer = "done" /\ Tail(q) = <<>> /\ owed = {}
  BY LastItem DEF StreamEnds, StreamFails
<1> QED
  BY <1>1, TransportAssumption
  DEF StreamEnds, StreamFails, CountUpTo, window, thread, IInv, TypeOK, StreamOwned, QueueEnds,
      FailuresInStreak, Pcs

LEMMA DispatchKeeps ==
    ASSUME IInv, Dispatch
    PROVE  IInv'
BY TransportAssumption
DEF Dispatch, window, thread, IInv, TypeOK, StreamOwned, QueueEnds, WaitsIn, FailuresInStreak, Pcs

\* The thread puts only messages before its last item.
LEMMA ThreadKeeps ==
    ASSUME IInv, Reader \/ ProducerLeaves
    PROVE  IInv'
<1> DEFINE T == Msgs \cup {End, Broken}
<1>1. q \in Seq(T) /\ DOMAIN q = 1..Len(q) /\ Len(q) \in Nat
  BY DEF IInv, TypeOK
<1>2. CASE ServerCloses \/ ConnectionBreaks
  BY <1>2 DEF ServerCloses, ConnectionBreaks, window, thread, IInv, TypeOK, StreamOwned,
              QueueEnds, WaitsIn, FailuresInStreak
<1>3. CASE \E m \in Msgs : Produce(m)
  <2>1. PICK m \in Msgs : Produce(m)
    BY <1>3
  <2>2. CASE stop
    BY <2>1, <2>2 DEF Produce, window, thread, IInv, TypeOK, StreamOwned, QueueEnds, WaitsIn,
                      FailuresInStreak
  <2>3. CASE ~stop
    <3>1. /\ producer = "reading" /\ producer' = producer /\ Len(q) < QueueSize
          /\ q' = Append(q, m) /\ given' = given \cup {m} /\ owed' = owed \cup {m}
          /\ UNCHANGED <<held, stop, pc, inWindow, failures, streak, batch, hand>>
      BY <2>1, <2>3 DEF Produce, window
    <3>2. /\ q' \in Seq(T) /\ Len(q') = Len(q) + 1
          /\ \A i \in 1..Len(q) : q'[i] = q[i]
          /\ q'[Len(q) + 1] = m
      BY <1>1, <3>1, AppendedItem
    <3>3. DOMAIN q' = 1..(Len(q) + 1)
      BY <3>2
    <3>4. pc \in {"stream", "streamed"} => QueueEnds'
      BY <1>1, <3>1, <3>2, <3>3 DEF IInv, StreamOwned, QueueEnds
    <3>5. pc \in {"stream", "streamed"} => WaitsIn(q)'
      BY <1>1, <3>1, <3>2, <3>3 DEF IInv, StreamOwned, WaitsIn
    <3>6. pc \in {"stream", "streamed", "stopped"}
      BY <3>1 DEF IInv, StreamOwned
    <3>7. Len(q') <= QueueSize
      BY <1>1, <3>1, <3>2, TransportAssumption
    <3> QED
      BY <3>1, <3>2, <3>4, <3>5, <3>6, <3>7 DEF IInv, TypeOK, StreamOwned, FailuresInStreak
  <2> QED
    BY <2>2, <2>3
<1>4. CASE ProducerLeaves
  <2> DEFINE last == IF producer = "ending" THEN End ELSE Broken
  <2>1. /\ producer \in {"ending", "breaking"} /\ producer' = "done" /\ Len(q) < QueueSize
        /\ q' = Append(q, last)
        /\ UNCHANGED <<held, stop, pc, inWindow, failures, streak, batch, hand, given, owed>>
    BY <1>4 DEF ProducerLeaves, window
  <2>2. last \in {End, Broken}
    OBVIOUS
  <2> HIDE DEF last
  <2>3. /\ q' \in Seq(T) /\ Len(q') = Len(q) + 1
        /\ \A i \in 1..Len(q) : q'[i] = q[i]
        /\ q'[Len(q) + 1] = last
    BY <1>1, <2>1, <2>2, AppendedItem
  <2>4. DOMAIN q' = 1..(Len(q) + 1) /\ q' # <<>>
    BY <1>1, <2>3
  <2>5. pc \in {"stream", "streamed"} => QueueEnds'
    BY <1>1, <2>1, <2>2, <2>3, <2>4 DEF IInv, StreamOwned, QueueEnds
  <2>6. pc \in {"stream", "streamed"} => WaitsIn(q)'
    BY <1>1, <2>1, <2>3, <2>4 DEF IInv, StreamOwned, WaitsIn
  <2>7. pc \in {"stream", "streamed", "stopped"}
    BY <2>1 DEF IInv, StreamOwned
  <2>8. Len(q') <= QueueSize
    BY <1>1, <2>1, <2>3, TransportAssumption
  <2> QED
    BY <2>1, <2>3, <2>5, <2>6, <2>7, <2>8 DEF IInv, TypeOK, StreamOwned, FailuresInStreak
<1> QED
  BY <1>2, <1>3, <1>4 DEF Reader

LEMMA NextIInv == IInv /\ [Next]_vars => IInv'
<1> SUFFICES ASSUME IInv, [Next]_vars
             PROVE  IInv'
  OBVIOUS
<1>1. CASE Consumer
  BY <1>1, LoopKeeps, YieldPolledKeeps, BatchDoneKeeps, YieldStreamedKeeps, StreamOverKeeps,
     DispatchKeeps DEF Consumer
<1>2. CASE Poll
  BY <1>2, PollAnswersKeeps, LoopKeeps DEF Poll
<1>3. CASE Reader \/ ProducerLeaves
  BY <1>3, ThreadKeeps
<1>4. CASE (\E m \in Msgs : Arrive(m)) \/ RequestStop \/ WindowExpires \/ UNCHANGED vars
  BY <1>4, EnvironmentKeeps
<1> QED
  BY <1>1, <1>2, <1>3, <1>4 DEF Next

-----------------------------------------------------------------------------
(***************************************************************************)
(* The theorems.                                                           *)
(***************************************************************************)

LEMMA IInvAlways == Spec => []IInv
BY InitIInv, NextIInv, PTL DEF Spec

\* The types of iter_messages' variables, the size of the hand-over queue and
\* that a message is in hand exactly while the subscriber works.
THEOREM TypesKept == Spec => []TypeOK
<1>1. IInv => TypeOK
  BY DEF IInv
<1> QED
  BY <1>1, IInvAlways, PTL

\* A connection is opened when the thread of the one before is done and its
\* queue is empty.
THEOREM OneStream == Spec => []StreamsDoNotOverlap
<1>1. IInv => StreamsDoNotOverlap
  BY DEF IInv, StreamOwned, StreamsDoNotOverlap
<1> QED
  BY <1>1, IInvAlways, PTL

\* Whatever a stream or poll brought is yielded before the loop turns to
\* anything else, such as the failure of that stream.
THEOREM NothingPassedOver == Spec => []AllYielded
<1>1. IInv => AllYielded
  BY DEF IInv, StreamOwned, AllYielded
<1> QED
  BY <1>1, IInvAlways, PTL

\* The fallback window opens after Threshold failures with no clean stream in
\* between, although the counter and the streak are reset at different times.
THEOREM FallbackIsEarned == Spec => FallbackEarned
<1>1. IInv /\ [Next]_vars => [~inWindow /\ inWindow' => streak >= Threshold]_vars
  <2> SUFFICES ASSUME IInv, Next, ~inWindow, inWindow'
               PROVE  streak >= Threshold
    OBVIOUS
  <2>1. BackoffEnds
    BY DEF Next, Consumer, Poll, Reader, Top, PauseEnds, YieldPolled, BatchDone, CheckWindow,
           Connect, YieldStreamed, StreamEnds, StreamFails, Dispatch, PollAnswers, PollFails,
           Produce, ServerCloses, ConnectionBreaks, ProducerLeaves, Arrive, RequestStop,
           WindowExpires, window
  <2> QED
    BY <2>1, TransportAssumption DEF BackoffEnds, IInv, TypeOK, FailuresInStreak
<1> QED
  BY <1>1, IInvAlways, PTL DEF Spec, FallbackEarned
-----------------------------------------------------------------------------
(***************************************************************************)
(* Messages are handed over in the order they came.                        *)
(***************************************************************************)

\* A sequence without its last item.
LEMMA FrontItems ==
    ASSUME NEW T, NEW s \in Seq(T), Len(s) > 0
    PROVE  /\ Front(s) \in Seq(T)
           /\ Len(Front(s)) = Len(s) - 1
           /\ \A i \in 1..(Len(s) - 1) : Front(s)[i] = s[i]
<1> DEFINE n == Len(s) - 1
           f == SubSeq(s, 1, n)
<1>1. n \in Nat /\ 1 \in Int /\ n \in Int /\ \A i \in 1..n : s[i] \in T
  OBVIOUS
<1> HIDE DEF n
<1>2. /\ f \in Seq(T) /\ Len(f) = (IF 1 <= n THEN n - 1 + 1 ELSE 0)
      /\ \A i \in 1..(n - 1 + 1) : f[i] = s[1 + i - 1]
  BY <1>1, SubSeqProperties
<1> HIDE DEF f
<1>3. Len(f) = n /\ n - 1 + 1 = n /\ \A i \in 1..n : 1 + i - 1 = i
  BY <1>1, <1>2
<1>4. \A i \in 1..n : f[i] = s[i]
  BY <1>2, <1>3
<1>5. Front(s) = f
  BY DEF Front, f, n
<1> QED
  BY <1>2, <1>3, <1>4, <1>5 DEF n

\* Two sequences with the same items are the same.
LEMMA SameItems ==
    ASSUME NEW T, NEW s \in Seq(T), NEW t \in Seq(T), Len(s) = Len(t),
           \A i \in 1..Len(s) : s[i] = t[i]
    PROVE  s = t
OBVIOUS

\* What an item put at the end shows when it is not counted.
LEMMA FrontOfAppend ==
    ASSUME NEW T, NEW s \in Seq(T), NEW x \in T
    PROVE  Front(Append(s, x)) = s
<1> DEFINE a == Append(s, x)
           f == Front(a)
<1>1. a \in Seq(T) /\ Len(a) = Len(s) + 1 /\ Len(s) \in Nat /\ \A i \in 1..Len(s) : a[i] = s[i]
  BY AppendedItem
<1> HIDE DEF a
<1>2. Len(a) > 0 /\ Len(a) - 1 = Len(s)
  BY <1>1
<1>3. f \in Seq(T) /\ Len(f) = Len(s) /\ \A i \in 1..Len(s) : f[i] = a[i]
  BY <1>1, <1>2, FrontItems
<1> HIDE DEF f
<1>4. f = s
  BY <1>1, <1>3, SameItems
<1> QED
  BY <1>4 DEF f, a

\* Taking the first item commutes with leaving out the last.
LEMMA FrontOfTail ==
    ASSUME NEW T, NEW s \in Seq(T), Len(s) > 1
    PROVE  Front(s) # <<>> /\ Head(Front(s)) = Head(s) /\ Tail(Front(s)) = Front(Tail(s))
<1> DEFINE f == Front(s)
           t == Tail(s)
           g == Front(t)
           h == Tail(f)
<1>1. s # <<>> /\ Len(s) \in Nat
  OBVIOUS
<1>2. f \in Seq(T) /\ Len(f) = Len(s) - 1 /\ \A i \in 1..(Len(s) - 1) : f[i] = s[i]
  BY <1>1, FrontItems
<1>3. /\ t \in Seq(T) /\ Len(t) = Len(s) - 1 /\ Head(s) = s[1]
      /\ \A i \in 1..(Len(s) - 1) : t[i] = s[i + 1]
  BY <1>1, TakenItem
<1> HIDE DEF f, t
<1>4. f # <<>> /\ Head(f) = f[1]
  BY <1>1, <1>2
<1>5. Head(f) = Head(s)
  BY <1>1, <1>2, <1>3, <1>4
<1>6. g \in Seq(T) /\ Len(g) = Len(s) - 2 /\ \A i \in 1..(Len(s) - 2) : g[i] = t[i]
  <2>1. Len(t) > 0 /\ Len(t) - 1 = Len(s) - 2
    BY <1>1, <1>3
  <2> HIDE DEF g
  <2>2. g \in Seq(T) /\ Len(g) = Len(t) - 1 /\ \A i \in 1..(Len(t) - 1) : g[i] = t[i]
    BY <1>3, <2>1, FrontItems DEF g
  <2> QED
    BY <2>1, <2>2
<1>7. h \in Seq(T) /\ Len(h) = Len(s) - 2 /\ \A i \in 1..(Len(s) - 2) : h[i] = f[i + 1]
  <2>1. h \in Seq(T) /\ Len(h) = Len(f) - 1 /\ \A i \in 1..(Len(f) - 1) : h[i] = f[i + 1]
    BY <1>2, <1>4, TakenItem
  <2>2. Len(f) - 1 = Len(s) - 2
    BY <1>1, <1>2
  <2> HIDE DEF h
  <2> QED
    BY <2>1, <2>2
<1> HIDE DEF g, h
<1>8. \A i \in 1..(Len(s) - 2) : h[i] = g[i]
  <2> TAKE i \in 1..(Len(s) - 2)
  <2>1. i \in 1..(Len(s) - 1) /\ i + 1 \in 1..(Len(s) - 1)
    BY <1>1
  <2> QED
    BY <1>2, <1>3, <1>6, <1>7, <2>1
<1>9. h = g
  BY <1>6, <1>7, <1>8, SameItems
<1> QED
  BY <1>4, <1>5, <1>9 DEF f, t, g, h

\* A queue with a message in front shows it in front, whoever filled the queue.
LEMMA PendingFirst ==
    ASSUME IInv, pc = "stream", q # <<>>, Head(q) \in Msgs
    PROVE  LET rest == IF producer = "done" THEN Front(Tail(q)) ELSE Tail(q)
           IN  Pending # <<>> /\ Head(Pending) = Head(q) /\ Tail(Pending) = rest
<1> DEFINE T == Msgs \cup {End, Broken}
<1>1. q \in Seq(T) /\ QueueEnds
  BY DEF IInv, TypeOK, StreamOwned
<1>2. CASE producer # "done"
  BY <1>2 DEF Pending
<1>3. CASE producer = "done"
  <2>1. Head(q) = q[1] /\ Len(q) \in Nat \ {0} /\ q[Len(q)] \in {End, Broken}
    BY <1>1, <1>3, TakenItem DEF QueueEnds
  <2>2. Len(q) > 1
    BY <2>1, TransportAssumption
  <2>3. Front(q) # <<>> /\ Head(Front(q)) = Head(q) /\ Tail(Front(q)) = Front(Tail(q))
    BY <1>1, <2>2, FrontOfTail
  <2> QED
    BY <1>3, <2>3 DEF Pending
<1> QED
  BY <1>2, <1>3

LEMMA YieldHandsOver ==
    ASSUME IInv, YieldPolled \/ YieldStreamed
    PROVE  InOrder!HandOver
<1>1. hand = NoMsg
  BY DEF YieldPolled, YieldStreamed, IInv, TypeOK
<1>2. CASE YieldPolled
  BY <1>1, <1>2 DEF YieldPolled, InOrder!HandOver, Pending
<1>3. CASE YieldStreamed
  <2>1. /\ pc = "stream" /\ q # <<>> /\ Head(q) \in Msgs
        /\ q' = Tail(q) /\ pc' = "streamed" /\ producer' = producer
        /\ hand' = Head(q) /\ UNCHANGED <<held, stop>>
    BY <1>3 DEF YieldStreamed
  <2>2. Pending # <<>> /\ Head(Pending) = Head(q)
    BY <2>1, PendingFirst
  <2>3. Pending' = Tail(Pending)
    BY <2>1, PendingFirst DEF Pending
  <2> QED
    BY <1>1, <2>1, <2>2, <2>3 DEF InOrder!HandOver
<1> QED
  BY <1>2, <1>3

\* A stream that is over leaves nothing behind its last item.
LEMMA StreamOverHidden ==
    ASSUME IInv, StreamEnds \/ StreamFails
    PROVE  UNCHANGED InOrder!delivery
<1> DEFINE T == Msgs \cup {End, Broken}
<1>1. /\ pc = "stream" /\ pc' \in {"top", "backoff"} /\ q # <<>> /\ Head(q) \in {End, Broken}
      /\ UNCHANGED <<held, stop, hand>>
  BY DEF StreamEnds, StreamFails
<1>2. producer = "done" /\ Tail(q) = <<>> /\ q \in Seq(T)
  BY <1>1, LastItem DEF IInv, TypeOK
<1>3. Len(q) = 1
  <2>1. Len(Tail(q)) = Len(q) - 1 /\ Len(q) \in Nat
    BY <1>1, <1>2, TakenItem
  <2>2. Len(Tail(q)) = Len(<<>>) /\ Len(<<>>) = 0
    BY <1>2
  <2>3. Len(q) - 1 = 0
    BY <2>1, <2>2
  <2> QED
    BY <2>1, <2>3
<1>4. Front(q) = <<>>
  <2> DEFINE f == Front(q)
  <2>1. f \in Seq(T) /\ Len(f) = 0
    BY <1>2, <1>3, FrontItems
  <2> HIDE DEF f
  <2>2. f = <<>>
    BY <2>1, NoItems
  <2> QED
    BY <2>2 DEF f
<1>5. Pending = <<>> /\ Pending' = <<>>
  BY <1>1, <1>2, <1>4 DEF Pending
<1> QED
  BY <1>1, <1>5 DEF InOrder!delivery

\* An item put in the queue: a message that has come, or the mark of the end.
LEMMA PutBrings ==
    ASSUME IInv, NEW m \in Msgs, Produce(m)
    PROVE  InOrder!Bring \/ UNCHANGED InOrder!delivery
<1> DEFINE T == Msgs \cup {End, Broken}
<1>1. /\ producer = "reading" /\ producer' # "done" /\ m \in held
      /\ UNCHANGED <<held, stop, hand, pc, batch>>
      /\ q' = q \/ q' = Append(q, m)
      /\ q \in Seq(T)
  BY DEF Produce, IInv, TypeOK
<1>2. CASE pc \notin {"stream", "streamed"} \/ q' = q
  BY <1>1, <1>2 DEF Pending, InOrder!delivery
<1>3. CASE pc \in {"stream", "streamed"} /\ q' = Append(q, m)
  <2>1. Pending = q /\ Pending' = q'
    BY <1>1, <1>3 DEF Pending
  <2>2. /\ Len(q) \in Nat /\ q' \in Seq(T) /\ Len(q') = Len(q) + 1
        /\ \A i \in 1..Len(q) : q'[i] = q[i]
        /\ q'[Len(q) + 1] = m
    BY <1>1, <1>3, AppendedItem
  <2>3. Len(q) <= Len(q')
    BY <2>2
  <2>4. \A i \in DOMAIN q' : IF i <= Len(q) THEN q'[i] = q[i] ELSE q'[i] \in held
    <3> TAKE i \in DOMAIN q'
    <3>1. i \in 1..(Len(q) + 1)
      BY <2>2
    <3>2. CASE i <= Len(q)
      BY <2>2, <3>1, <3>2
    <3>3. CASE ~(i <= Len(q))
      <4>1. i = Len(q) + 1
        BY <2>2, <3>1, <3>3
      <4> QED
        BY <1>1, <2>2, <3>3, <4>1
    <3> QED
      BY <3>2, <3>3
  <2>5. pc # "stopped" /\ UNCHANGED <<held, hand, stop, pc>>
    BY <1>1, <1>3
  <2> QED
    BY <2>1, <2>3, <2>4, <2>5 DEF InOrder!Bring
<1> QED
  BY <1>1, <1>2, <1>3

LEMMA ThreadHidden ==
    ASSUME IInv, ServerCloses \/ ConnectionBreaks \/ ProducerLeaves
    PROVE  UNCHANGED InOrder!delivery
<1> DEFINE T == Msgs \cup {End, Broken}
<1>1. q \in Seq(T) /\ UNCHANGED <<held, stop, hand, pc, batch>> /\ producer # "done"
  BY DEF ServerCloses, ConnectionBreaks, ProducerLeaves, IInv, TypeOK
<1>2. CASE ServerCloses \/ ConnectionBreaks
  BY <1>1, <1>2 DEF ServerCloses, ConnectionBreaks, Pending, InOrder!delivery
<1>3. CASE ProducerLeaves
  <2>1. \E x \in T : q' = Append(q, x) /\ producer' = "done"
    BY <1>3 DEF ProducerLeaves
  <2>2. Front(q') = q
    BY <1>1, <2>1, FrontOfAppend
  <2> QED
    BY <1>1, <2>1, <2>2 DEF Pending, InOrder!delivery
<1> QED
  BY <1>2, <1>3

LEMMA PollBringsAll ==
    ASSUME IInv, PollAnswers
    PROVE  InOrder!Bring
<1> DEFINE b == SetToSeq(held)
<1>1. held \subseteq Msgs /\ IsFiniteSet(held)
  BY TransportAssumption, FS_Subset DEF IInv, TypeOK
<1>2. b \in Seq(held)
  BY <1>1, PollBrings
<1>3. /\ pc = "poll" /\ pc' = "batch" /\ batch' = b /\ UNCHANGED <<held, stop, hand>>
  BY DEF PollAnswers
<1> HIDE DEF b
<1>4. Pending = <<>> /\ Pending' = b
  BY <1>3 DEF Pending
<1>5. Len(<<>>) = 0 /\ Len(b) \in Nat /\ DOMAIN b = 1..Len(b) /\ \A i \in 1..Len(b) : b[i] \in held
  BY <1>2
<1>6. Len(<<>>) <= Len(b) /\ \A i \in DOMAIN b : ~(i <= Len(<<>>)) /\ b[i] \in held
  BY <1>5
<1> QED
  BY <1>3, <1>4, <1>6 DEF InOrder!Bring

\* The steps of the loop that bring and hand over nothing.
LEMMA LoopHidden ==
    ASSUME IInv,
           Top \/ PollFails \/ PauseEnds \/ BatchDone \/ CheckWindow \/ Connect \/ BackoffEnds
    PROVE  InOrder!Leave \/ UNCHANGED InOrder!delivery
<1>1. /\ pc \in {"top", "poll", "pause", "batch", "check", "connect", "backoff"}
      /\ UNCHANGED <<held, stop, batch, hand>>
      /\ pc = "connect" => pc' = "stream" /\ q' = <<>> /\ producer' = "reading"
      /\ pc = "batch" => pc' = "check" /\ batch = <<>>
      /\ pc \notin {"connect", "batch"} =>
             pc' \in {"stopped", "poll", "connect", "pause", "top"}
      /\ pc' = "stopped" => stop
  BY DEF Top, PollFails, PauseEnds, BatchDone, CheckWindow, Connect, BackoffEnds, window, thread
<1>2. Pending = <<>> /\ Pending' = <<>>
  BY <1>1 DEF Pending
<1>3. hand = NoMsg
  BY <1>1 DEF IInv, TypeOK
<1>4. CASE pc' = "stopped"
  BY <1>1, <1>2, <1>3, <1>4 DEF InOrder!Leave
<1>5. CASE pc' # "stopped"
  BY <1>1, <1>2, <1>5 DEF InOrder!delivery
<1> QED
  BY <1>4, <1>5

LEMMA DispatchDeals ==
    ASSUME IInv, Dispatch
    PROVE  InOrder!DealtWith \/ InOrder!Leave
<1>1. /\ pc \in {"polled", "streamed"} /\ hand # NoMsg /\ hand' = NoMsg
      /\ UNCHANGED <<stop, batch, producer, q>>
  BY TransportAssumption DEF Dispatch, thread, IInv, TypeOK
<1>2. CASE stop
  BY <1>1, <1>2 DEF Dispatch, Pending, InOrder!Leave
<1>3. CASE ~stop
  <2>1. held' \in {held, held \ {hand}} /\ pc' = (IF pc = "polled" THEN "batch" ELSE "stream")
    BY <1>3 DEF Dispatch
  <2>2. UNCHANGED Pending
    BY <1>1, <2>1 DEF Pending
  <2> QED
    BY <1>1, <2>1, <2>2 DEF InOrder!DealtWith
<1> QED
  BY <1>2, <1>3

LEMMA EnvironmentSeen ==
    ASSUME IInv, (\E m \in Msgs : Arrive(m)) \/ RequestStop \/ WindowExpires \/ UNCHANGED vars
    PROVE  [InOrder!Next]_(InOrder!delivery)
<1>1. UNCHANGED <<hand, pc, batch, producer, q>>
  BY DEF Arrive, RequestStop, WindowExpires, vars, window, thread
<1>2. UNCHANGED Pending
  BY <1>1 DEF Pending
<1>3. ASSUME NEW m \in Msgs, Arrive(m)
      PROVE  InOrder!Arrive(m)
  BY <1>1, <1>2, <1>3 DEF Arrive, InOrder!Arrive
<1>4. CASE RequestStop
  BY <1>1, <1>2, <1>4 DEF RequestStop, InOrder!RequestStop, InOrder!Next
<1>5. CASE WindowExpires \/ UNCHANGED vars
  BY <1>1, <1>2, <1>5 DEF WindowExpires, vars, InOrder!delivery
<1> QED
  BY <1>3, <1>4, <1>5 DEF InOrder!Next

LEMMA DeliveryStep == IInv /\ [Next]_vars => [InOrder!Next]_(InOrder!delivery)
<1> SUFFICES ASSUME IInv, [Next]_vars PROVE [InOrder!Next]_(InOrder!delivery)
  OBVIOUS
<1>1. CASE Consumer
  BY <1>1, LoopHidden, YieldHandsOver, StreamOverHidden, DispatchDeals DEF Consumer, InOrder!Next
<1>2. CASE Poll
  BY <1>2, PollBringsAll, LoopHidden DEF Poll, InOrder!Next
<1>3. CASE Reader \/ ProducerLeaves
  BY <1>3, PutBrings, ThreadHidden DEF Reader, InOrder!Next
<1>4. CASE (\E m \in Msgs : Arrive(m)) \/ RequestStop \/ WindowExpires \/ UNCHANGED vars
  BY <1>4, EnvironmentSeen
<1> QED
  BY <1>1, <1>2, <1>3, <1>4 DEF Next

\* Whatever the streams and polls do, the subscriber gets each message that came
\* in its turn and works on one at a time: iter_messages() with its producer
\* thread is a first-in first-out line that only a stop cuts short.
THEOREM MessagesInOrder == Spec => DeliveredInOrder
<1>1. Init => InOrder!Init
  BY DEF Init, InOrder!Init, Pending
<1> QED
  BY <1>1, DeliveryStep, IInvAlways, PTL DEF Spec, DeliveredInOrder, InOrder!Spec
=============================================================================
