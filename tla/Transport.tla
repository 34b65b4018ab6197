----------------------------- MODULE Transport -----------------------------
(***************************************************************************)
(* core/clawtell_core/transport.py: iter_messages(), which reads the SSE   *)
(* stream and falls back to polling for a while after too many failures in *)
(* a row, and _drive_stream(), which runs the blocking stream iterator in  *)
(* a thread and hands its messages over through a bounded queue.  The      *)
(* subscriber (subscribe()) is reduced to what it does between two         *)
(* messages: leave if asked to stop, or dispatch.                          *)
(*                                                                         *)
(* Abstracted: lengths of time (a window, a sleep, a stream end some       *)
(* time), last_event_id (a hint: the server redelivers what is not acked), *)
(* the poll limit (a poll returns all that is held).                       *)
(***************************************************************************)
EXTENDS Naturals, Sequences, FiniteSets, SequencesExt

CONSTANTS
    Msgs,       \* message ids
    End,        \* _SENTINEL_END
    Broken,     \* _StreamError
    NoMsg,
    ForcePoll,  \* force_poll or CLAWTELL_FORCE_POLL
    Threshold,  \* sse_failure_threshold
    QueueSize   \* maxsize of the hand-over queue

ASSUME TransportAssumption ==
    /\ IsFiniteSet(Msgs)
    /\ {End, Broken, NoMsg} \cap Msgs = {}
    /\ End # Broken
    /\ ForcePoll \in BOOLEAN
    /\ Threshold \in Nat \ {0}
    /\ QueueSize \in Nat \ {0}

VARIABLES
    held,       \* messages the server has and no ack for
    stop,       \* stop_event
    pc,         \* where iter_messages is
    inWindow,   \* time.monotonic() < fallback_until
    failures,   \* consecutive_failures, no further than Threshold
    batch,      \* messages of the last poll not yet yielded
    producer,   \* the thread: "none", "reading", "ending", "breaking", "done"
    q,          \* the hand-over queue
    hand        \* the message yielded to the subscriber

(* History. *)
VARIABLES
    given,      \* messages this stream or poll has brought so far
    owed,       \* those not yet yielded
    streak      \* SSE failures since the last clean stream, up to Threshold

window == <<inWindow, failures, streak>>
thread == <<producer, q>>
vars == <<held, stop, pc, inWindow, failures, batch, producer, q, hand,
          given, owed, streak>>

Pcs == {"top", "poll", "pause", "batch", "check", "connect", "stream",
        "backoff", "polled", "streamed", "stopped"}

\* The type invariant; a message is in hand exactly while the subscriber works.
TypeOK ==
    /\ held \subseteq Msgs
    /\ stop \in BOOLEAN
    /\ pc \in Pcs
    /\ inWindow \in BOOLEAN
    /\ failures \in 0 .. Threshold
    /\ batch \in Seq(Msgs)
    /\ producer \in {"none", "reading", "ending", "breaking", "done"}
    /\ q \in Seq(Msgs \cup {End, Broken})
    /\ Len(q) <= QueueSize
    /\ hand \in Msgs \cup {NoMsg}
    /\ pc \in {"polled", "streamed"} <=> hand \in Msgs
    /\ given \subseteq Msgs
    /\ owed \subseteq given
    /\ streak \in 0 .. Threshold

-----------------------------------------------------------------------------
CountUpTo(n, max) == IF n < max THEN n + 1 ELSE n

InFallback == ForcePoll \/ inWindow

Init ==
    /\ held \in SUBSET Msgs
    /\ stop = FALSE
    /\ pc = "top"
    /\ inWindow = FALSE
    /\ failures = 0
    /\ batch = <<>>
    /\ producer = "none"
    /\ q = <<>>
    /\ hand = NoMsg
    /\ given = {}
    /\ owed = {}
    /\ streak = 0

(***************************************************************************)
(* The environment.                                                        *)
(***************************************************************************)
Arrive(m) ==
    /\ m \notin held
    /\ pc # "stopped"
    /\ held' = held \cup {m}
    /\ UNCHANGED <<stop, pc, window, batch, thread, hand, given, owed>>

RequestStop ==
    /\ ~stop
    /\ stop' = TRUE
    /\ UNCHANGED <<held, pc, window, batch, thread, hand, given, owed>>

\* Time passes while the loop awaits something, so never between opening the
\* window and looking at it.
WindowExpires ==
    /\ inWindow
    /\ pc # "top"
    /\ inWindow' = FALSE
    /\ UNCHANGED <<held, stop, pc, failures, batch, thread, hand, given, owed, streak>>

(***************************************************************************)
(* iter_messages(): the top of the loop and the poll path.                 *)
(***************************************************************************)
Top ==
    /\ pc = "top"
    /\ pc' = (IF stop THEN "stopped" ELSE IF InFallback THEN "poll" ELSE "connect")
    /\ UNCHANGED <<held, stop, window, batch, thread, hand, given, owed>>

PollAnswers ==
    /\ pc = "poll"
    /\ batch' = SetToSeq(held)
    /\ given' = held
    /\ owed' = held
    /\ pc' = "batch"
    /\ UNCHANGED <<held, stop, window, thread, hand>>

\* The sleep and `continue` that follow an error skip the end of the loop body.
PollFails ==
    /\ pc = "poll"
    /\ pc' = "pause"
    /\ UNCHANGED <<held, stop, window, batch, thread, hand, given, owed>>

PauseEnds ==
    /\ pc = "pause"
    /\ pc' = "top"
    /\ UNCHANGED <<held, stop, window, batch, thread, hand, given, owed>>

YieldPolled ==
    /\ pc = "batch"
    /\ batch # <<>>
    /\ batch' = Tail(batch)
    /\ hand' = Head(batch)
    /\ owed' = owed \ {Head(batch)}
    /\ pc' = "polled"
    /\ UNCHANGED <<held, stop, window, thread, given>>

\* After the last message, or the sleep when there was none.
BatchDone ==
    /\ pc = "batch"
    /\ batch = <<>>
    /\ pc' = "check"
    /\ UNCHANGED <<held, stop, window, batch, thread, hand, given, owed>>

CheckWindow ==
    /\ pc = "check"
    /\ failures' = (IF ForcePoll \/ inWindow THEN failures ELSE 0)
    /\ pc' = "top"
    /\ UNCHANGED <<held, stop, inWindow, batch, thread, hand, given, owed, streak>>

(***************************************************************************)
(* The SSE path: a new queue and a new thread for each connection.         *)
(***************************************************************************)
Connect ==
    /\ pc = "connect"
    /\ producer' = "reading"
    /\ q' = <<>>
    /\ given' = {}
    /\ owed' = {}
    /\ pc' = "stream"
    /\ UNCHANGED <<held, stop, window, batch, hand>>

YieldStreamed ==
    /\ pc = "stream"
    /\ q # <<>>
    /\ Head(q) \in Msgs
    /\ q' = Tail(q)
    /\ hand' = Head(q)
    /\ owed' = owed \ {Head(q)}
    /\ pc' = "streamed"
    /\ UNCHANGED <<held, stop, window, batch, producer, given>>

\* Mutant: a clean end of stream leaves the failure count alone.
StreamEndsUncleared ==
    /\ pc = "stream"
    /\ q # <<>>
    /\ Head(q) = End
    /\ q' = Tail(q)
    /\ streak' = 0
    /\ pc' = "top"
    /\ UNCHANGED <<held, stop, inWindow, failures, batch, producer, hand, given, owed>>

\* Mutant: q.get gives up when nothing comes.
StreamTimesOut ==
    /\ pc = "stream"
    /\ q = <<>>
    /\ pc' = "top"
    /\ UNCHANGED <<held, stop, window, batch, thread, hand, given, owed>>

\* The sentinel: the server closed the stream, or the thread saw the stop.
StreamEnds ==
    /\ pc = "stream"
    /\ q # <<>>
    /\ Head(q) = End
    /\ q' = Tail(q)
    /\ failures' = 0
    /\ streak' = 0
    /\ pc' = "top"
    /\ UNCHANGED <<held, stop, inWindow, batch, producer, hand, given, owed>>

\* Mutant: the thread's exception is raised before what it had queued.
StreamFailsEarly ==
    /\ pc = "stream"
    /\ producer = "breaking"
    /\ producer' = "done"
    /\ q' = <<>>
    /\ failures' = CountUpTo(failures, Threshold)
    /\ streak' = CountUpTo(streak, Threshold)
    /\ pc' = "backoff"
    /\ UNCHANGED <<held, stop, inWindow, batch, hand, given, owed>>

\* The thread's exception.
StreamFails ==
    /\ pc = "stream"
    /\ q # <<>>
    /\ Head(q) = Broken
    /\ q' = Tail(q)
    /\ failures' = CountUpTo(failures, Threshold)
    /\ streak' = CountUpTo(streak, Threshold)
    /\ pc' = "backoff"
    /\ UNCHANGED <<held, stop, inWindow, batch, producer, hand, given, owed>>

\* Mutant: the message in hand is kept.
DispatchKeeping ==
    /\ pc \in {"polled", "streamed"}
    /\ ~stop
    /\ pc' = (IF pc = "polled" THEN "batch" ELSE "stream")
    /\ UNCHANGED <<held, stop, window, batch, thread, hand, given, owed>>

\* Mutant: the fallback is never entered.
BackoffForEver ==
    /\ pc = "backoff"
    /\ pc' = "top"
    /\ UNCHANGED <<held, stop, inWindow, failures, batch, thread, hand, given, owed, streak>>

\* After the backoff sleep.
BackoffEnds ==
    /\ pc = "backoff"
    /\ inWindow' = (inWindow \/ failures >= Threshold)
    /\ pc' = "top"
    /\ UNCHANGED <<held, stop, failures, batch, thread, hand, given, owed, streak>>

(***************************************************************************)
(* subscribe(), for one yielded message: break on stop, which closes both  *)
(* generators; or dispatch, and ack or not.                                *)
(***************************************************************************)
Dispatch ==
    /\ pc \in {"polled", "streamed"}
    /\ hand' = NoMsg
    /\ \/ /\ stop
          /\ pc' = "stopped"
          /\ UNCHANGED held
       \/ /\ ~stop
          /\ held' \in {held, held \ {hand}}
          /\ pc' = (IF pc = "polled" THEN "batch" ELSE "stream")
    /\ UNCHANGED <<stop, window, batch, thread, given, owed>>

(***************************************************************************)
(* producer(), in its thread.  Each q.put waits for room.                  *)
(***************************************************************************)

\* A message comes off the stream; with stop set it is dropped.
Produce(m) ==
    /\ producer = "reading"
    /\ m \in held \ given
    /\ \/ /\ stop
          /\ producer' = "ending"
          /\ UNCHANGED <<q, given, owed>>
       \/ /\ ~stop
          /\ Len(q) < QueueSize
          /\ q' = Append(q, m)
          /\ given' = given \cup {m}
          /\ owed' = owed \cup {m}
          /\ UNCHANGED producer
    /\ UNCHANGED <<held, stop, pc, window, batch, hand>>

\* Mutant: the thread waits for the next message whatever happens.
ProducerStays ==
    /\ producer = "ending"
    /\ Len(q) < QueueSize
    /\ producer' = "reading"
    /\ UNCHANGED <<held, stop, pc, window, batch, q, hand, given, owed>>

\* The server ends the stream cleanly, after stream_limit messages or
\* stream_timeout seconds, whatever it still holds.
ServerCloses ==
    /\ producer = "reading"
    /\ producer' = "ending"
    /\ UNCHANGED <<held, stop, pc, window, batch, q, hand, given, owed>>

ConnectionBreaks ==
    /\ producer = "reading"
    /\ producer' = "breaking"
    /\ UNCHANGED <<held, stop, pc, window, batch, q, hand, given, owed>>

ProducerLeaves ==
    /\ producer \in {"ending", "breaking"}
    /\ Len(q) < QueueSize
    /\ q' = Append(q, IF producer = "ending" THEN End ELSE Broken)
    /\ producer' = "done"
    /\ UNCHANGED <<held, stop, pc, window, batch, hand, given, owed>>

-----------------------------------------------------------------------------
Consumer ==
    \/ Top \/ PauseEnds \/ YieldPolled \/ BatchDone \/ CheckWindow
    \/ Connect \/ YieldStreamed \/ StreamEnds \/ StreamFails \/ BackoffEnds
    \/ Dispatch

Poll == PollAnswers \/ PollFails

Reader == (\E m \in Msgs : Produce(m)) \/ ServerCloses \/ ConnectionBreaks

Next ==
    \/ Consumer \/ Poll \/ Reader \/ ProducerLeaves
    \/ (\E m \in Msgs : Arrive(m)) \/ RequestStop \/ WindowExpires

Spec == Init /\ [][Next]_vars

(***************************************************************************)
(* The event loop and the thread run; a call to the server returns, and a  *)
(* stream does not stay open for ever (the server holds it stream_timeout  *)
(* seconds); a poll that is tried again and again succeeds; a server that  *)
(* goes on ending streams cleanly does not leave the same message out of   *)
(* all of them.  A stream that breaks may bring nothing, every time.       *)
(***************************************************************************)
NoneLeftOut ==
    \A m \in Msgs :
        []<><<ServerCloses /\ m \in held \ given>>_vars => []<><<Produce(m)>>_vars

Fairness ==
    /\ WF_vars(Consumer)
    /\ WF_vars(Poll)
    /\ SF_vars(PollAnswers)
    /\ WF_vars(Reader)
    /\ WF_vars(ProducerLeaves)
    /\ NoneLeftOut

FairSpec == Spec /\ Fairness

-----------------------------------------------------------------------------
(***************************************************************************)
(* Properties.                                                             *)
(***************************************************************************)

\* A connection is opened only when the thread of the one before has put its
\* last item and the loop has taken it: no two threads, no items left over.
StreamsDoNotOverlap ==
    pc = "connect" => producer \in {"none", "done"} /\ q = <<>>

\* Whatever a stream or a poll brought has been yielded before the loop turns to
\* anything else, in particular before it reacts to the stream's failure.
AllYielded ==
    pc \in {"top", "poll", "pause", "check", "connect", "backoff"} => owed = {}

\* The fallback window opens only after Threshold stream failures with no clean
\* stream in between.
FallbackEarned == [][~inWindow /\ inWindow' => streak >= Threshold]_vars

\* What has come and is not yielded: the rest of the batch, or the queue up to
\* the end or the error its thread put last.
Pending ==
    IF pc \in {"batch", "polled"} THEN batch
    ELSE IF pc \in {"stream", "streamed"} THEN IF producer = "done" THEN Front(q) ELSE q
    ELSE <<>>

InOrder == INSTANCE Delivery WITH buffer <- Pending, over <- (pc = "stopped")

\* Over SSE and over polling, across failures, fallbacks and reconnections,
\* messages are yielded one at a time in the order they came, and none that came
\* is dropped but by a stop.
DeliveredInOrder == InOrder!Spec

\* A message the server holds is eventually yielded, over SSE or, when the
\* stream always fails, over polling, although any poll may fail too.
EveryMessageYielded ==
    \A m \in Msgs : m \in held ~> (hand = m \/ m \notin held \/ stop)

\* After stop_event is set the loop ends, whatever it was waiting for.
StopHeeded == stop ~> (pc = "stopped")
=============================================================================
