--------------------------- MODULE HermesAdapter ---------------------------
(***************************************************************************)
(* hermes/clawtell_hermes/adapter.py: inject() and the agent pool, with    *)
(* the one thread pool of the process that the agent factory, the relay of *)
(* a synchronous chat() and the caller's client.ack() all run on.          *)
(*                                                                         *)
(* Kept: who holds the pool lock when, the order of the pool, what a       *)
(* timeout gives up and what it leaves running.  Abstracted: an agent is   *)
(* the sender it was built for; prompts, replies and refusals are one      *)
(* outcome each; lengths of time.  The workers counted are those not taken *)
(* by the SSE hand-over, which keeps one while it waits for a message.     *)
(***************************************************************************)
EXTENDS Naturals, Sequences, FiniteSets, SequencesExt

CONSTANTS
    Tasks,      \* tasks that call inject() (subscribe() is one)
    Senders,    \* from_name of messages
    PoolSizes,  \* values of agent_pool_size to consider
    Workers,    \* threads of the default executor
    MaxHangs    \* bound: factory calls that never return

ASSUME HermesAssumption ==
    /\ PoolSizes \subseteq Nat
    /\ Workers \in Nat \ {0}
    /\ MaxHangs \in Nat

VARIABLES
    size,       \* _pool_size; fixed
    timed,      \* factory_timeout > 0; fixed
    pc,         \* what each task awaits
    sender,     \* from_name of the message it handles, or had last
    line,       \* tasks at _pool_lock; the first one holds it
    pool,       \* senders with an agent, least recently used first
    jobs,       \* executor: tasks whose call waits for a worker, in order
    running,    \* executor: tasks whose call a worker runs
    hung,       \* those of them whose factory will never return
    late,       \* workers running a factory nobody waits for any more
    stuck       \* the same, and it will never return

(* History. *)
VARIABLES
    recent,     \* senders, by the last time a pooled agent was used for them
    hangs

config == <<size, timed>>
executor == <<jobs, running, hung, late, stuck>>
vars == <<size, timed, pc, sender, line, pool, jobs, running, hung, late, stuck,
          recent, hangs>>

\* Awaiting an answer of the executor.
Awaiting == {"factory", "relay", "ack"}

Busy == Cardinality(running) + late + stuck

\* The type invariant: whoever awaits the executor has a call there, the pool
\* keeps within its size and the executor within its threads.
TypeOK ==
    /\ size \in PoolSizes
    /\ timed \in BOOLEAN
    /\ pc \in [Tasks -> {"idle", "lock", "chat"} \cup Awaiting]
    /\ sender \in [Tasks -> Senders]
    /\ line \in Seq(Tasks)
    /\ pool \in Seq(Senders)
    /\ Len(pool) <= size
    /\ jobs \in Seq(Tasks)
    /\ running \subseteq Tasks
    /\ ToSet(jobs) \cup running = {t \in Tasks : pc[t] \in Awaiting}
    /\ ToSet(jobs) \cap running = {}
    /\ hung \subseteq {t \in running : pc[t] = "factory"}
    /\ late \in Nat
    /\ stuck \in 0 .. MaxHangs
    /\ Busy <= Workers
    /\ recent \in Seq(Senders)
    /\ hangs \in 0 .. MaxHangs

-----------------------------------------------------------------------------
\* Task t awaits a call on the executor.
Submit(t, what) ==
    /\ jobs' = Append(jobs, t)
    /\ pc' = [pc EXCEPT ![t] = what]

\* An agent for t's sender is at hand; chat_fn(prompt) is called: it gives a
\* coroutine, or a text that goes through the executor, or fails (a refusal, and
\* the caller goes on to ack).
Talk(t, calls) ==
    \E what \in {"chat", "relay", "ack"} :
        /\ pc' = [pc EXCEPT ![t] = what]
        /\ jobs' = (IF what = "chat" THEN calls ELSE Append(calls, t))

\* Leaving `async with self._pool_lock`.
Release == line' = (IF size = 0 THEN line ELSE Tail(line))

\* move_to_end(), or insertion at the end.
ToEnd(s, list) == Append(RemoveFirst(list, s), s)

Init ==
    /\ size \in PoolSizes
    /\ timed \in BOOLEAN
    /\ pc = [t \in Tasks |-> "idle"]
    /\ sender \in [Tasks -> Senders]
    /\ line = <<>>
    /\ pool = <<>>
    /\ jobs = <<>>
    /\ running = {}
    /\ hung = {}
    /\ late = 0
    /\ stuck = 0
    /\ recent = <<>>
    /\ hangs = 0

(***************************************************************************)
(* inject() and the ack after it.                                          *)
(***************************************************************************)

\* A message comes; without a pool its agent is built at once.
Begin(t, s) ==
    /\ pc[t] = "idle"
    /\ sender' = [sender EXCEPT ![t] = s]
    /\ \/ size = 0 /\ Submit(t, "factory") /\ UNCHANGED line
       \/ /\ size > 0
          /\ line' = Append(line, t)
          /\ pc' = [pc EXCEPT ![t] = "lock"]
          /\ UNCHANGED jobs
    /\ UNCHANGED <<config, pool, running, hung, late, stuck, recent, hangs>>

\* Mutant: a use does not move the sender to the end.
ReuseInPlace(t) ==
    /\ pc[t] = "lock"
    /\ t = Head(line)
    /\ sender[t] \in ToSet(pool)
    /\ recent' = ToEnd(sender[t], recent)
    /\ Release
    /\ Talk(t, jobs)
    /\ UNCHANGED <<config, sender, pool, running, hung, late, stuck, hangs>>

\* With the lock: the sender has an agent.
Reuse(t) ==
    /\ pc[t] = "lock"
    /\ t = Head(line)
    /\ sender[t] \in ToSet(pool)
    /\ pool' = ToEnd(sender[t], pool)
    /\ recent' = ToEnd(sender[t], recent)
    /\ Release
    /\ Talk(t, jobs)
    /\ UNCHANGED <<config, sender, running, hung, late, stuck, hangs>>

\* With the lock: it has none; the lock is kept while one is built.
Miss(t) ==
    /\ pc[t] = "lock"
    /\ t = Head(line)
    /\ sender[t] \notin ToSet(pool)
    /\ Submit(t, "factory")
    /\ UNCHANGED <<config, sender, line, pool, running, hung, late, stuck, recent, hangs>>

\* Mutant: nothing is evicted.
KeepAll(s) ==
    /\ pool' = (IF size = 0 THEN pool ELSE Append(pool, s))
    /\ recent' = (IF size = 0 THEN recent ELSE ToEnd(s, recent))

\* The new agent enters the pool, and the least recently used one leaves.
Keep(s) ==
    IF size = 0
    THEN UNCHANGED <<pool, recent>>
    ELSE LET grown == Append(pool, s)
         IN  /\ pool' = (IF Len(grown) > size THEN Tail(grown) ELSE grown)
             /\ recent' = ToEnd(s, recent)

\* The factory returns in time.
FactoryReturns(t) ==
    /\ pc[t] = "factory"
    /\ t \in running \ hung
    /\ running' = running \ {t}
    /\ Keep(sender[t])
    /\ Release
    /\ Talk(t, jobs)
    /\ UNCHANGED <<config, sender, hung, late, stuck, hangs>>

\* It raises: a TimeoutError is a refusal; anything else leaves inject(), and
\* the message is not acked.
FactoryRaises(t) ==
    /\ pc[t] = "factory"
    /\ t \in running \ hung
    /\ running' = running \ {t}
    /\ Release
    /\ \/ Submit(t, "ack")
       \/ pc' = [pc EXCEPT ![t] = "idle"] /\ UNCHANGED jobs
    /\ UNCHANGED <<config, sender, pool, hung, late, stuck, recent, hangs>>

\* What a timeout gives up: a call that no worker has begun is withdrawn, one
\* that runs keeps its worker.
Abandon(t) ==
    /\ running' = running \ {t}
    /\ hung' = hung \ {t}
    /\ late' = (IF t \in running \ hung THEN late + 1 ELSE late)
    /\ stuck' = (IF t \in hung THEN stuck + 1 ELSE stuck)

\* Mutant: the lock is not given back when the factory times out.
TimeoutHoldingLock(t) ==
    /\ timed
    /\ pc[t] = "factory"
    /\ Abandon(t)
    /\ jobs' = Append(RemoveFirst(jobs, t), t)
    /\ pc' = [pc EXCEPT ![t] = "ack"]
    /\ UNCHANGED <<config, sender, line, pool, recent, hangs>>

\* wait_for() gives up: a refusal.
Timeout(t) ==
    /\ timed
    /\ pc[t] = "factory"
    /\ Abandon(t)
    /\ Release
    /\ jobs' = Append(RemoveFirst(jobs, t), t)
    /\ pc' = [pc EXCEPT ![t] = "ack"]
    /\ UNCHANGED <<config, sender, pool, recent, hangs>>

\* The agent's coroutine returns or raises.
ChatReturns(t) ==
    /\ pc[t] = "chat"
    /\ Submit(t, "ack")
    /\ UNCHANGED <<config, sender, line, pool, running, hung, late, stuck, recent, hangs>>

RelayReturns(t) ==
    /\ pc[t] = "relay"
    /\ t \in running
    /\ running' = running \ {t}
    /\ Submit(t, "ack")
    /\ UNCHANGED <<config, sender, line, pool, hung, late, stuck, recent, hangs>>

AckReturns(t) ==
    /\ pc[t] = "ack"
    /\ t \in running
    /\ running' = running \ {t}
    /\ pc' = [pc EXCEPT ![t] = "idle"]
    /\ UNCHANGED <<config, sender, line, pool, jobs, hung, late, stuck, recent, hangs>>

(***************************************************************************)
(* The executor's threads.                                                 *)
(***************************************************************************)
StartJob ==
    /\ jobs # <<>>
    /\ Busy < Workers
    /\ running' = running \cup {Head(jobs)}
    /\ jobs' = Tail(jobs)
    /\ UNCHANGED <<config, pc, sender, line, pool, hung, late, stuck, recent, hangs>>

\* A constructor hangs for good.
Hang(t) ==
    /\ pc[t] = "factory"
    /\ t \in running \ hung
    /\ hangs < MaxHangs
    /\ hangs' = hangs + 1
    /\ hung' = hung \cup {t}
    /\ UNCHANGED <<config, pc, sender, line, pool, jobs, running, late, stuck, recent>>

\* An abandoned factory returns; its agent is dropped.
LateReturns ==
    /\ late > 0
    /\ late' = late - 1
    /\ UNCHANGED <<config, pc, sender, line, pool, jobs, running, hung, stuck, recent, hangs>>

-----------------------------------------------------------------------------
Step(t) ==
    \/ Reuse(t) \/ Miss(t) \/ FactoryReturns(t) \/ FactoryRaises(t)
    \/ Timeout(t) \/ ChatReturns(t) \/ RelayReturns(t) \/ AckReturns(t)

Next ==
    \/ \E t \in Tasks : Step(t) \/ Hang(t) \/ (\E s \in Senders : Begin(t, s))
    \/ StartJob \/ LateReturns

Spec == Init /\ [][Next]_vars

(***************************************************************************)
(* The event loop, its timers and the threads run; agents answer, and a    *)
(* factory returns unless it hangs.                                        *)
(***************************************************************************)
Fairness ==
    /\ \A t \in Tasks : WF_vars(Step(t))
    /\ WF_vars(StartJob)
    /\ WF_vars(LateReturns)

FairSpec == Spec /\ Fairness

-----------------------------------------------------------------------------
(***************************************************************************)
(* Properties.                                                             *)
(***************************************************************************)

\* The pool is what its name says: the senders used last, in that order, be
\* their agents found or built, and whatever timed out or raised in between.
PoolIsRecent ==
    pool = SubSeq(recent,
                  IF Len(recent) > size THEN Len(recent) - size + 1 ELSE 1,
                  Len(recent))

\* Every inject() returns and its message can be acked: a factory that hangs
\* costs a refusal and a worker, not the lock and not the loop, as long as a
\* worker is left.
InjectReturns ==
    \A t \in Tasks : (timed /\ pc[t] # "idle") ~> pc[t] = "idle"

(***************************************************************************)
(* What a test says of the adapter, and a run with as many hanging         *)
(* factories as workers refutes.                                           *)
(***************************************************************************)

\* hermes/tests/test_adapter.py: when the constructor hangs, the inbound can
\* still be acked; the subscribe loop is not blocked for ever.
HangLeavesLoopAlive ==
    \A t \in Tasks : (timed /\ pc[t] = "ack") ~> pc[t] # "ack"
=============================================================================
