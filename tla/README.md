# ClawTell Python adapters: TLA+ models, checks and proofs

A forwarder built from this repository receives agent-to-agent messages from the
ClawTell server, shows them to a human in a Telegram chat, lets an agent answer
those that are *auto-reply eligible*, and acknowledges them. The server redelivers
what is not acknowledged. What makes the code hard is what happens between two of
those steps: a call that fails after it took effect, a process that dies, a
redelivery that races a queue drain, a chat that is bound in the middle.

| file | what it is |
| --- | --- |
| `QueueFile.tla` | content of `inbox-queue.json`, and what each queue method makes of it (operators, no state) |
| `InboxQueue.tla` | class `InboxQueue`: read, write to a temporary file, rename; crash, I/O errors, corruption |
| `QueuePromise.tla` | what the queue promises its caller: the abstract specification `InboxQueue` implements |
| `Subscribe.tla` | the receive loop: `subscribe()`, `_process()`, `_drain()` with server, chat, agent and crashes |
| `Mailbox.tla` | what the receive loop promises server, human and sender: the abstract specification `Subscribe` implements |
| `Transport.tla` | `iter_messages()` and `_drive_stream()`: SSE, its producer thread, the poll fallback |
| `Delivery.tla` | what the transport promises the loop, a first-in first-out line: the abstract specification `Transport` implements |
| `Bridge.tla` | `TelegramBridge`: chat capture, `chat.json`, update offsets |
| `Forwarder.tla` | the program of `telegram/README.md`: `Bridge` and `Subscribe` composed as two tasks of one process |
| `HermesAdapter.tla` | `HermesAdapter.inject()`: agent pool, lock, factory timeout, the shared thread pool |
| `LangGraphAdapter.tla` | `LangGraphAdapter.inject()`: a lock per thread, look, start or resume, reply |
| `Turns.tla` | what the callers of `inject()` may take for granted, one turn at a time: the abstract specification `LangGraphAdapter` implements |
| `Daemon.tla` | one `clawtell-forwarder` process: credentials, token, imports under a timeout, exit |
| `ChatRouting.tla` | the channel directory: `discover-chat --write`, the daemon's start, `send-test`, `get_chat` |
| `QueueFileProofs.tla`, `InboxQueueProofs.tla`, `SubscribeProofs.tla`, `TransportProofs.tla`, `ForwarderProofs.tla`, `HermesAdapterProofs.tla`, `LangGraphAdapterProofs.tla`, `DaemonProofs.tla` | TLAPS proofs (`ForwarderProofs` covers `Bridge` too, `DaemonProofs` both `ChatRouting` and `Daemon`) |
| `MC*.tla`, `MC*.cfg` | TLC instances |

## 1. Inventory

State in *italics* survives a restart of the process.

| component | source | state | operations | talks to |
| --- | --- | --- | --- | --- |
| receive loop | `core/clawtell_core/subscribe.py` | dedup window, drain clock, message in hand | take a message, process it, drain the queue, touch the heartbeat | transport (async iterator), server (`ack`, `send`), adapter (`get_chat`, `inject`, `forward`), inbox queue |
| inbox queue | `core/clawtell_core/queue.py` | *pending, dead letters, reply records* | `enqueue`, `dequeue`, `mark_attempt`, `mark_replied`, `has_replied`, two getters | file system |
| transport | `core/clawtell_core/transport.py` | failure count, fallback deadline, hand-over queue, one thread per SSE connection | connect, read, hand over, fail, back off, poll, return to SSE | server (`stream`, `poll`), stop event |
| adapter contract | `core/clawtell_core/adapter.py` | bound chat, directory | `bind_chat`, `bind_directory`, `get_chat`, `InboundMessage.from_dict` | everyone |
| Telegram bridge | `telegram/clawtell_telegram/bridge.py` | update offset, *chat.json* | `attach`, `run` (poll, bind, save) | Telegram, adapter |
| Hermes adapter | `hermes/clawtell_hermes/adapter.py` | agent pool and its lock | `inject` (factory with timeout, `chat`), `forward` | agent, default thread pool, chat |
| Hermes plugin | `hermes/clawtell_hermes/plugin.py` | none | registers the agent tool `clawtell_send`, whose handler makes one `send` | server, Hermes |
| LangGraph adapter, tools | `adapter-langgraph/clawtell_langgraph/` | one lock per thread id | `inject` (look, then invoke or resume), `forward`; two tools | graph with a checkpointer, chat |
| daemon | `core/clawtell_core/daemon.py` | *channel directory*, exit status, threads left by timeouts | start-up, signals, `discover-chat --write`, `check`, `send-test` | everything above |
| credentials | `core/clawtell_core/config.py` | *up to four env files, environment of this process and its parents* | `load_credentials`, `discover_env_var` | file system, `/proc` |
| allowlist | `core/clawtell_core/allowlist.py` | none | `is_auto_reply_allowed` | nobody in the repository but its test |
| formatter | `core/clawtell_core/formatter.py` | none | text of a notification | adapters |

How they interact: one process, one asyncio event loop. The receive loop is one task
and awaits every slow call; blocking calls (`ack`, `send`, `poll`, the queue that the
SSE thread fills) run on the loop's *default thread pool*; the bridge is a second task
and changes the adapter's chat whenever the first one awaits. Nothing else is shared.

What makes each correct, in one line:

- receive loop: no message is acknowledged before `forward()` returned for it, `True` or `False`, or it is queued on disk or dead-lettered; none is
  answered twice without a reason; `forward()` returns before the sender gets an answer; every
  message is eventually acknowledged, unless it waits in the queue or the queue gave it up.
- inbox queue: an operation happens as a whole or not at all, in order, and an unreadable
  file is never just overwritten.
- transport: what was received is handed on before anything else happens; fallback is
  entered only for a reason; a stop is obeyed; a message does not wait for ever.
- bridge: the last person who wrote is bound, also after restarts; an update is confirmed
  to Telegram only once its chat is on disk.
- Hermes adapter: at most one agent per sender, and stalled factories must not stop the loop.
- both together: a message goes to the chat it was read for, never back to an older one; once a chat
  is saved no restart makes a message wait for one.
- LangGraph adapter: nobody acts on a thread between another's look and act; a resume meets an open interrupt;
  a turn that hangs holds up its own thread only.
- credentials: explicit argument over environment over files, the last file first.
- daemon: a start ends, in a running loop or an exit; what `discover-chat --write` writes is what the next start reads, nobody else's route is lost by it,
  and `send-test` tells the truth about it.

## 2. The models and the code

### QueueFile

`MarkAttempt`, `Enqueue`, ... are functions from content to content, one per method. An
entry is its id and attempt counter. `Without` removes by position where the code
filters; a conjunct of the invariant `EntriesConsistent` shows the two agree on every list the queue holds
(an id is queued once), the theorem `NeverSpoiled` shows it for lists of every length, and the other proofs use the positional form. `MaxAttempts`,
`DeadLetterCap` and `RepliedCap` are the code's `MAX_ATTEMPTS`, `DEAD_LETTER_CAP` and
`REPLIED_CAP`.

### InboxQueue and QueuePromise

One action per file operation: `Call` takes the lock, `Read` is `_read()` with the
corrupt-file branch, `WriteTemp` and `Replace` are the two halves of `_write()`,
`WriteFails` is its `except`, `Crash` can come anywhere in between. `Damage` is whatever
else makes the file unreadable; the class documents that no second process uses it, so
damage happens only between calls. `QueuePromise` has no file: a function from waiting
messages to attempts, and two sets of records that age until their cap. The refinement
(`PromiseKept`) maps the list positions to ages, so that an off-by-one in a cap, a
half-written file or a reset of the content by anything but damage is a violation.

### Subscribe

`pc` names the call the loop is about to make: `idle` (waiting for the transport),
`reack`, `inject`, `forward`, `send`, `mark`, `ack`, `dequeue`, `attempt`, `post` (end
of the loop body), `next` (the loop of `_drain`). An action is one such call with all
its outcomes and the code up to the next one. `mode` tells `_process` from `_drain`,
which share the calls and differ in what an exception does (`Fail`, `GiveUpReply`).

| code | action |
| --- | --- |
| `dedup.seen` branch, 167-174 | `TakeDuplicate`, `ReAck` |
| `_process` branch 1, 202-222 | `TakeUnbound` |
| branches 2 and 3 up to the first call | `TakeBound` |
| `adapter.inject` / `adapter.forward` / `client.send` / `queue.mark_replied` / `client.ack` | `Inject` / `Forward` / `Send` / `Mark` / `Ack` |
| 185-190 | `Post` |
| `_drain`: loop head / `dequeue` and `dedup.add` / `mark_attempt` | `NextQueued` / `DequeueDone` / `CountAttempt` |

A failing call is one fault, and where the code cannot know, both outcomes are there: an
`ack` or `send` that raised may have reached the server. `forward` may return `False`
(both bundled adapters catch the chat's error); the loop does not look at the result.
`Crash` also stands for an `OSError` of the queue that nothing in `subscribe()` catches
(`enqueue`, `get_pending`, `mark_attempt`), and forgets dedup window, buffer and clock;
the chat survives or not, because a directory or `chat.json` may restore it.
`Listed` are messages whose sender the directory names; the others depend on `chat`.

The variables `tried`, `shown`, `sent`, `unrecorded` and `buried` record what the
outside world saw. No action's guard reads them.

`Mailbox` is the loop without calls, buffer, window, drains, modes or processes. A message is held by the server, waits, has been tried (`forward()` returned for it, `True` or `False`) or is
buried, one message at a time takes one step, and each step has its licence: the server forgets only a message that somebody else has (`Ack`), one leaves the
waiting only when it was tried and forgotten by the server (`Settle`) or into the dead letters (`Bury`), an answer needs that the message
was tried first and that no account of an earlier answer stands (`Answer`). The account of an answer is `sent` until it is recorded and `lost` when the
record was not written or was pushed out (`Account` of `Subscribe` reads it off the file, `unrecorded` and whether `mark_replied` is next). `MailboxKept` maps the loop to it. It says more than the single
invariants: that *no* step, a crash least of all, moves two messages at once, takes a message back or skips a stage.

### Transport

The consumer (`iter_messages` and the `async for` of `_drive_stream`), the producer thread
and a bounded queue between them. The subscriber between two messages is one action,
`Dispatch`. `failures` is counted up to the threshold (only the comparison with it
matters); `inWindow` is `time.monotonic() < fallback_until`. `PollFails` skips the check of
the window, as the code's `continue` does. `given` and `owed` are history: what this
stream or poll brought, and what of it has not been yielded.

`Delivery` has no streams, polls, threads or failures: a line of messages that have come, one in the subscriber's hand, and a stop. `DeliveredInOrder` maps the batch of a poll
to that line, and while a stream is read the queue without the end or error mark its thread puts last (`Pending`). It is the line that `Subscribe` takes its messages
from: there `Deliver` puts any message the server holds at the end of `buffer`, again too, and `Take` takes the first one when the loop is done with the last.

### Bridge

Telegram's own state is the log of updates and the highest confirmed one; a `getUpdates`
with offset *n* confirms everything below *n*, also when the answer is lost, and an answer carries at most
`BatchLimit` updates. `HandleUpdate`
advances the offset and binds, `Save` writes `chat.json`; an exception in it is not
caught, so `run()` is dead until the process restarts (`SaveFails`). The offset starts
again at 0 after a restart, so updates are replayed. `chatBy`, `fileBy` and `saved` are history: which update
set the chat in memory and in the file, and which were written at all. `Bridge` is checked inside `Forwarder`.

### Forwarder

`B == INSTANCE Bridge` and `S == INSTANCE Subscribe` share one variable, the adapter's chat, of which the loop sees only
whether it is there (`chat # NoChat`). No sender is in a directory: the embedding of `telegram/README.md` binds none. Both are
tasks of one event loop, so the bridge runs while the loop awaits (`LoopAwaits`: it waits for a message or for a call), and the
loop runs while the bridge awaits a `getUpdates` or has died (`BridgeAwaits`); an answer is worked off with no await in it
(`bridge.py:135-136`). `Attach` comes before both, as in the docstring of `TelegramBridge`. `target` is the chat that
`get_chat()` returned for the message in hand, as the update that bound it; `newest` and `steady` are history.
`Crash` is one death for both.

The composition shows that `BindChat` in `Subscribe` was the right environment: `ImplementsLoop` is `Subscribe`'s
specification as a property of the composed system, so what the proofs of section 4 say of the loop holds with a
real bridge beside it. The theorem `ForwarderImplementsLoop` says so for all constants.

### HermesAdapter

Several tasks call `inject()` on one adapter (the receive loop is one of them; the lock is there for the others).
`line` is the asyncio lock: tasks in order, the first one holds it. The process's default
executor is part of the model, because that is where the factory's timeout leaves its
debts: `Timeout` withdraws a call no worker has begun, and abandons one that is running,
which keeps its worker (`late`, or `stuck` when it never returns). The relay of a synchronous `chat()`
and the caller's `client.ack` need a worker too. `size` and `timed` are
`agent_pool_size` and `factory_timeout > 0`, chosen in `Init` and fixed.

### LangGraphAdapter

Several tasks call `inject()`. `line` is each thread's asyncio lock as a queue; `Look` is `aget_state()`, `Enter` the start of `ainvoke()`,
which with new input makes the graph start over and drops what the thread had open; `Returns`, `Raises` and `Hang` are
how a turn goes. `open` and `said` are the checkpointer, which outlives the process: the question the last turn
of a thread left open, or that it failed halfway (`Stalled`), and the turn whose text is the thread's last AI message. The graph is external,
so a turn may leave anything open and say nothing. `Call` takes any message, again too: a redelivery.

`Turns` has no tasks, locks or snapshots: which message's turn runs in a thread, if any, and what the checkpointer keeps. A turn begins only when none runs there, and goes on with what is
open only if that is a question *at that moment*. `TurnsInOrder` maps the adapter to it: the tasks between `Enter` and their return are the turns (`Running`), and the look of `_invoke_or_resume`,
which comes before an await, is as good as one made at the start of `ainvoke()`.

### Daemon

One process from `load_credentials()` to its exit. `config` holds what it finds, chosen in `Init`: for each file, the environment, the parents'
environment and the arguments whether the variable is absent, empty or set, and the flags. A layer stands for its value.
`todo` is what has to be imported or built. `JobTimesOut` is `wait_for()` giving up: the thread goes on, and if the job never ends
(`hung`) it is `stuck`. `asyncio.run` and the interpreter join the executor's threads, so `Exit` needs `~stuck`. `DaemonInit`, `LoopEnds` and `DaemonNext` have their prefix so that a module can extend `Daemon` beside `ChatRouting`. The
chats it binds are in `ChatRouting`, the loop it runs in `Subscribe`, the factory that stalls per message in `HermesAdapter`.

### ChatRouting

Three processes that share `channel-directory.json`: `discover-chat` (`DiscoverOpen` to `DiscoverEnds`), the daemon
(`Start` reads the file once, `Stop`), and `send-test`, which changes nothing and is the operator `SendTest`. The
file is absent, unreadable, flat or of the OpenClaw shape (`nested`); `Normalize` is the code's loop as a fold.
`write_text()` truncates before it writes, so the write is two steps, and a death in between, or a start of the
daemon at that moment, finds no JSON. Telegram keeps every update until a request with a higher offset;
`discover-chat` asks without an offset first, and so takes the *oldest* update with a chat, which it never confirms.
An update carries the label its chat title is reduced to; two titles may have one label, and a label may be the name of
a sender. `wrote`, `routes` and `current` are history. `bind_chat` by the bridge (`BindChat` of `Subscribe`) has no
counterpart here: the daemon runs no bridge.

### Mutants

Operators marked *Mutant* are never part of a specification. Each is a plausible bug in one
definition; replacing the definition by it makes TLC find the named property violated, which
is the evidence that the property depends on the code. `PROJECT.json` pairs them.

## 3. What the runs show

| run | instance | states | shows |
| --- | --- | --- | --- |
| `inbox` | 3 ids, 2 attempts, caps 2, 1 damage | 637 k | types, entry bookkeeping, order, backup before overwrite, and the refinement of `QueuePromise` |
| `subscribe` | 2 eligible messages, no directory; 2 attempts, caps 1, window 2, 1 copy in the buffer, 1 crash, 2 faults | 1.8 M | the safety properties of the loop, its inductive invariant, the refinement of `Mailbox`, and that every message is acknowledged in the end, unless it waits or was given up |
| `transport` | 3 messages, queue of 1, threshold 2 | 13 k | hand-over, fallback, stop and delivery, and the refinement of `Delivery` |
| `forwarder` | 1 chat, 3 updates, 2 to an answer, 1 ineligible message, 2 crashes | 271 k | bridge and loop on one event loop: restarts, lost answers, failed saves, and the refinement of `Subscribe` |
| `hermes` | 2 tasks, 3 senders, no pool and a pool of 2, 2 workers, 1 hanging factory | 29 k | the pool is an LRU cache under timeouts and errors, every `inject()` returns |
| `langgraph` | 2 tasks, 2 messages of one thread and 1 of another, 4 calls, 1 hanging turn, 1 crash | 106 k | the lock per thread protects the look and the act, and nothing else; the refinement of `Turns` |
| `daemon` | 3 files, 1 name of the token, every setting of flags and variables | 186 k | which layer the key comes from; how a start ends |
| `routing` | 2 names, 2 chats, every flat file over them, every nested file of 2 entries, 2 updates | 73 k | what a discovery that ran to its end writes, what the next start and `send-test` read |

Why these bounds are enough for the interesting cases:

- `inbox`: the caps are one below the number of ids, so both lists overflow; two attempts
  give an entry that fails once and one that is dead-lettered; one damage meets every stage.
- `subscribe`: two messages are needed for a drain behind a delivery and for the eviction of a
  reply record (cap 1); two faults for a dead letter; one crash and one redelivered copy for a
  message that is queued, redelivered and drained. Both messages are eligible and in no directory: an ineligible one goes the way of one
  whose `inject` gave no reply, a listed one the way of any while a chat is bound (the `forwarder` run has an ineligible message, `never_drains` one of each). The window holds both messages, as 500 does
  in practice; a smaller one only adds redeliveries (the theorems hold for any size, but for `CopiesAlwaysBounded`, which needs such a window).
- `transport`: a queue of one makes the thread block on each `put`; a threshold of two tells a
  reset streak from an unbroken one.
- `forwarder`: three updates give an older chat after a newer one, and two to an answer a replay that takes two answers;
  two crashes a replay that dies halfway and a second one. Chats are told apart by the update that bound them, so one chat id and
  updates without any are enough. The loop's own bounds are small here (no failing call): its behaviours are the `subscribe` run's matter.
- `langgraph`: two messages of one thread contend for its lock, the third shows that another thread goes on; four calls
  let each message come and one come again.
- `daemon`: three files give one below and one above an empty line; the process itself is finite.

- `hermes`: three senders overflow a pool of two; one hanging factory fewer than workers is the exact limit of
  `InjectReturns`, as the `hermes_hang` run shows. The daemon's executor has `min(32, cpus + 4)` workers, one of them
  busy with the SSE hand-over.

- `routing`: two names and two chats tell one route from another; two entries decide first against last; two updates give
  one that is skipped before one that is taken. Discoveries, starts and deaths are unlimited.

`CHECK_DEADLOCK FALSE` is set where a run may end: all bounded counters used up and the loop
waiting for a message, a stopped transport, a forwarder with no crash left,
a factory that hangs while the timeout is disabled, a process that has exited. The inbox and routing runs
check deadlock.

### Properties

- `NoSilentLoss`: no ack before `forward()` returned for the message, or it was queued or dead-lettered. A `forward()` that returned `False` counts: what
  the chat refused is acked, see the end of this section.
- `SecondReplyExplained`: two replies to one message only if a reply that went out is missing
  from `replied` (death between `send` and `mark_replied`, a `send` that raised after the fact,
  a failed write, or an eviction). `queue.py:13-15` and `docs/troubleshooting.md:91` promise more,
  that a crash between reply and ack never causes a second reply; the model has behaviours in which a crash
  right after `client.send` does, which is why the property names that case.
- `ForwardReturnsFirst`: no answer before `forward()` returned, in this process or an earlier one, and none to an ineligible message. It does not say that the human
  has seen the message: the loop goes on after a `False` as after a `True`, and TLC reaches a state with an answer sent and nothing shown.
- `CopiesBounded`: each extra copy in the chat is paid for, one by a fault, two by a crash.
- `DeadLetterEarned`: only failed calls count towards a dead letter.
- `MailboxKept`: the refinement of `Mailbox`, section 2. Its `Settle` and `Bury` are what `LeavesQueueSettled` says of the queue alone: out of
  `pending` only by forward and ack, or into the dead letters.
- `EveryMessageSettled`: nothing is redelivered for ever because its dispatch failed, and no drain keeps the loop from the deliveries behind it. A message that waits
  in the queue is excepted: `subscribe.py:5` says it is not acked, the duplicate branch acks it all the same, and the property holds with either.
- `EntriesConsistent`, `OrderKept`, `CorruptionBackedUp`, `PromiseKept`: section 2.
- `StreamsDoNotOverlap`: a new SSE connection opens only when the old thread's last item was
  taken.
  `FallbackEarned`, `EveryMessageYielded`, `StopHeeded`: as named. `DeliveredInOrder`: the refinement of `Delivery`, section 2; order across the thread, the queue, reconnections
  and polls, which no invariant states. That nothing is dropped but by a stop is what `AllYielded` says with history variables: the loop reacts to a failure only after it yielded what came before.
- `ConfirmedWasSaved`: Telegram drops an update only when its chat is on disk. `LastWriterWins`: in the end the last writer is
  bound and saved, unless a save failed.
- `ForwardsForward`: no message goes to a chat older than one a message went to before, neither because its chat was read before
  an await nor because a restart replays old updates. It excepts what TLC showed to be possible: a failed save, and a process that dies
  halfway through working off an answer. The second is worth knowing: the replay after a restart binds and *saves* each old update in turn, so a death
  in the middle leaves an older chat in `chat.json` than was there, and the next process forwards to it until its first poll.
- `NoWaitOnceSaved`: once a chat is saved no message is queued for want of one, over any number of restarts.
- `ImplementsLoop`: see `Forwarder` above. `BridgeTypes`: the bridge's type invariant, with no offset beyond the log.
- `PoolIsRecent`: the pool is the last *n* senders in order of use. `InjectReturns`: every `inject()`, and the ack after it, returns.
- `ResumeMeetsInterrupt`: an answer is handed over only to a thread that has a question open, not to one that stalled on an
  error. `OtherThreadsProceed`: every `inject()` returns unless a turn of its own thread hangs. `TurnsInOrder`: the refinement of `Turns`, section 2. Its `Begin` drops no open question, which is `InterruptKept`: a question stays open until a turn resumes it; no message that looked before the pause starts the graph over.
- `KeyIsHighest`: the order argument, environment, last file first; an empty variable is passed over, while an empty line in a file
  hides every file before it. `StartSettles`: with a timeout the start does not take for ever, whatever is imported: the process runs, is gone,
  or has reported its failure and is kept alive by the thread that hangs (which the run `daemon_lingers` is about).
- `FlattenMeaning`: the fold over the nested list gives what its docstring says, on every list of the bound.
  `DiscoveryTakesEffect`: a daemon started after a complete discovery uses it. A *nested* file is excepted, because there
  the new keys are written beside `platforms` and never read: the advice of `docs/troubleshooting.md:37-43`
  has no effect for a user who migrated such a file. `RoutesKept`: it redirects nobody else. Both speak of a write that ran to its end; a death between the
  truncation and the write leaves no JSON, and with it no route. `SendTestTruth`: `send-test`
  without `--default-chat` agrees with a daemon that read the same file (not with one that started before the file changed; with it, `send-test` uses that chat, while
  the daemon ignores the flag as soon as the directory has an entry). `ConfirmsNoMessage`: discovery
  leaves every message to the bridge.

### Fairness

- `Subscribe`: weak fairness of the loop (its task runs and each awaited call returns or
  raises: `HTTP` calls have timeouts), of each delivery (the server redelivers what it holds)
  and of the clock. Nothing makes anybody bind a chat, and nothing makes calls succeed except
  that faults are finite. That a call returns at all is an assumption; `HermesAdapter`
  looks behind it for the agent's factory.
- `Transport`: weak fairness of the consumer, the thread and each call; the server closes a
  stream after `stream_limit` messages or `stream_timeout` seconds, whatever it still holds, or it breaks. `NoneLeftOut`: a server that goes on ending streams
  cleanly does not leave the same message out of all of them (without it TLC shows a stream that closes empty for ever). Strong fairness of a successful poll: one that
  is repeated for ever succeeds in the end. The stream itself may fail every time.
- `HermesAdapter`: weak fairness of each task's step, of the executor and of factories that do not hang. Weak is enough
  at the lock because asyncio's lock is first come, first served. That an agent's `chat()` returns is an
  assumption: the adapter sets no limit to it.
- `Forwarder`: strong fairness of the two tasks' steps, because the ready queue of an event loop is first in, first out and neither can keep
  the other out by being ready again; weak fairness of `Attach`, the deliveries and the clock. A save may always fail (`run()` is then dead and
  the property says so), a `getUpdates` may fail for a while but not for ever, crashes are finite.
- `LangGraphAdapter`: weak fairness of each task's steps; a turn ends unless it hangs. asyncio's lock is first come, first served.
- `Daemon`: weak fairness of the process and its clock. Nobody has to stop it.

### Where the documentation and the code disagree

These runs check a sentence of the documentation, and TLC finds the code violating it.

| run | what the text says | what the code does |
| --- | --- | --- |
| `never_drains` | `docs/troubleshooting.md:97`: the queue "drains the moment you bind a chat" | a drain happens only after the dispatch of a new message; a redelivery of the queued one is a duplicate, which is acked (`subscribe.py:167-171`) and causes none |
| `hermes_hang` | `hermes/tests/test_adapter.py:139`: when the constructor hangs the loop is not blocked for ever, "the inbound can still be acked" | each hanging factory keeps a worker of the executor that `ack`, `send`, `poll` and the SSE hand-over need; when all are taken the ack is never run |
| `daemon_lingers` | `docs/troubleshooting.md:160,168`: a daemon "exits non-zero immediately on start" when an "adapter ... did not import within 30.0s" | the timeout abandons the import, not its thread, which `asyncio.run` and the interpreter wait for: the process reports the timeout, and lives on as long as the importing thread does |
| `stale_reply` | `core/clawtell_core/adapter.py:79`: "Run the agent on the inbound message. Return the reply or None" | `_extract_reply` takes the last AI message of the whole thread: a turn that pauses or says nothing returns the answer to an earlier message |

Others met while modelling, without a run of their own:

- `subscribe.py:5` ("enqueue, do NOT ack"): a redelivery of a queued message is in the dedup window and is *acked* before anyone saw it
  (the `never_drains` trace contains it; the disk file is then the only copy).
- `docs/troubleshooting.md:120` ("retries automatically on the next poll cycle") and `hermes/README.md:58`: `forward()` returns `False`, nobody
  looks, the message is acked; so is one whose reply's `send()` failed on the direct path (`subscribe.py:260`).
- `subscribe.py:48-51`: the heartbeat is touched at the start and once per *message*, not at the "start of poll" or "before sleep"; an idle loop goes stale.
- `bridge.py:71` ("last sender wins"): not right after a replay that died halfway, as above. `bridge.py:61` still says "first chat id seen".
- `README.md:28-30`: `TG_BOT_TOKEN` may be set in `clawtell.env` or `credentials.env`; the code looks for it only in environments.
- `core/README.md:28` ("first hit wins"): an empty `CLAWTELL_API_KEY=` in a later file hides a key in an earlier one.
- `transport.py:79`: a poll that fails as the fallback window ends skips the reset of the failure count, so that one more SSE failure opens the window again (no text speaks of it).

## 4. What is proved

Every safety property and every action property of the passing runs is a theorem, for every value of the constants that
the named assumption of its module allows. A table gives theorem and property; the run of section 3 shows the same
property on a small instance. `LeavesQueueSettled`, `AllYielded` and `InterruptKept` are proved and have no run of their own, because a refinement that a run checks says the same and more. No theorem rests on a bound: `MaxCrashes`, `MaxFaults` and the like are arbitrary numbers.

### The queue file

`QueueFileProofs` has the lemmas about the methods: what each does to ids, attempts, order and lengths of the three lists, for any content, id and caps.

`InboxQueueProofs` proves, for any set of messages, any caps and any number of damages (`InboxAssumption`; that `Absent`, `Corrupt` and `NoCall` are
no contents and no calls):

| theorem | property |
| --- | --- |
| `TypesKept` | `TypeOK` |
| `NeverSpoiled` | `EntriesConsistent` |
| `CopiedAsideFirst` | `CorruptionBackedUp` |
| `FirstInFirst` | `OrderKept` |
| `ImplementsPromise` | `PromiseKept`, the refinement of `QueuePromise` |

Inductive is `IInv`: the content on disk is `Sound` (an id waits once and with attempts left, a dead letter has none), and between
`_read()` and `os.replace()` the draft is the operation applied to what the file *still* says (`DraftIsApplied`: one call at a time holds
the lock, so nothing changes the file under it, and a crash drops the draft). `Replace` is then one abstract operation, every other step
none, and `Damage` the abstract loss. The refinement mapping turns list positions into ages: the lemmas `WaitingWithout`, `AppendLastN` and
`AnsweredRecord` show that dropping, appending and truncating a list is removing, adding and ageing a record. That the positional `Without`
is the code's list comprehension, whatever the length of the list, is `WithoutIsComprehension`, by the least
counterexample to what the comprehension has kept after *n* entries.

### The receive loop

`SubscribeProofs` proves, for any sets of messages, any caps, window and bounds
(`QueueAssumption`, `SubscribeAssumption`):

| theorem | property |
| --- | --- |
| `TypeCorrect` | `TypeOK` |
| `NothingLostSilently` | `NoSilentLoss` |
| `SecondRepliesExplained` | `SecondReplyExplained` |
| `ForwardAlwaysFirst` | `ForwardReturnsFirst` |
| `LoopInvariant` | `LoopInv`, the conjunction below |
| `QueueLeftSettled` | `LeavesQueueSettled` |
| `LoopIsMailbox` | `MailboxKept`, the refinement of `Mailbox` |
| `DeadLettersEarned` | `DeadLetterEarned` |
| `CopiesAlwaysBounded` | `CopiesBounded`, if `WindowHoldsAll`: the dedup window is no smaller than the number of messages |

None of the properties is inductive. `HeldSafely` adds to `NoSilentLoss` what
makes the next ack harmless: every id in the dedup window is safe (a duplicate is acked
blindly), the message in hand has been tried (`forward()` returned) when an ack or a dequeue is next, and it has been acked when
a dequeue is next. "Safe" itself only grows except for a dequeue, and the last clause covers that one; the
dead-lettering moves a message from one disjunct to another. `RepliesAccounted` adds that a
reply that went out is on record, known to be missing, or about to be recorded, and that none
is sent for a message on record. `RepliesAfterForward` adds that a reply in hand belongs to an
eligible message. Each part is preserved by every action given the types, `LoopInv` is their
conjunction (also checked by TLC in the `subscribe` run), and the action property follows from it
step by step.

`DeadLetterEarned` and `CopiesBounded` count over a whole run, and hold by accounts. `AttemptsPaid`: there is a number of
attempts that no entry exceeds and the failed calls cover, with one to spare while an attempt is about to be counted. `CopiesPaid`: the copies shown,
*plus one for each way the human may still see the message without anything failing* (it is in no dedup window, it is queued), are covered by one, the faults, and twice
the crashes: a crash empties the window and so reopens at most one of the two ways, and may cost the copy that was on its way. It needs `OneInHand`, that a message in hand is
not remembered (on the stream) or not further back in the snapshot (in a drain), and a window that forgets nothing: `NothingForgotten`, by counting an injection. The hypothesis `WindowHoldsAll` is what
500 ids are for; with a smaller window the bound is false.

`LoopIsMailbox` goes through the actions: each is one step of the mailbox for the message in hand, or none. The licences of the abstract steps are where the invariant is used: an ack, also the blind one of a duplicate, is licensed
by `HeldSafely`, a dequeue by its last clause, an answer by `RepliesAfterForward`, and that its account is open by `RepliesAccounted`; of the file's lists it needs that `Record` pushes out only recorded answers
(`MarkRepliedKeeps`).

### The transport

`TransportProofs` proves, for any finite set of messages, threshold and queue bound, forced polling or not (`TransportAssumption`; a poll
returns a list of what is held, hence finite):

| theorem | property |
| --- | --- |
| `TypesKept` | `TypeOK` |
| `OneStream` | `StreamsDoNotOverlap` |
| `NothingPassedOver` | `AllYielded` |
| `FallbackIsEarned` | `FallbackEarned` |
| `MessagesInOrder` | `DeliveredInOrder`, the refinement of `Delivery` |

The invariant `StreamOwned` says whose the hand-over queue is at each point: while a stream is read, its thread's, with every message owed in it and
its end or error as the last item of a thread that is done; while a batch is worked off, every message owed is in the batch; otherwise nothing is
left over. `DeliveredInOrder` needs just that: `LastItem` and `PendingFirst` say that a mark is behind every message, so that taking the first item of the queue takes the first message of the line and a stream that ends leaves an
empty one behind; `FrontOfTail` and `FrontOfAppend` are the facts about sequences. `FailuresInStreak` relates the counter to the failures in a row, which are reset at different points.

### Bridge and forwarder

`ForwarderProofs` proves, for any chats, messages, batch size and bounds (`ForwarderAssumption`):

| theorem | property |
| --- | --- |
| `ForwarderImplementsLoop` | `ImplementsLoop` |
| `LoopKeepsItsPromises` | `NoSilentLoss`, `SecondReplyExplained`, `ForwardReturnsFirst`, `DeadLetterEarned` of the loop inside |
| `LoopCopiesBounded` | `CopiesBounded` of the loop inside, under `WindowHoldsAll` |
| `LoopStaysMailbox` | `MailboxKept` of the loop inside: two refinements composed |
| `ConfirmedAlwaysSaved` | `ConfirmedWasSaved` |
| `BridgeTypeCorrect` | `BridgeTypes` |
| `ForwardedForward` | `ForwardsForward` |
| `NeverWaitsOnceSaved` | `NoWaitOnceSaved` |

`ImplementsLoop` is a step simulation: the bridge's task runs only while the loop awaits, so a first chat it binds is `BindChat`; a later
one changes nothing the loop sees; a process that has not attached has no chat and an idle loop (`NotBegun`), which is
what makes `Attach` one of the two. The theorems about the loop alone are then carried over (`RunsLoop`). `ConfirmedWasSaved` needs `Passed`: every update below the offset, and below the next one of the answer
being worked off, is saved or is the one about to be saved; only a dead `run()` breaks that, and it polls no more. It is proved of `Bridge` by itself
and carried over by `StepOfBridge`.

`ForwardsForward` needs `ForwarderInv`. Its part `SteadyChat` is the argument why a replay does no harm: while every answer is worked off to its end, what is bound between two answers is what is
on disk and no older than any message's chat, and in the middle of an answer the update of each such chat is still to come in it, or is behind and no later than what is bound
(`PastOrAhead`). That the next answer after a restart brings it again is `BatchInReach`: neither the answer in hand nor anything bound lies further than one answer beyond what Telegram has
dropped.

### HermesAdapter

`HermesAdapterProofs` proves, for any tasks, senders, pool sizes, workers and number of hanging factories (`HermesAssumption`):

| theorem | property |
| --- | --- |
| `TypesKept` | `TypeOK` |
| `PoolKeepsRecent` | `PoolIsRecent` |

Its inductive invariant `IInv` (checked by TLC on the instance of the `hermes` run before it was proved) says who is in which list. `LineInv`: with a pool, the lock's line is exactly the tasks that wait for it or build
an agent, each once; who builds is first, and its sender *still* has no agent, which is what the lock protects across the `await` of the factory. `CallsInv` with `TypeOK`: whoever awaits the executor has one call there,
waiting or run, and workers, abandoned ones included, never exceed the threads. `PoolInv`: the pool is the last *n* of the list of senders by recent use, and no sender is twice in it. `UsedIsEnd` and `GrownIsEnd` show that `move_to_end()` and the
insertion with `popitem(last=False)` keep it so; the second needs that the sender is not in the pool. `RemoveFirst` of the community modules stands for taking a key out of the dict: keys are unique, and so are the
tasks in a line.

### LangGraphAdapter

`LangGraphAdapterProofs` proves, for any tasks, messages, threads and resolver (`LangGraphAssumption`):

| theorem | property |
| --- | --- |
| `InterruptsKept` | `InterruptKept` |
| `ResumesMeetInterrupts` | `ResumeMeetsInterrupt` |
| `TypeCorrect` | `TypeOK` |
| `TurnsOneByOne` | `TurnsInOrder`, the refinement of `Turns` |

by the invariant `IInv`: a thread's line holds each of its tasks once (`Lines`), whoever has looked is first in it (`Holders`), and what he has seen
is still so (`Snapshots`); a step of anybody else on that thread would need the lock. That is also why the turns come one by one: with somebody first in line and before his turn none runs on the thread (`NoTurnYet`), with somebody in
his turn only his (`OnlyTurn`), and what he saw decides between resuming and starting over as if he looked only now.

### The daemon

`DaemonProofs` proves of `ChatRouting`, for any names, chats, files and logs of updates (`ChatRoutingAssumption`):

| theorem | property |
| --- | --- |
| `NoMessageConfirmed` | `ConfirmsNoMessage` |
| `TypesKept` | `TypeOK` |
| `NestedMeaning` | `FlattenMeaning`, for nested files of every length |
| `DiscoveryIsRead` | `DiscoveryTakesEffect` |
| `OtherRoutesKept` | `RoutesKept` |
| `SendTestIsTrue` | `SendTestTruth` |

`ConfirmsNoMessage` by the invariant that the offset, too, has passed no update with a chat: the next request confirms what it passed. The others by `RoutingInv`: while the write is under way there is no file to read (`WriteHides`), the draft
keeps the routes of everybody but the new label (`DraftKeepsRoutes`) and holds the new one (`DraftHasFound`), the file holds what was written, and a daemon that has read the file as it is has its map (`ReadAsIs`).
What the loop over a nested list computes is shown by the least counterexample over the number of entries done.

Of `Daemon`, which it extends too, it proves (`DaemonAssumption`):

| theorem | property |
| --- | --- |
| `KeyOfHighestLayer` | `KeyIsHighest`, for any number of credential files |

`dict.update` file after file is the last file that names the key
(`MergingTopmost`, again by least counterexample).

### What the proofs use

- Recursive functions (`LET f[n \in 0 .. k] == ...`). That one exists is shown by giving it, or by the least number for which there is none; what it computes by the least number at which it would be wrong
  (`LeastNumber`, from the library's well-foundedness of the numbers). The library's induction theorems themselves take an operator as a parameter and cannot be used here.
- `SelectSeq`, `FoldLeft` and RECURSIVE operators cannot be reasoned about, so the models that are proved about use a position, `RemoveFirst` or such a function.

## 5. Only model-checked, and why

- All liveness (`EveryMessageSettled`, `EveryMessageYielded`, `StopHeeded`, `LastWriterWins`,
  `InjectReturns`, `OtherThreadsProceed`, `StartSettles`): outside the prover's reach.
- The four sentences of the documentation that the code violates: a counterexample needs no proof.

Not modelled: the text of notifications (`formatter.py`), command-line parsing, printing and the
connectivity checks of the daemon, package metadata and CI; the heartbeat file, which the program writes and never reads; `allowlist.py`, a pure
predicate no module of the repository calls; the agent tools `clawtell_send` of the Hermes plugin and of LangGraph, which make one call and
keep nothing. `InboundMessage.from_dict` is reduced to the id and the two facts the loop branches on.

## 6. Plan

Done: every module of the table above; a theorem for every safety and every action property of the passing runs; an abstract specification, refined
by proof, for the queue (`QueuePromise`), the receive loop (`Mailbox`), the transport (`Delivery`), the LangGraph adapter (`Turns`) and, with `Subscribe` as the abstract one, for the forwarder.

Considered and left: a single-cell "last writer" register for `Bridge`. Its safety half would say that the cell never goes back, which is false of
the bridge (a replay binds old updates again); what is true of it is `ForwardsForward` and `NoWaitOnceSaved`, and the rest, that the last writer is bound in the end, is
liveness (`LastWriterWins`). `Transport` and `Subscribe` composed in one state space, as `Bridge` and `Subscribe` are, would show nothing that `Delivery` between them does not.
