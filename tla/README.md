# A specification of the agent task server

TLA+ modules, model-checking configurations and TLAPS proofs for
`agent_backend`: an HTTP service that queues long tasks, runs them as coroutines
(a mock run, or an AgentScope agent with tools), logs numbered events per task,
and streams the log to clients over SSE and WebSocket. It runs as one process over an
in-memory store, or as an API process and worker processes over Redis. Paths below are
relative to `src/agent_backend/` unless they begin with `src/`; "design document" is
`src/docs/superpowers/specs/2026-04-13-agentscope-backend-design.md`.

Model-check a configuration with `tlc -config TaskServer.cfg MCTaskServer`, check a
proof module with `tlapm TaskServerProofs.tla`. `PROJECT.json` lists the runs, the
mutants that show each property can fail, the source lines of every definition, the
hazards of the code and the theorems.

## 1. Inventory

| Component | Source | State | Operations |
|---|---|---|---|
| In-memory store | `memory_store.py` | queue, metadata, logs, seq counters, cancel flags, listener queues, session snapshots | enqueue, update_meta, append_event (+ fan-out), request/is cancelled, replay, subscribe, unsubscribe, consume, session get/set |
| Redis store | `redis_store.py` | the same in Redis: stream and consumer group, hashes, log streams, pub/sub | the same, each of one or more commands |
| Task routes | `api/routes.py` | per stream: replay position, `last`, listener | create, get, cancel, SSE stream, WebSocket |
| Worker | `worker.py`, `tasks_execution.py` | semaphore, one coroutine per consumed task | consume, take a slot, dispatch by mode, acknowledge |
| Mock runner | `agent_runner.py` 16-41 | step | running, test flag / sleep / event, verdict |
| Agent runner | `agent_runner.py` 69-465 | the loaded memory; four tools | refuse, set up, lock session, load, stream, verdict, save |
| Session locks | `session_locks.py` | a lock per session id, per process | acquire, release |
| Session memory | `session_memory.py` | - | load, save, storage key |
| CLI runner | `cli_runner.py` | subprocess, two pipe readers, captured lines | run and log line by line, truncate |
| Fetch pagination | `feishu_fetch_meta.py` | - | parse an answer, tell the agent the next page |
| Comment tool and script | `lark_doc_comment_tool.py`, `src/scripts/lark_doc_comment.py` | - | check a request, build the command |
| Clients | `src/client.py`, `examples/client_sse.py` | last seq | submit, follow |
| Process | `main.py`, `factory.py`, `config.py` | one store, an embedded worker | start, stop |

How they meet. A route calls the store; the store's queue feeds `worker_loop`, which
makes one coroutine per task at once; the coroutines wait for the semaphore and then run the
mock or the agent. A run writes status and events to the store, whose
`append_event` hands each event to the listeners registered (or subscribed) at that
moment. A stream handler first sends a snapshot of the log and then forwards what it is
handed. Cancelling sets a flag that a run may read. Agent runs of one session id
exclude each other by an asyncio lock of their process and pass memory on through the store.
An agent's tools start commands, log their output line by line as it comes, and give
the agent what was captured; a fetched page carries a footer that tells it what to ask for next.

What is hard here, and which property watches it (the full list, by line, is
`hazards` in `PROJECT.json`):

* a handler suspended in a send, or between two Redis commands, while the log grows; full
  listener queues; disconnections (`LossAccounted`, `SeenInOrder`, `SentInTwoOrders`,
  `SentInOrder`, `ListenersExact`, `NothingLost`, `StreamEnds`, `WatcherInformed`);
* cancel requests before, during and after a run (`CancelStopsMock`,
  `VerdictMatchesLog`, `SilentAfterVerdict`);
* exceptions at every place of a run, with and without a `try` around it (`OneOwner`,
  `SlotsConserved`, `VerdictMatchesLog`, `MemoryHoldsSuccesses`, `StatusFollowsLog`,
  `VerdictRevisedOnce`);
* two waits nested in each other, session lock inside semaphore (`EveryTaskEnds`, `EveryRunEnds`);
* a read-modify-write of session memory across suspensions (`SessionIsolated`,
  `MemoryGrows`, `IsolatedOnOneWorker`);
* events numbered, logged and published by three commands each, by a run, the readers of
  its tools and the requests at once (`NumbersAccounted`, `VerdictBecomesStatus`);
* readers that are left behind by a tool call that raised and go on logging
  (`SilentAfterVerdict`, `ModelSeesWhatClientsSee`);
* workers that end with deliveries in hand, runs that return early (`DeliveredOnce`, `Delivery`);
* two pipes and two readers (`CallEnds`, `AnswerComplete`, `ModelSeesWhatClientsSee`), and
  answers that are cut or are no page (`PagesAdjoin`).

## 2. Modules

| Module | What it is |
|---|---|
| `TaskEvents` | statuses, event kinds, events |
| `MemoryStore` | the in-memory store, one operator per operation |
| `TaskServer` | create and cancel routes, worker, runs, session locks, over `MemoryStore`: the core |
| `TaskLifecycle` | the abstract specification of a task's life, which `TaskServer` implements |
| `TaskDelivery` | the abstract specification of a task's way from the queue to its acknowledgement, which `RedisServer` implements |
| `EventFeed` | the stream handlers and their clients, over `MemoryStore` |
| `MemoryServer` | `TaskServer` and `EventFeed` in one process |
| `RedisStore` | the Redis store, one operator per command |
| `RedisServer` | routes, workers and runs over `RedisStore`, with the faults |
| `RedisFeed` | the stream handlers over `RedisStore`, beside `RedisServer` |
| `CliRunner` | a command, its pipes, its readers, what they log and capture |
| `LarkTools` | the agent's tools over `CliRunner`: pages, comments, any command |
| `MCTaskServer`, `MCMemoryServer`, `MCRedisFeed` | instances for the model checker (`LarkTools` is its own) |
| `TaskServerProofs` | lemmas about the store's operators; the inductive invariant of the server; numbering, session isolation, growth of memory |
| `TaskLifecycleProofs` | status against log, and the refinement |
| `TaskVerdictProofs` | the order of a log's events; what memories hold |
| `MemoryServerProofs` | streams beside the server: registration, order, what is lost, what a stream tells |
| `RedisInvariant` | the inductive invariant of `RedisServer` (definitions) |
| `RedisScriptProofs` | how scripts are built and used up; what a step does to one task |
| `RedisServerProofs` | the invariant of `RedisServer` and what follows from it |
| `RedisFeedProofs` | streams over Redis, and the theorems about the whole |
| `LarkToolsProofs` | pages, comments, the answers of commands, truncation |

**Grain over the in-memory store.** Everything runs on one event loop. No body under the
store's `asyncio.Lock` awaits anything, so no operation of the in-memory store suspends its
caller. An action is therefore all that a coroutine does between two points where
it really suspends: a semaphore without a free slot, a session lock that is taken,
`asyncio.sleep`, the agent's I/O, a send to a slow client, an empty listener queue.
That is why the store is a set of operators and not of actions, and why a mock run that
finds its flag set before the first sleep is one action (`StartMockCancelled`).

**Grain over Redis.** Every command suspends its caller, so a step is one command. A request,
a run, or a reader of its tools is an actor with a script, `todo[a]`: the commands it still has to issue, built by
operators named after what they stand for (`Emit` is `append_event`, `MockScript` is
`run_mock_task`). An action performs the first command of a script; what depends on
a reply (`Test`, `Refuse`, `SetUp`, `Enter`) replaces the rest. A script is thus the program
counter of a coroutine, written out. An agent works from the moment its run has the session
until its stream ends (`AtWork`): until then any of its `Readers` may take a line and log it
(`ReadLine`), in any order with the loop that logs its messages (`agent_runner.py:431`) and
with each other, as the two of `cli_runner.py:77` do. `Join` is the end of the stream, for which the
agent's tool calls, and so `gather`, must be over; a reader whose sibling raised is not waited
for (`LeaveReader`) and may log whatever has become of the run since, until its worker ends. So
does a reader when the loop itself raised, since nothing stops the agent then (`RaiseInTry`). MULTI/EXEC is one command. `XRANGE` and the
preceding existence test of the route are one step (metadata is never deleted).

**State and code, in memory.** `status` is `_meta[t]["status"]`; `log`, `seq`, `pending`,
`cancelled`, `listeners` are the fields of the same names; `inbox[c]` is the listener queue of
connection `c`; `memory[k]` is the session snapshot under key `k`, as the sequence of
tasks whose turns it holds. `runner[t]` says where the coroutine of `t` is suspended,
`slots` is the semaphore's value, `line[s]` the holder of a session lock followed by
its waiters, `loaded[t]` the memory object a run works on, `leaked` the tasks with a
pipe reader left behind by a sibling that raised. In `EventFeed`, `phase`, `replay`
and `last` are the handler's position, its unsent snapshot and its `last`.
`missed`, `seen` and `snapped` are history variables, read by no guard except that a
client reconnects with the last seq it has.

**State and code, Redis.** `status`, `seq`, `log`, `cancelled` are the keys
`task:{id}:meta|seq|log|cancel`; `stream` is what the group has not been given of
`agent:tasks:pending`, `pel` its pending entries; `conn[c]` is a connection with its
handler; `held[a]` is the reply of an actor's INCR; `home[t]` the worker that consumed
`t`. `answered` holds the tasks whose id a client knows: a client can cancel or watch no
other. `reader[Reader(r, t)]` says whether the tool call of a reader waits for it, or has left it
behind. `faults` counts faults; `cut` remembers whose run a fault took. The semaphore is
`InSlots` (the XACK comes after it is left), the session lock `InSession`, both per worker.

**State and code, tools.** `child` is what the command does next, `output` what it has
written, `pipe` what was not read, `reader` and `hand` the position and the line of each
reader, `logged` the `stdout`/`stderr` events, `captured` the list of the call. In
`LarkTools`, `offset`, `limit`, `read`, `over` are the document review as the agent knows it;
`request` and `anchor` the arguments of a comment and what its command attaches it to.

**Faults over Redis.** Any command may raise: inside an agent's `try` the handler runs
(`RaiseInTry`), elsewhere the run is over and the `finally` acknowledges its delivery
(`RaiseOutside`). A worker process may end and be started again (`Restart`), which is
also what an exception of `consume_task` comes to: `worker_loop` closes its client and
its runs end with nothing to acknowledge with; the readers of its tasks end with it. A
request, or the append of a reader, may be abandoned (`Abandon`). A command that raises was not
performed, except that raising at `leave` is a save whose reply was lost. In `LarkTools`, where
the question is what a line's reader does next, `LogRaises` is both: the INCR or XADD that
raised, which leaves no line in the log, and the PUBLISH that raised, which leaves one.

**The delivery, seen abstractly.** `TaskDelivery` knows of a task its status, the verdicts
its log announces, where its delivery is (none, queued, given, acknowledged), and whether a
fault took its run. `RedisServer!Way` reads these off the keys: `told <- ToldOf(t)` (the log's verdict kinds),
`delivery <- DeliveryOf(t)` (in the stream, pending, never consumed, or consumed and no more
pending), `lost <- cut`. `XADD` of a verdict is `Announce`, `HSET` of it is `Show`, `XACK` is
`Acknowledge`, the end of a worker is `Lose` of all its runs at once; appends of anything
else, tests, locks, sessions and streams are stutters. `Acknowledge` requires that the status
shows the last verdict of the log or that a fault took the run, which no command of the code
tests: it must follow from how the scripts are built.

**Abstractions.** An event is its number and what it announces; chunks and meta are left
out. Payloads are the constants `Mode`, `Session`, `Key` (over Redis the mode is chosen at
submission from `Modes`). Whether a run finds an API key is a constant, per task in
memory (the code looks it up in settings and environment in every run, so one
instance can have runs that do and runs that do not) and per worker process over
Redis. What a model or a tool answers is a nondeterministic choice: an
agent may log, raise, or succeed at any time. A client is one connection at a time; what was in
flight on a broken connection is lost with it. SSE and WebSocket are the same handler:
the WebSocket's wait for its first message only delays `Connect`. Truncation is in lines in
`Merged`; `TruncatedLength` is the arithmetic of characters. Three things in `LarkTools` are
outside the code and follow from how it uses them: the document and `lark-cli`
(`Page`, `HasMore`), the child process, and an agent that does what a footer tells it, with
a limit that a retry only lowers (which is what the footer says).
One abstraction is wider than the code: an exception in `load_session_memory` follows
a separate step that begins the run.

## 3. Runs

| Run | Instance and bounds | What it shows |
|---|---|---|
| `server` | one mock task of 3 steps, two agent tasks of one session, 2 slots, 1 stream event per agent, 1 cancel per task, all faults | nine invariants, `MemoryGrows`, the refinement `Lifecycle`, and that every run gives its slot back |
| `sessions` | six tasks over 2 slots: four of one session id (one of another user, one without API key), one agent task without session, one of an unknown mode; saves may fail | `EveryTaskEnds`: waiting for a session while holding a slot starves nobody |
| `process` | a mock task of 2 steps and an agent task whose save may raise on 1 slot, 1 cancel per task, 1 client with any from_seq up to 2, queue of 2 | order and accounting of what a stream delivers, registration, agreement with GET, and end to end that streams end and watchers hear of the verdict |
| `redis_feed` | one task of any mode, 2 workers of which one has no API key, 1 reader beside an agent's loop that logs 1 line, 1 cancel of a mock task, 1 fault, 1 client | numbers, status and log, what follows a verdict, revision of verdicts, what a client is sent and what it loses, with every command a step |
| `redis_pool` | two agent tasks of one session, a worker with 2 slots and one with 1 slot and no API key, 1 fault | at most one run per delivery, the refinement `Delivery`, isolation on one worker, and that every task ends whose run no fault took, also behind a full semaphore |
| `tools` | a document of 3 blocks in pages of 2, commands of up to 2 lines over pipes of 1, answers cut after 1 line, logging may raise before or after the line is in the log | answers are complete, the log is ahead of the answer by one line at most, no call hangs, pages adjoin, comments are anchored |

Why the bounds are enough. Two slots and three tasks make runs overlap, wait and
queue for the session; one slot fewer than runs that want it is all the
semaphore distinguishes. Three mock steps give a first, a middle and a last
test of the flag. One cancel per task can come before, in and after a run; a second
would only repeat an event. A queue of two overflows by the same branch as 4096. A
client that comes back is `Reconnect` in `process`; over Redis it would be another
connection, which shares nothing with the first but the log. One task over Redis has
four kinds of writers (its POST, a cancel request, its run, a reader), which is all that can
draw numbers for one log. One reader is enough to interleave with the loop, to be left behind
and to lose its number together with the run's; that more of them, up to any finite number,
change nothing is what the theorems say. Tasks share only workers and sessions, which
`redis_pool` has two of: both tasks on the second worker fill its one slot, both on the first
run at once and meet at the session lock.
One fault reaches every place; two would reach the same places in runs that the first has
left alone. A document of three blocks in pages of two has a full page, a short one and
a retry with a smaller limit; a pipe of one line is full after a line, whichever comes
first; two lines are the least that can be cut. `MaxChunks`, `MaxCancels`, `CancelModes`,
`MaxFrom`, `MaxFaults`, `MaxLines` are bounds of the models; `Steps`, `MaxConcurrent`,
`QueueMax`, `Capacity`, `MaxToolLines`, `Limit` are parameters of the code.

Deadlock is checked in every run. `Idle` (`TaskServer`, `RedisServer`, `Quiet` in
`MemoryServer`) repeats a state only when all work is done and the worker polls an empty queue,
`Left` (`LarkTools`) only after a call that raised; any other state without a step would be
reported.

Six runs expect a violation. Each states what a document or a comment says of the program:

| Run | It is said | The code |
|---|---|---|
| `late_cancel` | design document, line 20: a final log ends with result or error | a cancel request for a finished task is logged after the verdict (`memory_store.py:148`) |
| `deaf_agent` | design document, lines 80 and 95: the loop checks the cancel flag | the agent's loop does not (`agent_runner.py:431`) |
| `lost_verdict` | `src/README.md:134`: the client collects all events | a verdict logged between snapshot and subscription is lost and the stream never ends (`api/routes.py:88`) |
| `lost_delivery` | design document, lines 12 and 37: queued tasks are consumed on after a restart, running ones are redelivered from the pending entries | only new entries are read (`redis_store.py:159`): a task consumed by a worker that ended stays queued or running |
| `two_workers` | `session_locks.py:1`: concurrent tasks of a session do not corrupt its memory | the registry is per process (`session_locks.py:9`): the later of two saves on two workers overwrites the earlier |
| `twice_sent` | design document, line 62: a subscribed client sees `seq` increase | `last` is from_seq after the snapshot (`api/routes.py:87`): over Redis an event that is logged before the snapshot and published after the subscription is sent twice |

One more disagreement is not a run of its own. Design document, line 19, says that a running task
is one whose coroutine has not ended; the setup of an agent is outside the `try`
(`agent_runner.py:384`), so one that raises leaves the task running for ever. `OneOwner` allows for that
(`SetupMayFail`), `EveryRunEnds` shows that even then the slot comes back, and `EveryTaskEnds` of
`sessions` is checked without it.

`lost_verdict` needs a send of the snapshot that really suspends, that is a client slower
than its socket buffer; over Redis, where every command suspends, it needs nothing
(`LossAccounted` of `RedisFeed` names it, and a second way: an event overtaken by one with a
higher number is dropped by `last`).

**Fairness.** In memory: weak fairness of `ConsumeTask` and of each task's `StartRun` and
`ContinueRun`, since the event loop runs every coroutine that is ready and fires every timer.
`ContinueRun` of an agent contains its end, so fairness there is an assumption
on the model service: an agent run ends, by result or exception (the client
library's timeouts). It is needed: nothing in the code bounds an agent run.
`StartRun` is weakly fair although the semaphore of Python 3.10 lets a newcomer
overtake a waiter it woke: with finitely many tasks the last waiter finds the slot free for good.
Over Redis: some worker polls; each run's next command, and each request's, is performed
when it can be, and so is each append a reader has begun, with the same assumption on the model
service (an agent's script is finite, and so are its tools' lines). A reader need not have another line. For streams: a handler that is ready runs, and its client reads on or leaves. For
tools: a child goes on when its output is taken and ends after finitely many lines; a reader
takes a line that is there. Clients, cancel requests, faults and the reader left
behind have no fairness.

## 4. Proofs

All theorems hold for every set of tasks (a finite one for `TaskServer` and
`MemoryServer`), every number of workers, slots, steps, sessions and listeners, every
queue capacity and every combination of faults.

1. `TaskServerProofs!Invariance`: `ServerSpec => []ServerInv`, with
   `ServerInv == ServerTypeOK /\ SlotsConserved /\ OneOwner /\ Turns`.
   `ServerTypeOK` alone is not inductive: `slots` stays within
   `0..MaxConcurrent` because a run that gives a slot back holds one, which is
   `SlotsConserved`, and taking the tail of a session's line is defined because the run
   that leaves is its head, which is `Turns`. `OneOwner` needs to know that a run which
   ends had a slot. Corollaries: `TypeCorrect`, `SlotsAreConserved`, `TasksHaveOneOwner`.
2. In the same module: a step leaves the logs alone or appends to one (`LogStep`), hence
   `LogsAreNumbered`. Only a run that succeeds writes a session memory, as what
   it loaded plus its turn (`MemoryStep`); what a run loaded is what is stored when it
   enters its agent (`LoadStep`); by `Turns` no other run of the session is there,
   hence `SessionsAreIsolated`, and from that `MemoryOnlyGrows`.
3. `TaskLifecycleProofs`: every step has one of few shapes (submit, claim, conclude,
   append something that is no verdict); each shape keeps status and log in agreement
   (`StatusMatchesLog`) and maps to a step or a stutter of `TaskLifecycle`
   under `state <- status`, `announced <- Announced` (`ImplementsLifecycle`).
4. `TaskVerdictProofs`: `Pair(t, K, L)` says that the log of `t` has an event of `K` before
   one of `L`. A pair that a step adds is of an old and a new event or of two new ones
   (`PairStep`). A task with a verdict has no run (`OneOwner`), so after it only a cancel
   request or a reader left behind can append (`VerdictStep`); that makes the absence of the
   pairs `SilentAfterVerdict` forbids inductive (`Quiet`), hence `VerdictsAreLast`.
   For cancel requests the invariant is `Heeds`: a logged request has set the flag; before
   the verdict no work of a mock run follows a request; a run that has not begun has
   done no work. Only the step with the verdict may work after a request, and it is the
   last, hence `MockHeedsCancel`. `MemoryIsExact` follows from isolation: the step that
   saves is the step that succeeds (`SucceedStep`), and it appends to the stored memory a
   turn which, since the run had not succeeded, was not in it.
5. `MemoryServerProofs!ProcessInvariance`: `ProcessSpec => []FeedInv`. `ServerInv` and
   `SeqContiguous` hold of the whole process too, since a handler's step changes no
   variable of theirs but its own queue and registration. `Exact` is `ListenersExact` of
   one client. `Ordered` strengthens `SeenInOrder`: what was sent, what is left of the
   snapshot, and what is queued are numbered in this order, and none beyond the end of the
   log, so that whatever is appended next is beyond all of them. `last` plays no part
   in it: over the in-memory store the queue of a listener never holds what was sent already, and
   the test against `last` (`api/routes.py:103`) only drops events up to from_seq.
   Corollaries: `FeedTypeCorrect`, `ListenersAreExact`, `EventsAreSentInOrder`.

   `AccountsHold`: `ProcessSpec => []Accounts`, on top of it. `Account` says of a client that no number
   between its from_seq and the end of its snapshot (while it is sent the snapshot) or of
   the log (while it listens) is neither sent, nor due, nor missed; here `last` matters, and is
   from_seq or a number that was sent, so that nothing the test against it drops was owed.
   `Faithful` says that what is due are the log's own events, and that the last one sent on a
   stream that is over is a verdict. `Gapless` says that a client which missed nothing was
   sent consecutive numbers: the next event it is sent is the least number owed. A
   reconnection needs that `from` is not beyond the last number sent. Corollaries:
   `LossesAreAccounted`, `NothingIsLost`. `StreamsTellTheStatus` adds what a status is
   made of: `VerdictMatchesLog`, and `SavesMayFail`, that an error joins an ok result only
   when a save fails.
6. `LarkToolsProofs!CallInvariance`: `Spec => []CallInv`, the account of what a command
   writes. A pipe holds the end of the output (`PipeHoldsRest`); what was taken from it and is
   not blank is captured, or in the hand of its reader (`TakenIsCaptured`, unless the reader
   raised); what is captured was logged (`CapturedIsLogged`), and what was logged is captured but for
   one line, which is being captured or is in doubt, since append_event raised after its
   XADD (`InDoubt`); a reader is done only when
   nothing can come any more (`DoneAtEnd`), and no reader is at work between calls
   (`Rested`). What a stream's part of a list is, is a function over the list's
   beginnings (`Within`); `WithinAppend`, that it grows with the list, is proved by the induction
   described under 7. Corollaries: `AnswersAreComplete`, `ModelAndClientsSeeTheSame`, for any
   output, pipes of any capacity and any interleaving of the two readers.

   In the same module: `PagesAlwaysAdjoin` (a retry leaves offset and blocks alone, a next page
   moves both by the limit that was asked for) and `CommentsAreAnchored`, for documents and
   limits of any size and any answer; `AcceptedIsBuilt`, that the tool rejects whatever the builder
   would raise on, and that where the script's command line takes the same request it builds the same
   comment; and `CutExceedsLimit`, that a truncated answer has two
   characters more than its limit (`cli_runner.py:40` keeps 32 for a marker of 34).
7. `RedisFeedProofs!FeedInvariant`: `FeedSpec => []FeedInv`, with the API process, the
   workers, the streams and the faults all interleaved command by command.

   *The invariant* (`RedisInvariant!RedisInv`). What the properties rest on is what the
   commands still ahead of an actor may be. `Orderly` says it of a script by its
   neighbours (`Follows`: an INCR is followed by the XADD and the PUBLISH of the same
   event, the PUBLISH of a verdict by its status, a save by the end of the session) and by
   any two of its commands (`Later`: nothing comes after the XACK, after the XADD of a
   verdict only its status and, for a success, the save). `TaskInv` relates the
   scripts of a task, those of its readers among them, to its log, status, delivery and numbers: `FreshInv` (what has not happened has
   left no trace), `DeliveryInv`, `RunningInv` (a logged "running" is not ahead any more),
   `VerdictInv` (a logged verdict restricts what is ahead to its status, the
   acknowledgement, and for a success the save or, after a fault, the error),
   `SilentInv`, `StatusInv` (a published verdict is logged, and its status is set or
   ahead), `ConclusionInv` (a run that no fault took has its verdict shown, or a command ahead
   that sets one or chooses one; a run that a fault took has at most its acknowledgement
   ahead), `ReaderInv` (who has a line in hand was left behind, or its agent is at work, and an
   agent is at work only in its session, before the verdict), `NumberInv`. `QueueInv` and `SessionMutex` relate tasks to each other.

   *The scripts* (`RedisScriptProofs`). A mock run repeats its step `Steps` times, an
   agent's stream events come `n` times. That any number of repetitions of an orderly script is orderly
   is proved by induction on the number. The library's induction theorems cannot be
   used, but a set of numbers that contains 0 and with each number the next one contains
   all (`NatInSet`, by the well-foundedness of `<`) serves the same end, and
   `TimesExist` shows that the function `Repeat` evaluates exists. Then, for
   every operator that builds a script, the commands it consists of and what may
   come before and after it give its `Orderly`.

   *The steps.* Seen by one task, every action has one of few shapes (`Move`:
   `Submitted`, `Asked`, `Consumed`, `Drew`, `Wrote`, `Published`, `Set`, `WentOn`, `Acked`,
   `Decided`, `BegunLine`, `LeftAlone`, `Raised`, `CutShort`, `Stopped`, `Abandoned`, or untouched). `StepMoves` proves that for
   all actions; `RedisServerProofs` then keeps each part of `TaskInv` shape by shape
   (`KeepsTask`). `NumberInv` is the one that needs the interleaving: `seq` is the number of draws, a number in
   hand is in no log and in no other hand, and a fault takes at most one number of a task from each
   actor that can end with one worker, its run and its readers (`WritersOfRun`).
   Properties about sessions (`KeepsIsolated`) and the queue (`KeepsQueue`) look at all tasks of a
   step, since one run's save is another run's memory.

   *The streams.* A handler changes only its connection (`Only`), so `RedisInv` is kept, and
   for every connection `SentInv` (two parts, each in the order of the numbers, the snapshot's
   rest beyond what was sent, nothing live beyond `last`) and `LossInv` are. The
   second needs of the server that a number which joins the log is at that moment
   to be published (`LoggedBeforePublished`, from `Follows`), and that what is published reaches every
   subscriber (`ServerKeepsFeed`).

   *The refinement.* `ImplementsDelivery`: `FeedSpec => Delivery`. Every step concerns one task
   or is the end of a worker (`OneTaskMoves`), and what it does to a task is read off its
   shape (`OwnWay`): a verdict is announced once, or an error after a success, by
   `VerdictInv`; what is shown is the last that was announced, by `StatusInv`; what is
   acknowledged has nothing else ahead, so by `ConclusionInv` its verdict is shown, and by
   `StatusInv` it is the last of the log (`AcksSettle`). That the submitted task is in no
   queue and the consumed one only once is `QueueInv`.

   Corollaries: `RedisTypesHold`, `NumbersAreAccounted`, `StatusesFollowTheLog`,
   `VerdictsAreLast`, `VerdictsAreRevisedOnce`, `TasksAreDeliveredOnce`,
   `SessionsAreIsolatedOnOneWorker`, `EventsAreSentInTwoOrders`, `LossesAreAccounted`: every safety
   property over Redis.

Assumptions, all named in the modules: `QueueAssumption`, `ModeAssumption`,
`SessionAssumption`, `KeyedAssumption`, `BoundAssumption`, `TasksAssumption` (finitely many
tasks), `WorkerAssumption`, `PayloadAssumption`, `MaxFromAssumption`, `NoTaskAssumption`,
`PageAssumption`, `RunnerAssumption`, `ReaderAssumption` (finitely many readers, which log no
verdicts), and `KeyAssumption`, a type. Storage keys join ids with ":"
(`session_memory.py:17`), so two sessions may have one key and not one lock: the three
properties of session memory in `TaskServer` are stated, and proved, for the keys that one
session has to itself (`OneSession`), whatever keys the others share; of a shared key
they claim nothing.

Only model-checked:

* all liveness (leads-to properties under fairness are beyond the proof system's
  backends): `EveryTaskEnds`, `EveryRunEnds`, `StreamEnds`, `WatcherInformed`,
  `VerdictBecomesStatus`, `CallEnds`.

Every invariant and every action property of a passing run, and both refinements, is a theorem.

## 5. Not modelled, and why

* Orderly shutdown (`main.py:28-34`) cancels `worker_loop` and closes the store; with the
  in-memory store nothing outlives the process, over Redis it is a `Restart` or an `Abandon`.
* `terminate_process_tree` (`cli_runner.py`): nothing calls it.
* Expiry of cancel flags (a day) and of session snapshots (when configured): the models have no
  clock.
* Compression of session memory and its serialisation: the agent library's.
* What becomes of the memory under a storage key that two sessions share because an id holds ":":
  nothing is claimed of it. Over Redis a key is identified with the session it is for.
* The number of tool calls of an agent and of what they start: a reader of `RedisServer` is any of
  them, without its pipe, which is `CliRunner`'s.
* What a snapshot might have left out: `missed` is set at `Subscribe`, in `RedisFeed`, to whatever of
  the log was neither sent nor is to be published, so `LossAccounted` there says that nothing is lost
  later but what is overtaken; that a snapshot is the log of its moment is `ReplayEvents`, a definition.
* The agent library, the model service, the programs the tools start: outside the code.
* Prompts, formatting, printing and exit codes of the clients, configuration parsing
  (`config.py:35` defaults the limit of a page to 10 000 where `src/README.md:35` says 400), the import check `runtime_spike.py`, the demo CLI, `src/server.sh`: no state the
  properties speak of.
* Growth of memory: nothing in the code removes finished tasks, so there is no bound to check.

## 6. Plan

Done: `TaskEvents`, `MemoryStore`, `TaskServer` with `TaskLifecycle`, `EventFeed`,
`MemoryServer`, `RedisStore`, `RedisServer` with `TaskDelivery`, `RedisFeed`, `CliRunner`, `LarkTools`, and the
proofs of section 4.

Left: what becomes of a storage key that two sessions share, in particular over Redis, where a key
is identified with its session.
