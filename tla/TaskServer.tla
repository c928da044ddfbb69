----------------------------- MODULE TaskServer -----------------------------
(***************************************************************************)
(* The API process with the in-memory store and the embedded worker: the   *)
(* create and cancel routes, worker_loop, one _run_one coroutine per task, *)
(* run_mock_task, run_react_agent_task and the per-session locks.          *)
(*                                                                         *)
(* One event loop runs all of it, so an action is everything a coroutine   *)
(* does between two points where it really suspends: a semaphore with no   *)
(* free slot, a session lock that is taken, asyncio.sleep, and the agent's *)
(* own I/O.  In particular ack_delivery, a no-op here, ends the last step. *)
(***************************************************************************)
EXTENDS MemoryStore

CONSTANTS Mode,           \* payload["mode"] of each task
          Sessions,       \* the session ids
          NoSession,      \* stands for an absent session_id
          Session,        \* payload["session_id"] of each task
          Key,            \* session_storage_key(user_id, session_id) of each task
          Steps,          \* steps of a mock run (30)
          MaxConcurrent,  \* MAX_CONCURRENT_TASKS
          Keyed,          \* the tasks whose run finds an OPENAI_API_KEY
          SetupMayFail,   \* building the toolkit and the model may raise
          SaveMayFail,    \* saving the session may raise
          ReaderMayFail,  \* reading a line of a tool's output may raise
          AgentKinds,     \* the kinds of event an agent run may stream
          MaxChunks,      \* bound: stream events of one agent task
          MaxCancels      \* bound: cancel requests per task

ASSUME ModeAssumption == Mode \in [Tasks -> {"mock", "agent", "other"}]

ASSUME SessionAssumption ==
  /\ NoSession \notin Sessions
  /\ Session \in [Tasks -> Sessions \cup {NoSession}]

\* Two sessions may have one key: the ids are joined with ":" and may hold one.
ASSUME KeyAssumption == Key \in [Tasks -> Keys]

ASSUME KeyedAssumption == Keyed \subseteq Tasks

ASSUME BoundAssumption ==
  /\ Steps \in Nat \ {0}
  /\ MaxConcurrent \in Nat \ {0}
  /\ SetupMayFail \in BOOLEAN
  /\ SaveMayFail \in BOOLEAN
  /\ ReaderMayFail \in BOOLEAN
  /\ AgentKinds \subseteq StreamKinds
  /\ MaxChunks \in Nat
  /\ MaxCancels \in Nat

ASSUME TasksAssumption == IsFiniteSet(Tasks)

VARIABLES runner,  \* where the _run_one coroutine of each task is suspended
          slots,   \* the semaphore's value
          step,    \* mock steps done, or stream events logged, by the run
          line,    \* session lock: its holder, then its waiters in order
          loaded,  \* the session memory a run works on
          leaked   \* tasks with a reader of tool output left behind

runnerVars == <<runner, slots, step, line, loaded, leaked>>
serverVars == <<storeVars, runnerVars>>

(* none: not consumed yet        waiting: before the semaphore               *)
(* sleeping: in asyncio.sleep    queueing: before the session lock           *)
(* thinking: in the agent        done: returned or raised                    *)
Phases == {"none", "waiting", "sleeping", "queueing", "thinking", "done"}

RunnerInit ==
  /\ runner = [t \in Tasks |-> "none"]
  /\ slots = MaxConcurrent
  /\ step = [t \in Tasks |-> 0]
  /\ line = [s \in Sessions |-> <<>>]
  /\ loaded = [t \in Tasks |-> <<>>]
  /\ leaked = {}

ServerInit == StoreInit /\ RunnerInit

\* Only an agent run looks at its session id.
HasSession(t) == Mode[t] = "agent" /\ Session[t] # NoSession

CancelRequests(t) == {i \in DOMAIN log[t] : log[t][i].kind = "cancel_requested"}

-----------------------------------------------------------------------------
\* POST /tasks.
CreateTask(t) ==
  /\ status[t] = "absent"
  /\ EnqueueTask(t)
  /\ UNCHANGED <<cancelled, memory, listeners, runnerVars>>

\* POST /tasks/{id}/cancel; an unknown id gets a 404.
CancelTask(t) ==
  /\ status[t] # "absent"
  /\ Cardinality(CancelRequests(t)) < MaxCancels
  /\ RequestCancel(t)
  /\ UNCHANGED <<status, pending, memory, listeners, runnerVars>>

\* Mutant: the queue is read and not popped.
ConsumePeeks ==
  /\ pending # <<>>
  /\ runner' = [runner EXCEPT ![Head(pending)] = "waiting"]
  /\ UNCHANGED <<storeVars, slots, step, line, loaded, leaked>>

\* One turn of worker_loop.  It never waits for a slot: every queued task
\* gets its coroutine at once, and the coroutines wait.
ConsumeTask ==
  /\ pending # <<>>
  /\ runner' = [runner EXCEPT ![Head(pending)] = "waiting"]
  /\ pending' = Tail(pending)
  /\ UNCHANGED <<status, cancelled, memory, listeners, logVars,
                 slots, step, line, loaded, leaked>>

-----------------------------------------------------------------------------
\* What a run reports before it suspends or ends.
Report(t, ks, s) ==
  /\ AppendEvents(t, ks)
  /\ UpdateMeta(t, s)
  /\ UNCHANGED <<pending, cancelled, listeners>>

\* "async with sem": any waiting coroutine may find the free slot, since
\* Python 3.10's semaphore lets a newcomer overtake the waiter it woke.
MayStart(t, mode) ==
  /\ runner[t] = "waiting"
  /\ slots > 0
  /\ Mode[t] = mode

\* The run suspends in phase p, holding its slot.
Suspend(t, p) ==
  /\ runner' = [runner EXCEPT ![t] = p]
  /\ slots' = slots - 1

\* Mutant: the slot is released although the run never held one.
EndAtOnceReleases(t) ==
  /\ runner' = [runner EXCEPT ![t] = "done"]
  /\ slots' = slots + 1
  /\ UNCHANGED <<step, line, loaded, leaked>>

\* The run ends in the step that took its slot.
EndAtOnce(t) ==
  /\ runner' = [runner EXCEPT ![t] = "done"]
  /\ UNCHANGED <<slots, step, line, loaded, leaked>>

\* "async with session_lock": the lock passes to the longest waiter.
LeaveSession(t) ==
  line' = IF HasSession(t) THEN [line EXCEPT ![Session[t]] = Tail(@)] ELSE line

\* Mutant: an ending run keeps its slot.
EndKeepsSlot(t) ==
  /\ runner' = [runner EXCEPT ![t] = "done"]
  /\ loaded' = [loaded EXCEPT ![t] = <<>>]
  /\ LeaveSession(t)
  /\ UNCHANGED slots

\* Mutant: an ending run keeps its session lock.
EndKeepsLock(t) ==
  /\ runner' = [runner EXCEPT ![t] = "done"]
  /\ slots' = slots + 1
  /\ loaded' = [loaded EXCEPT ![t] = <<>>]
  /\ UNCHANGED line

\* A suspended run ends: session lock and slot are released.
End(t) ==
  /\ runner' = [runner EXCEPT ![t] = "done"]
  /\ slots' = slots + 1
  /\ loaded' = [loaded EXCEPT ![t] = <<>>]
  /\ LeaveSession(t)

\* execute_task, a mode that is neither mock nor agent.
RejectMode(t) ==
  /\ MayStart(t, "other")
  /\ Report(t, <<"error">>, "failed")
  /\ EndAtOnce(t)
  /\ UNCHANGED memory

\* run_mock_task up to its first sleep.
StartMock(t) ==
  /\ MayStart(t, "mock")
  /\ ~IsCancelled(t)
  /\ Report(t, <<"running">>, "running")
  /\ Suspend(t, "sleeping")
  /\ UNCHANGED <<memory, step, line, loaded, leaked>>

\* The first test of the flag comes before any sleep.
StartMockCancelled(t) ==
  /\ MayStart(t, "mock")
  /\ IsCancelled(t)
  /\ Report(t, <<"running", "cancelled">>, "cancelled")
  /\ EndAtOnce(t)
  /\ UNCHANGED memory

\* Mutant: the flag is not tested.
MockStepUnchecked(t) ==
  /\ runner[t] = "sleeping"
  /\ step[t] + 1 < Steps
  /\ Report(t, <<"agent">>, "running")
  /\ step' = [step EXCEPT ![t] = @ + 1]
  /\ UNCHANGED <<memory, runner, slots, line, loaded, leaked>>

\* A sleep ends and another iteration begins with the flag unset.
MockStep(t) ==
  /\ runner[t] = "sleeping"
  /\ step[t] + 1 < Steps
  /\ ~IsCancelled(t)
  /\ Report(t, <<"agent">>, "running")
  /\ step' = [step EXCEPT ![t] = @ + 1]
  /\ UNCHANGED <<memory, runner, slots, line, loaded, leaked>>

\* Mutant: the status is not updated.
MockCancelledNoMeta(t) ==
  /\ runner[t] = "sleeping"
  /\ step[t] + 1 < Steps
  /\ IsCancelled(t)
  /\ Report(t, <<"agent", "cancelled">>, "running")
  /\ step' = [step EXCEPT ![t] = @ + 1]
  /\ End(t)
  /\ UNCHANGED <<memory, leaked>>

\* Mutant: no return after the verdict.
MockCancelledGoesOn(t) ==
  /\ runner[t] = "sleeping"
  /\ step[t] + 1 < Steps
  /\ IsCancelled(t)
  /\ Report(t, <<"agent", "cancelled">>, "cancelled")
  /\ step' = [step EXCEPT ![t] = @ + 1]
  /\ UNCHANGED <<memory, runner, slots, line, loaded, leaked>>

\* A sleep ends and the next iteration finds the flag set.
MockCancelled(t) ==
  /\ runner[t] = "sleeping"
  /\ step[t] + 1 < Steps
  /\ IsCancelled(t)
  /\ Report(t, <<"agent", "cancelled">>, "cancelled")
  /\ step' = [step EXCEPT ![t] = @ + 1]
  /\ End(t)
  /\ UNCHANGED <<memory, leaked>>

\* The last sleep ends: the flag is not read again.
MockSucceeds(t) ==
  /\ runner[t] = "sleeping"
  /\ step[t] + 1 = Steps
  /\ Report(t, <<"agent", "ok">>, "succeeded")
  /\ step' = [step EXCEPT ![t] = @ + 1]
  /\ End(t)
  /\ UNCHANGED <<memory, leaked>>

-----------------------------------------------------------------------------
\* run_react_agent_task without an API key: refused before its session.
RefuseAgent(t) ==
  /\ MayStart(t, "agent")
  /\ t \notin Keyed
  /\ Report(t, <<"error">>, "failed")
  /\ EndAtOnce(t)
  /\ UNCHANGED memory

\* Imports, toolkit and model are built before the "try": an exception there
\* leaves the coroutine, whose caller logs it and releases the slot.
SetupRaises(t) ==
  /\ MayStart(t, "agent")
  /\ t \in Keyed
  /\ SetupMayFail
  /\ Report(t, <<>>, "running")
  /\ EndAtOnce(t)
  /\ UNCHANGED memory

\* Mutant: the session lock is not waited for.
StartAgentBarges(t) ==
  /\ MayStart(t, "agent")
  /\ t \in Keyed
  /\ Report(t, <<>>, "running")
  /\ Suspend(t, "thinking")
  /\ line' = IF HasSession(t)
             THEN [line EXCEPT ![Session[t]] = Append(@, t)]
             ELSE line
  /\ loaded' = [loaded EXCEPT ![t] = IF HasSession(t) THEN memory[Key[t]] ELSE <<>>]
  /\ UNCHANGED <<memory, step, leaked>>

\* load_session_memory under the lock, or a fresh memory without a session.
StartAgent(t) ==
  /\ MayStart(t, "agent")
  /\ t \in Keyed
  /\ HasSession(t) => line[Session[t]] = <<>>
  /\ Report(t, <<>>, "running")
  /\ Suspend(t, "thinking")
  /\ line' = IF HasSession(t) THEN [line EXCEPT ![Session[t]] = <<t>>] ELSE line
  /\ loaded' = [loaded EXCEPT ![t] = IF HasSession(t) THEN memory[Key[t]] ELSE <<>>]
  /\ UNCHANGED <<memory, step, leaked>>

\* The session lock is taken: the run queues for it, holding its slot.
QueueForSession(t) ==
  /\ MayStart(t, "agent")
  /\ t \in Keyed
  /\ HasSession(t)
  /\ line[Session[t]] # <<>>
  /\ Report(t, <<>>, "running")
  /\ Suspend(t, "queueing")
  /\ line' = [line EXCEPT ![Session[t]] = Append(@, t)]
  /\ UNCHANGED <<memory, step, loaded, leaked>>

\* Mutant: the memory was loaded before the lock was waited for.
TakeTurnLoadedEarly(t) ==
  /\ runner[t] = "queueing"
  /\ Head(line[Session[t]]) = t
  /\ runner' = [runner EXCEPT ![t] = "thinking"]
  /\ UNCHANGED <<storeVars, slots, step, line, loaded, leaked>>

\* asyncio.Lock is fair: the longest waiter is next.
TakeTurn(t) ==
  /\ runner[t] = "queueing"
  /\ Head(line[Session[t]]) = t
  /\ runner' = [runner EXCEPT ![t] = "thinking"]
  /\ loaded' = [loaded EXCEPT ![t] = memory[Key[t]]]
  /\ UNCHANGED <<storeVars, slots, step, line, leaked>>

\* The agent streams a message or a tool writes to the log.  No code on this
\* path reads the cancel flag.
AgentEvent(t) ==
  /\ runner[t] = "thinking"
  /\ step[t] < MaxChunks
  /\ \E k \in AgentKinds : AppendEvents(t, <<k>>)
  /\ step' = [step EXCEPT ![t] = @ + 1]
  /\ UNCHANGED <<status, pending, cancelled, memory, listeners,
                 runner, slots, line, loaded, leaked>>

\* run_cli_streaming gathers the readers of stdout and stderr.  When one raises
\* (readline, on a line beyond the buffer's limit), the tool raises and the
\* other reader is left running.
ReaderRaises(t) ==
  /\ runner[t] = "thinking"
  /\ ReaderMayFail
  /\ leaked' = leaked \cup {t}
  /\ UNCHANGED <<storeVars, runner, slots, step, line, loaded>>

\* The reader left behind goes on logging, whatever became of the run.
LeakedReader(t) ==
  /\ t \in leaked
  /\ step[t] < MaxChunks
  /\ \E k \in {"stdout", "stderr"} : AppendEvents(t, <<k>>)
  /\ step' = [step EXCEPT ![t] = @ + 1]
  /\ UNCHANGED <<status, pending, cancelled, memory, listeners,
                 runner, slots, line, loaded, leaked>>

\* result, status, and with a session save_session_memory, all under the lock.
AgentSucceeds(t) ==
  /\ runner[t] = "thinking"
  /\ Report(t, <<"ok">>, "succeeded")
  /\ memory' = IF HasSession(t)
               THEN [memory EXCEPT ![Key[t]] = Append(loaded[t], t)]
               ELSE memory
  /\ End(t)
  /\ UNCHANGED <<step, leaked>>

\* The save raises after the result was logged: the handler adds an error.
SaveRaises(t) ==
  /\ runner[t] = "thinking"
  /\ HasSession(t)
  /\ SaveMayFail
  /\ Report(t, <<"ok", "error">>, "failed")
  /\ End(t)
  /\ UNCHANGED <<memory, step, leaked>>

\* Mutant: the memory is saved on every way out.
AgentRaisesSaves(t) ==
  /\ runner[t] = "thinking"
  /\ Report(t, <<"error">>, "failed")
  /\ memory' = IF HasSession(t)
               THEN [memory EXCEPT ![Key[t]] = Append(loaded[t], t)]
               ELSE memory
  /\ End(t)
  /\ UNCHANGED <<step, leaked>>

\* Mutant: no error is logged.
AgentRaisesSilently(t) ==
  /\ runner[t] = "thinking"
  /\ Report(t, <<>>, "failed")
  /\ End(t)
  /\ UNCHANGED <<memory, step, leaked>>

\* Any exception of the agent, its tools or load_session_memory.
AgentRaises(t) ==
  /\ runner[t] = "thinking"
  /\ Report(t, <<"error">>, "failed")
  /\ End(t)
  /\ UNCHANGED <<memory, step, leaked>>

-----------------------------------------------------------------------------
StartRun(t) ==
  \/ RejectMode(t)
  \/ StartMock(t)
  \/ StartMockCancelled(t)
  \/ RefuseAgent(t)
  \/ SetupRaises(t)
  \/ StartAgent(t)
  \/ QueueForSession(t)

ContinueRun(t) ==
  \/ MockStep(t)
  \/ MockCancelled(t)
  \/ MockSucceeds(t)
  \/ TakeTurn(t)
  \/ AgentEvent(t)
  \/ ReaderRaises(t)
  \/ AgentSucceeds(t)
  \/ SaveRaises(t)
  \/ AgentRaises(t)

ServerStep ==
  \/ ConsumeTask
  \/ \E t \in Tasks :
       CreateTask(t) \/ CancelTask(t) \/ StartRun(t) \/ ContinueRun(t) \/ LeakedReader(t)

\* Every task was submitted and its coroutine is over: the worker polls an
\* empty queue.  Any other state without a step is a deadlock.
Idle ==
  /\ \A t \in Tasks : runner[t] = "done"
  /\ UNCHANGED serverVars

ServerNext == ServerStep \/ Idle

\* The event loop runs every coroutine that is ready and fires every timer;
\* that an agent run ends is the assumption made on the model service.
ServerFairness ==
  /\ WF_serverVars(ConsumeTask)
  /\ \A t \in Tasks : WF_serverVars(StartRun(t)) /\ WF_serverVars(ContinueRun(t))

ServerSpec == ServerInit /\ [][ServerNext]_serverVars /\ ServerFairness

-----------------------------------------------------------------------------
(***************************************************************************)
(* Properties.                                                             *)
(***************************************************************************)

ServerTypeOK ==
  /\ StoreTypeOK
  /\ runner \in [Tasks -> Phases]
  /\ slots \in 0..MaxConcurrent
  /\ step \in [Tasks -> Nat]
  /\ line \in [Sessions -> Seq(Tasks)]
  /\ loaded \in [Tasks -> Seq(Tasks)]
  /\ leaked \in SUBSET Tasks

Holders == {t \in Tasks : runner[t] \in {"sleeping", "queueing", "thinking"}}

LogHas(t, K) == \E i \in DOMAIN log[t] : log[t][i].kind \in K

\* Backpressure: however runs end, by return, verdict or exception, a slot is
\* given back exactly once, so never more than MAX_CONCURRENT_TASKS runs hold
\* one and none is lost to a run that is over.
SlotsConserved == slots + Cardinality(Holders) = MaxConcurrent

\* No task is lost or run twice between the queue and its verdict: a queued
\* task is in the queue once or before the semaphore, never both; a run that
\* holds a slot shows "running"; a run that is over left a verdict, except
\* when its setup raised.
OneOwner ==
  /\ \A i, j \in DOMAIN pending : pending[i] = pending[j] => i = j
  /\ \A t \in Tasks :
       LET inQueue == \E i \in DOMAIN pending : pending[i] = t IN
       /\ status[t] = "queued" <=> inQueue \/ runner[t] = "waiting"
       /\ inQueue => runner[t] = "none"
       /\ t \in Holders => status[t] = "running"
       /\ runner[t] = "done" =>
            status[t] \in Verdicts \/ (SetupMayFail /\ status[t] = "running")

\* The events of a log are numbered 1, 2, 3, ... in the order they are kept,
\* whoever appended them, so a client's from_seq names a position.
SeqContiguous == \A t \in Tasks : Numbered(t)

\* The status and the log never disagree between two steps: a task has failed
\* exactly when its log has an error, is cancelled exactly when its log has a
\* cancelled result, and has succeeded exactly when it has only an ok one.
VerdictMatchesLog ==
  \A t \in Tasks :
    /\ status[t] = "failed" <=> LogHas(t, {"error"})
    /\ status[t] = "cancelled" <=> LogHas(t, {"cancelled"})
    /\ status[t] = "succeeded" <=> LogHas(t, {"ok"}) /\ ~LogHas(t, {"error"})

\* A run is over when it announces its verdict.  What may still follow in the
\* log: cancel requests that came too late, the error of a failed save, and the
\* output that a reader left behind goes on logging.
SilentAfterVerdict ==
  \A t \in Tasks : \A i, j \in DOMAIN log[t] :
    /\ i < j
    /\ log[t][i].kind \in VerdictKinds
    => \/ log[t][j].kind = "cancel_requested"
       \/ log[t][i].kind = "ok" /\ log[t][j].kind = "error"
       \/ t \in leaked /\ log[t][j].kind \in {"stdout", "stderr"}

\* Two stream events of t come after a cancel request.
WorksAfterCancel(t) ==
  \E i, j, k \in DOMAIN log[t] :
    /\ i < j /\ j < k
    /\ log[t][i].kind = "cancel_requested"
    /\ log[t][j].kind = "agent"
    /\ log[t][k].kind = "agent"

\* A mock run notices a cancel request within one step, and a request made
\* before the run starts leaves it no step at all.
CancelStopsMock ==
  \A t \in Tasks :
    Mode[t] = "mock" =>
      /\ ~WorksAfterCancel(t)
      /\ \A i, j \in DOMAIN log[t] :
           /\ i < j
           /\ log[t][i].kind = "cancel_requested"
           /\ log[t][j].kind = "running"
           => ~LogHas(t, {"agent", "ok"})

\* The tasks whose memory is stored under k are of one session, so one lock
\* guards it.  (Ids that hold ":" may give two sessions one key.)
OneSession(k) ==
  \A t, u \in Tasks :
    HasSession(t) /\ HasSession(u) /\ Key[t] = k /\ Key[u] = k => Session[t] = Session[u]

\* The session lock: a run in its agent works on the memory as it is stored
\* now, so no run of the session has saved since this one loaded; unless a run
\* of another session stores under the same key.
SessionIsolated ==
  \A t \in Tasks :
    runner[t] = "thinking" /\ HasSession(t) /\ OneSession(Key[t]) => loaded[t] = memory[Key[t]]

\* The memory stored under the key of one session holds the turn of every run
\* that succeeded, once each, and of no other run.
MemoryHoldsSuccesses ==
  \A k \in {key \in Keys : OneSession(key)} :
    /\ \A i, j \in DOMAIN memory[k] : memory[k][i] = memory[k][j] => i = j
    /\ \A t \in Tasks :
         (\E i \in DOMAIN memory[k] : memory[k][i] = t)
           <=> HasSession(t) /\ Key[t] = k /\ status[t] = "succeeded"

\* A save never loses a turn saved by another run of the session: what is
\* stored under a key of its own changes only by growing at its end.
MemoryGrows ==
  [][\A k \in {key \in Keys : OneSession(key)} :
       \/ memory'[k] = memory[k]
       \/ \E t \in Tasks : memory'[k] = Append(memory[k], t)]_serverVars

\* The verdict the log announces last.
Announced(t) ==
  IF LogHas(t, {"error"}) THEN "error"
  ELSE IF LogHas(t, ResultKinds) THEN "result" ELSE "none"

Life == INSTANCE TaskLifecycle
          WITH state <- status, announced <- [t \in Tasks |-> Announced(t)]

\* The server implements the lifecycle: a verdict is reached once, is never
\* revised, and is announced in the step that reaches it.
Lifecycle == Life!LifeSpec

\* Every queued task ends, whatever waits for a slot or for a session:
\* the runs that queue for a session while holding a slot cannot starve the
\* run that holds the session.  (Setup that raises is excluded.)
EveryTaskEnds == \A t \in Tasks : status[t] = "queued" ~> status[t] \in Verdicts

\* Every slot is given back, even by a run whose setup raises.
EveryRunEnds == \A t \in Tasks : status[t] = "queued" ~> runner[t] = "done"

-----------------------------------------------------------------------------
(***************************************************************************)
(* What the documents say and the code does not do.                        *)
(***************************************************************************)

\* Design document, section 2: the log of a task in a final state ends with a
\* result or an error.  A cancel request for a finished task is logged after it.
VerdictEndsLog ==
  \A t \in Tasks :
    status[t] \in Verdicts => log[t][Len(log[t])].kind \in VerdictKinds

\* Design document, section 8: the execution loop checks the cancel flag.  The
\* agent's loop does not.
CancelStopsWork == \A t \in Tasks : ~WorksAfterCancel(t)

=============================================================================
