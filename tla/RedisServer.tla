---------------------------- MODULE RedisServer -----------------------------
(***************************************************************************)
(* The API process and standalone worker processes over Redis: the create  *)
(* and cancel routes, worker_loop, _run_one, run_mock_task and             *)
(* run_react_agent_task, with one step per command they send to Redis.     *)
(*                                                                         *)
(* An actor is one request, one run, or one of the tools that an agent     *)
(* runs beside the loop that streams its messages.  Its script, todo[a],   *)
(* is what it still has to do: the operator named after a function is the  *)
(* sequence of commands that function issues, and each action performs the *)
(* first of a script.  Commands of different actors interleave in any      *)
(* order; a command may raise, and a worker process may end and be started *)
(* again.                                                                  *)
(***************************************************************************)
EXTENDS RedisStore

CONSTANTS Workers,        \* the worker processes
          NoWorker,       \* where a task is before it is consumed
          Keyed,          \* the workers started with OPENAI_API_KEY
          Modes,          \* the modes each task may be submitted with
          CancelModes,    \* bound: the modes of the tasks that are cancelled, once
          Session,        \* the session of each task that runs as an agent
          Steps,          \* steps of a mock run (30)
          MaxConcurrent,  \* MAX_CONCURRENT_TASKS, of each worker process
          Readers,        \* what may log for one agent run beside its loop, at a time
          ToolKinds,      \* the kinds of event that they log
          MaxChunks,      \* bound: messages that one agent run streams
          MaxLines,       \* bound: lines that the tools of one agent run log
          MaxFaults       \* bound: commands that raise and workers that end

ASSUME WorkerAssumption == NoWorker \notin Workers /\ Keyed \subseteq Workers

ASSUME PayloadAssumption ==
  /\ Modes \in [Tasks -> SUBSET {"mock", "agent", "other"}]
  /\ Session \in [Tasks -> Sessions]

ASSUME ReaderAssumption ==
  /\ IsFiniteSet(Readers)
  /\ Readers \cap {"create", "cancel", "run"} = {}
  /\ ToolKinds \subseteq {"stdout", "stderr", "tool"}

ASSUME BoundAssumption ==
  /\ Steps \in Nat \ {0}
  /\ MaxConcurrent \in [Workers -> Nat \ {0}]
  /\ MaxChunks \in Nat
  /\ MaxLines \in Nat
  /\ MaxFaults \in Nat

VARIABLES mode,      \* payload["mode"] of each task
          todo,      \* the script of each actor
          held,      \* the number an actor's INCR returned
          home,      \* the worker that consumed each task
          reader,    \* what waits for each reader
          loaded,    \* the session memory a run works on
          answered,  \* the tasks whose id a client was told
          faults,    \* how many faults there were
          cut        \* history: the tasks a fault took the rest of a run from

actorVars == <<todo, held>>
runVars == <<mode, home, reader, loaded, answered, faults, cut>>
serverVars == <<storeVars, actorVars, runVars>>

-----------------------------------------------------------------------------
Create(t) == <<"create", t>>
Cancel(t) == <<"cancel", t>>
Run(t) == <<"run", t>>
Reader(r, t) == <<r, t>>
Actors == ({"create", "cancel", "run"} \cup Readers) \X Tasks

Ops == {"start", "incr", "xadd", "publish", "hset", "test", "setup", "enter",
        "join", "save", "leave", "ack"}

Do(op, arg) == [op |-> op, arg |-> arg]
Just(op) == <<Do(op, "")>>

\* Mutant: the event is published before it is in the log.
EmitPublishesFirst(k) == <<Do("incr", k), Do("publish", k), Do("xadd", k)>>

\* Mutant: the number is drawn after the event is in the log.
EmitLogsFirst(k) == <<Do("xadd", k), Do("incr", k), Do("publish", k)>>

\* append_event.
Emit(k) == <<Do("incr", k), Do("xadd", k), Do("publish", k)>>

SetStatus(s) == <<Do("hset", s)>>

\* Mutant: the status is set first.
ConcludeStatusFirst(k, s) == SetStatus(s) \o Emit(k)

\* Mutant: the status is not set.
ConcludeSilently(k, s) == Emit(k)

\* A verdict: the event, then the status.
Conclude(k, s) == Emit(k) \o SetStatus(s)

\* n times the same commands.
Repeat(script, n) ==
  LET times[i \in 0..n] == IF i = 0 THEN <<>> ELSE times[i - 1] \o script
  IN  times[n]

MockScript ==
  SetStatus("running") \o Emit("running")
    \o Repeat(Just("test") \o Emit("agent"), Steps)
    \o Conclude("ok", "succeeded")

AgentScript == SetStatus("running") \o Just("setup")

RunScript == [mock |-> MockScript, agent |-> AgentScript, other |-> Conclude("error", "failed")]

ServerInit ==
  /\ StoreInit
  /\ mode = [t \in Tasks |-> "other"]
  /\ todo = [a \in Actors |-> <<>>]
  /\ held = [a \in Actors |-> 0]
  /\ home = [t \in Tasks |-> NoWorker]
  /\ reader = [a \in Readers \X Tasks |-> "awaited"]
  /\ loaded = [t \in Tasks |-> <<>>]
  /\ answered = {}
  /\ faults = 0
  /\ cut = {}

Goes(a, script) == todo' = [todo EXCEPT ![a] = script]

At(a, op) == todo[a] # <<>> /\ Head(todo[a]).op = op

\* The first command of a's script is op, and it is done.
Does(a, op) == At(a, op) /\ Goes(a, Tail(todo[a]))

Arg(a) == Head(todo[a]).arg

\* op is still ahead of a.
Ahead(a, op) == \E i \in DOMAIN todo[a] : todo[a][i].op = op

Live(t) == todo[Run(t)] # <<>>

\* The runs of w that hold a slot: the semaphore is left before the XACK.
InSlots(w) == {t \in Tasks : home[t] = w /\ Live(t) /\ ~At(Run(t), "start") /\ ~At(Run(t), "ack")}

\* The run is in its try block and holds its session lock.
InSession(t) == Ahead(Run(t), "leave")

\* The agent is at work: its tools may run.
AtWork(t) == Ahead(Run(t), "join")

-----------------------------------------------------------------------------
\* POST /tasks: the transaction; the queued event follows, and the response.
SubmitTask(t) ==
  /\ status[t] = "absent"
  /\ QueueTask(t)
  /\ \E m \in Modes[t] : mode' = [mode EXCEPT ![t] = m]
  /\ Goes(Create(t), Emit("queued"))
  /\ UNCHANGED <<held, home, reader, loaded, answered, faults, cut>>

\* POST /tasks/{id}/cancel, once per task: the flag, then its event.
CancelTask(t) ==
  /\ t \in answered \ cancelled
  /\ mode[t] \in CancelModes
  /\ SetCancel(t)
  /\ Goes(Cancel(t), Emit("cancel_requested"))
  /\ UNCHANGED <<held, runVars>>

\* One turn of a worker's loop.
ConsumeTask(w, t) ==
  /\ ReadGroup(t)
  /\ home' = [home EXCEPT ![t] = w]
  /\ Goes(Run(t), Just("start") \o RunScript[mode[t]] \o Just("ack"))
  /\ UNCHANGED <<held, mode, reader, loaded, answered, faults, cut>>

-----------------------------------------------------------------------------
\* append_event in three steps; the response to a POST follows the third.
Incr(a) ==
  /\ Does(a, "incr")
  /\ IncrSeq(a[2])
  /\ held' = [held EXCEPT ![a] = seq'[a[2]]]
  /\ UNCHANGED runVars

EventOf(a) == [seq |-> held[a], kind |-> Arg(a)]

Xadd(a) ==
  /\ Does(a, "xadd")
  /\ XaddEvent(a[2], EventOf(a))
  /\ UNCHANGED <<held, runVars>>

Publish(a) ==
  /\ Does(a, "publish")
  /\ PublishEvent(a[2], EventOf(a))
  /\ answered' = answered \cup {t \in Tasks : a = Create(t)}
  /\ UNCHANGED <<held, mode, home, reader, loaded, faults, cut>>

\* "async with sem".
Start(t) ==
  /\ Does(Run(t), "start")
  /\ Cardinality(InSlots(home[t])) < MaxConcurrent[home[t]]
  /\ UNCHANGED <<storeVars, held, runVars>>

\* update_meta with a status.
Hset(t) ==
  /\ Does(Run(t), "hset")
  /\ HsetStatus(t, Arg(Run(t)))
  /\ UNCHANGED <<held, runVars>>

\* Mutant: no return after the verdict.
TestGoesOn(t) ==
  /\ At(Run(t), "test")
  /\ Goes(Run(t), (IF t \in cancelled THEN Conclude("cancelled", "cancelled") ELSE <<>>)
                    \o Tail(todo[Run(t)]))
  /\ UNCHANGED <<storeVars, held, runVars>>

\* is_cancelled, and what follows from its answer.
Test(t) ==
  /\ At(Run(t), "test")
  /\ Goes(Run(t), IF t \in cancelled
                  THEN Conclude("cancelled", "cancelled") \o Just("ack")
                  ELSE Tail(todo[Run(t)]))
  /\ UNCHANGED <<storeVars, held, runVars>>

\* Mutant: a return without a verdict.
RefuseSilently(t) ==
  /\ At(Run(t), "setup")
  /\ home[t] \notin Keyed
  /\ Goes(Run(t), Just("ack"))
  /\ UNCHANGED <<storeVars, held, runVars>>

\* No API key in the worker's environment.
Refuse(t) ==
  /\ At(Run(t), "setup")
  /\ home[t] \notin Keyed
  /\ Goes(Run(t), Conclude("error", "failed") \o Just("ack"))
  /\ UNCHANGED <<storeVars, held, runVars>>

\* HSET of the session id, imports, toolkit, model.
SetUp(t) ==
  /\ At(Run(t), "setup")
  /\ home[t] \in Keyed
  /\ Goes(Run(t), Just("enter") \o Just("ack"))
  /\ UNCHANGED <<storeVars, held, runVars>>

\* What the stream loop does: the agent sends some messages, then its stream
\* ends ("join"), and the run succeeds or raises; "leave" is the end of the try
\* block.  No code on this path reads the cancel flag.
AgentRuns ==
  UNION {{Repeat(Emit("agent"), n) \o Just("join")
            \o Conclude("ok", "succeeded") \o Just("save") \o Just("leave"),
          Repeat(Emit("agent"), n) \o Just("join")
            \o Just("leave") \o Conclude("error", "failed")}
           : n \in 0..MaxChunks}

\* Mutant: the session lock is not waited for.
EnterBarges(t) ==
  /\ At(Run(t), "enter")
  /\ \E script \in AgentRuns : Goes(Run(t), script \o Just("ack"))
  /\ loaded' = [loaded EXCEPT ![t] = memory[Session[t]]]
  /\ UNCHANGED <<storeVars, held, mode, home, reader, answered, faults, cut>>

\* "async with session_lock", and load_session_memory.  The lock registry is a
\* dict of the process: only runs of the same worker are excluded.
Enter(t) ==
  /\ At(Run(t), "enter")
  /\ \A u \in Tasks : home[u] = home[t] /\ Session[u] = Session[t] => ~InSession(u)
  /\ \E script \in AgentRuns : Goes(Run(t), script \o Just("ack"))
  /\ loaded' = [loaded EXCEPT ![t] = memory[Session[t]]]
  /\ UNCHANGED <<storeVars, held, mode, home, reader, answered, faults, cut>>

\* Mutant: the stream ends with tools at work.
JoinEarly(t) ==
  /\ Does(Run(t), "join")
  /\ UNCHANGED <<storeVars, held, runVars>>

\* The agent's stream ends: its tool calls are over, and gather has waited for
\* their readers, but for those left behind.
Join(t) ==
  /\ Does(Run(t), "join")
  /\ \A r \in Readers : reader[Reader(r, t)] = "awaited" => todo[Reader(r, t)] = <<>>
  /\ UNCHANGED <<storeVars, held, runVars>>

\* A reader of a tool's output has a line to log, or the tool itself has.  One
\* that was left behind goes on, whatever became of the run.
ReadLine(r, t) ==
  LET a == Reader(r, t) IN
  /\ todo[a] = <<>>
  /\ \/ reader[a] = "awaited" /\ AtWork(t)
     \/ reader[a] = "left"
  /\ Cardinality({i \in DOMAIN log[t] : log[t][i].kind \in ToolKinds}) < MaxLines
  /\ \E k \in ToolKinds : Goes(a, Emit(k))
  /\ UNCHANGED <<storeVars, held, runVars>>

\* The other reader of its tool call has raised, and gather with it (CliRunner).
LeaveReader(r, t) ==
  /\ reader[Reader(r, t)] = "awaited" /\ AtWork(t)
  /\ reader' = [reader EXCEPT ![Reader(r, t)] = "left"]
  /\ UNCHANGED <<storeVars, actorVars, mode, home, loaded, answered, faults, cut>>

\* save_session_memory.
Save(t) ==
  /\ Does(Run(t), "save")
  /\ SessionSet(Session[t], Append(loaded[t], t))
  /\ UNCHANGED <<held, runVars>>

Leave(t) ==
  /\ Does(Run(t), "leave")
  /\ loaded' = [loaded EXCEPT ![t] = <<>>]
  /\ UNCHANGED <<storeVars, held, mode, home, reader, answered, faults, cut>>

Ack(t) ==
  /\ Does(Run(t), "ack")
  /\ AckDelivery(t)
  /\ UNCHANGED <<held, runVars>>

-----------------------------------------------------------------------------
Fault == faults < MaxFaults /\ faults' = faults + 1

\* A command raises inside the agent's try: the session is left and the
\* handler logs an error.  (Raising at "leave" is a save whose reply was lost.)
\* Nothing stops the agent whose messages the loop no longer takes.
RaiseInTry(t) ==
  /\ Fault
  /\ InSession(t)
  /\ Goes(Run(t), Conclude("error", "failed") \o Just("ack"))
  /\ reader' = [a \in DOMAIN reader |-> IF a[2] = t /\ AtWork(t) THEN "left" ELSE reader[a]]
  /\ loaded' = [loaded EXCEPT ![t] = <<>>]
  /\ UNCHANGED <<storeVars, held, mode, home, answered, cut>>

\* Anywhere else: run_mock_task, the setup of an agent and the handlers have
\* no try.  The exception ends the run; the finally acknowledges the delivery,
\* unless it was the acknowledgement that raised.
RaiseOutside(t) ==
  /\ Fault
  /\ Live(t)
  /\ ~At(Run(t), "start") /\ ~At(Run(t), "enter") /\ ~InSession(t)
  /\ Goes(Run(t), IF At(Run(t), "ack") THEN <<>> ELSE Just("ack"))
  /\ cut' = cut \cup {t}
  /\ UNCHANGED <<storeVars, held, mode, home, reader, loaded, answered>>

\* A worker process ends with runs in it, and is started again: it crashes,
\* is interrupted, or consume_task raises and worker_loop closes the client,
\* which leaves the cancelled runs none to acknowledge with.  The readers of
\* its tasks end with it, also those of runs that are over.
Restart(w) ==
  LET mine == {t \in Tasks : home[t] = w}
      lost == {t \in mine : Live(t)}
  IN
  /\ Fault
  /\ mine # {}
  /\ todo' = [a \in Actors |->
                IF a[1] \notin {"create", "cancel"} /\ a[2] \in mine THEN <<>> ELSE todo[a]]
  /\ reader' = [a \in DOMAIN reader |->
                  IF reader[a] = "left" /\ a[2] \in mine THEN "stopped" ELSE reader[a]]
  /\ loaded' = [t \in Tasks |-> IF t \in lost THEN <<>> ELSE loaded[t]]
  /\ cut' = cut \cup lost
  /\ UNCHANGED <<storeVars, held, mode, home, answered>>

\* A command of a request raises, or the API process ends: no response.  Or one
\* of a reader, and its tool call raises.
Abandon(a) ==
  /\ Fault
  /\ a[1] # "run"
  /\ \E op \in {"incr", "xadd", "publish"} : At(a, op)
  /\ Goes(a, <<>>)
  /\ UNCHANGED <<storeVars, held, mode, home, reader, loaded, answered, cut>>

-----------------------------------------------------------------------------
AppendStep(a) == Incr(a) \/ Xadd(a) \/ Publish(a)

RunStep(t) ==
  \/ AppendStep(Run(t))
  \/ Start(t) \/ Hset(t) \/ Test(t) \/ Refuse(t) \/ SetUp(t)
  \/ Enter(t) \/ Join(t) \/ Save(t) \/ Leave(t) \/ Ack(t)

ReaderStep(r, t) == ReadLine(r, t) \/ LeaveReader(r, t) \/ AppendStep(Reader(r, t))

RequestStep(t) == AppendStep(Create(t)) \/ AppendStep(Cancel(t))

ClientStep(t) == SubmitTask(t) \/ CancelTask(t)

FaultStep ==
  \/ \E t \in Tasks : RaiseInTry(t) \/ RaiseOutside(t)
  \/ \E w \in Workers : Restart(w)
  \/ \E a \in Actors : Abandon(a)

ServerStep ==
  \/ \E w \in Workers, t \in Tasks : ConsumeTask(w, t)
  \/ \E t \in Tasks : ClientStep(t) \/ RequestStep(t) \/ RunStep(t)
  \/ \E r \in Readers, t \in Tasks : ReaderStep(r, t)
  \/ FaultStep

\* No request is under way and the workers poll an empty queue.  Any other
\* state without a step is a deadlock.
Idle ==
  /\ stream = <<>>
  /\ \A a \in Actors : todo[a] = <<>>
  /\ UNCHANGED serverVars

ServerNext == ServerStep \/ Idle

\* Some worker polls, and the event loops run what is ready; that an agent and
\* its tools end is the assumption made on the model service.  A reader need not
\* have another line.
ServerFairness ==
  /\ WF_serverVars(\E w \in Workers, t \in Tasks : ConsumeTask(w, t))
  /\ \A t \in Tasks :
       /\ WF_serverVars(RunStep(t))
       /\ WF_serverVars(AppendStep(Create(t)))
       /\ WF_serverVars(AppendStep(Cancel(t)))
       /\ \A r \in Readers : WF_serverVars(AppendStep(Reader(r, t)))

ServerSpec == ServerInit /\ [][ServerNext]_serverVars /\ ServerFairness

-----------------------------------------------------------------------------
(***************************************************************************)
(* Properties.                                                             *)
(***************************************************************************)

Commands == [op : Ops, arg : {""} \cup Kinds \cup Statuses]

RedisTypeOK ==
  /\ StoreTypeOK
  /\ mode \in [Tasks -> {"mock", "agent", "other"}]
  /\ todo \in [Actors -> Seq(Commands)]
  /\ held \in [Actors -> Nat]
  /\ home \in [Tasks -> Workers \cup {NoWorker}]
  /\ reader \in [Readers \X Tasks -> {"awaited", "left", "stopped"}]
  /\ loaded \in [Tasks -> Seq(Tasks)]
  /\ answered \in SUBSET Tasks
  /\ faults \in 0..MaxFaults
  /\ cut \in SUBSET Tasks

Logged(t) == {log[t][i].seq : i \in DOMAIN log[t]}

\* Numbers drawn by INCR and not yet in the log.
InHand(t) == {held[a] : a \in {b \in Actors : b[2] = t /\ At(b, "xadd")}}

\* What one fault can take: a request's number, or those of a run and its readers.
WritersOfRun == 1 + Cardinality(Readers)

\* However the writers of a task interleave, no two of its events have one
\* number, none has a number never drawn, and a number is missing from the log
\* only while its writer is between INCR and XADD, or for a fault: one for each
\* writer that can end with one worker process.
NumbersAccounted ==
  \A t \in Tasks :
    LET drawn == 1..seq[t] IN
    /\ \A i, j \in DOMAIN log[t] : log[t][i].seq = log[t][j].seq => i = j
    /\ Logged(t) \cup InHand(t) \subseteq drawn
    /\ Logged(t) \cap InHand(t) = {}
    /\ Cardinality(drawn \ (Logged(t) \cup InHand(t))) <= faults * WritersOfRun

LogHas(t, K) == \E i \in DOMAIN log[t] : log[t][i].kind \in K

\* A delivery is in the queue, or pending, or acknowledged: a task runs on one
\* worker at most once, is pending while it runs, and stays pending after its
\* run only when a fault took the acknowledgement.
DeliveredOnce ==
  \A t \in Tasks :
    LET inQueue == \E i \in DOMAIN stream : stream[i] = t IN
    /\ \A i, j \in DOMAIN stream : stream[i] = t /\ stream[j] = t => i = j
    /\ inQueue => status[t] = "queued" /\ home[t] = NoWorker /\ ~Live(t)
    /\ Live(t) => t \in pel /\ home[t] # NoWorker
    /\ t \in pel => Live(t) \/ t \in cut
    /\ \A i, j \in DOMAIN log[t] : log[t][i].kind = "running" /\ log[t][j].kind = "running" => i = j

\* The event of a verdict is in the log before the status shows it, and a run
\* that no fault cut short leaves the two in agreement.
StatusFollowsLog ==
  \A t \in Tasks :
    LET failed == LogHas(t, {"error"})
        stopped == LogHas(t, {"cancelled"})
        done == LogHas(t, {"ok"})
    IN  /\ status[t] = "failed" => failed
        /\ status[t] = "cancelled" => stopped
        /\ status[t] = "succeeded" => done
        /\ home[t] # NoWorker /\ ~Live(t) /\ t \notin cut =>
             /\ status[t] = "failed" <=> failed
             /\ status[t] = "cancelled" <=> stopped
             /\ status[t] = "succeeded" <=> done /\ ~failed

\* A reader of t was left behind.
LeftBehind(t) == \E r \in Readers : reader[Reader(r, t)] # "awaited"

\* What may follow a verdict in the log: cancel requests, the error of a try
\* block that raised after its result, the queued event of a POST that was
\* slower than the whole run, and what a reader left behind goes on logging.
SilentAfterVerdict ==
  \A t \in Tasks : \A i, j \in DOMAIN log[t] :
    /\ i < j
    /\ log[t][i].kind \in VerdictKinds
    => \/ log[t][j].kind \in {"cancel_requested", "queued"}
       \/ log[t][i].kind = "ok" /\ log[t][j].kind = "error" /\ faults > 0
       \/ log[t][j].kind \in ToolKinds /\ LeftBehind(t)

\* A verdict a client was shown is revised only from succeeded to failed, of an
\* agent run whose save raised.
VerdictRevisedOnce ==
  [][\A t \in Tasks :
       status[t] \in Verdicts /\ status'[t] # status[t] =>
         status[t] = "succeeded" /\ status'[t] = "failed" /\ mode[t] = "agent" /\ faults > 0]_serverVars

\* The session lock excludes the runs of its own worker process: as long as the
\* runs of a session are on one worker, a run works on what is stored.
IsolatedOnOneWorker ==
  \A t \in Tasks :
    (/\ InSession(t)
     /\ ~At(Run(t), "leave")
     /\ \A u \in Tasks : Session[u] = Session[t] => home[u] \in {home[t], NoWorker})
    => loaded[t] = memory[Session[t]]

\* The verdicts that the log of t announces.
ToldOf(t) ==
  {v \in Verdicts : \/ v = "succeeded" /\ LogHas(t, {"ok"})
                    \/ v = "failed" /\ LogHas(t, {"error"})
                    \/ v = "cancelled" /\ LogHas(t, {"cancelled"})}

InQueue(t) == \E i \in DOMAIN stream : stream[i] = t

DeliveryOf(t) ==
  IF InQueue(t) THEN "queued"
  ELSE IF t \in pel THEN "given"
  ELSE IF home[t] = NoWorker THEN "none" ELSE "acknowledged"

Way == INSTANCE TaskDelivery
  WITH state <- status, told <- [t \in Tasks |-> ToldOf(t)],
       delivery <- [t \in Tasks |-> DeliveryOf(t)], lost <- cut

\* What reaches a worker is acknowledged when its verdict is in the log and its
\* status shows the last one: no way out of a run, by any of its returns, tests,
\* refusals or handlers, forgets a task that no fault took.
Delivery == Way!DeliverySpec

\* Every queued task ends, unless a fault took its run: nothing else can stop
\* it, neither the runs that hold the slots of its worker or its session lock,
\* nor the tools whose readers its agent waits for.
EveryTaskEnds ==
  \A t \in Tasks : status[t] = "queued" ~> status[t] \in Verdicts \/ t \in cut

-----------------------------------------------------------------------------
(***************************************************************************)
(* What the documents say and the code does not do.                        *)
(***************************************************************************)

\* Design document, section 1: after a restart of the process the queued tasks
\* are consumed.  One that was consumed and waits for a slot is not.
QueuedSurvivesRestart == \A t \in Tasks : status[t] = "queued" ~> status[t] # "queued"

\* session_locks.py: concurrent tasks of one session do not corrupt its memory.
\* Over Redis a second worker holds a lock of its own, and a save loses turns.
SessionKeepsTurns ==
  [][\A s \in Sessions :
       \/ memory'[s] = memory[s]
       \/ \E t \in Tasks : memory'[s] = Append(memory[s], t)]_serverVars

=============================================================================
