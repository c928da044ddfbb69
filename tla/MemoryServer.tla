---------------------------- MODULE MemoryServer ----------------------------
(***************************************************************************)
(* The whole process with the in-memory store: TaskServer's routes, worker *)
(* and runs on one side, EventFeed's streams on the other, over the one    *)
(* store and the one event loop.  A server step changes no handler's state *)
(* and a handler's step no run's; they meet in the logs and the queues.    *)
(***************************************************************************)
EXTENDS TaskServer, EventFeed

processVars == <<storeVars, runnerVars, feedVars>>

ProcessInit == ServerInit /\ HandlerInit

ServerSide == ServerStep /\ UNCHANGED feedVars

\* One disjunct per action of a handler, and of a client.
StreamSide ==
  \E c \in Clients :
    \/ SendReplay(c) /\ UNCHANGED runnerVars
    \/ Subscribe(c) /\ UNCHANGED runnerVars
    \/ Forward(c) /\ UNCHANGED runnerVars
    \/ Skip(c) /\ UNCHANGED runnerVars

ClientSide ==
  \E c \in Clients :
    \/ \E t \in Tasks, f \in 0..MaxFrom : Connect(c, t, f) /\ UNCHANGED runnerVars
    \/ \E t \in Tasks : NotFound(c, t) /\ UNCHANGED runnerVars
    \/ Reconnect(c) /\ UNCHANGED runnerVars
    \/ Disconnect(c) /\ UNCHANGED runnerVars

Quiet == Idle /\ UNCHANGED feedVars

ProcessNext == ServerSide \/ StreamSide \/ ClientSide \/ Quiet

\* TaskServer's fairness, and that the loop runs a handler that is ready and
\* its client reads on.
ProcessFairness ==
  /\ WF_processVars(ConsumeTask /\ UNCHANGED feedVars)
  /\ \A t \in Tasks :
       /\ WF_processVars(StartRun(t) /\ UNCHANGED feedVars)
       /\ WF_processVars(ContinueRun(t) /\ UNCHANGED feedVars)
  /\ \A c \in Clients : WF_processVars(HandlerStep(c) /\ UNCHANGED runnerVars)

ProcessSpec == ProcessInit /\ [][ProcessNext]_processVars /\ ProcessFairness

-----------------------------------------------------------------------------
(***************************************************************************)
(* Properties.                                                             *)
(***************************************************************************)

\* What the event announced that c was sent last.
LastKind(c) == log[watching[c]][seen[c][Len(seen[c])]].kind

\* What a stream tells and what GET /tasks/{id} shows agree: a client whose
\* stream has ended was sent the task's verdict last, and finds the status
\* that goes with it.
StreamTellsStatus ==
  \A c \in Clients :
    phase[c] = "over" /\ watching[c] # NoTask =>
      LET s == status[watching[c]] IN
      \/ LastKind(c) = "cancelled" /\ s = "cancelled"
      \/ LastKind(c) = "error" /\ s = "failed"
      \/ LastKind(c) = "ok" /\ s \in {"succeeded"} \cup (IF SaveMayFail THEN {"failed"} ELSE {})

\* A client that missed nothing has every event from its first one to the
\* verdict, through the snapshot, the live queue and its reconnections.
NothingLost ==
  \A c \in Clients :
    phase[c] = "over" /\ missed[c] = {} =>
      \A i \in DOMAIN seen[c] : seen[c][i] = seen[c][1] + i - 1

\* End to end: a client that follows a task from an event it can have, before
\* the verdict, hears of the verdict, unless it leaves or an event got lost in
\* the two ways LossAccounted names.
WatcherInformed ==
  \A c \in Clients :
    (/\ phase[c] \in {"replaying", "listening"}
     /\ from[c] <= Len(log[watching[c]])
     /\ \A i \in 1..from[c] : log[watching[c]][i].kind \notin VerdictKinds)
      ~> phase[c] \in {"over", "broken"} \/ missed[c] # {}

=============================================================================
