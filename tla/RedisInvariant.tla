--------------------------- MODULE RedisInvariant ---------------------------
(***************************************************************************)
(* The inductive invariant of the API process and the workers over Redis.  *)
(*                                                                         *)
(* It says of every script what its next commands may be, and how it fits  *)
(* the log, the status and the queue: an INCR is followed by the XADD and  *)
(* the PUBLISH of the same event, a verdict's event by its status, nothing *)
(* follows the XACK.  It does not say how a script was built, so the       *)
(* length of a run does not matter.                                        *)
(***************************************************************************)
EXTENDS RedisServer, SequenceTheorems

AppendOps == {"incr", "xadd", "publish"}

\* The status that a verdict's event announces.
Announces(k) == IF k = "ok" THEN "succeeded" ELSE IF k = "error" THEN "failed" ELSE k

\* The commands that occur in scripts.
Sound ==
  {c \in Commands :
     /\ c.op \in AppendOps => c.arg \in Kinds
     /\ c.op = "hset" => c.arg \in {"running"} \cup Verdicts}

\* d may come directly after c.
Follows(c, d) ==
  /\ c.op = "incr" <=> d.op = "xadd"
  /\ c.op = "xadd" <=> d.op = "publish"
  /\ d.op \in {"xadd", "publish"} => d.arg = c.arg
  /\ c.op = "publish" /\ c.arg \in VerdictKinds <=> d.op = "hset" /\ d.arg \in Verdicts
  /\ d.op = "hset" /\ d.arg \in Verdicts => d.arg = Announces(c.arg)
  /\ c.op = "save" => d.op = "leave"

\* d may come somewhere after c.
Later(c, d) ==
  /\ c.op # "ack"
  /\ c.op = "leave" => d.op \notin {"leave", "join"}
  /\ c.op \in {"test", "setup", "enter"} => d.op # "join"
  /\ c.op = "xadd" => ~(d.op = "xadd" /\ d.arg = "running")
  /\ c.op = "xadd" /\ c.arg \in VerdictKinds =>
       /\ d.op \in {"publish", "hset", "save", "leave", "ack"}
       /\ d.op \in {"save", "leave"} => c.arg = "ok"
       /\ d.op = "hset" => d.arg = Announces(c.arg)

Orderly(s) ==
  /\ s \in Seq(Sound)
  /\ \A i, j \in DOMAIN s : i < j => Later(s[i], s[j])
  /\ \A i \in DOMAIN s : i + 1 \in DOMAIN s => Follows(s[i], s[i + 1])

\* The rest of a run: it ends with the acknowledgement.
RestOfRun(s) ==
  /\ Orderly(s)
  /\ s # <<>> => s[Len(s)].op = "ack"

\* The rest of a request, or of a reader: it appends an event of K.
RestOfRequest(s, K) ==
  /\ Orderly(s)
  /\ \A c \in Range(s) : c.op \in AppendOps /\ c.arg \in K
  /\ s # <<>> => s[Len(s)].op = "publish"

Scripted(t) ==
  /\ RestOfRun(todo[Run(t)])
  /\ RestOfRequest(todo[Create(t)], {"queued"})
  /\ RestOfRequest(todo[Cancel(t)], {"cancel_requested"})
  /\ \A r \in Readers : RestOfRequest(todo[Reader(r, t)], ToolKinds)

-----------------------------------------------------------------------------
\* The queue holds each task once, and none that was consumed.
QueueInv ==
  /\ \A i, j \in DOMAIN stream : stream[i] = stream[j] => i = j
  /\ \A i \in DOMAIN stream : status[stream[i]] = "queued" /\ home[stream[i]] = NoWorker

\* What has not happened yet has left no trace.
FreshInv(t) ==
  /\ status[t] = "absent" =>
       /\ seq[t] = 0 /\ log[t] = <<>>
       /\ home[t] = NoWorker
       /\ t \notin answered \cup cancelled
       /\ todo[Create(t)] = <<>>
  /\ home[t] = NoWorker =>
       /\ todo[Run(t)] = <<>> /\ t \notin pel
       /\ \A r \in Readers : reader[Reader(r, t)] = "awaited"
       /\ ~LogHas(t, {"running"} \cup VerdictKinds)
  /\ t \notin cancelled => todo[Cancel(t)] = <<>>

\* A reader has a line to log only for an agent at work, or when it was left
\* behind; an agent is at work only in its session.
ReaderInv(t) ==
  /\ \A r \in Readers :
       todo[Reader(r, t)] # <<>> =>
         reader[Reader(r, t)] = "left" \/ (reader[Reader(r, t)] = "awaited" /\ AtWork(t))
  /\ AtWork(t) => InSession(t)

\* A delivery is pending while its run is under way.
DeliveryInv(t) ==
  /\ Live(t) => t \in pel
  /\ t \in pel => Live(t) \/ t \in cut

RunningInv(t) ==
  /\ \A i, j \in DOMAIN log[t] : log[t][i].kind = "running" /\ log[t][j].kind = "running" => i = j
  /\ LogHas(t, {"running"}) =>
       \A c \in Range(todo[Run(t)]) : ~(c.op = "xadd" /\ c.arg = "running")

\* The run of t has only its verdict left to tell.
Closing(t, s) ==
  \A c \in Range(todo[Run(t)]) :
    /\ c.op \in {"publish", "hset", "ack"}
    /\ c.op = "hset" => c.arg = s

\* What a run may still do once it has logged that it succeeded.
Succeeding(t) ==
  \A c \in Range(todo[Run(t)]) :
    /\ c.op \in AppendOps \cup {"hset", "save", "leave", "ack"}
    /\ c.op = "hset" => c.arg \in {"succeeded", "failed"}
    /\ c.op = "xadd" => c.arg = "error"
    /\ c.op = "xadd" \/ (c.op = "hset" /\ c.arg = "failed") => faults > 0 /\ mode[t] = "agent"

VerdictInv(t) ==
  /\ LogHas(t, {"error"}) => Closing(t, "failed")
  /\ LogHas(t, {"cancelled"}) => Closing(t, "cancelled")
  /\ LogHas(t, {"ok"}) => Succeeding(t)
  /\ (\E op \in {"setup", "enter", "join", "leave"} : Ahead(Run(t), op)) => mode[t] = "agent"

\* SilentAfterVerdict, for one task.
SilentInv(t) ==
  \A i, j \in DOMAIN log[t] :
    /\ i < j
    /\ log[t][i].kind \in VerdictKinds
    => \/ log[t][j].kind \in {"cancel_requested", "queued"}
       \/ log[t][i].kind = "ok" /\ log[t][j].kind = "error" /\ faults > 0
       \/ log[t][j].kind \in ToolKinds /\ LeftBehind(t)

\* A status is still to be set.
Pending(t, s) == Do("hset", s) \in Range(todo[Run(t)])

\* A status of S is set or still to be set.
Told(t, S) == \E s \in S : status[t] = s \/ Pending(t, s)

\* A published event is in the log, and so is the event of a status.
StatusInv(t) ==
  /\ At(Run(t), "publish") =>
       \A k \in Kinds : Arg(Run(t)) = k => LogHas(t, {k})
  /\ At(Run(t), "hset") =>
       \A k \in VerdictKinds : Arg(Run(t)) = Announces(k) => LogHas(t, {k})
  /\ \A k \in VerdictKinds : status[t] = Announces(k) => LogHas(t, {k})
  /\ t \notin cut =>
       /\ LogHas(t, {"error"}) => Told(t, {"failed"})
       /\ LogHas(t, {"cancelled"}) => Told(t, {"cancelled"})
       /\ LogHas(t, {"ok"}) => Told(t, {"succeeded", "failed"})

\* Commands that set a verdict, or that the run chooses its verdict at.
Concluding(C) ==
  \E c \in C : (c.op = "hset" /\ c.arg \in Verdicts) \/ c.op \in {"setup", "enter"}

\* A run comes to a verdict, unless a fault left it only its acknowledgement.
ConclusionInv(t) ==
  /\ t \in cut => home[t] # NoWorker /\ \A c \in Range(todo[Run(t)]) : c.op = "ack"
  /\ home[t] # NoWorker /\ t \notin cut =>
       status[t] \in Verdicts \/ Concluding(Range(todo[Run(t)]))

\* Who appends to the log of t.
Writers(t) == {Create(t), Cancel(t), Run(t)} \cup {Reader(r, t) : r \in Readers}

\* The numbers of t, one by one.
NumberInv(t) ==
  /\ \A i, j \in DOMAIN log[t] : log[t][i].seq = log[t][j].seq => i = j
  /\ \A i \in DOMAIN log[t] : log[t][i].seq \in 1..seq[t]
  /\ \A a \in Writers(t) : At(a, "xadd") =>
       /\ held[a] \in 1..seq[t]
       /\ \A i \in DOMAIN log[t] : log[t][i].seq # held[a]
       /\ \A b \in Writers(t) : At(b, "xadd") /\ held[b] = held[a] => a = b
  /\ Cardinality((1..seq[t]) \ (Logged(t) \cup InHand(t))) <= faults * WritersOfRun

\* A session lock is held by one run of its worker, ...
SessionMutex ==
  \A t, u \in Tasks :
    InSession(t) /\ InSession(u) /\ home[t] = home[u] /\ Session[t] = Session[u] => t = u

\* The parts of the invariant that concern one task.
TaskInv(t) ==
  /\ Scripted(t) /\ FreshInv(t) /\ ReaderInv(t) /\ DeliveryInv(t) /\ RunningInv(t)
  /\ VerdictInv(t) /\ SilentInv(t) /\ StatusInv(t) /\ ConclusionInv(t) /\ NumberInv(t)

RedisInv ==
  /\ RedisTypeOK
  /\ QueueInv
  /\ \A t \in Tasks : TaskInv(t)
  /\ SessionMutex
  /\ IsolatedOnOneWorker

=============================================================================
