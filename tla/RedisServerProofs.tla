------------------------- MODULE RedisServerProofs --------------------------
(***************************************************************************)
(* RedisInv is inductive, proved for any number of tasks, sessions,        *)
(* workers, steps and faults, and every interleaving of their commands,    *)
(* and it implies the safety properties of RedisServer.                    *)
(***************************************************************************)
EXTENDS RedisScriptProofs

-----------------------------------------------------------------------------
(***************************************************************************)
(* The scripts are kept.                                                   *)
(***************************************************************************)

\* Nothing left to do, or only the acknowledgement.
LEMMA ShortScripts ==
  /\ RestOfRun(<<>>) /\ Range(<<>>) = {}
  /\ \A k : RestOfRequest(<<>>, k)
  /\ RestOfRun(<<Do("ack", "")>>) /\ <<Do("ack", "")>> # <<>>
  /\ Head(<<Do("ack", "")>>).op = "ack"
  /\ \A c \in Range(<<Do("ack", "")>>) : c.op = "ack"
<1>1. DOMAIN <<>> = {} /\ <<>> \in Seq(Sound)
  OBVIOUS
<1>2. Range(<<>>) = {}
  BY <1>1 DEF Range
<1>3. Orderly(<<>>)
  BY <1>1 DEF Orderly
<1>4. RestOfRun(<<>>) /\ \A k : RestOfRequest(<<>>, k)
  BY <1>2, <1>3 DEF RestOfRun, RestOfRequest
<1>. DEFINE s == <<Do("ack", "")>>
<1>5. Just("ack") = s
  BY DEF Just
<1>. HIDE DEF s
<1>6. /\ RestOfRun(s) /\ s # <<>> /\ Head(s) \in Onlys("ack") /\ Range(s) \subseteq Onlys("ack")
  BY <1>5, AckScript, ScriptOfRun
<1>7. Head(s).op = "ack" /\ \A c \in Range(s) : c.op = "ack"
  BY <1>6, AckScript
<1>. QED
  BY <1>2, <1>4, <1>6, <1>7 DEF s

\* Every step leaves the rest of a script, or begins one.
LEMMA KeepsScripted ==
  ASSUME RedisTypeOK, NEW t \in Tasks, TaskInv(t), Move(t)
  PROVE  Scripted(t)'
<1>0. /\ RestOfRun(todo[Run(t)])
      /\ RestOfRequest(todo[Create(t)], {"queued"})
      /\ RestOfRequest(todo[Cancel(t)], {"cancel_requested"})
      /\ \A r \in Readers : RestOfRequest(todo[Reader(r, t)], ToolKinds)
  BY DEF TaskInv, Scripted
<1>1. /\ Run(t) \in Writers(t) /\ Create(t) \in Writers(t) /\ Cancel(t) \in Writers(t)
      /\ Run(t) # Create(t) /\ Run(t) # Cancel(t) /\ Create(t) # Cancel(t)
      /\ \A r \in Readers : Reader(r, t) \in Writers(t) \ {Run(t), Create(t), Cancel(t)}
  BY WritersAreActors
<1>2. ASSUME RestOfRun(todo'[Run(t)]),
             RestOfRequest(todo'[Create(t)], {"queued"}),
             RestOfRequest(todo'[Cancel(t)], {"cancel_requested"}),
             \A r \in Readers : RestOfRequest(todo'[Reader(r, t)], ToolKinds)
      PROVE  Scripted(t)'
  BY <1>2 DEF Scripted, Run, Create, Cancel, Reader
<1>3. ASSUME NEW a \in Writers(t), OthersKeep(t, a),
             a = Run(t) => RestOfRun(todo'[a]),
             a = Create(t) => RestOfRequest(todo'[a], {"queued"}),
             a = Cancel(t) => RestOfRequest(todo'[a], {"cancel_requested"}),
             \A r \in Readers : a = Reader(r, t) => RestOfRequest(todo'[a], ToolKinds)
      PROVE  Scripted(t)'
  <2>1. \A b \in Writers(t) : b # a => todo'[b] = todo[b]
    BY <1>3 DEF OthersKeep, KeepsScript
  <2>2. RestOfRun(todo'[Run(t)])
    BY <1>0, <1>1, <1>3, <2>1
  <2>3. RestOfRequest(todo'[Create(t)], {"queued"})
    BY <1>0, <1>1, <1>3, <2>1
  <2>4. RestOfRequest(todo'[Cancel(t)], {"cancel_requested"})
    BY <1>0, <1>1, <1>3, <2>1
  <2>5. \A r \in Readers : RestOfRequest(todo'[Reader(r, t)], ToolKinds)
    BY <1>0, <1>1, <1>3, <2>1
  <2>. QED
    BY <1>2, <2>2, <2>3, <2>4, <2>5
<1>4. CASE Untouched(t) \/ LeftAlone(t)
  <2>1. \A a \in Writers(t) : todo'[a] = todo[a]
    BY <1>4 DEF Untouched, LeftAlone, KeepsScript
  <2>. QED
    BY <1>0, <1>1, <1>2, <2>1
<1>5. CASE Submitted(t)
  BY <1>1, <1>3, <1>5 DEF Submitted
<1>6. CASE Asked(t)
  BY <1>1, <1>3, <1>6 DEF Asked
<1>7. CASE Consumed(t) \/ Decided(t) \/ Raised(t)
  <2>1. RestOfRun(todo'[Run(t)]) /\ OthersKeep(t, Run(t))
    BY <1>7 DEF Consumed, Decided, Raised, NewScript
  <2>. QED
    BY <1>1, <1>3, <2>1
<1>8. ASSUME NEW a \in Writers(t), Passes(t, a)
      PROVE  Scripted(t)'
  BY <1>3, <1>8 DEF Passes
<1>9. CASE CutShort(t)
  <2>1. RestOfRun(todo'[Run(t)]) /\ OthersKeep(t, Run(t))
    BY <1>9, ShortScripts DEF CutShort
  <2>. QED
    BY <1>1, <1>3, <2>1
<1>10. ASSUME NEW a \in Writers(t), Abandoned(t, a)
       PROVE  Scripted(t)'
  <2>1. a # Run(t) /\ todo'[a] = <<>> /\ OthersKeep(t, a)
    BY <1>10 DEF Abandoned
  <2>. QED
    BY <1>3, <2>1, ShortScripts
<1>11. ASSUME NEW r \in Readers, BegunLine(t, r)
       PROVE  Scripted(t)'
  <2>1. OthersKeep(t, Reader(r, t)) /\ RestOfRequest(todo'[Reader(r, t)], ToolKinds)
    BY <1>11 DEF BegunLine
  <2>. QED
    BY <1>1, <1>3, <2>1
<1>12. CASE Stopped(t)
  <2>1. /\ todo'[Run(t)] = <<>> /\ \A r \in Readers : todo'[Reader(r, t)] = <<>>
        /\ todo'[Create(t)] = todo[Create(t)] /\ todo'[Cancel(t)] = todo[Cancel(t)]
    BY <1>12 DEF Stopped, KeepsScript
  <2>. QED
    BY <1>0, <1>2, <2>1, ShortScripts
<1>. QED
  BY <1>1, <1>4, <1>5, <1>6, <1>7, <1>8, <1>9, <1>10, <1>11, <1>12
  DEF Move, AppendMove, Drew, Wrote, Published, RunMove, Set, WentOn, Acked, ReadMove, FaultMove

\* The next command of a writer is one of those that scripts are made of.
LEMMA HeadsAreSound ==
  ASSUME RedisTypeOK, NEW t \in Tasks, Scripted(t), NEW a \in Writers(t), todo[a] # <<>>
  PROVE  /\ Head(todo[a]) \in Sound /\ Head(todo[a]) \in Range(todo[a])
         /\ Head(todo[a]).op \in AppendOps => Head(todo[a]).arg \in Kinds
<1>1. Orderly(todo[a])
  BY WritersAreActors DEF Scripted, RestOfRun, RestOfRequest
<1>2. Rest(todo[a], Tail(todo[a]))
  BY <1>1, TailOfScript
<1>. QED
  BY <1>2 DEF Rest, Sound

\* The log after an XADD.
LEMMA Logging ==
  ASSUME RedisTypeOK, NEW t \in Tasks, TaskInv(t), NEW a \in Writers(t), Wrote(t, a)
  PROVE  LET e == EventOf(a)
             n == Len(log[t]) + 1 IN
         /\ log'[t] = Append(log[t], e)
         /\ e \in {x \in Event : x.seq > 0}
         /\ e.seq = held[a] /\ e.kind = Head(todo[a]).arg
         /\ Len(log[t]) \in Nat /\ DOMAIN log[t] = 1..Len(log[t])
         /\ log'[t] \in Seq({x \in Event : x.seq > 0})
         /\ n \in Nat /\ DOMAIN log'[t] = 1..n /\ log'[t][n] = e
         /\ \A i \in 1..Len(log[t]) : log'[t][i] = log[t][i]
         /\ \A K : LogHas(t, K)' <=> LogHas(t, K) \/ e.kind \in K
<1>. DEFINE e == EventOf(a)
            n == Len(log[t]) + 1
            E == {x \in Event : x.seq > 0}
<1>1. /\ log'[t] = Append(log[t], e)
      /\ todo[a] # <<>> /\ Head(todo[a]).op = "xadd"
  BY DEF Wrote, Passes
<1>2. e.seq = held[a] /\ e.kind = Head(todo[a]).arg
  BY DEF EventOf, Arg
<1>3. e \in E
  <2>1. Head(todo[a]).arg \in Kinds
    BY <1>1, HeadsAreSound DEF TaskInv, AppendOps
  <2>2. At(a, "xadd")
    BY <1>1 DEF At
  <2>3. held[a] \in 1..seq[t] /\ seq[t] \in Nat
    BY <2>2 DEF TaskInv, NumberInv, RedisTypeOK, StoreTypeOK
  <2>4. held[a] \in Nat /\ held[a] > 0
    BY <2>3
  <2>. QED
    BY <2>1, <2>4 DEF EventOf, Arg, Event
<1>4. log[t] \in Seq(E)
  BY DEF RedisTypeOK, StoreTypeOK
<1>. HIDE DEF e, E
<1>5. Len(log[t]) \in Nat /\ DOMAIN log[t] = 1..Len(log[t])
  BY <1>4, LenProperties
<1>6. /\ log'[t] \in Seq(E) /\ Len(log'[t]) = n /\ log'[t][n] = e
      /\ \A i \in 1..Len(log[t]) : log'[t][i] = log[t][i]
  BY <1>1, <1>3, <1>4, AppendProperties
<1>7. DOMAIN log'[t] = 1..n /\ n \in Nat
  BY <1>5, <1>6, LenProperties
<1>8. ASSUME NEW K
      PROVE  LogHas(t, K)' <=> LogHas(t, K) \/ e.kind \in K
  <2>1. LogHas(t, K)' <=> \E i \in 1..n : log'[t][i].kind \in K
    BY <1>7 DEF LogHas
  <2>2. LogHas(t, K) <=> \E i \in 1..Len(log[t]) : log[t][i].kind \in K
    BY <1>5 DEF LogHas
  <2>3. /\ \A i \in 1..n : i \in 1..Len(log[t]) \/ i = n
        /\ \A i \in 1..Len(log[t]) : i \in 1..n
        /\ n \in 1..n
    BY <1>5
  <2>. QED
    BY <1>6, <2>1, <2>2, <2>3
<1>. QED
  BY <1>1, <1>2, <1>3, <1>5, <1>6, <1>7, <1>8 DEF e, E

-----------------------------------------------------------------------------
(***************************************************************************)
(* The traces of what happened, the deliveries, and "running" once.        *)
(***************************************************************************)

\* What is in a log does not change with it.
LEMMA LogStays ==
  ASSUME NEW t, log'[t] = log[t]
  PROVE  \A K : LogHas(t, K)' <=> LogHas(t, K)
BY DEF LogHas

\* A run whose agent is at work was consumed.
LEMMA WorkerOfAgent ==
  ASSUME NEW t \in Tasks, FreshInv(t), AtWork(t)
  PROVE  home[t] # NoWorker
<1>1. DOMAIN <<>> = {}
  OBVIOUS
<1>. QED
  BY <1>1 DEF FreshInv, AtWork, Ahead

\* An actor that has something to do belongs to a task that was submitted, a run
\* to one that was consumed, a cancel request to one that was asked to stop.
LEMMA ActorsOfTasks ==
  ASSUME NEW t \in Tasks, FreshInv(t), ReaderInv(t), NEW a \in Writers(t), todo[a] # <<>>
  PROVE  /\ status[t] # "absent"
         /\ a = Run(t) => home[t] # NoWorker
         /\ a = Cancel(t) => t \in cancelled
<1>1. AtWork(t) => home[t] # NoWorker
  BY WorkerOfAgent
<1>2. a = Run(t) \/ a = Create(t) \/ a = Cancel(t) \/ \E r \in Readers : a = Reader(r, t)
  BY DEF Writers
<1>3. (\E r \in Readers : a = Reader(r, t)) => home[t] # NoWorker
  BY <1>1 DEF FreshInv, ReaderInv
<1>. QED
  BY <1>2, <1>3, WritersAreActors DEF FreshInv

\* A run in its session is live.
LEMMA InSessionLive == \A t : InSession(t) => todo[Run(t)] # <<>>
<1>1. DOMAIN <<>> = {}
  OBVIOUS
<1>. QED
  BY <1>1 DEF InSession, Ahead

\* What a step leaves to the run and to the cancel request of a task.
LEMMA ScriptsAfter ==
  ASSUME NEW t \in Tasks, Move(t)
  PROVE  /\ Untouched(t) => \A b \in Writers(t) : todo'[b] = todo[b]
         /\ \A a \in Writers(t) : OthersKeep(t, a) => \A b \in Writers(t) : b # a => todo'[b] = todo[b]
BY DEF Untouched, OthersKeep, KeepsScript

\* What readers begin, or are left to, concerns nothing else.
LEMMA ReadersApart ==
  ASSUME NEW t \in Tasks, ReadMove(t)
  PROVE  /\ KeepsRecord(t) /\ KeepsLog(t) /\ KeepsCut(t) /\ held' = held /\ faults' = faults
         /\ KeepsScript(Run(t)) /\ KeepsScript(Create(t)) /\ KeepsScript(Cancel(t))
<1>1. /\ {Run(t), Create(t), Cancel(t)} \subseteq Writers(t)
      /\ \A r \in Readers : Reader(r, t) \notin {Run(t), Create(t), Cancel(t)}
  BY WritersAreActors
<1>. QED
  BY <1>1 DEF ReadMove, LeftAlone, BegunLine, OthersKeep, KeepsFate

\* What has not happened yet still leaves no trace.
LEMMA KeepsFresh ==
  ASSUME RedisTypeOK, NEW t \in Tasks, TaskInv(t), Move(t)
  PROVE  FreshInv(t)'
<1>0. /\ FreshInv(t) /\ Scripted(t) /\ ReaderInv(t)
      /\ Run(t) \in Writers(t) /\ Create(t) \in Writers(t) /\ Cancel(t) \in Writers(t)
      /\ Run(t) # Create(t) /\ Run(t) # Cancel(t) /\ Create(t) # Cancel(t)
  BY WritersAreActors DEF TaskInv
<1>. DEFINE K == {"running"} \cup VerdictKinds
<1>1. /\ status[t] = "absent" =>
           /\ seq[t] = 0 /\ log[t] = <<>>
           /\ home[t] = NoWorker
           /\ t \notin answered \cup cancelled
           /\ todo[Create(t)] = <<>>
      /\ home[t] = NoWorker =>
           /\ todo[Run(t)] = <<>> /\ t \notin pel /\ ~LogHas(t, K)
           /\ \A r \in Readers : reader[Reader(r, t)] = "awaited"
      /\ t \notin cancelled => todo[Cancel(t)] = <<>>
  BY <1>0 DEF FreshInv
<1>. HIDE DEF K
<1>2. ASSUME status'[t] # "absent",
             home'[t] = NoWorker => todo'[Run(t)] = <<>> /\ t \notin pel' /\ ~LogHas(t, K)',
             home'[t] = NoWorker => KeepsReaders(t) /\ home[t] = NoWorker,
             t \notin cancelled' => todo'[Cancel(t)] = <<>>
      PROVE  FreshInv(t)'
  <2>1. home'[t] = NoWorker => \A r \in Readers : reader'[Reader(r, t)] = "awaited"
    BY <1>1, <1>2 DEF KeepsReaders
  <2>. QED
    BY <1>2, <2>1 DEF FreshInv, K, Run, Cancel, Reader
<1>3. CASE Untouched(t)
  <2>1. \A b \in Writers(t) : todo'[b] = todo[b]
    BY <1>3, ScriptsAfter
  <2>2. /\ status'[t] = status[t] /\ home'[t] = home[t] /\ log'[t] = log[t] /\ seq'[t] = seq[t]
        /\ (t \in answered' <=> t \in answered) /\ (t \in cancelled' <=> t \in cancelled)
        /\ (t \in pel' <=> t \in pel) /\ \A r \in Readers : reader'[Reader(r, t)] = reader[Reader(r, t)]
    BY <1>3
    DEF Untouched, KeepsRecord, KeepsMeta, KeepsHome, KeepsPending, KeepsAnswer, KeepsFlag, KeepsLog, KeepsFate, KeepsReaders
  <2>3. LogHas(t, K)' <=> LogHas(t, K)
    BY <2>2, LogStays
  <2>. QED
    BY <1>0, <1>1, <2>1, <2>2, <2>3 DEF FreshInv, K, Reader
<1>4. CASE Submitted(t)
  <2>1. /\ status'[t] = "queued" /\ home'[t] = home[t] /\ log'[t] = log[t]
        /\ (t \in cancelled' <=> t \in cancelled) /\ (t \in pel' <=> t \in pel)
        /\ todo'[Run(t)] = todo[Run(t)] /\ todo'[Cancel(t)] = todo[Cancel(t)] /\ KeepsReaders(t)
    BY <1>0, <1>4 DEF Submitted, KeepsFate, KeepsHome, KeepsPending, KeepsFlag, OthersKeep, KeepsScript
  <2>2. LogHas(t, K)' <=> LogHas(t, K)
    BY <2>1, LogStays
  <2>. QED
    BY <1>1, <1>2, <2>1, <2>2
<1>5. CASE Asked(t)
  <2>1. /\ status'[t] = status[t] /\ home'[t] = home[t] /\ log'[t] = log[t]
        /\ t \in cancelled' /\ t \in answered /\ (t \in pel' <=> t \in pel)
        /\ todo'[Run(t)] = todo[Run(t)] /\ KeepsReaders(t)
    BY <1>0, <1>5 DEF Asked, KeepsFate, KeepsHome, KeepsPending, KeepsMeta, KeepsLog, OthersKeep, KeepsScript
  <2>2. LogHas(t, K)' <=> LogHas(t, K)
    BY <2>1, LogStays
  <2>. QED
    BY <1>1, <1>2, <2>1, <2>2
<1>6. CASE Consumed(t)
  <2>1. /\ status'[t] = status[t] /\ status[t] = "queued" /\ home'[t] # NoWorker
        /\ (t \in cancelled' <=> t \in cancelled)
        /\ todo'[Cancel(t)] = todo[Cancel(t)]
    BY <1>0, <1>6 DEF Consumed, KeepsMeta, KeepsFlag, OthersKeep, KeepsScript
  <2>. QED
    BY <1>1, <1>2, <2>1
<1>7. ASSUME NEW a \in Writers(t), Drew(t, a) \/ Published(t, a)
      PROVE  FreshInv(t)'
  <2>1. /\ status'[t] = status[t] /\ home'[t] = home[t] /\ log'[t] = log[t]
        /\ (t \in cancelled' <=> t \in cancelled) /\ (t \in pel' <=> t \in pel)
        /\ todo[a] # <<>> /\ KeepsReaders(t)
        /\ \A b \in Writers(t) : b # a => todo'[b] = todo[b]
    BY <1>7 DEF Drew, Published, KeepsFate, Passes, KeepsRecord, KeepsMeta, KeepsHome, KeepsPending, KeepsFlag,
                KeepsLog, OthersKeep, KeepsScript
  <2>2. LogHas(t, K)' <=> LogHas(t, K)
    BY <2>1, LogStays
  <2>. QED
    BY <1>0, <1>1, <1>2, <2>1, <2>2, ActorsOfTasks
<1>8. ASSUME NEW a \in Writers(t), Wrote(t, a)
      PROVE  FreshInv(t)'
  <2>1. /\ status'[t] = status[t] /\ home'[t] = home[t]
        /\ (t \in cancelled' <=> t \in cancelled) /\ (t \in pel' <=> t \in pel)
        /\ todo[a] # <<>> /\ KeepsReaders(t)
        /\ \A b \in Writers(t) : b # a => todo'[b] = todo[b]
    BY <1>8 DEF Wrote, Passes, KeepsFate, KeepsRecord, KeepsMeta, KeepsHome, KeepsPending, KeepsFlag, OthersKeep, KeepsScript
  <2>2. a # Run(t) => Head(todo[a]).arg \in {"queued", "cancel_requested"} \cup ToolKinds
    BY <1>8 DEF Wrote, Passes
  <2>3. LogHas(t, K)' <=> LogHas(t, K) \/ Head(todo[a]).arg \in K
    BY <1>8, Logging
  <2>4. ({"queued", "cancel_requested"} \cup ToolKinds) \cap K = {}
    BY ReaderAssumption DEF K, VerdictKinds, ResultKinds
  <2>. QED
    BY <1>0, <1>1, <1>2, <2>1, <2>2, <2>3, <2>4, ActorsOfTasks
<1>9. CASE RunMove(t)
  <2>1. /\ todo[Run(t)] # <<>> /\ home'[t] = home[t] /\ (t \in cancelled' <=> t \in cancelled)
        /\ todo'[Cancel(t)] = todo[Cancel(t)]
    BY <1>0, <1>9 DEF RunMove, Set, WentOn, Acked, Decided, Passes, KeepsRecord, KeepsHome, KeepsFlag, OthersKeep, KeepsScript
  <2>2. status[t] # "absent" /\ home[t] # NoWorker
    BY <1>0, <2>1, ActorsOfTasks
  <2>3. status'[t] = status[t] \/ (Head(todo[Run(t)]).op = "hset" /\ status'[t] = Head(todo[Run(t)]).arg)
    BY <1>9 DEF RunMove, Set, WentOn, Acked, Decided, KeepsRecord, KeepsMeta
  <2>4. Head(todo[Run(t)]) \in Sound
    BY <1>0, <2>1, HeadsAreSound
  <2>5. status'[t] # "absent"
    BY <2>2, <2>3, <2>4 DEF Sound, Verdicts
  <2>. QED
    BY <1>1, <1>2, <2>1, <2>2, <2>5
<1>10. CASE Raised(t) \/ CutShort(t)
  <2>1. /\ todo[Run(t)] # <<>> /\ status'[t] = status[t]
        /\ home'[t] = home[t] /\ (t \in cancelled' <=> t \in cancelled)
        /\ todo'[Cancel(t)] = todo[Cancel(t)]
    BY <1>0, <1>10, InSessionLive DEF Raised, CutShort, KeepsRecord, KeepsMeta, KeepsHome, KeepsFlag, OthersKeep, KeepsScript
  <2>2. status[t] # "absent" /\ home[t] # NoWorker
    BY <1>0, <2>1, ActorsOfTasks
  <2>. QED
    BY <1>1, <1>2, <2>1, <2>2
<1>11. ASSUME NEW a \in Writers(t), Abandoned(t, a)
       PROVE  FreshInv(t)'
  <2>1. /\ status'[t] = status[t] /\ home'[t] = home[t] /\ log'[t] = log[t]
        /\ (t \in cancelled' <=> t \in cancelled) /\ (t \in pel' <=> t \in pel)
        /\ todo[a] # <<>> /\ todo'[a] = <<>> /\ KeepsReaders(t)
        /\ \A b \in Writers(t) : b # a => todo'[b] = todo[b]
    BY <1>11 DEF Abandoned, KeepsFate, KeepsRecord, KeepsMeta, KeepsHome, KeepsPending, KeepsFlag,
                 KeepsLog, OthersKeep, KeepsScript
  <2>2. LogHas(t, K)' <=> LogHas(t, K)
    BY <2>1, LogStays
  <2>. QED
    BY <1>0, <1>1, <1>2, <2>1, <2>2, ActorsOfTasks
<1>12. CASE ReadMove(t)
  <2>1. /\ status'[t] = status[t] /\ home'[t] = home[t] /\ log'[t] = log[t] /\ seq'[t] = seq[t]
        /\ (t \in answered' <=> t \in answered) /\ (t \in cancelled' <=> t \in cancelled)
        /\ (t \in pel' <=> t \in pel)
        /\ todo'[Run(t)] = todo[Run(t)] /\ todo'[Cancel(t)] = todo[Cancel(t)]
    BY <1>12, ReadersApart DEF KeepsRecord, KeepsMeta, KeepsHome, KeepsPending, KeepsAnswer, KeepsFlag, KeepsLog, KeepsScript
  <2>2. LogHas(t, K)' <=> LogHas(t, K)
    BY <2>1, LogStays
  <2>3. home[t] # NoWorker
    BY <1>0, <1>1, <1>12, WorkerOfAgent DEF ReadMove, LeftAlone, BegunLine
  <2>. QED
    BY <1>0, <1>1, <1>2, <2>1, <2>2, <2>3
<1>13. CASE Stopped(t)
  <2>1. /\ home'[t] # NoWorker /\ home[t] # NoWorker /\ status'[t] = status[t]
        /\ (t \in cancelled' <=> t \in cancelled) /\ todo'[Cancel(t)] = todo[Cancel(t)]
    BY <1>13 DEF Stopped, KeepsRecord, KeepsMeta, KeepsHome, KeepsFlag, KeepsScript
  <2>. QED
    BY <1>1, <1>2, <2>1
<1>. QED
  BY <1>3, <1>4, <1>5, <1>6, <1>7, <1>8, <1>9, <1>10, <1>11, <1>12, <1>13 DEF Move, AppendMove, FaultMove

\* A delivery stays pending as long as its run is under way.
LEMMA KeepsDelivery ==
  ASSUME RedisTypeOK, NEW t \in Tasks, TaskInv(t), Move(t)
  PROVE  DeliveryInv(t)'
<1>0. /\ Run(t) \in Writers(t)
      /\ Run(t) # Create(t) /\ Run(t) # Cancel(t)
  BY WritersAreActors
<1>1. /\ todo[Run(t)] # <<>> => t \in pel
      /\ t \in pel => todo[Run(t)] # <<>> \/ t \in cut
  BY DEF TaskInv, DeliveryInv, Live
<1>2. ASSUME todo'[Run(t)] # <<>> => t \in pel',
             t \in pel' => todo'[Run(t)] # <<>> \/ t \in cut'
      PROVE  DeliveryInv(t)'
  BY <1>2 DEF DeliveryInv, Live, Run
<1>3. ASSUME t \in pel' <=> t \in pel, t \in cut => t \in cut',
             (todo'[Run(t)] # <<>>) <=> (todo[Run(t)] # <<>>)
      PROVE  DeliveryInv(t)'
  BY <1>1, <1>2, <1>3
<1>4. CASE Untouched(t) \/ Submitted(t) \/ Asked(t)
  <2>1. (t \in pel' <=> t \in pel) /\ (t \in cut' <=> t \in cut) /\ todo'[Run(t)] = todo[Run(t)]
    BY <1>0, <1>4 DEF Untouched, Submitted, Asked, KeepsRecord, KeepsPending, KeepsFate, KeepsCut, KeepsScript, OthersKeep
  <2>. QED
    BY <1>3, <2>1
<1>5. CASE Consumed(t)
  BY <1>2, <1>5 DEF Consumed, NewScript
<1>6. ASSUME NEW a \in Writers(t), AppendMove(t, a)
      PROVE  DeliveryInv(t)'
  <2>1. (t \in pel' <=> t \in pel) /\ (t \in cut' <=> t \in cut) /\ Passes(t, a) /\ Head(todo[a]).op # "ack"
    BY <1>6 DEF AppendMove, Drew, Wrote, Published, KeepsRecord, KeepsPending, KeepsFate, KeepsCut
  <2>2. (todo'[Run(t)] # <<>>) <=> (todo[Run(t)] # <<>>)
    BY <1>0, <2>1 DEF Passes, OthersKeep, KeepsScript
  <2>. QED
    BY <1>3, <2>1, <2>2
<1>7. CASE Set(t) \/ WentOn(t)
  <2>1. (t \in pel' <=> t \in pel) /\ (t \in cut' <=> t \in cut) /\ Passes(t, Run(t)) /\ Head(todo[Run(t)]).op # "ack"
    BY <1>7 DEF Set, WentOn, KeepsRecord, KeepsPending, KeepsFate, KeepsCut
  <2>. QED
    BY <1>3, <2>1 DEF Passes
<1>8. CASE Acked(t)
  <2>1. t \notin pel' /\ todo'[Run(t)] = <<>>
    BY <1>8 DEF Acked, Passes
  <2>. QED
    BY <1>2, <2>1
<1>9. CASE Decided(t) \/ Raised(t)
  <2>1. (t \in pel' <=> t \in pel) /\ (t \in cut' <=> t \in cut) /\ todo'[Run(t)] # <<>> /\ todo[Run(t)] # <<>>
    BY <1>9, InSessionLive DEF Decided, Raised, NewScript, KeepsRecord, KeepsPending, KeepsFate, KeepsCut
  <2>. QED
    BY <1>3, <2>1
<1>10. CASE CutShort(t)
  <2>1. (t \in pel' <=> t \in pel) /\ t \in cut' /\ todo[Run(t)] # <<>>
    BY <1>10 DEF CutShort, KeepsRecord, KeepsPending
  <2>. QED
    BY <1>1, <1>2, <2>1
<1>11. ASSUME NEW a \in Writers(t), Abandoned(t, a)
       PROVE  DeliveryInv(t)'
  <2>1. (t \in pel' <=> t \in pel) /\ (t \in cut' <=> t \in cut) /\ todo'[Run(t)] = todo[Run(t)]
    BY <1>0, <1>11 DEF Abandoned, KeepsRecord, KeepsPending, KeepsFate, KeepsCut, OthersKeep, KeepsScript
  <2>. QED
    BY <1>3, <2>1
<1>12. CASE ReadMove(t)
  <2>1. (t \in pel' <=> t \in pel) /\ (t \in cut' <=> t \in cut) /\ todo'[Run(t)] = todo[Run(t)]
    BY <1>12, ReadersApart DEF KeepsRecord, KeepsPending, KeepsFate, KeepsCut, KeepsScript
  <2>. QED
    BY <1>3, <2>1
<1>13. CASE Stopped(t)
  <2>1. (t \in pel' <=> t \in pel) /\ (t \in cut' <=> t \in cut \/ todo[Run(t)] # <<>>) /\ todo'[Run(t)] = <<>>
    BY <1>13 DEF Stopped, KeepsRecord, KeepsPending, Live
  <2>. QED
    BY <1>1, <1>2, <2>1
<1>. QED
  BY <1>4, <1>5, <1>6, <1>7, <1>8, <1>9, <1>10, <1>11, <1>12, <1>13 DEF Move, RunMove, FaultMove

\* A run logs that it runs at most once.
LEMMA KeepsRunning ==
  ASSUME RedisTypeOK, NEW t \in Tasks, TaskInv(t), Move(t)
  PROVE  RunningInv(t)'
<1>. DEFINE R(c) == c.op = "xadd" /\ c.arg = "running"
            K == {"running"}
<1>0. /\ Run(t) \in Writers(t)
      /\ Run(t) # Create(t) /\ Run(t) # Cancel(t)
  BY WritersAreActors
<1>1. /\ \A i, j \in DOMAIN log[t] : log[t][i].kind = "running" /\ log[t][j].kind = "running" => i = j
      /\ LogHas(t, K) => \A c \in Range(todo[Run(t)]) : ~R(c)
      /\ home[t] = NoWorker => ~LogHas(t, {"running"} \cup VerdictKinds)
  BY DEF TaskInv, RunningInv, FreshInv
<1>. HIDE DEF R, K
<1>2. ASSUME \A i, j \in DOMAIN log'[t] : log'[t][i].kind = "running" /\ log'[t][j].kind = "running" => i = j,
             LogHas(t, K)' => \A c \in Range(todo'[Run(t)]) : ~R(c)
      PROVE  RunningInv(t)'
  BY <1>2 DEF RunningInv, R, K, Run
<1>3. ASSUME log'[t] = log[t],
             \A c \in Range(todo'[Run(t)]) : c \in Range(todo[Run(t)]) \/ ~R(c)
      PROVE  RunningInv(t)'
  <2>1. LogHas(t, K)' <=> LogHas(t, K)
    BY <1>3, LogStays
  <2>. QED
    BY <1>1, <1>2, <1>3, <2>1
<1>4. CASE Untouched(t) \/ Submitted(t) \/ Asked(t)
  <2>1. log'[t] = log[t] /\ todo'[Run(t)] = todo[Run(t)]
    BY <1>0, <1>4 DEF Untouched, Submitted, Asked, KeepsLog, KeepsScript, OthersKeep
  <2>. QED
    BY <1>3, <2>1
<1>5. CASE Consumed(t)
  <2>1. log'[t] = log[t] /\ home[t] = NoWorker
    BY <1>5 DEF Consumed, KeepsLog
  <2>2. ~LogHas(t, K)
    BY <1>1, <2>1 DEF LogHas, K
  <2>3. LogHas(t, K)' <=> LogHas(t, K)
    BY <2>1, LogStays
  <2>. QED
    BY <1>1, <1>2, <2>1, <2>2, <2>3
<1>6. ASSUME NEW a \in Writers(t), Drew(t, a) \/ Published(t, a)
      PROVE  RunningInv(t)'
  <2>1. log'[t] = log[t] /\ Range(todo'[Run(t)]) \subseteq Range(todo[Run(t)])
    BY <1>0, <1>6 DEF Drew, Published, Passes, Rest, OthersKeep, KeepsScript, KeepsLog
  <2>. QED
    BY <1>3, <2>1
<1>7. ASSUME NEW a \in Writers(t), Wrote(t, a)
      PROVE  RunningInv(t)'
  <2>. DEFINE h == Head(todo[a])
              e == EventOf(a)
              m == Len(log[t])
  <2>1. /\ Passes(t, a) /\ h.op = "xadd"
    BY <1>7 DEF Wrote
  <2>2. Range(todo'[Run(t)]) \subseteq Range(todo[Run(t)])
    BY <1>0, <2>1 DEF Passes, Rest, OthersKeep, KeepsScript
  <2>3. a # Run(t) => h.arg # "running"
    BY <2>1, ReaderAssumption DEF Passes
  <2>4. a = Run(t) => h \in Range(todo[Run(t)]) /\ \A c \in Range(todo'[Run(t)]) : ~R(c)
    BY <2>1 DEF Passes, Rest, Later, R
  <2>5. e.kind = h.arg
    BY <1>7, Logging
  <2>6. LogHas(t, K)' <=> LogHas(t, K) \/ e.kind \in K
    BY <1>7, Logging
  <2>7. /\ m \in Nat /\ DOMAIN log[t] = 1..m /\ DOMAIN log'[t] = 1..(m + 1)
        /\ log'[t][m + 1] = e /\ \A i \in 1..m : log'[t][i] = log[t][i]
    BY <1>7, Logging
  <2>. HIDE DEF h, e, m
  <2>8. LogHas(t, K)' => \A c \in Range(todo'[Run(t)]) : ~R(c)
    BY <1>1, <2>2, <2>3, <2>4, <2>5, <2>6 DEF K
  <2>9. e.kind = "running" => ~LogHas(t, K)
    BY <1>1, <2>1, <2>3, <2>4, <2>5 DEF R
  <2>10. LogHas(t, K) <=> \E i \in 1..m : log[t][i].kind = "running"
    BY <2>7 DEF LogHas, K
  <2>11. \A i \in 1..(m + 1) : i \in 1..m \/ i = m + 1
    BY <2>7
  <2>12. \A i, j \in DOMAIN log'[t] : log'[t][i].kind = "running" /\ log'[t][j].kind = "running" => i = j
    BY <1>1, <2>7, <2>9, <2>10, <2>11
  <2>. QED
    BY <1>2, <2>8, <2>12
<1>8. CASE Set(t) \/ WentOn(t) \/ Acked(t)
  <2>1. log'[t] = log[t] /\ Range(todo'[Run(t)]) \subseteq Range(todo[Run(t)])
    BY <1>8 DEF Set, WentOn, Acked, Passes, Rest, KeepsLog
  <2>. QED
    BY <1>3, <2>1
<1>9. CASE Decided(t) \/ Raised(t)
  <2>1. log'[t] = log[t] /\ \A c \in Range(todo'[Run(t)]) : ~R(c)
    BY <1>9 DEF Decided, Raised, KeepsLog, R, AppendOps
  <2>. QED
    BY <1>3, <2>1
<1>10. CASE CutShort(t)
  <2>1. log'[t] = log[t] /\ \A c \in Range(todo'[Run(t)]) : c.op = "ack"
    BY <1>10, ShortScripts DEF CutShort, KeepsLog
  <2>. QED
    BY <1>3, <2>1 DEF R
<1>11. ASSUME NEW a \in Writers(t), Abandoned(t, a)
       PROVE  RunningInv(t)'
  <2>1. log'[t] = log[t] /\ todo'[Run(t)] = todo[Run(t)]
    BY <1>0, <1>11 DEF Abandoned, KeepsLog, OthersKeep, KeepsScript
  <2>. QED
    BY <1>3, <2>1
<1>12. CASE ReadMove(t)
  <2>1. log'[t] = log[t] /\ todo'[Run(t)] = todo[Run(t)]
    BY <1>12, ReadersApart DEF KeepsLog, KeepsScript
  <2>. QED
    BY <1>3, <2>1
<1>13. CASE Stopped(t)
  <2>1. log'[t] = log[t] /\ Range(todo'[Run(t)]) = {}
    BY <1>13, ShortScripts DEF Stopped, KeepsLog
  <2>. QED
    BY <1>3, <2>1
<1>. QED
  BY <1>4, <1>5, <1>6, <1>7, <1>8, <1>9, <1>10, <1>11, <1>12, <1>13 DEF Move, AppendMove, RunMove, FaultMove

-----------------------------------------------------------------------------
(***************************************************************************)
(* What a run may still do once a verdict is in the log.                   *)
(***************************************************************************)

Closes(C, s) ==
  \A c \in C :
    /\ c.op \in {"publish", "hset", "ack"}
    /\ c.op = "hset" => c.arg = s

Succeeds(C, f, m) ==
  \A c \in C :
    /\ c.op \in AppendOps \cup {"hset", "save", "leave", "ack"}
    /\ c.op = "hset" => c.arg \in {"succeeded", "failed"}
    /\ c.op = "xadd" => c.arg = "error"
    /\ c.op = "xadd" \/ (c.op = "hset" /\ c.arg = "failed") => f > 0 /\ m = "agent"

\* The log of t allows the run of t the script s after f faults.
Restricts(t, s, f) ==
  /\ LogHas(t, {"error"}) => Closes(Range(s), "failed")
  /\ LogHas(t, {"cancelled"}) => Closes(Range(s), "cancelled")
  /\ LogHas(t, {"ok"}) => Succeeds(Range(s), f, mode[t])

\* Only an agent is set up or holds a session.
AgentOnly(C, m) == \A c \in C : c.op \in {"setup", "enter", "join", "leave"} => m = "agent"

\* The two parts of VerdictInv.
LEMMA VerdictParts ==
  ASSUME NEW t, VerdictInv(t)
  PROVE  Restricts(t, todo[Run(t)], faults) /\ AgentOnly(Range(todo[Run(t)]), mode[t])
<1>1. AgentOnly(Range(todo[Run(t)]), mode[t])
  BY AheadInRange DEF VerdictInv, AgentOnly
<1>. QED
  BY <1>1 DEF VerdictInv, Closing, Succeeding, Restricts, Closes, Succeeds

\* The same after a step.
LEMMA VerdictPartsAfter ==
  ASSUME NEW t, Restricts(t, todo[Run(t)], faults)', AgentOnly(Range(todo[Run(t)]), mode[t])'
  PROVE  VerdictInv(t)'
<1>1. \A op : Ahead(Run(t), op)' <=> \E c \in Range(todo'[Run(t)]) : c.op = op
  BY DEF Ahead, Range, Run
<1>2. (\E op \in {"setup", "enter", "join", "leave"} : Ahead(Run(t), op)') => mode'[t] = "agent"
  BY <1>1 DEF AgentOnly, Run
<1>. QED
  BY <1>2 DEF VerdictInv, Closing, Succeeding, Restricts, Closes, Succeeds

\* What a step does to the faults.
LEMMA FaultsGrow ==
  ASSUME RedisTypeOK, NEW t, Move(t)
  PROVE  /\ faults \in Nat /\ faults' \in Nat /\ faults' >= faults
         /\ Raised(t) => faults' > 0
<1>1. faults \in Nat
  BY BoundAssumption DEF RedisTypeOK
<1>2. \/ faults' \in Nat /\ faults' >= faults
      \/ faults' = faults
      \/ faults' = faults + 1
  BY DEF Move, Untouched, Submitted, Asked, Consumed, AppendMove, Drew, Wrote, Published, RunMove, Set, WentOn,
         Acked, Decided, ReadMove, LeftAlone, BegunLine, FaultMove, Raised, CutShort, Stopped, Abandoned
<1>3. Raised(t) => faults' = faults + 1
  BY DEF Raised
<1>. QED
  BY <1>1, <1>2, <1>3

\* Whoever may do much may do less, after more faults.
LEMMA FewerCommands ==
  ASSUME NEW C, NEW D, D \subseteq C, NEW m, NEW f \in Nat, NEW g \in Nat, g >= f
  PROVE  /\ \A s : Closes(C, s) => Closes(D, s)
         /\ Succeeds(C, f, m) => Succeeds(D, g, m)
         /\ AgentOnly(C, m) => AgentOnly(D, m)
<1>1. f > 0 => g > 0
  OBVIOUS
<1>. QED
  BY <1>1 DEF Closes, Succeeds, AgentOnly

\* The log of a task keeps what it says of the run.
LEMMA KeepsVerdict ==
  ASSUME RedisTypeOK, NEW t \in Tasks, TaskInv(t), Move(t)
  PROVE  VerdictInv(t)'
<1>. DEFINE s == todo[Run(t)]
            r == todo'[Run(t)]
            C == Range(s)
            D == Range(r)
<1>0. /\ Run(t) \in Writers(t)
      /\ Run(t) # Create(t) /\ Run(t) # Cancel(t)
  BY WritersAreActors
<1>1. VerdictInv(t) /\ FreshInv(t)
  BY DEF TaskInv
<1>2. /\ LogHas(t, {"error"}) => Closes(C, "failed")
      /\ LogHas(t, {"cancelled"}) => Closes(C, "cancelled")
      /\ LogHas(t, {"ok"}) => Succeeds(C, faults, mode[t])
      /\ AgentOnly(C, mode[t])
  BY <1>1, VerdictParts DEF Restricts
<1>3. faults \in Nat /\ faults' \in Nat /\ faults' >= faults
  BY FaultsGrow
<1>4. ASSUME LogHas(t, {"error"})' => Closes(D, "failed"),
             LogHas(t, {"cancelled"})' => Closes(D, "cancelled"),
             LogHas(t, {"ok"})' => Succeeds(D, faults', mode'[t]),
             AgentOnly(D, mode'[t])
      PROVE  VerdictInv(t)'
  <2>1. Restricts(t, todo[Run(t)], faults)'
    BY <1>4 DEF Restricts, Run
  <2>2. AgentOnly(Range(todo[Run(t)]), mode[t])'
    BY <1>4 DEF Run
  <2>. QED
    BY <2>1, <2>2, VerdictPartsAfter
<1>. HIDE DEF C, D
<1>5. ASSUME log'[t] = log[t], mode'[t] = mode[t], D \subseteq C
      PROVE  VerdictInv(t)'
  <2>1. \A K : LogHas(t, K)' <=> LogHas(t, K)
    BY <1>5, LogStays
  <2>2. /\ \A u : Closes(C, u) => Closes(D, u)
        /\ Succeeds(C, faults, mode[t]) => Succeeds(D, faults', mode[t])
        /\ AgentOnly(C, mode[t]) => AgentOnly(D, mode[t])
    BY <1>3, <1>5, FewerCommands
  <2>. QED
    BY <1>2, <1>4, <1>5, <2>1, <2>2
<1>6. ASSUME log'[t] = log[t], ~LogHas(t, VerdictKinds), AgentOnly(D, mode'[t])
      PROVE  VerdictInv(t)'
  <2>1. \A K : LogHas(t, K)' <=> LogHas(t, K)
    BY <1>6, LogStays
  <2>2. ~LogHas(t, {"error"}) /\ ~LogHas(t, {"cancelled"}) /\ ~LogHas(t, {"ok"})
    BY <1>6 DEF LogHas, VerdictKinds, ResultKinds
  <2>. QED
    BY <1>4, <1>6, <2>1, <2>2
<1>7. CASE Untouched(t) \/ Asked(t)
  <2>1. log'[t] = log[t] /\ mode'[t] = mode[t] /\ r = s
    BY <1>0, <1>7 DEF Untouched, Asked, KeepsRecord, KeepsMeta, KeepsLog, KeepsScript, OthersKeep
  <2>. QED
    BY <1>5, <2>1 DEF C, D
<1>8. CASE Submitted(t)
  <2>1. log'[t] = log[t] /\ r = s /\ status[t] = "absent"
    BY <1>0, <1>8 DEF Submitted, KeepsScript, OthersKeep
  <2>2. log[t] = <<>> /\ s = <<>>
    BY <1>1, <2>1 DEF FreshInv
  <2>3. ~LogHas(t, VerdictKinds)
    <3>1. DOMAIN <<>> = {}
      OBVIOUS
    <3>. QED
      BY <2>2, <3>1 DEF LogHas
  <2>4. AgentOnly(D, mode'[t])
    BY <2>1, <2>2, ShortScripts DEF AgentOnly, D
  <2>. QED
    BY <1>6, <2>1, <2>3, <2>4
<1>9. CASE Consumed(t)
  <2>1. log'[t] = log[t] /\ home[t] = NoWorker /\ mode'[t] = mode[t] /\ NewScript(t, r)
    BY <1>9 DEF Consumed, KeepsLog, KeepsMeta
  <2>2. ~LogHas(t, VerdictKinds)
    BY <1>1, <2>1 DEF FreshInv, LogHas
  <2>3. AgentOnly(D, mode'[t])
    BY <2>1 DEF NewScript, AgentOnly, D
  <2>. QED
    BY <1>6, <2>1, <2>2, <2>3
<1>10. ASSUME NEW a \in Writers(t), Drew(t, a) \/ Published(t, a)
       PROVE  VerdictInv(t)'
  <2>1. log'[t] = log[t] /\ mode'[t] = mode[t] /\ D \subseteq C
    BY <1>0, <1>10 DEF Drew, Published, Passes, Rest, OthersKeep, KeepsScript, KeepsLog, KeepsRecord, KeepsMeta, C, D
  <2>. QED
    BY <1>5, <2>1
<1>11. ASSUME NEW a \in Writers(t), Wrote(t, a)
       PROVE  VerdictInv(t)'
  <2>. DEFINE h == Head(todo[a])
              k == EventOf(a).kind
  <2>1. Passes(t, a) /\ h.op = "xadd" /\ mode'[t] = mode[t]
    BY <1>11 DEF Wrote, KeepsRecord, KeepsMeta
  <2>2. k = h.arg /\ \A K : LogHas(t, K)' <=> LogHas(t, K) \/ k \in K
    BY <1>11, Logging
  <2>3. D \subseteq C
    BY <1>0, <2>1 DEF Passes, Rest, OthersKeep, KeepsScript, C, D
  <2>4. a # Run(t) => k \notin VerdictKinds
    BY <2>1, <2>2, ReaderAssumption DEF Passes, VerdictKinds, ResultKinds
  <2>5. a = Run(t) => \A d \in D : Later(h, d)
    BY <2>1 DEF Passes, Rest, D
  <2>6. /\ \A u : Closes(C, u) => Closes(D, u)
        /\ Succeeds(C, faults, mode[t]) => Succeeds(D, faults', mode[t])
        /\ AgentOnly(C, mode[t]) => AgentOnly(D, mode[t])
    BY <1>3, <2>3, FewerCommands
  <2>. HIDE DEF h, k
  <2>7. k \in VerdictKinds => \A d \in D :
           /\ d.op \in {"publish", "hset", "save", "leave", "ack"}
           /\ d.op \in {"save", "leave"} => k = "ok"
           /\ d.op = "hset" => d.arg = Announces(k)
    BY <2>1, <2>2, <2>4, <2>5 DEF Later
  <2>8. {"ok", "error", "cancelled"} \subseteq VerdictKinds
    BY DEF VerdictKinds, ResultKinds
  <2>9. LogHas(t, {"error"})' => Closes(D, "failed")
    <3>1. k = "error" => Closes(D, "failed")
      BY <2>7, <2>8, VerdictsAnnounced DEF Closes
    <3>2. LogHas(t, {"error"})' <=> LogHas(t, {"error"}) \/ k \in {"error"}
      BY <2>2
    <3>. QED
      BY <1>2, <2>6, <3>1, <3>2
  <2>10. LogHas(t, {"cancelled"})' => Closes(D, "cancelled")
    <3>1. k = "cancelled" => Closes(D, "cancelled")
      BY <2>7, <2>8, VerdictsAnnounced DEF Closes
    <3>2. LogHas(t, {"cancelled"})' <=> LogHas(t, {"cancelled"}) \/ k \in {"cancelled"}
      BY <2>2
    <3>. QED
      BY <1>2, <2>6, <3>1, <3>2
  <2>11. LogHas(t, {"ok"})' => Succeeds(D, faults', mode[t])
    <3>1. ASSUME k = "ok"
          PROVE  Succeeds(D, faults', mode[t])
      <4>1. \A d \in D :
              /\ d.op \in {"publish", "hset", "save", "leave", "ack"}
              /\ d.op = "hset" => d.arg = "succeeded"
        BY <2>7, <2>8, <3>1, VerdictsAnnounced
      <4>. QED
        BY <4>1 DEF Succeeds, AppendOps
    <3>2. LogHas(t, {"ok"})' <=> LogHas(t, {"ok"}) \/ k \in {"ok"}
      BY <2>2
    <3>. QED
      BY <1>2, <2>6, <3>1, <3>2
  <2>. QED
    BY <1>2, <1>4, <2>1, <2>6, <2>9, <2>10, <2>11
<1>12. CASE Set(t) \/ WentOn(t) \/ Acked(t)
  <2>1. log'[t] = log[t] /\ mode'[t] = mode[t] /\ D \subseteq C
    BY <1>12 DEF Set, WentOn, Acked, Passes, Rest, KeepsRecord, KeepsMeta, KeepsLog, C, D
  <2>. QED
    BY <1>5, <2>1
<1>13. CASE Decided(t)
  <2>1. log'[t] = log[t] /\ mode'[t] = mode[t] /\ NewScript(t, r) /\ s # <<>>
        /\ Head(s).op \in {"test", "setup", "enter"}
    BY <1>13 DEF Decided, KeepsRecord, KeepsMeta, KeepsLog
  <2>2. Head(s) \in C
    BY <1>0, <2>1, HeadsAreSound DEF TaskInv, C
  <2>3. ~LogHas(t, {"error"}) /\ ~LogHas(t, {"cancelled"}) /\ ~LogHas(t, {"ok"})
    BY <1>2, <2>1, <2>2 DEF Closes, Succeeds, AppendOps
  <2>4. \A K : LogHas(t, K)' <=> LogHas(t, K)
    BY <2>1, LogStays
  <2>5. AgentOnly(D, mode'[t])
    BY <2>1 DEF NewScript, AgentOnly, D
  <2>. QED
    BY <1>4, <2>3, <2>4, <2>5
<1>14. CASE Raised(t)
  <2>1. /\ log'[t] = log[t] /\ mode'[t] = mode[t] /\ NewScript(t, r)
        /\ Ahead(Run(t), "leave")
        /\ \A c \in D :
             /\ c.op \in AppendOps \cup {"hset", "ack"}
             /\ c.op \in AppendOps => c.arg = "error"
             /\ c.op = "hset" => c.arg = "failed"
    BY <1>14 DEF Raised, KeepsRecord, KeepsMeta, KeepsLog, InSession, D
  <2>2. PICK c \in C : c.op = "leave"
    BY <2>1, AheadInRange DEF C
  <2>3. ~LogHas(t, {"error"}) /\ ~LogHas(t, {"cancelled"}) /\ mode[t] = "agent"
    BY <1>2, <2>2 DEF Closes, AgentOnly
  <2>4. \A K : LogHas(t, K)' <=> LogHas(t, K)
    BY <2>1, LogStays
  <2>5. AgentOnly(D, mode'[t])
    BY <2>1, <2>3 DEF AgentOnly
  <2>6. faults' > 0
    BY <1>14, FaultsGrow
  <2>7. Succeeds(D, faults', mode'[t])
    BY <2>1, <2>3, <2>6 DEF Succeeds, AppendOps
  <2>. QED
    BY <1>4, <2>3, <2>4, <2>5, <2>7
<1>15. CASE CutShort(t)
  <2>1. log'[t] = log[t] /\ mode'[t] = mode[t] /\ \A c \in D : c.op = "ack"
    BY <1>15, ShortScripts DEF CutShort, KeepsRecord, KeepsMeta, KeepsLog, D
  <2>2. Closes(D, "failed") /\ Closes(D, "cancelled") /\ Succeeds(D, faults', mode'[t]) /\ AgentOnly(D, mode'[t])
    BY <2>1 DEF Closes, Succeeds, AgentOnly
  <2>. QED
    BY <1>4, <2>2
<1>16. ASSUME NEW a \in Writers(t), Abandoned(t, a)
       PROVE  VerdictInv(t)'
  <2>1. log'[t] = log[t] /\ mode'[t] = mode[t] /\ r = s
    BY <1>0, <1>16 DEF Abandoned, KeepsRecord, KeepsMeta, KeepsLog, OthersKeep, KeepsScript
  <2>. QED
    BY <1>5, <2>1 DEF C, D
<1>17. CASE ReadMove(t)
  <2>1. log'[t] = log[t] /\ mode'[t] = mode[t] /\ r = s
    BY <1>17, ReadersApart DEF KeepsRecord, KeepsMeta, KeepsLog, KeepsScript
  <2>. QED
    BY <1>5, <2>1 DEF C, D
<1>18. CASE Stopped(t)
  <2>1. log'[t] = log[t] /\ mode'[t] = mode[t] /\ D = {}
    BY <1>18, ShortScripts DEF Stopped, KeepsRecord, KeepsMeta, KeepsLog, D
  <2>. QED
    BY <1>5, <2>1
<1>. QED
  BY <1>7, <1>8, <1>9, <1>10, <1>11, <1>12, <1>13, <1>14, <1>15, <1>16, <1>17, <1>18
  DEF Move, AppendMove, RunMove, FaultMove

\* A reader that is no longer awaited is not awaited again.
LEMMA StaysLeft ==
  ASSUME NEW t \in Tasks, Move(t)
  PROVE  /\ \A r \in Readers : reader[Reader(r, t)] # "awaited" => reader'[Reader(r, t)] # "awaited"
         /\ LeftBehind(t) => LeftBehind(t)'
<1>1. \/ KeepsReaders(t)
      \/ \A r \in Readers : reader'[Reader(r, t)] \in {reader[Reader(r, t)], "left", "stopped"}
  BY DEF Move, Untouched, Submitted, Asked, Consumed, AppendMove, Drew, Wrote, Published, RunMove, Set, WentOn,
         Acked, Decided, ReadMove, LeftAlone, BegunLine, FaultMove, Raised, CutShort, Stopped, Abandoned, KeepsFate
<1>2. \A r \in Readers : reader[Reader(r, t)] # "awaited" => reader'[Reader(r, t)] # "awaited"
  BY <1>1 DEF KeepsReaders
<1>. QED
  BY <1>2 DEF LeftBehind, Reader

\* An agent is at work only until the first verdict of its run is in the log.
LEMMA WorksBeforeVerdict ==
  ASSUME NEW t, VerdictInv(t), AtWork(t)
  PROVE  ~LogHas(t, {"error"}) /\ ~LogHas(t, {"cancelled"}) /\ ~LogHas(t, {"ok"})
<1>1. PICK c \in Range(todo[Run(t)]) : c.op = "join"
  BY AheadInRange DEF AtWork
<1>. QED
  BY <1>1, VerdictParts DEF Restricts, Closes, Succeeds, AppendOps

\* Readers work for an agent at work, or were left behind.
LEMMA KeepsReader ==
  ASSUME RedisTypeOK, NEW t \in Tasks, TaskInv(t), Move(t)
  PROVE  ReaderInv(t)'
<1>. DEFINE s == todo[Run(t)]
            n == todo'[Run(t)]
            Works(q) == \E c \in Range(q) : c.op = "join"
            Holds(q) == \E c \in Range(q) : c.op = "leave"
<1>0. /\ Run(t) \in Writers(t)
      /\ \A r \in Readers : Reader(r, t) \in Writers(t) /\ Reader(r, t) # Run(t)
      /\ \A r, q \in Readers : Reader(q, t) = Reader(r, t) => q = r
  BY WritersAreActors
<1>1. /\ AtWork(t) <=> Works(s)
      /\ InSession(t) <=> Holds(s)
      /\ AtWork(t)' <=> Works(n)
      /\ InSession(t)' <=> Holds(n)
  BY AheadInRange DEF AtWork, InSession, Ahead, Range, Run
<1>2. /\ \A r \in Readers :
           todo[Reader(r, t)] # <<>> =>
             reader[Reader(r, t)] = "left" \/ (reader[Reader(r, t)] = "awaited" /\ Works(s))
      /\ Works(s) => Holds(s)
  BY <1>1 DEF TaskInv, ReaderInv
<1>3. ASSUME \A r \in Readers :
               todo'[Reader(r, t)] # <<>> =>
                 reader'[Reader(r, t)] = "left" \/ (reader'[Reader(r, t)] = "awaited" /\ Works(n)),
             Works(n) => Holds(n)
      PROVE  ReaderInv(t)'
  BY <1>1, <1>3 DEF ReaderInv, Reader
<1>. HIDE DEF Works, Holds
<1>4. ASSUME KeepsReaders(t), \A r \in Readers : todo'[Reader(r, t)] \in {todo[Reader(r, t)], <<>>}, n = s
      PROVE  ReaderInv(t)'
  BY <1>2, <1>3, <1>4 DEF KeepsReaders
<1>5. ASSUME NEW a \in Writers(t), OthersKeep(t, a)
      PROVE  /\ a # Run(t) => n = s
             /\ \A r \in Readers : a # Reader(r, t) => todo'[Reader(r, t)] = todo[Reader(r, t)]
  BY <1>0, <1>5 DEF OthersKeep, KeepsScript
<1>6. CASE Untouched(t)
  <2>1. KeepsReaders(t) /\ \A a \in Writers(t) : todo'[a] = todo[a]
    BY <1>6 DEF Untouched, KeepsFate, KeepsScript
  <2>. QED
    BY <1>0, <1>4, <2>1
<1>7. CASE Submitted(t)
  <2>1. /\ KeepsReaders(t) /\ OthersKeep(t, Create(t))
        /\ Create(t) \in Writers(t) /\ Create(t) # Run(t) /\ \A r \in Readers : Create(t) # Reader(r, t)
    BY <1>7, WritersAreActors DEF Submitted, KeepsFate
  <2>. QED
    BY <1>4, <1>5, <2>1
<1>8. CASE Asked(t)
  <2>1. /\ KeepsReaders(t) /\ OthersKeep(t, Cancel(t))
        /\ Cancel(t) \in Writers(t) /\ Cancel(t) # Run(t) /\ \A r \in Readers : Cancel(t) # Reader(r, t)
    BY <1>8, WritersAreActors DEF Asked, KeepsFate
  <2>. QED
    BY <1>4, <1>5, <2>1
<1>9. ASSUME KeepsReaders(t), OthersKeep(t, Run(t)), ~Works(s), Works(n) => Holds(n)
      PROVE  ReaderInv(t)'
  BY <1>0, <1>2, <1>3, <1>5, <1>9 DEF KeepsReaders
<1>10. CASE Consumed(t)
  <2>1. KeepsReaders(t) /\ OthersKeep(t, Run(t)) /\ NewScript(t, n) /\ home[t] = NoWorker
    BY <1>10 DEF Consumed, KeepsFate
  <2>2. ~Works(s)
    BY <1>1, <2>1, WorkerOfAgent DEF TaskInv
  <2>. QED
    BY <1>9, <2>1, <2>2 DEF NewScript, Works, Holds
<1>11. CASE Decided(t)
  <2>1. /\ KeepsReaders(t) /\ OthersKeep(t, Run(t)) /\ NewScript(t, n)
        /\ s # <<>> /\ Head(s).op \in {"test", "setup", "enter"}
    BY <1>11 DEF Decided, KeepsFate
  <2>2. ~Works(s)
    <3>1. Rest(s, Tail(s))
      BY <2>1, TailOfRun DEF TaskInv, Scripted
    <3>2. \A c \in Range(s) : c = Head(s) \/ Later(Head(s), c)
      BY <3>1 DEF Rest
    <3>. QED
      BY <2>1, <3>2 DEF Later, Works
  <2>. QED
    BY <1>9, <2>1, <2>2 DEF NewScript, Works, Holds
<1>12. ASSUME Passes(t, Run(t)), KeepsReaders(t),
              Head(s).op = "join" =>
                \A r \in Readers : reader[Reader(r, t)] = "awaited" => todo[Reader(r, t)] = <<>>
       PROVE  ReaderInv(t)'
  <2>1. OthersKeep(t, Run(t)) /\ Rest(s, n)
    BY <1>12 DEF Passes
  <2>2. /\ \A c \in Range(s) : c = Head(s) \/ c \in Range(n)
        /\ \A c \in Range(n) : c \in Range(s) /\ Later(Head(s), c)
    BY <2>1 DEF Rest
  <2>3. Works(n) => Holds(n)
    <3>1. Works(n) => Works(s) /\ Head(s).op # "leave"
      BY <2>2 DEF Works, Later
    <3>2. Holds(s) /\ Head(s).op # "leave" => Holds(n)
      BY <2>2 DEF Holds
    <3>. QED
      BY <1>2, <3>1, <3>2
  <2>4. Works(s) => Works(n) \/ Head(s).op = "join"
    BY <2>2 DEF Works
  <2>5. /\ \A r \in Readers : todo'[Reader(r, t)] = todo[Reader(r, t)]
        /\ \A r \in Readers : reader'[Reader(r, t)] = reader[Reader(r, t)]
    BY <1>0, <1>5, <1>12, <2>1 DEF KeepsReaders
  <2>. QED
    BY <1>2, <1>3, <1>12, <2>3, <2>4, <2>5
<1>13. ASSUME NEW a \in Writers(t), AppendMove(t, a)
       PROVE  ReaderInv(t)'
  <2>1. Passes(t, a) /\ KeepsReaders(t) /\ Head(todo[a]).op # "join"
    BY <1>13 DEF AppendMove, Drew, Wrote, Published, KeepsFate
  <2>2. CASE a = Run(t)
    BY <1>12, <2>1, <2>2
  <2>3. CASE a # Run(t)
    <3>1. n = s /\ todo[a] # <<>> /\ \A r \in Readers : a # Reader(r, t) => todo'[Reader(r, t)] = todo[Reader(r, t)]
      BY <1>5, <2>1, <2>3 DEF Passes
    <3>2. \A r \in Readers : todo'[Reader(r, t)] # <<>> => todo[Reader(r, t)] # <<>>
      BY <3>1
    <3>. QED
      BY <1>2, <1>3, <2>1, <3>1, <3>2 DEF KeepsReaders
  <2>. QED
    BY <2>2, <2>3
<1>14. CASE Set(t) \/ WentOn(t) \/ Acked(t)
  <2>1. /\ Passes(t, Run(t)) /\ KeepsReaders(t)
        /\ Head(s).op = "join" =>
             \A r \in Readers : reader[Reader(r, t)] = "awaited" => todo[Reader(r, t)] = <<>>
    BY <1>14 DEF Set, WentOn, Acked, KeepsFate
  <2>. QED
    BY <1>12, <2>1
<1>15. CASE LeftAlone(t)
  <2>1. /\ Works(s) /\ \A a \in Writers(t) : todo'[a] = todo[a]
        /\ \A r \in Readers : reader'[Reader(r, t)] \in {reader[Reader(r, t)], "left"}
    BY <1>1, <1>15 DEF LeftAlone, KeepsScript
  <2>. QED
    BY <1>0, <1>2, <1>3, <2>1
<1>16. ASSUME NEW r \in Readers, BegunLine(t, r)
       PROVE  ReaderInv(t)'
  <2>1. /\ reader[Reader(r, t)] = "left" \/ (reader[Reader(r, t)] = "awaited" /\ Works(s))
        /\ OthersKeep(t, Reader(r, t)) /\ \A q \in Readers : reader'[Reader(q, t)] = reader[Reader(q, t)]
    BY <1>1, <1>16 DEF BegunLine, KeepsFate, KeepsReaders
  <2>2. n = s /\ \A q \in Readers : q # r => todo'[Reader(q, t)] = todo[Reader(q, t)]
    BY <1>0, <1>5, <2>1
  <2>. QED
    BY <1>2, <1>3, <2>1, <2>2
<1>17. CASE Raised(t)
  <2>1. /\ OthersKeep(t, Run(t))
        /\ \A r \in Readers : reader'[Reader(r, t)] = IF Works(s) THEN "left" ELSE reader[Reader(r, t)]
        /\ \A c \in Range(n) : c.op \in AppendOps \cup {"hset", "ack"}
    BY <1>1, <1>17 DEF Raised
  <2>2. ~Works(n)
    BY <2>1 DEF Works, AppendOps
  <2>. QED
    BY <1>0, <1>2, <1>3, <1>5, <2>1, <2>2
<1>18. CASE CutShort(t)
  <2>1. KeepsReaders(t) /\ OthersKeep(t, Run(t)) /\ ~Holds(s)
    BY <1>1, <1>18 DEF CutShort
  <2>2. ~Works(n)
    BY <1>18, ShortScripts DEF CutShort, Works
  <2>. QED
    BY <1>2, <1>9, <2>1, <2>2
<1>19. CASE Stopped(t)
  <2>1. n = <<>> /\ \A r \in Readers : todo'[Reader(r, t)] = <<>>
    BY <1>19 DEF Stopped
  <2>2. ~Works(n)
    BY <2>1, ShortScripts DEF Works
  <2>. QED
    BY <1>3, <2>1, <2>2
<1>20. ASSUME NEW a \in Writers(t), Abandoned(t, a)
       PROVE  ReaderInv(t)'
  <2>1. a # Run(t) /\ todo'[a] = <<>> /\ KeepsReaders(t) /\ OthersKeep(t, a)
    BY <1>20 DEF Abandoned, KeepsFate
  <2>. QED
    BY <1>4, <1>5, <2>1
<1>. QED
  BY <1>6, <1>7, <1>8, <1>10, <1>11, <1>13, <1>14, <1>15, <1>16, <1>17, <1>18, <1>19, <1>20
  DEF Move, RunMove, ReadMove, FaultMove

\* A log stays silent after a verdict, but for what may follow it.
LEMMA KeepsSilent ==
  ASSUME RedisTypeOK, NEW t \in Tasks, TaskInv(t), Move(t)
  PROVE  SilentInv(t)'
<1>. DEFINE Fine(e, f, n, l) == e.kind \in VerdictKinds =>
                                  \/ f.kind \in {"cancel_requested", "queued"}
                                  \/ e.kind = "ok" /\ f.kind = "error" /\ n > 0
                                  \/ f.kind \in ToolKinds /\ l
<1>0. faults \in Nat /\ faults' \in Nat /\ faults' >= faults
  BY FaultsGrow
<1>1. \A i, j \in DOMAIN log[t] : i < j => Fine(log[t][i], log[t][j], faults, LeftBehind(t))
  BY DEF TaskInv, SilentInv
<1>2. ASSUME \A i, j \in DOMAIN log'[t] : i < j => Fine(log'[t][i], log'[t][j], faults', LeftBehind(t)')
      PROVE  SilentInv(t)'
  BY <1>2 DEF SilentInv
<1>3. \A e, f : Fine(e, f, faults, LeftBehind(t)) => Fine(e, f, faults', LeftBehind(t)')
  <2>1. (faults > 0 => faults' > 0) /\ (LeftBehind(t) => LeftBehind(t)')
    BY <1>0, StaysLeft
  <2>. QED
    BY <2>1
<1>. HIDE DEF Fine
<1>4. CASE log'[t] = log[t]
  BY <1>1, <1>2, <1>3, <1>4
<1>5. ASSUME NEW a \in Writers(t), Wrote(t, a)
      PROVE  SilentInv(t)'
  <2>. DEFINE h == Head(todo[a])
              e == EventOf(a)
              m == Len(log[t])
  <2>1. Passes(t, a) /\ h.op = "xadd"
    BY <1>5 DEF Wrote
  <2>2. e.kind = h.arg
    BY <1>5, Logging
  <2>3. /\ m \in Nat /\ DOMAIN log[t] = 1..m /\ DOMAIN log'[t] = 1..(m + 1)
        /\ log'[t][m + 1] = e /\ \A i \in 1..m : log'[t][i] = log[t][i]
    BY <1>5, Logging
  <2>4. VerdictInv(t)
    BY DEF TaskInv
  <2>5. Restricts(t, todo[Run(t)], faults)
    BY <2>4, VerdictParts
  <2>6. /\ todo[a] # <<>>
        /\ a # Run(t) => \/ h.arg \in {"queued", "cancel_requested"}
                         \/ h.arg \in ToolKinds /\ \E r \in Readers : a = Reader(r, t)
    BY <2>1 DEF Passes
  <2>10. LogHas(t, VerdictKinds) /\ (\E r \in Readers : a = Reader(r, t)) => LeftBehind(t)
    <3>1. LogHas(t, VerdictKinds) => ~AtWork(t)
      BY <2>4, WorksBeforeVerdict DEF LogHas, VerdictKinds, ResultKinds
    <3>. QED
      BY <2>6, <3>1 DEF TaskInv, ReaderInv, LeftBehind
  <2>7. a = Run(t) => h \in Range(todo[Run(t)])
    BY <2>1 DEF Passes, Rest
  <2>. HIDE DEF h, e, m
  <2>8. ASSUME NEW i \in 1..m
        PROVE  Fine(log[t][i], e, faults, LeftBehind(t))
    <3>1. CASE a # Run(t)
      <4>1. log[t][i].kind \in VerdictKinds => LogHas(t, VerdictKinds)
        BY <2>3 DEF LogHas
      <4>. QED
        BY <2>2, <2>6, <2>10, <3>1, <4>1 DEF Fine
    <3>2. CASE a = Run(t)
      <4>1. ~LogHas(t, {"error"}) /\ ~LogHas(t, {"cancelled"})
        BY <2>1, <2>5, <2>7, <3>2 DEF Restricts, Closes
      <4>2. LogHas(t, {"ok"}) => h.arg = "error" /\ faults > 0
        BY <2>1, <2>5, <2>7, <3>2 DEF Restricts, Succeeds
      <4>3. log[t][i].kind = "error" => LogHas(t, {"error"})
        BY <2>3 DEF LogHas
      <4>4. log[t][i].kind = "cancelled" => LogHas(t, {"cancelled"})
        BY <2>3 DEF LogHas
      <4>5. log[t][i].kind = "ok" => LogHas(t, {"ok"})
        BY <2>3 DEF LogHas
      <4>. QED
        BY <2>2, <4>1, <4>2, <4>3, <4>4, <4>5 DEF Fine, VerdictKinds, ResultKinds
    <3>. QED
      BY <3>1, <3>2
  <2>9. ASSUME NEW i \in 1..(m + 1), NEW j \in 1..(m + 1), i < j
        PROVE  Fine(log'[t][i], log'[t][j], faults, LeftBehind(t))
    <3>1. i \in 1..m /\ (j \in 1..m \/ j = m + 1)
      BY <2>3, <2>9
    <3>. QED
      BY <1>1, <2>3, <2>8, <2>9, <3>1
  <2>. QED
    BY <1>2, <1>3, <2>3, <2>9
<1>. QED
  BY <1>4, <1>5
  DEF Move, Untouched, Submitted, Asked, Consumed, AppendMove, Drew, Published, RunMove, Set, WentOn,
      Acked, Decided, ReadMove, LeftAlone, BegunLine, FaultMove, Raised, CutShort, Stopped, Abandoned, KeepsLog

-----------------------------------------------------------------------------
(***************************************************************************)
(* The status and the log.                                                 *)
(***************************************************************************)

\* A status is announced by one event.
LEMMA AnnouncesOnce ==
  /\ \A k \in VerdictKinds : Announces(k) \in Verdicts
  /\ \A k, j \in VerdictKinds : Announces(k) = Announces(j) => k = j
BY DEF Announces, Verdicts, VerdictKinds, ResultKinds

\* A status that is told stays told while it is shown or still to be set.
LEMMA StaysTold ==
  ASSUME NEW t, status'[t] = status[t],
         \A s : Do("hset", s) \in Range(todo[Run(t)]) => Do("hset", s) \in Range(todo'[Run(t)])
  PROVE  \A S : Told(t, S) => Told(t, S)'
<1>1. ASSUME NEW s, Pending(t, s)
      PROVE  Pending(t, s)'
  BY <1>1 DEF Pending, Run
<1>. QED
  BY <1>1 DEF Told

\* No event is lost from a log.
LEMMA LogGrows ==
  ASSUME RedisTypeOK, NEW t \in Tasks, TaskInv(t), Move(t)
  PROVE  \A K : LogHas(t, K) => LogHas(t, K)'
<1>1. ASSUME NEW a \in Writers(t), Wrote(t, a)
      PROVE  \A K : LogHas(t, K) => LogHas(t, K)'
  <2>1. \A K : LogHas(t, K)' <=> LogHas(t, K) \/ EventOf(a).kind \in K
    BY <1>1, Logging
  <2>. QED
    BY <2>1
<1>2. CASE log'[t] = log[t]
  BY <1>2, LogStays
<1>. QED
  BY <1>1, <1>2
  DEF Move, Untouched, Submitted, Asked, Consumed, AppendMove, Drew, Published, RunMove, Set, WentOn,
      Acked, Decided, ReadMove, LeftAlone, BegunLine, FaultMove, Raised, CutShort, Stopped, Abandoned, KeepsLog

\* A status follows its event, and comes unless a fault prevents it.
LEMMA KeepsStatus ==
  ASSUME RedisTypeOK, NEW t \in Tasks, TaskInv(t), Move(t)
  PROVE  StatusInv(t)'
<1>. DEFINE s == todo[Run(t)]
            r == todo'[Run(t)]
            h == Head(s)
            d == Head(r)
<1>0. /\ Run(t) \in Writers(t)
      /\ Run(t) # Create(t) /\ Run(t) # Cancel(t)
  BY WritersAreActors
<1>1. StatusInv(t) /\ FreshInv(t) /\ VerdictInv(t) /\ Scripted(t)
  BY DEF TaskInv
<1>2. /\ s # <<>> /\ h.op = "publish" => \A k \in Kinds : h.arg = k => LogHas(t, {k})
      /\ s # <<>> /\ h.op = "hset" => \A k \in VerdictKinds : h.arg = Announces(k) => LogHas(t, {k})
      /\ \A k \in VerdictKinds : status[t] = Announces(k) => LogHas(t, {k})
  BY <1>1 DEF StatusInv, At, Arg
<1>3. t \notin cut =>
        /\ LogHas(t, {"error"}) => Told(t, {"failed"})
        /\ LogHas(t, {"cancelled"}) => Told(t, {"cancelled"})
        /\ LogHas(t, {"ok"}) => Told(t, {"succeeded", "failed"})
  BY <1>1 DEF StatusInv
<1>4. Restricts(t, s, faults)
  BY <1>1, VerdictParts
<1>5. \A K : LogHas(t, K) => LogHas(t, K)'
  BY LogGrows
<1>. DEFINE Shown == /\ r # <<>> /\ d.op = "publish" => \A k \in Kinds : d.arg = k => LogHas(t, {k})'
                     /\ r # <<>> /\ d.op = "hset" => \A k \in VerdictKinds : d.arg = Announces(k) => LogHas(t, {k})'
                     /\ \A k \in VerdictKinds : status'[t] = Announces(k) => LogHas(t, {k})'
            Comes == t \notin cut' =>
                       /\ LogHas(t, {"error"})' => Told(t, {"failed"})'
                       /\ LogHas(t, {"cancelled"})' => Told(t, {"cancelled"})'
                       /\ LogHas(t, {"ok"})' => Told(t, {"succeeded", "failed"})'
<1>6. Shown /\ Comes => StatusInv(t)'
  BY DEF StatusInv, At, Arg, Run
<1>7. ASSUME NEW K, LogHas(t, K), K \in {{"error"}, {"cancelled"}, {"ok"}}
      PROVE  LogHas(t, VerdictKinds)
  BY <1>7 DEF LogHas, VerdictKinds, ResultKinds
<1>8. "absent" \notin Verdicts /\ "queued" \notin Verdicts /\ "running" \notin Verdicts
  BY DEF Verdicts
<1>9. ASSUME r = s, status'[t] = status[t], t \in cut' <=> t \in cut,
             \A K \in {{"error"}, {"cancelled"}, {"ok"}} : LogHas(t, K)' => LogHas(t, K)
      PROVE  StatusInv(t)'
  <2>1. \A S : Told(t, S) => Told(t, S)'
    BY <1>9, StaysTold
  <2>2. Shown
    BY <1>2, <1>5, <1>9
  <2>3. Comes
    BY <1>3, <1>9, <2>1
  <2>. QED
    BY <1>6, <2>2, <2>3
<1>10. CASE Untouched(t) \/ Asked(t)
  <2>1. log'[t] = log[t] /\ r = s /\ status'[t] = status[t] /\ (t \in cut' <=> t \in cut)
    BY <1>0, <1>10 DEF Untouched, Asked, KeepsRecord, KeepsMeta, KeepsLog, KeepsScript, OthersKeep, KeepsFate, KeepsCut
  <2>. QED
    BY <1>9, <2>1, LogStays
<1>11. ASSUME NEW a \in Writers(t), Abandoned(t, a) \/ (a # Run(t) /\ (Drew(t, a) \/ Published(t, a)))
       PROVE  StatusInv(t)'
  <2>1. log'[t] = log[t] /\ r = s /\ status'[t] = status[t] /\ (t \in cut' <=> t \in cut)
    BY <1>0, <1>11 DEF Abandoned, Drew, Published, Passes, KeepsRecord, KeepsMeta, KeepsLog, KeepsScript, OthersKeep, KeepsFate, KeepsCut
  <2>. QED
    BY <1>9, <2>1, LogStays
<1>12. ASSUME NEW a \in Writers(t), a # Run(t), Wrote(t, a)
       PROVE  StatusInv(t)'
  <2>1. r = s /\ status'[t] = status[t] /\ (t \in cut' <=> t \in cut)
        /\ Head(todo[a]).arg \in {"queued", "cancel_requested"} \cup ToolKinds
    BY <1>0, <1>12 DEF Wrote, Passes, KeepsRecord, KeepsMeta, KeepsScript, OthersKeep, KeepsFate, KeepsCut
  <2>2. EventOf(a).kind = Head(todo[a]).arg
    BY <1>12, Logging
  <2>3. \A K : LogHas(t, K)' <=> LogHas(t, K) \/ EventOf(a).kind \in K
    BY <1>12, Logging
  <2>4. \A K \in {{"error"}, {"cancelled"}, {"ok"}} : LogHas(t, K)' => LogHas(t, K)
    BY <2>1, <2>2, <2>3, ReaderAssumption
  <2>. QED
    BY <1>9, <2>1, <2>4
<1>13. CASE Submitted(t)
  <2>1. log'[t] = log[t] /\ r = s /\ status[t] = "absent" /\ status'[t] = "queued"
    BY <1>0, <1>13 DEF Submitted, KeepsScript, OthersKeep
  <2>2. s = <<>> /\ log[t] = <<>>
    BY <1>1, <2>1 DEF FreshInv
  <2>3. \A K : ~LogHas(t, K)'
    <3>1. DOMAIN <<>> = {}
      OBVIOUS
    <3>. QED
      BY <2>1, <2>2, <3>1 DEF LogHas
  <2>4. Shown
    BY <1>8, <2>1, <2>2, AnnouncesOnce
  <2>. QED
    BY <1>6, <2>3, <2>4
<1>14. ASSUME r # <<>> => d.op \notin {"publish", "hset"},
              status'[t] = status[t]
       PROVE  Shown
  BY <1>2, <1>5, <1>14
<1>15. CASE Consumed(t)
  <2>1. log'[t] = log[t] /\ home[t] = NoWorker /\ status'[t] = status[t] /\ NewScript(t, r)
    BY <1>15 DEF Consumed, KeepsLog, KeepsMeta
  <2>2. ~LogHas(t, VerdictKinds)
    BY <1>1, <2>1 DEF FreshInv, LogHas
  <2>3. \A K \in {{"error"}, {"cancelled"}, {"ok"}} : ~LogHas(t, K)'
    BY <1>7, <2>1, <2>2, LogStays
  <2>4. Comes
    BY <2>3
  <2>5. Shown
    BY <1>14, <2>1 DEF NewScript
  <2>. QED
    BY <1>6, <2>4, <2>5
<1>16. CASE Decided(t)
  <2>1. log'[t] = log[t] /\ status'[t] = status[t] /\ NewScript(t, r) /\ s # <<>>
        /\ h.op \in {"test", "setup", "enter"}
    BY <1>16 DEF Decided, KeepsRecord, KeepsMeta, KeepsLog
  <2>2. h \in Range(s)
    BY <1>0, <1>1, <2>1, HeadsAreSound
  <2>3. ~LogHas(t, {"error"}) /\ ~LogHas(t, {"cancelled"}) /\ ~LogHas(t, {"ok"})
    BY <1>4, <2>1, <2>2 DEF Restricts, Closes, Succeeds, AppendOps
  <2>4. \A K : LogHas(t, K)' <=> LogHas(t, K)
    BY <2>1, LogStays
  <2>5. Comes
    BY <2>3, <2>4
  <2>6. Shown
    BY <1>14, <2>1 DEF NewScript
  <2>. QED
    BY <1>6, <2>5, <2>6
<1>17. CASE Raised(t)
  <2>1. log'[t] = log[t] /\ status'[t] = status[t] /\ NewScript(t, r) /\ Ahead(Run(t), "leave")
        /\ Do("hset", "failed") \in Range(r)
    BY <1>17 DEF Raised, KeepsRecord, KeepsMeta, KeepsLog, InSession
  <2>2. PICK c \in Range(s) : c.op = "leave"
    BY <2>1, AheadInRange
  <2>3. ~LogHas(t, {"error"}) /\ ~LogHas(t, {"cancelled"})
    BY <1>4, <2>2 DEF Restricts, Closes
  <2>4. \A K : LogHas(t, K)' <=> LogHas(t, K)
    BY <2>1, LogStays
  <2>5. Told(t, {"succeeded", "failed"})'
    BY <2>1 DEF Told, Pending, Run
  <2>6. Comes
    BY <2>3, <2>4, <2>5
  <2>7. Shown
    BY <1>14, <2>1 DEF NewScript
  <2>. QED
    BY <1>6, <2>6, <2>7
<1>18. CASE CutShort(t)
  <2>1. status'[t] = status[t] /\ t \in cut' /\ (r # <<>> => d.op = "ack")
    BY <1>18, ShortScripts DEF CutShort, KeepsRecord, KeepsMeta
  <2>. QED
    BY <1>6, <1>14, <2>1
<1>19. ASSUME Passes(t, Run(t))
       PROVE  /\ s # <<>> /\ h \in Range(s) /\ h \in Sound
              /\ r # <<>> => Follows(h, d)
              /\ \A c \in Range(s) : c = h \/ c \in Range(r)
  BY <1>19 DEF Passes, Rest
<1>20. ASSUME Passes(t, Run(t)), h.op # "hset", status'[t] = status[t], t \in cut' <=> t \in cut,
              \A K \in {{"error"}, {"cancelled"}, {"ok"}} : LogHas(t, K)' => LogHas(t, K)
       PROVE  Comes
  <2>1. \A u : Do("hset", u) \in Range(s) => Do("hset", u) \in Range(r)
    <3>1. \A u : Do("hset", u).op = "hset"
      BY DEF Do
    <3>. QED
      BY <1>19, <1>20, <3>1
  <2>2. \A S : Told(t, S) => Told(t, S)'
    BY <1>20, <2>1, StaysTold
  <2>. QED
    BY <1>3, <1>20, <2>2
<1>21. ASSUME Passes(t, Run(t)), h.op \notin {"xadd", "publish"},
              \A k \in VerdictKinds : status'[t] = Announces(k) => LogHas(t, {k})
       PROVE  Shown
  <2>1. r # <<>> => d.op # "publish" /\ (d.op = "hset" => d.arg \notin Verdicts)
    BY <1>19, <1>21 DEF Follows
  <2>. QED
    BY <1>5, <1>21, <2>1, AnnouncesOnce
<1>22. CASE Drew(t, Run(t)) \/ WentOn(t) \/ Acked(t)
  <2>1. /\ Passes(t, Run(t)) /\ h.op \notin {"xadd", "publish", "hset"}
        /\ log'[t] = log[t] /\ status'[t] = status[t] /\ (t \in cut' <=> t \in cut)
    BY <1>22 DEF Drew, WentOn, Acked, KeepsRecord, KeepsMeta, KeepsLog, KeepsFate, KeepsCut
  <2>2. \A K : LogHas(t, K)' <=> LogHas(t, K)
    BY <2>1, LogStays
  <2>3. Comes
    BY <1>20, <2>1, <2>2
  <2>4. Shown
    BY <1>2, <1>21, <2>1
  <2>. QED
    BY <1>6, <2>3, <2>4
<1>23. CASE Published(t, Run(t))
  <2>1. /\ Passes(t, Run(t)) /\ h.op = "publish"
        /\ log'[t] = log[t] /\ status'[t] = status[t] /\ (t \in cut' <=> t \in cut)
    BY <1>23 DEF Published, KeepsMeta, KeepsLog, KeepsFate, KeepsCut
  <2>2. \A K : LogHas(t, K)' <=> LogHas(t, K)
    BY <2>1, LogStays
  <2>3. Comes
    BY <1>20, <2>1, <2>2
  <2>4. \A k : h.arg = k => LogHas(t, {k})'
    BY <1>2, <1>5, <1>19, <2>1 DEF Sound, AppendOps
  <2>5. r # <<>> => d.op # "publish"
    BY <1>19, <2>1 DEF Follows
  <2>6. r # <<>> /\ d.op = "hset" => \A k \in VerdictKinds : d.arg = Announces(k) => LogHas(t, {k})'
    <3>. SUFFICES ASSUME r # <<>>, d.op = "hset", NEW k \in VerdictKinds, d.arg = Announces(k)
                  PROVE  LogHas(t, {k})'
      OBVIOUS
    <3>1. Follows(h, d) /\ d.arg \in Verdicts
      BY <1>19, <2>1, AnnouncesOnce
    <3>2. h.arg \in VerdictKinds /\ d.arg = Announces(h.arg)
      BY <3>1 DEF Follows
    <3>3. h.arg = k
      BY <3>2, AnnouncesOnce
    <3>. QED
      BY <2>4, <3>3
  <2>7. \A k \in VerdictKinds : status'[t] = Announces(k) => LogHas(t, {k})'
    BY <1>2, <1>5, <2>1
  <2>8. Shown
    BY <2>5, <2>6, <2>7
  <2>. QED
    BY <1>6, <2>3, <2>8
<1>24. CASE Wrote(t, Run(t))
  <2>1. /\ Passes(t, Run(t)) /\ h.op = "xadd"
        /\ status'[t] = status[t] /\ (t \in cut' <=> t \in cut)
        /\ h.arg \in VerdictKinds => Do("hset", Announces(h.arg)) \in Range(r)
    BY <1>24 DEF Wrote, Passes, KeepsRecord, KeepsMeta, KeepsFate, KeepsCut
  <2>2. EventOf(Run(t)).kind = h.arg
    BY <1>24, <1>0, Logging
  <2>3. \A K : LogHas(t, K)' <=> LogHas(t, K) \/ EventOf(Run(t)).kind \in K
    BY <1>24, <1>0, Logging
  <2>4. \A K : LogHas(t, K)' <=> LogHas(t, K) \/ h.arg \in K
    BY <2>2, <2>3
  <2>5. Shown
    <3>1. r # <<>> => d.op # "hset" \/ d.arg \notin Verdicts
      BY <1>19, <2>1 DEF Follows
    <3>2. r # <<>> /\ d.op = "publish" => d.arg = h.arg
      BY <1>19, <2>1 DEF Follows
    <3>3. \A k : h.arg = k => LogHas(t, {k})'
      BY <2>4
    <3>4. r # <<>> /\ d.op = "hset" => \A k \in VerdictKinds : d.arg = Announces(k) => LogHas(t, {k})'
      BY <3>1, AnnouncesOnce
    <3>5. \A k \in VerdictKinds : status'[t] = Announces(k) => LogHas(t, {k})'
      BY <1>2, <1>5, <2>1
    <3>. QED
      BY <3>2, <3>3, <3>4, <3>5
  <2>6. CASE h.arg \notin {"error", "cancelled", "ok"}
    <3>1. \A K \in {{"error"}, {"cancelled"}, {"ok"}} : LogHas(t, K)' => LogHas(t, K)
      BY <2>4, <2>6
    <3>2. Comes
      BY <1>20, <2>1, <3>1
    <3>. QED
      BY <1>6, <2>5, <3>2
  <2>7. ASSUME NEW k \in {"error", "cancelled", "ok"}, h.arg = k
        PROVE  Comes
    <3>1. Do("hset", Announces(k)) \in Range(r)
      BY <2>1, <2>7 DEF VerdictKinds, ResultKinds
    <3>2. \A S : Announces(k) \in S => Told(t, S)'
      <4>1. Pending(t, Announces(k))'
        BY <3>1 DEF Pending, Run
      <4>. QED
        BY <4>1 DEF Told
    <3>3. h \in Range(s)
      BY <1>19, <2>1
    <3>4. ~LogHas(t, {"error"}) /\ ~LogHas(t, {"cancelled"})
      BY <1>4, <2>1, <3>3 DEF Restricts, Closes
    <3>5. LogHas(t, {"ok"}) => k = "error"
      BY <1>4, <2>1, <2>7, <3>3 DEF Restricts, Succeeds
    <3>6. /\ LogHas(t, {"error"})' => k = "error"
          /\ LogHas(t, {"cancelled"})' => k = "cancelled"
          /\ LogHas(t, {"ok"})' => k \in {"ok", "error"}
      <4>1. LogHas(t, {"error"})' <=> LogHas(t, {"error"}) \/ h.arg \in {"error"}
        BY <2>4
      <4>2. LogHas(t, {"cancelled"})' <=> LogHas(t, {"cancelled"}) \/ h.arg \in {"cancelled"}
        BY <2>4
      <4>3. LogHas(t, {"ok"})' <=> LogHas(t, {"ok"}) \/ h.arg \in {"ok"}
        BY <2>4
      <4>. QED
        BY <2>7, <3>4, <3>5, <4>1, <4>2, <4>3
    <3>7. Announces("error") = "failed" /\ Announces("cancelled") = "cancelled" /\ Announces("ok") = "succeeded"
      BY VerdictsAnnounced
    <3>. QED
      BY <3>2, <3>6, <3>7
  <2>. QED
    BY <1>6, <2>5, <2>6, <2>7
<1>25. CASE Set(t)
  <2>1. /\ Passes(t, Run(t)) /\ h.op = "hset" /\ status'[t] = h.arg
        /\ log'[t] = log[t]
    BY <1>25 DEF Set, KeepsLog
  <2>2. \A K : LogHas(t, K)' <=> LogHas(t, K)
    BY <2>1, LogStays
  <2>3. s # <<>> /\ h \in Range(s)
    BY <1>19, <2>1
  <2>4. Shown
    BY <1>2, <1>21, <2>1, <2>3
  <2>5. \A S : h.arg \in S => Told(t, S)'
    BY <2>1 DEF Told
  <2>6. /\ LogHas(t, {"error"}) => h.arg = "failed"
        /\ LogHas(t, {"cancelled"}) => h.arg = "cancelled"
        /\ LogHas(t, {"ok"}) => h.arg \in {"succeeded", "failed"}
    BY <1>4, <2>1, <2>3 DEF Restricts, Closes, Succeeds
  <2>7. Comes
    BY <2>2, <2>5, <2>6
  <2>. QED
    BY <1>6, <2>4, <2>7
<1>26. CASE ReadMove(t)
  <2>1. log'[t] = log[t] /\ r = s /\ status'[t] = status[t] /\ (t \in cut' <=> t \in cut)
    BY <1>26, ReadersApart DEF KeepsRecord, KeepsMeta, KeepsLog, KeepsScript, KeepsCut
  <2>. QED
    BY <1>9, <2>1, LogStays
<1>27. CASE Stopped(t)
  <2>1. /\ log'[t] = log[t] /\ r = <<>> /\ status'[t] = status[t]
        /\ t \in cut' <=> t \in cut \/ s # <<>>
    BY <1>27 DEF Stopped, KeepsRecord, KeepsMeta, KeepsLog, Live
  <2>2. CASE s = <<>>
    BY <1>9, <2>1, <2>2, LogStays
  <2>3. CASE s # <<>>
    BY <1>6, <1>14, <2>1, <2>3
  <2>. QED
    BY <2>2, <2>3
<1>. QED
  BY <1>10, <1>11, <1>12, <1>13, <1>15, <1>16, <1>17, <1>18, <1>22, <1>23, <1>24, <1>25, <1>26, <1>27
  DEF Move, AppendMove, RunMove, FaultMove

-----------------------------------------------------------------------------
(***************************************************************************)
(* The conclusion of a run.                                                *)
(***************************************************************************)

\* A run still comes to a verdict after a step.
LEMMA KeepsConclusion ==
  ASSUME RedisTypeOK, NEW t \in Tasks, TaskInv(t), Move(t)
  PROVE  ConclusionInv(t)'
<1>. DEFINE s == todo[Run(t)]
            r == todo'[Run(t)]
            h == Head(s)
            C == Range(s)
            D == Range(r)
<1>0. /\ Run(t) \in Writers(t)
      /\ Run(t) # Create(t) /\ Run(t) # Cancel(t)
  BY WritersAreActors
<1>1. /\ FreshInv(t) /\ Scripted(t) /\ StatusInv(t)
      /\ Restricts(t, s, faults)
      /\ home[t] = NoWorker => s = <<>>
      /\ t \in cut => home[t] # NoWorker /\ \A c \in C : c.op = "ack"
      /\ home[t] # NoWorker /\ t \notin cut => status[t] \in Verdicts \/ Concluding(C)
  BY VerdictParts DEF TaskInv, ConclusionInv, FreshInv
<1>2. ASSUME t \in cut' => home'[t] # NoWorker /\ \A c \in D : c.op = "ack",
             home'[t] # NoWorker /\ t \notin cut' => status'[t] \in Verdicts \/ Concluding(D)
      PROVE  ConclusionInv(t)'
  BY <1>2 DEF ConclusionInv, Run, Concluding
<1>3. s # <<>> => h \in C /\ h \in Sound
  BY <1>0, <1>1, HeadsAreSound
<1>. HIDE DEF C, D
<1>4. ASSUME KeepsCut(t), KeepsHome(t), D \subseteq C,
             status[t] \in Verdicts \/ Concluding(C) => status'[t] \in Verdicts \/ Concluding(D)
      PROVE  ConclusionInv(t)'
  BY <1>1, <1>2, <1>4 DEF KeepsCut, KeepsHome
<1>5. ASSUME r = s, KeepsCut(t), KeepsHome(t), status'[t] = status[t] \/ status[t] = "absent"
      PROVE  ConclusionInv(t)'
  <2>1. D = C
    BY <1>5 DEF C, D
  <2>2. "absent" \notin Verdicts
    BY DEF Verdicts
  <2>. QED
    BY <1>4, <1>5, <2>1, <2>2
<1>6. CASE Untouched(t) \/ Asked(t) \/ Submitted(t)
  <2>1. r = s
    BY <1>0, <1>6 DEF Untouched, Asked, Submitted, OthersKeep, KeepsScript
  <2>. QED
    BY <1>5, <1>6, <2>1 DEF Untouched, Asked, Submitted, KeepsRecord, KeepsMeta, KeepsFate
<1>7. ASSUME NEW a \in Writers(t), a # Run(t), AppendMove(t, a) \/ Abandoned(t, a)
      PROVE  ConclusionInv(t)'
  <2>1. r = s
    BY <1>0, <1>7 DEF AppendMove, Drew, Wrote, Published, Passes, Abandoned, OthersKeep, KeepsScript
  <2>. QED
    BY <1>5, <1>7, <2>1 DEF AppendMove, Drew, Wrote, Published, Abandoned, KeepsRecord, KeepsMeta, KeepsFate
<1>8. ASSUME Passes(t, Run(t)), KeepsCut(t), KeepsHome(t), status'[t] = status[t],
             h.op \notin {"hset", "setup", "enter"}
      PROVE  ConclusionInv(t)'
  <2>1. D \subseteq C /\ \A c \in C : c = h \/ c \in D
    BY <1>8 DEF Passes, Rest, C, D
  <2>. HIDE DEF h
  <2>2. Concluding(C) => Concluding(D)
    BY <1>8, <2>1 DEF Concluding
  <2>. QED
    BY <1>4, <1>8, <2>1, <2>2
<1>9. CASE AppendMove(t, Run(t)) \/ WentOn(t) \/ Acked(t)
  <2>1. h.op \in {"incr", "xadd", "publish", "start", "test", "join", "save", "leave", "ack"}
    BY <1>9 DEF AppendMove, Drew, Wrote, Published, WentOn, Acked
  <2>2. Passes(t, Run(t)) /\ KeepsCut(t) /\ KeepsHome(t) /\ status'[t] = status[t]
    BY <1>9 DEF AppendMove, Drew, Wrote, Published, WentOn, Acked, KeepsRecord, KeepsMeta, KeepsFate
  <2>3. h.op \notin {"hset", "setup", "enter"}
    BY <2>1
  <2>. HIDE DEF h
  <2>. QED
    BY <1>8, <2>2, <2>3
<1>10. CASE Set(t)
  <2>1. /\ Passes(t, Run(t)) /\ h.op = "hset" /\ status'[t] = h.arg /\ KeepsHome(t) /\ KeepsCut(t)
        /\ s # <<>>
    BY <1>10 DEF Set, Passes, KeepsFate
  <2>2. D \subseteq C /\ \A c \in C : c = h \/ c \in D
    BY <2>1 DEF Passes, Rest, C, D
  <2>3. status[t] \in Verdicts => h.arg \in Verdicts
    <3>1. /\ status[t] = "failed" => LogHas(t, {"error"})
          /\ status[t] = "cancelled" => LogHas(t, {"cancelled"})
          /\ status[t] = "succeeded" => LogHas(t, {"ok"})
      BY <1>1, VerdictsAnnounced DEF StatusInv, VerdictKinds, ResultKinds
    <3>2. LogHas(t, {"error"}) \/ LogHas(t, {"cancelled"}) \/ LogHas(t, {"ok"}) =>
            h.arg \in {"failed", "cancelled", "succeeded"}
      BY <1>1, <1>3, <2>1 DEF Restricts, Closes, Succeeds, C
    <3>. QED
      BY <3>1, <3>2 DEF Verdicts
  <2>. HIDE DEF h
  <2>4. Concluding(C) => h.arg \in Verdicts \/ Concluding(D)
    BY <2>1, <2>2 DEF Concluding
  <2>. QED
    BY <1>4, <2>1, <2>2, <2>3, <2>4
<1>11. CASE Consumed(t)
  <2>1. KeepsCut(t) /\ home[t] = NoWorker /\ Concluding(D)
    BY <1>11 DEF Consumed, NewScript, KeepsFate, D
  <2>. QED
    BY <1>1, <1>2, <2>1 DEF KeepsCut
<1>12. CASE Decided(t)
  <2>1. KeepsCut(t) /\ Concluding(D) /\ s # <<>> /\ h.op # "ack"
    BY <1>12 DEF Decided, NewScript, KeepsFate, D
  <2>. QED
    BY <1>1, <1>2, <1>3, <2>1 DEF KeepsCut
<1>13. CASE Raised(t)
  <2>1. KeepsCut(t) /\ Concluding(D) /\ Ahead(Run(t), "leave")
    BY <1>13 DEF Raised, NewScript, InSession, D
  <2>2. PICK c \in C : c.op = "leave"
    BY <2>1, AheadInRange DEF C
  <2>. QED
    BY <1>1, <1>2, <2>1, <2>2 DEF KeepsCut
<1>14. CASE CutShort(t)
  <2>1. t \in cut' /\ home'[t] = home[t] /\ s # <<>>
    BY <1>14 DEF CutShort, KeepsRecord, KeepsHome
  <2>2. \A c \in D : c.op = "ack"
    BY <1>14, ShortScripts DEF CutShort, D
  <2>. QED
    BY <1>1, <1>2, <2>1, <2>2
<1>15. \A a \in Writers(t) : Abandoned(t, a) => a # Run(t)
  BY <1>0 DEF Abandoned
<1>16. CASE ReadMove(t)
  <2>1. r = s /\ KeepsCut(t) /\ KeepsHome(t) /\ status'[t] = status[t]
    BY <1>16, ReadersApart DEF KeepsRecord, KeepsMeta, KeepsScript
  <2>. QED
    BY <1>5, <2>1
<1>17. CASE Stopped(t)
  <2>1. /\ home'[t] = home[t] /\ home[t] # NoWorker /\ status'[t] = status[t] /\ r = <<>>
        /\ t \in cut' <=> t \in cut \/ s # <<>>
    BY <1>17 DEF Stopped, KeepsRecord, KeepsMeta, KeepsHome, Live
  <2>2. CASE s = <<>>
    <3>1. r = s /\ KeepsCut(t) /\ KeepsHome(t)
      BY <2>1, <2>2 DEF KeepsCut, KeepsHome
    <3>. QED
      BY <1>5, <2>1, <3>1
  <2>3. CASE s # <<>>
    <3>1. D = {}
      BY <2>1, ShortScripts DEF D
    <3>. QED
      BY <1>2, <2>1, <2>3, <3>1
  <2>. QED
    BY <2>2, <2>3
<1>. QED
  BY <1>6, <1>7, <1>9, <1>10, <1>11, <1>12, <1>13, <1>14, <1>15, <1>16, <1>17 DEF Move, RunMove, FaultMove

-----------------------------------------------------------------------------
(***************************************************************************)
(* The numbers of the events.                                              *)
(***************************************************************************)

\* Numbers drawn that are neither in the log nor in a writer's hand.
Missing(t) == (1..seq[t]) \ (Logged(t) \cup InHand(t))

\* A number in hand is that of a writer about to log it.
LEMMA InHandOf ==
  ASSUME NEW t \in Tasks
  PROVE  /\ \A n : n \in InHand(t) <=> \E a \in Writers(t) : At(a, "xadd") /\ held[a] = n
         /\ \A n : n \in InHand(t)' <=> \E a \in Writers(t) : At(a, "xadd")' /\ held'[a] = n
<1>1. \A a : a \in Actors /\ a[2] = t <=> a \in Writers(t)
  BY WritersAreActors
<1>2. InHand(t) = {held[a] : a \in {b \in Actors : b[2] = t /\ At(b, "xadd")}}
  BY DEF InHand
<1>3. InHand(t)' = {held'[a] : a \in {b \in Actors : b[2] = t /\ At(b, "xadd")'}}
  BY DEF InHand
<1>. QED
  BY <1>1, <1>2, <1>3

\* What one fault can take adds up: a multiple of the writers that end with a run.
LEMMA Shares ==
  ASSUME NEW f \in Nat
  PROVE  /\ WritersOfRun \in Nat /\ WritersOfRun = Cardinality(Readers) + 1 /\ WritersOfRun >= 1
         /\ f * WritersOfRun \in Nat
         /\ (f + 1) * WritersOfRun = f * WritersOfRun + WritersOfRun
         /\ \A g \in Nat : g >= f => g * WritersOfRun >= f * WritersOfRun
<1>1. Cardinality(Readers) \in Nat
  BY ReaderAssumption, FS_CardinalityType
<1>. DEFINE w == WritersOfRun
<1>2. w \in Nat /\ w = Cardinality(Readers) + 1 /\ w >= 1
  BY <1>1 DEF WritersOfRun
<1>. HIDE DEF w
<1>3. f * w \in Nat /\ (f + 1) * w = f * w + w
  BY <1>2
<1>4. ASSUME NEW g \in Nat, g >= f
      PROVE  g * w >= f * w
  <2>. DEFINE d == g - f
  <2>1. d \in Nat /\ g = f + d
    BY <1>4
  <2>. HIDE DEF d
  <2>2. d * w \in Nat /\ (f + d) * w = f * w + d * w
    BY <1>2, <2>1
  <2>. QED
    BY <1>3, <2>1, <2>2
<1>. QED
  BY <1>2, <1>3, <1>4 DEF w

\* Some more numbers missing are as many more at most.
LEMMA MoreMissing ==
  ASSUME NEW n \in Nat, NEW D, D \subseteq 1..n, NEW f \in Nat, Cardinality(D) <= f, NEW E
  PROVE  /\ E \subseteq D => Cardinality(E) <= f
         /\ \A X : IsFiniteSet(X) /\ E \subseteq D \cup X => Cardinality(E) <= f + Cardinality(X)
<1>1. IsFiniteSet(D) /\ Cardinality(D) \in Nat
  <2>1. 1 \in Int /\ n \in Int
    OBVIOUS
  <2>2. IsFiniteSet(1..n)
    BY <2>1, FS_Interval
  <2>. QED
    BY <2>2, FS_Subset, FS_CardinalityType
<1>2. ASSUME NEW F, IsFiniteSet(F), E \subseteq F, NEW g \in Nat, Cardinality(F) <= g
      PROVE  Cardinality(E) <= g
  <2>1. IsFiniteSet(E) /\ Cardinality(E) <= Cardinality(F)
    BY <1>2, FS_Subset
  <2>2. Cardinality(E) \in Nat /\ Cardinality(F) \in Nat
    BY <1>2, <2>1, FS_CardinalityType
  <2>. QED
    BY <1>2, <2>1, <2>2
<1>3. E \subseteq D => Cardinality(E) <= f
  BY <1>1, <1>2
<1>4. ASSUME NEW X, IsFiniteSet(X), E \subseteq D \cup X
      PROVE  Cardinality(E) <= f + Cardinality(X)
  <2>1. IsFiniteSet(D \cup X) /\ Cardinality(D \cup X) = Cardinality(D) + Cardinality(X) - Cardinality(D \cap X)
    BY <1>1, <1>4, FS_Union
  <2>2. IsFiniteSet(D \cap X)
    <3>1. D \cap X \subseteq D
      OBVIOUS
    <3>. QED
      BY <1>1, <3>1, FS_Subset
  <2>3. Cardinality(D \cap X) \in Nat /\ Cardinality(X) \in Nat
    BY <1>4, <2>2, FS_CardinalityType
  <2>4. Cardinality(D \cup X) <= f + Cardinality(X) /\ f + Cardinality(X) \in Nat
    BY <1>1, <2>1, <2>3
  <2>. QED
    BY <1>2, <1>4, <2>1, <2>4
<1>. QED
  BY <1>3, <1>4

\* The parts of NumberInv after a step.
LEMMA NumbersAfter ==
  ASSUME NEW t,
         \A i, j \in DOMAIN log'[t] : log'[t][i].seq = log'[t][j].seq => i = j,
         \A i \in DOMAIN log'[t] : log'[t][i].seq \in 1..seq'[t],
         \A a \in Writers(t) : At(a, "xadd")' =>
           /\ held'[a] \in 1..seq'[t]
           /\ \A i \in DOMAIN log'[t] : log'[t][i].seq # held'[a]
           /\ \A b \in Writers(t) : At(b, "xadd")' /\ held'[b] = held'[a] => a = b,
         Cardinality(Missing(t)') <= faults' * WritersOfRun
  PROVE  NumberInv(t)'
BY DEF NumberInv, Missing, Writers, Run, Create, Cancel, Reader, WritersOfRun

\* A writer keeps the number it is about to log.
Holds(a) == At(a, "xadd") => At(a, "xadd")' /\ held'[a] = held[a]

\* No writer but b has another number to log than before.
OthersHold(t, b) ==
  /\ \A a \in Writers(t) : a # b => Holds(a)
  /\ \A a \in Writers(t) : a # b /\ At(a, "xadd")' => At(a, "xadd") /\ held'[a] = held[a]

\* What NumberInv says, one part at a time.
LEMMA NumberParts ==
  ASSUME RedisTypeOK, NEW t \in Tasks, NumberInv(t)
  PROVE  /\ \A i, j \in DOMAIN log[t] : log[t][i].seq = log[t][j].seq => i = j
         /\ \A i \in DOMAIN log[t] : log[t][i].seq \in 1..seq[t]
         /\ \A a \in Writers(t) : At(a, "xadd") => held[a] \in 1..seq[t]
         /\ \A a \in Writers(t) : At(a, "xadd") => \A i \in DOMAIN log[t] : log[t][i].seq # held[a]
         /\ \A a, b \in Writers(t) : At(a, "xadd") /\ At(b, "xadd") /\ held[b] = held[a] => a = b
         /\ seq[t] \in Nat /\ Missing(t) \subseteq 1..seq[t]
         /\ Cardinality(Missing(t)) <= faults * WritersOfRun
         /\ faults \in Nat /\ faults * WritersOfRun \in Nat
<1>1. seq[t] \in Nat /\ faults \in Nat
  BY BoundAssumption DEF RedisTypeOK, StoreTypeOK
<1>2. Missing(t) \subseteq 1..seq[t] /\ Cardinality(Missing(t)) <= faults * WritersOfRun
  BY DEF Missing, NumberInv
<1>3. faults * WritersOfRun \in Nat
  BY <1>1, Shares
<1>. QED
  BY <1>1, <1>2, <1>3 DEF NumberInv

\* No number is drawn and none is logged: some may be lost, to a fault.
LEMMA NumbersLost ==
  ASSUME RedisTypeOK, NEW t \in Tasks, NumberInv(t),
         log'[t] = log[t], seq'[t] = seq[t], faults' \in Nat, faults' >= faults,
         \A a \in Writers(t) : At(a, "xadd")' => At(a, "xadd") /\ held'[a] = held[a],
         NEW X, IsFiniteSet(X), Cardinality(X) <= WritersOfRun,
         \A a \in Writers(t) : Holds(a) \/ (faults' = faults + 1 /\ held[a] \in X)
  PROVE  NumberInv(t)'
<1>1. /\ \A i, j \in DOMAIN log[t] : log[t][i].seq = log[t][j].seq => i = j
      /\ \A i \in DOMAIN log[t] : log[t][i].seq \in 1..seq[t]
      /\ \A a \in Writers(t) : At(a, "xadd") => held[a] \in 1..seq[t]
      /\ \A a \in Writers(t) : At(a, "xadd") => \A i \in DOMAIN log[t] : log[t][i].seq # held[a]
      /\ \A a, c \in Writers(t) : At(a, "xadd") /\ At(c, "xadd") /\ held[c] = held[a] => a = c
      /\ seq[t] \in Nat /\ Missing(t) \subseteq 1..seq[t]
      /\ Cardinality(Missing(t)) <= faults * WritersOfRun
      /\ faults \in Nat /\ faults * WritersOfRun \in Nat
  BY NumberParts
<1>2. Logged(t)' = Logged(t)
  BY DEF Logged
<1>3. ASSUME NEW n, n \in InHand(t), n \notin InHand(t)'
      PROVE  faults' = faults + 1 /\ n \in X
  <2>1. PICK a \in Writers(t) : At(a, "xadd") /\ held[a] = n
    BY <1>3, InHandOf
  <2>2. ~(At(a, "xadd")' /\ held'[a] = n)
    BY <1>3, InHandOf
  <2>3. ~Holds(a)
    BY <2>1, <2>2 DEF Holds
  <2>. QED
    BY <2>1, <2>3
<1>4. Missing(t)' = (1..seq[t]) \ (Logged(t) \cup InHand(t)')
  BY <1>2 DEF Missing
<1>5. Missing(t)' \subseteq Missing(t) \cup X /\ (faults' # faults + 1 => Missing(t)' \subseteq Missing(t))
  BY <1>3, <1>4 DEF Missing
<1>6. Cardinality(Missing(t)') <= faults' * WritersOfRun
  <2>. DEFINE D == Missing(t)
              E == Missing(t)'
              f == faults * WritersOfRun
  <2>1. /\ D \subseteq 1..seq[t] /\ Cardinality(D) <= f /\ E \subseteq D \cup X
        /\ faults' # faults + 1 => E \subseteq D
        /\ f \in Nat
    BY <1>1, <1>5
  <2>2. faults' * WritersOfRun >= f /\ faults' * WritersOfRun \in Nat
    BY <1>1, Shares
  <2>3. faults' = faults + 1 => faults' * WritersOfRun = f + WritersOfRun
    BY <1>1, Shares
  <2>. HIDE DEF D, E, f
  <2>4. CASE faults' # faults + 1
    <3>1. Cardinality(E) <= f
      BY <1>1, <2>1, <2>4, MoreMissing
    <3>2. IsFiniteSet(D)
      <4>1. 1 \in Int /\ seq[t] \in Int
        BY <1>1
      <4>2. IsFiniteSet(1..seq[t])
        BY <4>1, FS_Interval
      <4>. QED
        BY <2>1, <4>2, FS_Subset
    <3>3. Cardinality(E) \in Nat
      BY <2>1, <2>4, <3>2, FS_Subset, FS_CardinalityType
    <3>4. Cardinality(E) <= faults' * WritersOfRun
      BY <2>1, <2>2, <3>1, <3>3
    <3>. QED
      BY <3>4 DEF E
  <2>5. CASE faults' = faults + 1
    <3>1. Cardinality(E) <= f + Cardinality(X)
      BY <1>1, <2>1, MoreMissing
    <3>2. Cardinality(X) \in Nat /\ WritersOfRun \in Nat
      BY <1>1, FS_CardinalityType, Shares
    <3>3. IsFiniteSet(D)
      <4>1. 1 \in Int /\ seq[t] \in Int
        BY <1>1
      <4>2. IsFiniteSet(1..seq[t])
        BY <4>1, FS_Interval
      <4>. QED
        BY <2>1, <4>2, FS_Subset
    <3>4. Cardinality(E) \in Nat
      BY <2>1, <3>3, FS_Union, FS_Subset, FS_CardinalityType
    <3>5. Cardinality(E) <= faults' * WritersOfRun
      BY <2>1, <2>3, <2>5, <3>1, <3>2, <3>4
    <3>. QED
      BY <3>5 DEF E
  <2>. QED
    BY <2>4, <2>5
<1>7. \A i, j \in DOMAIN log'[t] : log'[t][i].seq = log'[t][j].seq => i = j
  BY <1>1
<1>8. \A i \in DOMAIN log'[t] : log'[t][i].seq \in 1..seq'[t]
  BY <1>1
<1>9. \A a \in Writers(t) : At(a, "xadd")' =>
         /\ held'[a] \in 1..seq'[t]
         /\ \A i \in DOMAIN log'[t] : log'[t][i].seq # held'[a]
         /\ \A c \in Writers(t) : At(c, "xadd")' /\ held'[c] = held'[a] => a = c
  BY <1>1
<1>. QED
  BY <1>6, <1>7, <1>8, <1>9, NumbersAfter

\* One writer changes its script: its number at most is lost.
LEMMA NumbersStay ==
  ASSUME RedisTypeOK, NEW t \in Tasks, NumberInv(t),
         log'[t] = log[t], seq'[t] = seq[t], faults' \in Nat, faults' >= faults,
         NEW b \in Writers(t), OthersHold(t, b),
         At(b, "xadd")' => At(b, "xadd") /\ held'[b] = held[b],
         Holds(b) \/ faults' = faults + 1
  PROVE  NumberInv(t)'
<1>. DEFINE X == {held[b]}
<1>1. \A a \in Writers(t) : At(a, "xadd")' => At(a, "xadd") /\ held'[a] = held[a]
  BY DEF OthersHold
<1>2. \A a \in Writers(t) : Holds(a) \/ (faults' = faults + 1 /\ held[a] \in X)
  BY DEF OthersHold
<1>3. IsFiniteSet(X) /\ Cardinality(X) = 1
  BY FS_Singleton
<1>. HIDE DEF X
<1>4. WritersOfRun >= 1
  <2>1. 0 \in Nat
    OBVIOUS
  <2>. QED
    BY <2>1, Shares
<1>5. Cardinality(X) <= WritersOfRun
  BY <1>3, <1>4
<1>. QED
  BY <1>1, <1>2, <1>3, <1>5, NumbersLost

\* The numbers a worker that ends may have in hand are one for each writer.
LEMMA NumbersOfRun ==
  ASSUME NEW t
  PROVE  LET X == {held[Reader(r, t)] : r \in Readers} \cup {held[Run(t)]} IN
         IsFiniteSet(X) /\ Cardinality(X) <= WritersOfRun
<1>. DEFINE T == {held[Reader(r, t)] : r \in Readers}
            f == [r \in Readers |-> held[Reader(r, t)]]
<1>1. f \in Surjection(Readers, T)
  BY DEF Surjection
<1>. HIDE DEF f
<1>2. IsFiniteSet(T) /\ Cardinality(T) <= Cardinality(Readers)
  BY <1>1, ReaderAssumption, FS_Surjection
<1>. HIDE DEF T
<1>3. /\ IsFiniteSet(T \cup {held[Run(t)]})
      /\ Cardinality(T \cup {held[Run(t)]}) = IF held[Run(t)] \in T THEN Cardinality(T) ELSE Cardinality(T) + 1
  BY <1>2, FS_AddElement
<1>4. Cardinality(T) \in Nat /\ Cardinality(Readers) \in Nat
  BY <1>2, ReaderAssumption, FS_CardinalityType
<1>5. WritersOfRun = Cardinality(Readers) + 1
  BY <1>4 DEF WritersOfRun
<1>6. Cardinality(T \cup {held[Run(t)]}) <= WritersOfRun
  BY <1>2, <1>3, <1>4, <1>5
<1>. QED
  BY <1>3, <1>6 DEF T

\* INCR: the new number is in the hand of the writer that drew it.
LEMMA NumberDrawn ==
  ASSUME RedisTypeOK, NEW t \in Tasks, NumberInv(t),
         log'[t] = log[t], seq'[t] = seq[t] + 1, faults' = faults,
         NEW b \in Writers(t), OthersHold(t, b),
         ~At(b, "xadd"), At(b, "xadd")', held'[b] = seq[t] + 1
  PROVE  NumberInv(t)'
<1>. DEFINE n == seq[t]
<1>1. /\ \A i, j \in DOMAIN log[t] : log[t][i].seq = log[t][j].seq => i = j
      /\ \A i \in DOMAIN log[t] : log[t][i].seq \in 1..n
      /\ \A a \in Writers(t) : At(a, "xadd") => held[a] \in 1..n
      /\ \A a \in Writers(t) : At(a, "xadd") => \A i \in DOMAIN log[t] : log[t][i].seq # held[a]
      /\ \A a, c \in Writers(t) : At(a, "xadd") /\ At(c, "xadd") /\ held[c] = held[a] => a = c
      /\ n \in Nat /\ Missing(t) \subseteq 1..n /\ Cardinality(Missing(t)) <= faults * WritersOfRun
      /\ faults * WritersOfRun \in Nat
  BY NumberParts
<1>2. \A a \in Writers(t) : a # b /\ At(a, "xadd")' => At(a, "xadd") /\ held'[a] = held[a]
  BY DEF OthersHold
<1>3. Logged(t)' = Logged(t)
  BY DEF Logged
<1>4. \A k \in 1..n : k \in 1..(n + 1) /\ k # n + 1
  BY <1>1
<1>5. \A k \in 1..(n + 1) : k \in 1..n \/ k = n + 1
  BY <1>1
<1>6. n + 1 \in 1..(n + 1)
  BY <1>1
<1>7. n + 1 \in InHand(t)'
  BY InHandOf
<1>8. ASSUME NEW k, k \in InHand(t)
      PROVE  k \in InHand(t)'
  <2>1. PICK a \in Writers(t) : At(a, "xadd") /\ held[a] = k
    BY <1>8, InHandOf
  <2>2. At(a, "xadd")' /\ held'[a] = k
    BY <2>1 DEF OthersHold, Holds
  <2>. QED
    BY <2>2, InHandOf
<1>9. Missing(t)' = (1..(n + 1)) \ (Logged(t) \cup InHand(t)')
  BY <1>3 DEF Missing
<1>10. Missing(t)' \subseteq Missing(t)
  BY <1>5, <1>7, <1>8, <1>9 DEF Missing
<1>11. Cardinality(Missing(t)') <= faults' * WritersOfRun
  <2>. DEFINE D == Missing(t)
              E == Missing(t)'
              f == faults * WritersOfRun
  <2>1. D \subseteq 1..n /\ f \in Nat /\ Cardinality(D) <= f /\ E \subseteq D
    BY <1>1, <1>10
  <2>. HIDE DEF D, E, f
  <2>2. Cardinality(E) <= f
    BY <1>1, <2>1, MoreMissing
  <2>. QED
    BY <2>2 DEF E, f
<1>12. \A i, j \in DOMAIN log'[t] : log'[t][i].seq = log'[t][j].seq => i = j
  BY <1>1
<1>13. \A i \in DOMAIN log'[t] : log'[t][i].seq \in 1..seq'[t]
  BY <1>1, <1>4
<1>14. ASSUME NEW a \in Writers(t), At(a, "xadd")'
       PROVE  /\ held'[a] \in 1..seq'[t]
              /\ \A i \in DOMAIN log'[t] : log'[t][i].seq # held'[a]
              /\ \A c \in Writers(t) : At(c, "xadd")' /\ held'[c] = held'[a] => a = c
  <2>1. CASE a = b
    BY <1>1, <1>2, <1>4, <1>6, <2>1
  <2>2. CASE a # b
    BY <1>1, <1>2, <1>4, <1>14, <2>2
  <2>. QED
    BY <2>1, <2>2
<1>. QED
  BY <1>11, <1>12, <1>13, <1>14, NumbersAfter

\* XADD: the number of its writer is in the log.
LEMMA NumberLogged ==
  ASSUME RedisTypeOK, NEW t \in Tasks, TaskInv(t),
         NEW b \in Writers(t), Wrote(t, b), OthersHold(t, b), At(b, "xadd"), ~At(b, "xadd")'
  PROVE  NumberInv(t)'
<1>. DEFINE n == seq[t]
            m == Len(log[t])
            e == EventOf(b)
<1>0. NumberInv(t)
  BY DEF TaskInv
<1>1. /\ \A i, j \in DOMAIN log[t] : log[t][i].seq = log[t][j].seq => i = j
      /\ \A i \in DOMAIN log[t] : log[t][i].seq \in 1..n
      /\ \A a \in Writers(t) : At(a, "xadd") => held[a] \in 1..n
      /\ \A a \in Writers(t) : At(a, "xadd") => \A i \in DOMAIN log[t] : log[t][i].seq # held[a]
      /\ \A a, c \in Writers(t) : At(a, "xadd") /\ At(c, "xadd") /\ held[c] = held[a] => a = c
      /\ n \in Nat
  BY <1>0, NumberParts
<1>17. /\ Missing(t) \subseteq 1..n /\ Cardinality(Missing(t)) <= faults * WritersOfRun
       /\ faults * WritersOfRun \in Nat
  BY <1>0, NumberParts
<1>2. \A a \in Writers(t) : At(a, "xadd")' => a # b /\ At(a, "xadd") /\ held'[a] = held[a]
  BY DEF OthersHold
<1>3. /\ e.seq = held[b]
      /\ m \in Nat /\ DOMAIN log[t] = 1..m /\ DOMAIN log'[t] = 1..(m + 1)
      /\ log'[t][m + 1] = e /\ \A i \in 1..m : log'[t][i] = log[t][i]
  BY Logging
<1>4. seq'[t] = n /\ faults' = faults
  BY DEF Wrote
<1>. HIDE DEF e, m
<1>5. \A i \in 1..(m + 1) : i \in 1..m \/ i = m + 1
  BY <1>3
<1>6. \A i \in 1..m : i \in 1..(m + 1) /\ i # m + 1
  BY <1>3
<1>7. m + 1 \in 1..(m + 1)
  BY <1>3
<1>8. /\ Logged(t) = {log[t][i].seq : i \in 1..m}
      /\ Logged(t)' = {log'[t][i].seq : i \in 1..(m + 1)}
  BY <1>3 DEF Logged
<1>9. Logged(t) \subseteq Logged(t)' /\ held[b] \in Logged(t)'
  BY <1>3, <1>6, <1>7, <1>8
<1>10. ASSUME NEW k, k \in InHand(t)
       PROVE  k \in InHand(t)' \/ k = held[b]
  <2>1. PICK a \in Writers(t) : At(a, "xadd") /\ held[a] = k
    BY <1>10, InHandOf
  <2>2. a # b => At(a, "xadd")' /\ held'[a] = k
    BY <2>1 DEF OthersHold, Holds
  <2>. QED
    BY <2>1, <2>2, InHandOf
<1>11. Missing(t)' = (1..n) \ (Logged(t)' \cup InHand(t)')
  BY <1>4 DEF Missing
<1>12. Missing(t)' \subseteq Missing(t)
  BY <1>9, <1>10, <1>11 DEF Missing
<1>13. Cardinality(Missing(t)') <= faults' * WritersOfRun
  <2>. DEFINE D == Missing(t)
              E == Missing(t)'
              f == faults * WritersOfRun
  <2>1. D \subseteq 1..n /\ f \in Nat /\ Cardinality(D) <= f /\ E \subseteq D
    BY <1>12, <1>17
  <2>. HIDE DEF D, E, f
  <2>2. Cardinality(E) <= f
    BY <1>1, <2>1, MoreMissing
  <2>. QED
    BY <1>4, <2>2 DEF E, f
<1>14. \A i \in DOMAIN log'[t] : log'[t][i].seq \in 1..seq'[t]
  BY <1>1, <1>3, <1>4, <1>5
<1>15. \A i, j \in DOMAIN log'[t] : log'[t][i].seq = log'[t][j].seq => i = j
  BY <1>1, <1>3, <1>5
<1>16. ASSUME NEW a \in Writers(t), At(a, "xadd")'
       PROVE  /\ held'[a] \in 1..seq'[t]
              /\ \A i \in DOMAIN log'[t] : log'[t][i].seq # held'[a]
              /\ \A c \in Writers(t) : At(c, "xadd")' /\ held'[c] = held'[a] => a = c
  <2>1. a # b /\ At(a, "xadd") /\ held'[a] = held[a]
    BY <1>2, <1>16
  <2>2. held[a] # held[b]
    BY <1>1, <2>1
  <2>3. ASSUME NEW i \in 1..(m + 1)
        PROVE  log'[t][i].seq # held[a]
    <3>1. CASE i \in 1..m
      <4>1. log'[t][i] = log[t][i] /\ i \in DOMAIN log[t]
        BY <1>3, <3>1
      <4>. QED
        BY <1>1, <2>1, <4>1
    <3>2. CASE i = m + 1
      <4>1. log'[t][i] = e /\ e.seq = held[b]
        BY <1>3, <3>2
      <4>. QED
        BY <2>2, <4>1
    <3>. QED
      BY <1>5, <3>1, <3>2
  <2>. QED
    BY <1>1, <1>2, <1>3, <1>4, <2>1, <2>3
<1>. QED
  BY <1>13, <1>14, <1>15, <1>16, NumbersAfter

\* A writer that does not change its script or its number changes no number in hand.
LEMMA OthersHoldWhenKept ==
  ASSUME NEW t \in Tasks, NEW b \in Writers(t), OthersKeep(t, b)
  PROVE  OthersHold(t, b)
<1>1. \A a \in Writers(t) : a # b => todo'[a] = todo[a] /\ held'[a] = held[a]
  BY DEF OthersKeep, KeepsScript
<1>2. \A a \in Writers(t) : a # b => (At(a, "xadd")' <=> At(a, "xadd")) /\ held'[a] = held[a]
  BY <1>1 DEF At
<1>. QED
  BY <1>2 DEF OthersHold, Holds

\* Every step accounts for every number.
LEMMA KeepsNumber ==
  ASSUME RedisTypeOK, NEW t \in Tasks, TaskInv(t), Move(t)
  PROVE  NumberInv(t)'
<1>0. /\ Run(t) \in Writers(t) /\ Create(t) \in Writers(t) /\ Cancel(t) \in Writers(t)
      /\ Run(t) # Create(t) /\ Run(t) # Cancel(t) /\ Create(t) # Cancel(t)
  BY WritersAreActors
<1>1. NumberInv(t) /\ FreshInv(t) /\ Scripted(t)
  BY DEF TaskInv
<1>2. faults \in Nat /\ faults' \in Nat /\ faults' >= faults
  BY FaultsGrow
<1>3. ASSUME log'[t] = log[t], seq'[t] = seq[t],
             NEW b \in Writers(t), OthersKeep(t, b), ~At(b, "xadd")',
             ~At(b, "xadd") \/ faults' = faults + 1
      PROVE  NumberInv(t)'
  <2>1. OthersHold(t, b)
    BY <1>3, OthersHoldWhenKept
  <2>2. Holds(b) \/ faults' = faults + 1
    BY <1>3 DEF Holds
  <2>. QED
    BY <1>1, <1>2, <1>3, <2>1, <2>2, NumbersStay
<1>4. \A b \in Writers(t) : (todo'[b] # <<>> => Head(todo'[b]).op # "xadd") => ~At(b, "xadd")'
  BY DEF At
<1>5. \A b \in Writers(t) : (todo[b] # <<>> => Head(todo[b]).op # "xadd") => ~At(b, "xadd")
  BY DEF At
<1>6. CASE Untouched(t)
  <2>1. log'[t] = log[t] /\ seq'[t] = seq[t] /\ OthersKeep(t, Run(t)) /\ todo'[Run(t)] = todo[Run(t)] /\ held'[Run(t)] = held[Run(t)]
    BY <1>0, <1>6 DEF Untouched, KeepsLog, OthersKeep, KeepsScript
  <2>2. OthersHold(t, Run(t))
    BY <1>0, <2>1, OthersHoldWhenKept
  <2>3. Holds(Run(t)) /\ (At(Run(t), "xadd")' => At(Run(t), "xadd") /\ held'[Run(t)] = held[Run(t)])
    BY <2>1 DEF Holds, At, Run
  <2>. QED
    BY <1>0, <1>1, <1>2, <2>1, <2>2, <2>3, NumbersStay
<1>7. CASE Submitted(t)
  <2>1. /\ log'[t] = log[t] /\ seq'[t] = 0 /\ status[t] = "absent" /\ OthersKeep(t, Create(t))
        /\ Head(todo'[Create(t)]).op # "xadd"
    BY <1>7 DEF Submitted
  <2>2. seq[t] = 0 /\ todo[Create(t)] = <<>>
    BY <1>1, <2>1 DEF FreshInv
  <2>. QED
    BY <1>0, <1>3, <1>4, <1>5, <2>1, <2>2
<1>8. CASE Asked(t)
  <2>1. /\ log'[t] = log[t] /\ seq'[t] = seq[t] /\ t \notin cancelled /\ OthersKeep(t, Cancel(t))
        /\ Head(todo'[Cancel(t)]).op # "xadd"
    BY <1>8 DEF Asked, KeepsLog
  <2>2. todo[Cancel(t)] = <<>>
    BY <1>1, <2>1 DEF FreshInv
  <2>. QED
    BY <1>0, <1>3, <1>4, <1>5, <2>1, <2>2
<1>9. CASE Consumed(t)
  <2>1. /\ log'[t] = log[t] /\ seq'[t] = seq[t] /\ home[t] = NoWorker /\ OthersKeep(t, Run(t))
        /\ Head(todo'[Run(t)]).op # "xadd"
    BY <1>9 DEF Consumed, KeepsLog, NewScript
  <2>2. todo[Run(t)] = <<>>
    BY <1>1, <2>1 DEF FreshInv
  <2>. QED
    BY <1>0, <1>3, <1>4, <1>5, <2>1, <2>2
<1>10. ASSUME NEW a \in Writers(t), Passes(t, a), todo'[a] # <<>>
       PROVE  Follows(Head(todo[a]), Head(todo'[a]))
  BY <1>10 DEF Passes, Rest
<1>11. ASSUME NEW a \in Writers(t), Drew(t, a)
       PROVE  NumberInv(t)'
  <2>1. /\ Passes(t, a) /\ Head(todo[a]).op = "incr" /\ OthersKeep(t, a)
        /\ log'[t] = log[t] /\ seq'[t] = seq[t] + 1 /\ held'[a] = seq[t] + 1 /\ faults' = faults
    BY <1>11 DEF Drew, Passes
  <2>2. todo'[a] # <<>>
    BY <2>1 DEF Passes
  <2>3. Head(todo'[a]).op = "xadd"
    BY <1>10, <2>1, <2>2 DEF Follows
  <2>4. ~At(a, "xadd") /\ At(a, "xadd")'
    BY <2>1, <2>2, <2>3 DEF At
  <2>5. OthersHold(t, a)
    BY <2>1, OthersHoldWhenKept
  <2>. QED
    BY <1>1, <2>1, <2>4, <2>5, NumberDrawn
<1>12. ASSUME NEW a \in Writers(t), Wrote(t, a)
       PROVE  NumberInv(t)'
  <2>1. Passes(t, a) /\ Head(todo[a]).op = "xadd" /\ OthersKeep(t, a) /\ todo[a] # <<>>
    BY <1>12 DEF Wrote, Passes
  <2>2. todo'[a] # <<>> => Head(todo'[a]).op # "xadd"
    BY <1>10, <2>1 DEF Follows
  <2>3. At(a, "xadd") /\ ~At(a, "xadd")'
    BY <1>4, <2>1, <2>2 DEF At
  <2>4. OthersHold(t, a)
    BY <2>1, OthersHoldWhenKept
  <2>. QED
    BY <1>12, <2>3, <2>4, NumberLogged
<1>13. ASSUME NEW a \in Writers(t), Passes(t, a), log'[t] = log[t], seq'[t] = seq[t],
              Head(todo[a]).op \notin {"incr", "xadd"}
       PROVE  NumberInv(t)'
  <2>1. todo'[a] # <<>> => Head(todo'[a]).op # "xadd"
    BY <1>10, <1>13 DEF Follows
  <2>2. OthersKeep(t, a)
    BY <1>13 DEF Passes
  <2>. QED
    BY <1>3, <1>4, <1>5, <1>13, <2>1, <2>2
<1>14. ASSUME NEW a \in Writers(t), Published(t, a)
       PROVE  NumberInv(t)'
  BY <1>13, <1>14 DEF Published, KeepsLog
<1>15. CASE Set(t) \/ WentOn(t) \/ Acked(t)
  BY <1>0, <1>13, <1>15 DEF Set, WentOn, Acked, KeepsLog
<1>16. CASE Decided(t)
  <2>1. /\ log'[t] = log[t] /\ seq'[t] = seq[t] /\ OthersKeep(t, Run(t))
        /\ Head(todo'[Run(t)]).op # "xadd" /\ Head(todo[Run(t)]).op # "xadd"
    BY <1>16 DEF Decided, KeepsLog, NewScript
  <2>. QED
    BY <1>0, <1>3, <1>4, <1>5, <2>1
<1>17. CASE Raised(t)
  <2>1. /\ log'[t] = log[t] /\ seq'[t] = seq[t] /\ OthersKeep(t, Run(t))
        /\ Head(todo'[Run(t)]).op # "xadd" /\ faults' = faults + 1
    BY <1>17 DEF Raised, KeepsLog, NewScript
  <2>. QED
    BY <1>0, <1>3, <1>4, <2>1
<1>18. CASE CutShort(t)
  <2>1. /\ log'[t] = log[t] /\ seq'[t] = seq[t] /\ OthersKeep(t, Run(t)) /\ faults' = faults + 1
    BY <1>18 DEF CutShort, KeepsLog
  <2>2. todo'[Run(t)] # <<>> => Head(todo'[Run(t)]).op # "xadd"
    <3>1. todo'[Run(t)] = <<>> \/ todo'[Run(t)] = <<Do("ack", "")>>
      BY <1>18 DEF CutShort
    <3>. QED
      BY <3>1, ShortScripts
  <2>. QED
    BY <1>0, <1>3, <1>4, <2>1, <2>2
<1>19. ASSUME NEW a \in Writers(t), Abandoned(t, a)
       PROVE  NumberInv(t)'
  <2>1. /\ log'[t] = log[t] /\ seq'[t] = seq[t] /\ OthersKeep(t, a) /\ faults' = faults + 1 /\ todo'[a] = <<>>
    BY <1>19 DEF Abandoned, KeepsLog
  <2>. QED
    BY <1>3, <1>4, <2>1
<1>20. CASE LeftAlone(t)
  <2>1. log'[t] = log[t] /\ seq'[t] = seq[t] /\ OthersKeep(t, Run(t)) /\ todo'[Run(t)] = todo[Run(t)] /\ held'[Run(t)] = held[Run(t)]
    BY <1>0, <1>20 DEF LeftAlone, KeepsLog, OthersKeep, KeepsScript
  <2>2. OthersHold(t, Run(t))
    BY <1>0, <2>1, OthersHoldWhenKept
  <2>3. Holds(Run(t)) /\ (At(Run(t), "xadd")' => At(Run(t), "xadd") /\ held'[Run(t)] = held[Run(t)])
    BY <2>1 DEF Holds, At, Run
  <2>. QED
    BY <1>0, <1>1, <1>2, <2>1, <2>2, <2>3, NumbersStay
<1>21. ASSUME NEW r \in Readers, BegunLine(t, r)
       PROVE  NumberInv(t)'
  <2>1. /\ log'[t] = log[t] /\ seq'[t] = seq[t] /\ OthersKeep(t, Reader(r, t))
        /\ Head(todo'[Reader(r, t)]).op # "xadd" /\ todo[Reader(r, t)] = <<>>
    BY <1>21 DEF BegunLine, KeepsLog
  <2>2. Reader(r, t) \in Writers(t)
    BY WritersAreActors
  <2>. QED
    BY <1>3, <1>4, <1>5, <2>1, <2>2
<1>22. CASE Stopped(t)
  <2>. DEFINE X == {held[Reader(r, t)] : r \in Readers} \cup {held[Run(t)]}
  <2>1. /\ log'[t] = log[t] /\ seq'[t] = seq[t] /\ faults' = faults + 1
        /\ todo'[Run(t)] = <<>> /\ \A r \in Readers : todo'[Reader(r, t)] = <<>>
        /\ todo'[Create(t)] = todo[Create(t)] /\ todo'[Cancel(t)] = todo[Cancel(t)]
        /\ held' = held
    BY <1>22 DEF Stopped, KeepsLog, KeepsScript
  <2>2. ASSUME NEW a \in Writers(t)
        PROVE  \/ todo'[a] = todo[a] /\ held'[a] = held[a]
               \/ todo'[a] = <<>> /\ held[a] \in X
    <3>1. a = Run(t) \/ a = Create(t) \/ a = Cancel(t) \/ \E r \in Readers : a = Reader(r, t)
      BY WritersAreActors
    <3>. QED
      BY <2>1, <3>1
  <2>3. IsFiniteSet(X) /\ Cardinality(X) <= WritersOfRun
    BY NumbersOfRun
  <2>. HIDE DEF X
  <2>4. \A a \in Writers(t) : At(a, "xadd")' => At(a, "xadd") /\ held'[a] = held[a]
    BY <2>2 DEF At
  <2>5. \A a \in Writers(t) : Holds(a) \/ (faults' = faults + 1 /\ held[a] \in X)
    BY <2>1, <2>2 DEF Holds, At
  <2>. QED
    BY <1>1, <1>2, <2>1, <2>3, <2>4, <2>5, NumbersLost
<1>. QED
  BY <1>6, <1>7, <1>8, <1>9, <1>11, <1>12, <1>14, <1>15, <1>16, <1>17, <1>18, <1>19, <1>20, <1>21, <1>22
  DEF Move, AppendMove, RunMove, ReadMove, FaultMove

\* Every step keeps what the invariant says of each task.
LEMMA KeepsTask ==
  ASSUME RedisTypeOK, NEW t \in Tasks, TaskInv(t), Move(t)
  PROVE  TaskInv(t)'
<1>1. Scripted(t)' /\ FreshInv(t)' /\ ReaderInv(t)' /\ DeliveryInv(t)' /\ RunningInv(t)'
  BY KeepsScripted, KeepsFresh, KeepsReader, KeepsDelivery, KeepsRunning
<1>2. VerdictInv(t)' /\ SilentInv(t)' /\ StatusInv(t)' /\ ConclusionInv(t)' /\ NumberInv(t)'
  BY KeepsVerdict, KeepsSilent, KeepsStatus, KeepsConclusion, KeepsNumber
<1>. QED
  BY <1>1, <1>2 DEF TaskInv

-----------------------------------------------------------------------------
(***************************************************************************)
(* The sessions.                                                           *)
(***************************************************************************)

\* A run holds its session as long as it has to leave it.
LEMMA InSessionInRange ==
  ASSUME NEW t
  PROVE  /\ InSession(t) <=> \E c \in Range(todo[Run(t)]) : c.op = "leave"
         /\ InSession(t)' <=> \E c \in Range(todo'[Run(t)]) : c.op = "leave"
BY DEF InSession, Ahead, Range, Run

\* A run that is about to save is in its session.
LEMMA SavesInSession ==
  ASSUME RedisTypeOK, NEW t \in Tasks, TaskInv(t), At(Run(t), "save")
  PROVE  InSession(t)
<1>. DEFINE s == todo[Run(t)]
            r == Tail(todo[Run(t)])
<1>1. RestOfRun(s) /\ s # <<>> /\ Head(s).op = "save"
  BY DEF TaskInv, Scripted, At
<1>2. Rest(s, r) /\ (r = <<>> <=> Head(s).op = "ack")
  BY <1>1, TailOfRun
<1>. HIDE DEF s, r
<1>3. Head(r) \in Range(s) /\ Head(r).op = "leave"
  BY <1>1, <1>2 DEF Rest, Follows
<1>. QED
  BY <1>3, InSessionInRange DEF s

\* A run that holds its session after a step stays where it is.  It held the
\* session before, or it entered; it was not about to leave, and when it saved
\* it leaves next.
LEMMA SessionMoves ==
  ASSUME RedisTypeOK, NEW t \in Tasks, TaskInv(t), Move(t), InSession(t)'
  PROVE  /\ home'[t] = home[t] /\ home[t] # NoWorker
         /\ InSession(t) \/ (At(Run(t), "enter") /\ todo'[Run(t)] # todo[Run(t)])
         /\ todo'[Run(t)] = todo[Run(t)] \/ ~At(Run(t), "leave")
         /\ todo'[Run(t)] = todo[Run(t)] \/ ~At(Run(t), "save") \/ At(Run(t), "leave")'
<1>. DEFINE s == todo[Run(t)]
            r == todo'[Run(t)]
<1>0. /\ Run(t) \in Writers(t)
      /\ Run(t) # Create(t) /\ Run(t) # Cancel(t)
  BY WritersAreActors
<1>1. FreshInv(t)
  BY DEF TaskInv
<1>2. PICK c \in Range(r) : c.op = "leave"
  BY InSessionInRange
<1>3. c \in Range(s) => InSession(t) /\ s # <<>>
  BY <1>2, InSessionInRange, ShortScripts
<1>4. s # <<>> => home[t] # NoWorker
  BY <1>1 DEF FreshInv
<1>5. ASSUME r = s, home'[t] = home[t]
      PROVE  home[t] # NoWorker /\ InSession(t)
  BY <1>2, <1>3, <1>4, <1>5
<1>6. CASE Untouched(t)
  BY <1>0, <1>5, <1>6 DEF Untouched, KeepsScript, KeepsRecord, KeepsHome
<1>7. CASE Submitted(t)
  BY <1>0, <1>5, <1>7 DEF Submitted, KeepsHome, OthersKeep, KeepsScript
<1>8. CASE Asked(t)
  BY <1>0, <1>5, <1>8 DEF Asked, KeepsHome, OthersKeep, KeepsScript
<1>9. CASE Consumed(t)
  BY <1>2, <1>9 DEF Consumed
<1>10. ASSUME Passes(t, Run(t)), home'[t] = home[t]
       PROVE  /\ home[t] # NoWorker /\ InSession(t)
              /\ ~At(Run(t), "leave")
              /\ ~At(Run(t), "save") \/ At(Run(t), "leave")'
  <2>1. Rest(s, r) /\ s # <<>>
    BY <1>10 DEF Passes
  <2>2. c \in Range(s) /\ Later(Head(s), c)
    BY <1>2, <2>1 DEF Rest
  <2>3. Head(s).op # "leave"
    BY <1>2, <2>2 DEF Later
  <2>4. r # <<>>
    BY <1>2, ShortScripts
  <2>5. Head(s).op = "save" => Head(r).op = "leave"
    BY <2>1, <2>4 DEF Rest, Follows
  <2>6. At(Run(t), "leave")' <=> r # <<>> /\ Head(r).op = "leave"
    BY DEF At, Run
  <2>. QED
    BY <1>3, <1>4, <2>2, <2>3, <2>4, <2>5, <2>6 DEF At
<1>11. ASSUME NEW a \in Writers(t), AppendMove(t, a)
       PROVE  /\ home'[t] = home[t] /\ home[t] # NoWorker
              /\ InSession(t)
              /\ r = s \/ ~At(Run(t), "leave")
              /\ r = s \/ ~At(Run(t), "save") \/ At(Run(t), "leave")'
  <2>1. Passes(t, a) /\ home'[t] = home[t]
    BY <1>11 DEF AppendMove, Drew, Wrote, Published, KeepsRecord, KeepsHome
  <2>2. CASE a = Run(t)
    BY <1>10, <2>1, <2>2
  <2>3. CASE a # Run(t)
    <3>1. r = s
      BY <1>0, <2>1, <2>3 DEF Passes, OthersKeep, KeepsScript
    <3>. QED
      BY <1>5, <2>1, <3>1
  <2>. QED
    BY <2>2, <2>3
<1>12. CASE Set(t) \/ WentOn(t) \/ Acked(t)
  <2>1. Passes(t, Run(t)) /\ home'[t] = home[t]
    BY <1>12 DEF Set, WentOn, Acked, KeepsRecord, KeepsHome
  <2>. QED
    BY <1>10, <2>1
<1>13. CASE Decided(t)
  <2>1. /\ Head(s).op \in {"test", "setup", "enter"} /\ s # <<>> /\ home'[t] = home[t]
        /\ Head(s).op # "enter" => \A d \in Range(r) : d.op # "leave"
    BY <1>13 DEF Decided, KeepsRecord, KeepsHome
  <2>2. Head(s).op = "enter"
    BY <1>2, <2>1
  <2>3. At(Run(t), "enter") /\ ~At(Run(t), "leave") /\ ~At(Run(t), "save")
    BY <2>1, <2>2 DEF At
  <2>4. InSession(t) \/ r # s
    BY <1>2, <1>3
  <2>. QED
    BY <1>4, <2>1, <2>3, <2>4
<1>14. CASE Raised(t)
  BY <1>2, <1>14 DEF Raised, AppendOps
<1>15. CASE CutShort(t)
  <2>1. r = <<>> \/ r = <<Do("ack", "")>>
    BY <1>15 DEF CutShort
  <2>. QED
    BY <1>2, <2>1, ShortScripts
<1>16. ASSUME NEW a \in Writers(t), Abandoned(t, a)
       PROVE  r = s /\ home'[t] = home[t]
  BY <1>0, <1>16 DEF Abandoned, OthersKeep, KeepsScript, KeepsRecord, KeepsHome
<1>17. CASE ReadMove(t)
  <2>1. r = s /\ home'[t] = home[t]
    BY <1>17, ReadersApart DEF KeepsScript, KeepsRecord, KeepsHome
  <2>. QED
    BY <1>5, <2>1
<1>18. CASE Stopped(t)
  BY <1>2, <1>18, ShortScripts DEF Stopped
<1>. QED
  BY <1>5, <1>6, <1>7, <1>8, <1>9, <1>11, <1>12, <1>10, <1>13, <1>14, <1>15, <1>16, <1>17, <1>18
  DEF Move, RunMove, FaultMove

\* A task that was consumed stays with its worker.
LEMMA HomesStay ==
  ASSUME NEW t, Move(t)
  PROVE  home'[t] = home[t] \/ home[t] = NoWorker
BY DEF Move, Untouched, Submitted, Asked, Consumed, AppendMove, Drew, Wrote, Published, RunMove, Set, WentOn,
       Acked, Decided, ReadMove, LeftAlone, BegunLine, FaultMove, Raised, CutShort, Stopped, Abandoned, KeepsRecord, KeepsHome

\* A script that lost its first command is another script.
LEMMA TailIsShorter ==
  ASSUME NEW S, NEW s \in Seq(S), s # <<>>
  PROVE  Tail(s) # s
<1>. DEFINE r == Tail(s)
            n == Len(s)
<1>1. Len(r) = n - 1 /\ n \in Nat
  BY HeadTailProperties, LenProperties
<1>2. r = s => Len(r) = n
  BY DEF r, n
<1>3. \A k \in Nat : k - 1 # k
  OBVIOUS
<1>. HIDE DEF r, n
<1>4. r # s
  BY <1>1, <1>2, <1>3
<1>. QED
  BY <1>4 DEF r

\* What a run works on is changed by its own steps, what is stored by a save.
Works(t) ==
  /\ InSession(t)
  /\ loaded'[t] = loaded[t] \/ At(Run(t), "leave")
  /\ \A s \in Sessions :
       memory'[s] = memory[s] \/ \E u \in Tasks : At(Run(u), "save") /\ Session[u] = s /\ todo'[Run(u)] # todo[Run(u)]

\* A run that is in its session after a step entered in it, or goes on.
LEMMA SessionSteps ==
  ASSUME RedisTypeOK, QueueInv, \A t \in Tasks : TaskInv(t), ServerNext,
         NEW t \in Tasks, InSession(t)'
  PROVE  Enter(t) \/ Works(t)
<1>. DEFINE x == Run(t)
<1>0. /\ x \in Actors /\ DOMAIN todo = Actors /\ x \in Writers(t)
      /\ \A u \in Tasks : Run(u) \in Actors /\ (Run(u) = x => u = t)
      /\ \A u \in Tasks : Create(u) # x /\ Cancel(u) # x
      /\ \A q \in Readers, u \in Tasks : Reader(q, u) # x /\ Reader(q, u) \in Actors
      /\ loaded \in [Tasks -> Seq(Tasks)] /\ memory \in [Sessions -> Seq(Tasks)]
  BY ReaderAssumption DEF RedisTypeOK, StoreTypeOK, Actors, Run, Create, Cancel, Reader, Writers
<1>1. InSession(t) \/ (At(x, "enter") /\ todo'[x] # todo[x])
  BY StepMoves, SessionMoves
<1>2. \E c \in Range(todo'[x]) : c.op = "leave"
  BY InSessionInRange
<1>3. ASSUME todo'[x] = todo[x] \/ ~At(x, "enter"),
             loaded'[t] = loaded[t] \/ At(x, "leave"), memory' = memory
      PROVE  Works(t)
  BY <1>1, <1>3 DEF Works
<1>4. ASSUME NEW a \in Actors, NEW s, Goes(a, s), a # x
      PROVE  todo'[x] = todo[x]
  BY <1>0, <1>4 DEF Goes
<1>5. ASSUME NEW u \in Tasks, Goes(Run(u), <<>>) \/ Goes(Run(u), <<Do("ack", "")>>), u = t
      PROVE  FALSE
  <2>1. todo'[x] = <<>> \/ todo'[x] = <<Do("ack", "")>>
    BY <1>0, <1>5 DEF Goes
  <2>. QED
    BY <1>2, <2>1, ShortScripts
<1>6. CASE \E w \in Workers, u \in Tasks : ConsumeTask(w, u)
  <2>1. PICK w \in Workers, u \in Tasks : ConsumeTask(w, u)
    BY <1>6
  <2>2. /\ loaded' = loaded /\ memory' = memory
        /\ \E s : Goes(Run(u), s)
    BY <2>1 DEF ConsumeTask, ReadGroup
  <2>3. Consumed(u)
    BY <2>1, ConsumeMoves
  <2>4. u = t => todo[x] = <<>>
    BY <2>3 DEF Consumed, TaskInv, FreshInv
  <2>5. todo'[x] = todo[x] \/ ~At(x, "enter")
    BY <1>0, <1>4, <2>2, <2>4 DEF At
  <2>. QED
    BY <1>3, <2>2, <2>5
<1>7. ASSUME NEW u \in Tasks, ClientStep(u)
      PROVE  Works(t)
  <2>1. loaded' = loaded /\ memory' = memory
    BY <1>7 DEF ClientStep, SubmitTask, QueueTask, CancelTask, SetCancel, runVars
  <2>2. \E a \in Actors : a # x /\ \E s : Goes(a, s)
    <3>1. Create(u) \in Actors /\ Cancel(u) \in Actors
      BY DEF Create, Cancel, Actors
    <3>. QED
      BY <1>0, <1>7, <3>1 DEF ClientStep, SubmitTask, CancelTask
  <2>. QED
    BY <1>3, <1>4, <2>1, <2>2
<1>8. ASSUME NEW a \in Actors, NEW s, NEW op, At(a, op), op # "enter", Goes(a, s),
             loaded'[t] = loaded[t] \/ At(x, "leave"), memory' = memory
      PROVE  Works(t)
  <2>1. a = x => ~At(x, "enter")
    BY <1>8 DEF At
  <2>. QED
    BY <1>3, <1>4, <1>8, <2>1
<1>9. ASSUME NEW a \in Actors, AppendStep(a)
      PROVE  Works(t)
  <2>1. loaded' = loaded /\ memory' = memory
    BY <1>9 DEF AppendStep, Incr, IncrSeq, Xadd, XaddEvent, Publish, PublishEvent, runVars
  <2>2. PICK op \in AppendOps : At(a, op) /\ Goes(a, Tail(todo[a]))
    BY <1>9 DEF AppendStep, Incr, Xadd, Publish, Does, AppendOps
  <2>. QED
    BY <1>8, <2>1, <2>2 DEF AppendOps
<1>10. ASSUME NEW u \in Tasks, Start(u) \/ Hset(u) \/ Test(u) \/ Refuse(u) \/ SetUp(u) \/ Join(u) \/ Ack(u)
       PROVE  Works(t)
  <2>1. loaded' = loaded /\ memory' = memory
    BY <1>10 DEF Start, Hset, HsetStatus, Test, Refuse, SetUp, Join, Ack, AckDelivery, runVars, storeVars
  <2>2. \E op \in {"start", "hset", "test", "setup", "join", "ack"} : At(Run(u), op) /\ \E s : Goes(Run(u), s)
    BY <1>10 DEF Start, Hset, Test, Refuse, SetUp, Join, Ack, Does
  <2>. QED
    BY <1>0, <1>8, <2>1, <2>2
<1>11. ASSUME NEW u \in Tasks, Enter(u)
       PROVE  Enter(t) \/ Works(t)
  <2>1. CASE u = t
    BY <1>11, <2>1
  <2>2. CASE u # t
    <3>1. memory' = memory /\ loaded'[t] = loaded[t] /\ \E s : Goes(Run(u), s)
      BY <1>0, <1>11, <2>2 DEF Enter, storeVars
    <3>2. todo'[x] = todo[x]
      BY <1>0, <1>4, <2>2, <3>1
    <3>. QED
      BY <1>3, <3>1, <3>2
  <2>. QED
    BY <2>1, <2>2
<1>12. ASSUME NEW u \in Tasks, Save(u)
       PROVE  Works(t)
  <2>1. /\ At(Run(u), "save") /\ Goes(Run(u), Tail(todo[Run(u)])) /\ loaded' = loaded
        /\ memory' = [memory EXCEPT ![Session[u]] = Append(loaded[u], u)]
    BY <1>12 DEF Save, Does, SessionSet, runVars
  <2>2. todo'[x] = todo[x] \/ ~At(x, "enter")
    BY <1>0, <1>4, <2>1 DEF At
  <2>3. todo'[Run(u)] # todo[Run(u)]
    <3>1. todo[Run(u)] \in Seq(Commands) /\ todo[Run(u)] # <<>>
      BY <1>0, <2>1 DEF RedisTypeOK, At
    <3>2. Tail(todo[Run(u)]) # todo[Run(u)]
      BY <3>1, TailIsShorter
    <3>3. todo'[Run(u)] = Tail(todo[Run(u)])
      BY <1>0, <2>1 DEF Goes
    <3>. QED
      BY <3>2, <3>3
  <2>4. \A s \in Sessions : memory'[s] = memory[s] \/ Session[u] = s
    BY <1>0, <2>1
  <2>5. \A s \in Sessions :
          memory'[s] = memory[s] \/ \E v \in Tasks : At(Run(v), "save") /\ Session[v] = s /\ todo'[Run(v)] # todo[Run(v)]
    BY <2>1, <2>3, <2>4
  <2>. QED
    BY <1>1, <2>1, <2>2, <2>5 DEF Works
<1>13. ASSUME NEW u \in Tasks, Leave(u)
       PROVE  Works(t)
  <2>1. At(Run(u), "leave") /\ Goes(Run(u), Tail(todo[Run(u)])) /\ memory' = memory
    BY <1>13 DEF Leave, Does, storeVars
  <2>2. loaded'[t] = loaded[t] \/ At(x, "leave")
    BY <1>0, <1>13, <2>1 DEF Leave
  <2>. QED
    BY <1>0, <1>8, <2>1, <2>2
<1>14. ASSUME NEW u \in Tasks, RaiseInTry(u)
       PROVE  Works(t)
  <2>. DEFINE s == Conclude("error", "failed") \o Just("ack")
  <2>1. Goes(Run(u), s) /\ memory' = memory /\ loaded' = [loaded EXCEPT ![u] = <<>>]
    BY <1>14 DEF RaiseInTry, storeVars
  <2>2. \A c \in Range(s) : c.op # "leave"
    <3>1. "error" \in VerdictKinds /\ Announces("error") = "failed"
      BY DEF VerdictKinds, ResultKinds, Announces
    <3>2. \A c \in Range(s) : c.op \in AppendOps \cup {"hset", "ack"}
      BY <3>1, VerdictScripts
    <3>. QED
      BY <3>2 DEF AppendOps
  <2>. HIDE DEF s
  <2>3. u # t
    BY <1>0, <1>2, <2>1, <2>2 DEF Goes
  <2>4. loaded'[t] = loaded[t]
    BY <1>0, <2>1, <2>3
  <2>. QED
    BY <1>0, <1>3, <1>4, <2>1, <2>3, <2>4
<1>15. ASSUME NEW u \in Tasks, RaiseOutside(u)
       PROVE  Works(t)
  <2>1. /\ ~At(Run(u), "enter") /\ memory' = memory /\ loaded' = loaded
        /\ \E s : Goes(Run(u), s)
    BY <1>15 DEF RaiseOutside, storeVars
  <2>. QED
    BY <1>0, <1>3, <1>4, <2>1
<1>16. ASSUME NEW w \in Workers, Restart(w)
       PROVE  Works(t)
  <2>. DEFINE mine == {u \in Tasks : home[u] = w}
              lost == {u \in mine : Live(u)}
  <2>1. /\ todo' = [a \in Actors |->
                     IF a[1] \notin {"create", "cancel"} /\ a[2] \in mine THEN <<>> ELSE todo[a]]
        /\ loaded' = [u \in Tasks |-> IF u \in lost THEN <<>> ELSE loaded[u]]
        /\ memory' = memory /\ lost \subseteq mine
    BY <1>16 DEF Restart, storeVars
  <2>. HIDE DEF mine, lost
  <2>2. x[1] \notin {"create", "cancel"} /\ x[2] = t
    BY DEF Run
  <2>3. t \notin mine
    BY <1>0, <1>2, <2>1, <2>2, ShortScripts
  <2>4. todo'[x] = todo[x] /\ loaded'[t] = loaded[t]
    BY <1>0, <2>1, <2>2, <2>3
  <2>. QED
    BY <1>3, <2>1, <2>4
<1>17. ASSUME NEW a \in Actors, Abandon(a)
       PROVE  Works(t)
  <2>1. a # x /\ Goes(a, <<>>) /\ memory' = memory /\ loaded' = loaded
    BY <1>17 DEF Abandon, storeVars, Run
  <2>. QED
    BY <1>3, <1>4, <2>1
<1>18. CASE Idle
  <2>1. todo' = todo /\ memory' = memory /\ loaded' = loaded
    BY <1>18 DEF Idle, serverVars, storeVars, actorVars, runVars
  <2>. QED
    BY <1>3, <2>1
<1>20. ASSUME NEW q \in Readers, NEW u \in Tasks, ReadLine(q, u) \/ LeaveReader(q, u)
       PROVE  Works(t)
  <2>1. loaded' = loaded /\ memory' = memory
    BY <1>20 DEF ReadLine, LeaveReader, storeVars, runVars
  <2>2. todo'[x] = todo[x]
    <3>1. CASE ReadLine(q, u)
      <4>1. PICK k \in ToolKinds : Goes(Reader(q, u), Emit(k))
        BY <3>1 DEF ReadLine
      <4>. QED
        BY <1>0, <1>4, <4>1
    <3>2. CASE LeaveReader(q, u)
      BY <3>2 DEF LeaveReader, actorVars
    <3>. QED
      BY <1>20, <3>1, <3>2
  <2>. QED
    BY <1>3, <2>1, <2>2
<1>19. \A u \in Tasks : Create(u) \in Actors /\ Cancel(u) \in Actors /\ Run(u) \in Actors
  BY DEF Create, Cancel, Run, Actors
<1>. QED
  BY <1>6, <1>7, <1>9, <1>10, <1>11, <1>12, <1>13, <1>14, <1>15, <1>16, <1>17, <1>18, <1>19, <1>20, <1>0
  DEF ServerNext, ServerStep, FaultStep, RequestStep, RunStep, ReaderStep

\* Who enters finds no run of its worker in the session, and moves nobody.
LEMMA EntersAlone ==
  ASSUME RedisTypeOK, NEW t \in Tasks, Enter(t)
  PROVE  /\ \A u \in Tasks : home[u] = home[t] /\ Session[u] = Session[t] => ~InSession(u)
         /\ home' = home /\ memory' = memory /\ loaded'[t] = memory[Session[t]]
         /\ \A u \in Tasks : u # t => todo'[Run(u)] = todo[Run(u)]
<1>1. /\ \A u \in Tasks : home[u] = home[t] /\ Session[u] = Session[t] => ~InSession(u)
      /\ home' = home /\ memory' = memory /\ loaded' = [loaded EXCEPT ![t] = memory[Session[t]]]
      /\ \E s : Goes(Run(t), s)
  BY DEF Enter, storeVars
<1>2. loaded'[t] = memory[Session[t]]
  BY <1>1 DEF RedisTypeOK
<1>3. \A u \in Tasks : u # t => todo'[Run(u)] = todo[Run(u)]
  BY <1>1, GoesOnlyOne, WritersAreActors
<1>. QED
  BY <1>1, <1>2, <1>3

\* Two runs of one worker are never in one session.
LEMMA KeepsMutex ==
  ASSUME RedisTypeOK, QueueInv, \A t \in Tasks : TaskInv(t), SessionMutex, ServerNext
  PROVE  SessionMutex'
<1>0. \A t \in Tasks : Move(t)
  BY StepMoves
<1>1. ASSUME NEW t \in Tasks, NEW u \in Tasks, Enter(t), t # u, InSession(u)'
      PROVE  InSession(u)
  BY <1>1, EntersAlone, InSessionInRange
<1>2. ASSUME NEW t \in Tasks, NEW u \in Tasks, InSession(t)', InSession(u)',
             home'[t] = home'[u], Session[t] = Session[u], t # u
      PROVE  FALSE
  <2>1. home'[t] = home[t] /\ home'[u] = home[u]
    BY <1>0, <1>2, SessionMoves
  <2>2. (Enter(t) \/ InSession(t)) /\ (Enter(u) \/ InSession(u))
    BY <1>2, SessionSteps DEF Works
  <2>3. ~Enter(t)
    <3>1. Enter(t) => InSession(u)
      BY <1>1, <1>2
    <3>. QED
      BY <1>2, <2>1, <3>1, EntersAlone
  <2>4. ~Enter(u)
    <3>1. Enter(u) => InSession(t)
      BY <1>1, <1>2
    <3>. QED
      BY <1>2, <2>1, <3>1, EntersAlone
  <2>. QED
    BY <1>2, <2>1, <2>2, <2>3, <2>4 DEF SessionMutex
<1>. QED
  BY <1>2 DEF SessionMutex

\* As long as the runs of a session are on one worker, a run works on what is
\* stored: who saves is in the session, so it is the run itself.
LEMMA KeepsIsolated ==
  ASSUME RedisTypeOK, QueueInv, \A t \in Tasks : TaskInv(t), SessionMutex, IsolatedOnOneWorker, ServerNext
  PROVE  IsolatedOnOneWorker'
<1>0. \A t \in Tasks : Move(t)
  BY StepMoves
<1>1. ASSUME NEW t \in Tasks, InSession(t)', ~At(Run(t), "leave")',
             \A u \in Tasks : Session[u] = Session[t] => home'[u] \in {home'[t], NoWorker}
      PROVE  loaded'[t] = memory'[Session[t]]
  <2>1. CASE Enter(t)
    BY <2>1, EntersAlone
  <2>2. CASE Works(t)
    <3>1. /\ home'[t] = home[t] /\ home[t] # NoWorker
          /\ todo'[Run(t)] = todo[Run(t)] \/ (~At(Run(t), "leave") /\ ~At(Run(t), "save"))
      BY <1>0, <1>1, SessionMoves
    <3>2. ~At(Run(t), "leave")
      <4>1. todo'[Run(t)] = todo[Run(t)] => (At(Run(t), "leave")' <=> At(Run(t), "leave"))
        BY DEF At, Run
      <4>. QED
        BY <1>1, <3>1, <4>1
    <3>3. \A u \in Tasks : Session[u] = Session[t] => home[u] \in {home[t], NoWorker}
      BY <1>0, <1>1, <3>1, HomesStay
    <3>4. InSession(t) /\ loaded'[t] = loaded[t]
      BY <2>2, <3>2 DEF Works
    <3>5. loaded[t] = memory[Session[t]]
      BY <3>2, <3>3, <3>4 DEF IsolatedOnOneWorker
    <3>6. ASSUME NEW u \in Tasks, At(Run(u), "save"), Session[u] = Session[t], todo'[Run(u)] # todo[Run(u)]
          PROVE  FALSE
      <4>1. InSession(u)
        BY <3>6, SavesInSession
      <4>2. home[u] # NoWorker
        BY <3>6 DEF TaskInv, FreshInv, At
      <4>3. home[u] = home[t]
        BY <3>3, <3>6, <4>2
      <4>4. u = t
        BY <3>4, <3>6, <4>1, <4>3 DEF SessionMutex
      <4>. QED
        BY <3>1, <3>6, <4>4
    <3>7. Session[t] \in Sessions
      BY PayloadAssumption
    <3>8. memory'[Session[t]] = memory[Session[t]]
      BY <2>2, <3>6, <3>7 DEF Works
    <3>. QED
      BY <3>4, <3>5, <3>8
  <2>. QED
    BY <1>1, <2>1, <2>2, SessionSteps
<1>. QED
  BY <1>1 DEF IsolatedOnOneWorker, Run, At

-----------------------------------------------------------------------------
(***************************************************************************)
(* The queue.                                                              *)
(***************************************************************************)

\* The queue changes when a task is submitted or consumed, and only then does a
\* task get a worker.
LEMMA QueueSteps ==
  ASSUME ServerNext
  PROVE  \/ stream' = stream /\ home' = home
         \/ \E t \in Tasks : SubmitTask(t)
         \/ \E w \in Workers, t \in Tasks : ConsumeTask(w, t)
<1>1. ASSUME NEW a, AppendStep(a)
      PROVE  stream' = stream /\ home' = home
  BY <1>1 DEF AppendStep, Incr, IncrSeq, Xadd, XaddEvent, Publish, PublishEvent, runVars, queueVars
<1>2. ASSUME NEW t, CancelTask(t)
      PROVE  stream' = stream /\ home' = home
  BY <1>2 DEF CancelTask, SetCancel, queueVars, runVars
<1>3. ASSUME NEW t, Start(t) \/ Hset(t) \/ Test(t) \/ Refuse(t) \/ SetUp(t)
                      \/ Enter(t) \/ Join(t) \/ Save(t) \/ Leave(t) \/ Ack(t)
      PROVE  stream' = stream /\ home' = home
  BY <1>3 DEF Start, Hset, HsetStatus, Test, Refuse, SetUp, Enter, Join, Save, SessionSet, Leave, Ack, AckDelivery,
              storeVars, queueVars, runVars
<1>4. ASSUME FaultStep \/ Idle
      PROVE  stream' = stream /\ home' = home
  BY <1>4 DEF FaultStep, RaiseInTry, RaiseOutside, Restart, Abandon, Idle, serverVars, storeVars, queueVars, runVars
<1>5. ASSUME NEW r, NEW t, ReadLine(r, t) \/ LeaveReader(r, t)
      PROVE  stream' = stream /\ home' = home
  BY <1>5 DEF ReadLine, LeaveReader, storeVars, queueVars, runVars
<1>. QED
  BY <1>1, <1>2, <1>3, <1>4, <1>5 DEF ServerNext, ServerStep, ClientStep, RequestStep, RunStep, ReaderStep

\* A queued task stays one until it is consumed.
LEMMA StaysQueued ==
  ASSUME RedisTypeOK, NEW t \in Tasks, TaskInv(t), Move(t), status[t] = "queued", home[t] = NoWorker,
         home'[t] = NoWorker
  PROVE  status'[t] = "queued"
<1>1. todo[Run(t)] = <<>>
  BY DEF TaskInv, FreshInv
<1>2. ~Consumed(t) /\ ~Set(t) /\ ~Submitted(t)
  BY <1>1 DEF Consumed, Set, Passes, Submitted
<1>. QED
  BY <1>2 DEF Move, Untouched, Asked, AppendMove, Drew, Wrote, Published, RunMove, WentOn,
              Acked, Decided, ReadMove, LeftAlone, BegunLine, FaultMove, Raised, CutShort, Stopped, Abandoned, KeepsRecord, KeepsMeta

\* The queue holds what waits for a worker, once.
LEMMA KeepsQueue ==
  ASSUME RedisTypeOK, QueueInv, \A t \in Tasks : TaskInv(t), ServerNext
  PROVE  QueueInv'
<1>. DEFINE n == Len(stream)
<1>0. /\ \A t \in Tasks : Move(t)
      /\ stream \in Seq(Tasks) /\ n \in Nat /\ DOMAIN stream = 1..n
      /\ \A i \in 1..n : stream[i] \in Tasks
  <2>1. stream \in Seq(Tasks)
    BY DEF RedisTypeOK, StoreTypeOK
  <2>. QED
    BY <2>1, StepMoves, LenProperties, ElementOfSeq
<1>1. /\ \A i, j \in 1..n : stream[i] = stream[j] => i = j
      /\ \A i \in 1..n : status[stream[i]] = "queued" /\ home[stream[i]] = NoWorker
  BY <1>0 DEF QueueInv
<1>2. ASSUME NEW i \in 1..n, home'[stream[i]] = NoWorker
      PROVE  status'[stream[i]] = "queued"
  BY <1>0, <1>1, <1>2, StaysQueued
<1>. HIDE DEF n
<1>3. CASE stream' = stream /\ home' = home
  <2>1. \A i \in 1..n : status'[stream[i]] = "queued" /\ home'[stream[i]] = NoWorker
    BY <1>1, <1>2, <1>3
  <2>. QED
    BY <1>0, <1>1, <1>3, <2>1 DEF QueueInv
<1>4. ASSUME NEW t \in Tasks, SubmitTask(t)
      PROVE  QueueInv'
  <2>1. status[t] = "absent" /\ stream' = Append(stream, t) /\ home' = home
        /\ status' = [status EXCEPT ![t] = "queued"]
    BY <1>4 DEF SubmitTask, QueueTask
  <2>2. status'[t] = "queued" /\ home'[t] = NoWorker
    BY <2>1 DEF RedisTypeOK, StoreTypeOK, TaskInv, FreshInv
  <2>3. /\ DOMAIN stream' = 1..(n + 1) /\ stream'[n + 1] = t
        /\ \A i \in 1..n : stream'[i] = stream[i]
    <3>1. Append(stream, t) \in Seq(Tasks) /\ Len(Append(stream, t)) = n + 1
      BY <1>0, AppendProperties DEF n
    <3>2. Append(stream, t)[n + 1] = t /\ \A i \in 1..n : Append(stream, t)[i] = stream[i]
      BY <1>0, AppendProperties DEF n
    <3>. QED
      BY <2>1, <3>1, <3>2, LenProperties
  <2>4. \A i \in 1..n : stream[i] # t
    BY <1>1, <2>1
  <2>5. \A i \in 1..(n + 1) : i \in 1..n \/ i = n + 1
    BY <1>0
  <2>6. \A i \in 1..n : status'[stream[i]] = "queued" /\ home'[stream[i]] = NoWorker
    BY <1>1, <1>2, <2>1
  <2>7. \A i \in 1..(n + 1) : status'[stream'[i]] = "queued" /\ home'[stream'[i]] = NoWorker
    BY <2>2, <2>3, <2>5, <2>6
  <2>8. ASSUME NEW i \in 1..(n + 1), NEW j \in 1..(n + 1), stream'[i] = stream'[j]
        PROVE  i = j
    BY <1>1, <2>3, <2>4, <2>5, <2>8
  <2>. QED
    BY <2>3, <2>7, <2>8 DEF QueueInv
<1>5. ASSUME NEW w \in Workers, NEW t \in Tasks, ConsumeTask(w, t)
      PROVE  QueueInv'
  <2>1. stream # <<>> /\ t = Head(stream) /\ stream' = Tail(stream) /\ home' = [home EXCEPT ![t] = w]
    BY <1>5 DEF ConsumeTask, ReadGroup
  <2>2. /\ n \in Nat \ {0} /\ DOMAIN stream' = 1..(n - 1) /\ t = stream[1]
        /\ \A i \in 1..(n - 1) : stream'[i] = stream[i + 1]
    <3>1. Tail(stream) \in Seq(Tasks) /\ Len(Tail(stream)) = n - 1 /\ n \in Nat \ {0}
      BY <1>0, <2>1, HeadTailProperties, EmptySeq DEF n
    <3>2. \A i \in 1..(n - 1) : Tail(stream)[i] = stream[i + 1]
      BY <1>0, <2>1, <3>1, HeadTailProperties DEF n
    <3>3. Head(stream) = stream[1]
      BY <1>0, <2>1
    <3>. QED
      BY <2>1, <3>1, <3>2, <3>3, LenProperties
  <2>3. ASSUME NEW i \in 1..(n - 1)
        PROVE  i + 1 \in 1..n /\ i + 1 # 1 /\ 1 \in 1..n
    BY <2>2, <2>3
  <2>4. \A i \in 1..(n - 1) : stream'[i] # t
    BY <1>1, <2>2, <2>3
  <2>5. \A u \in Tasks : u # t => home'[u] = home[u]
    BY <2>1 DEF RedisTypeOK
  <2>6. ASSUME NEW i \in 1..(n - 1)
        PROVE  status'[stream'[i]] = "queued" /\ home'[stream'[i]] = NoWorker
    <3>1. stream'[i] = stream[i + 1] /\ stream[i + 1] \in Tasks /\ stream[i + 1] # t /\ i + 1 \in 1..n
      BY <1>0, <2>2, <2>3, <2>4
    <3>2. home'[stream[i + 1]] = NoWorker
      BY <1>1, <2>5, <3>1
    <3>. QED
      BY <1>2, <3>1, <3>2
  <2>7. ASSUME NEW i \in 1..(n - 1), NEW j \in 1..(n - 1), stream'[i] = stream'[j]
        PROVE  i = j
    <3>1. i + 1 = j + 1
      BY <1>1, <2>2, <2>3, <2>7
    <3>. QED
      BY <3>1
  <2>. QED
    BY <2>2, <2>6, <2>7 DEF QueueInv
<1>. QED
  BY <1>3, <1>4, <1>5, QueueSteps

-----------------------------------------------------------------------------
(***************************************************************************)
(* The types.                                                              *)
(***************************************************************************)

\* A sequence of a set's members is one of any larger set's.
LEMMA LargerSeq ==
  ASSUME NEW S, NEW T, S \subseteq T
  PROVE  Seq(S) \subseteq Seq(T)
BY SeqDef

\* The scripts of all tasks are sequences of commands.
LEMMA ScriptsAreTyped ==
  ASSUME \A t \in Tasks : Scripted(t)', \E f : todo' = [a \in Actors |-> f[a]]
  PROVE  todo' \in [Actors -> Seq(Commands)]
<1>1. Seq(Sound) \subseteq Seq(Commands)
  BY LargerSeq DEF Sound
<1>2. ASSUME NEW a \in Actors
      PROVE  todo'[a] \in Seq(Commands)
  <2>1. PICK t \in Tasks :
          a = Run(t) \/ a = Create(t) \/ a = Cancel(t) \/ \E r \in Readers : a = Reader(r, t)
    BY WritersAreActors
  <2>2. /\ Orderly(todo[Run(t)])' /\ Orderly(todo[Create(t)])' /\ Orderly(todo[Cancel(t)])'
        /\ \A r \in Readers : Orderly(todo[Reader(r, t)])'
    BY DEF Scripted, RestOfRun, RestOfRequest
  <2>3. todo'[a] \in Seq(Sound)
    BY <2>1, <2>2 DEF Orderly, Run, Create, Cancel, Reader
  <2>. QED
    BY <1>1, <2>3
<1>. QED
  BY <1>2

\* What an actor appends is an event.
LEMMA EventsAreTyped ==
  ASSUME RedisTypeOK, NEW t \in Tasks, Scripted(t), NEW a \in Writers(t), todo[a] # <<>>,
         Head(todo[a]).op \in AppendOps
  PROVE  EventOf(a) \in Event
<1>1. held[a] \in Nat /\ Head(todo[a]).arg \in Kinds
  BY WritersAreActors, HeadsAreSound DEF RedisTypeOK
<1>. QED
  BY <1>1 DEF EventOf, Arg, Event

\* Steps of append_event.
LEMMA AppendTypes ==
  ASSUME RedisTypeOK, NEW t \in Tasks, TaskInv(t), NEW a \in Writers(t), AppendStep(a),
         todo' \in [Actors -> Seq(Commands)]
  PROVE  RedisTypeOK'
<1>0. a \in Actors /\ a[2] = t /\ Scripted(t)
  BY WritersAreActors DEF TaskInv
<1>1. AppendMove(t, a)
  BY <1>0, AppendMoves
<1>2. CASE Incr(a)
  <2>1. /\ seq' = [seq EXCEPT ![t] = @ + 1]
        /\ held' = [held EXCEPT ![a] = seq'[t]]
        /\ UNCHANGED <<status, cancelled, log, stream, pel, memory, inbox, conn>>
        /\ UNCHANGED <<mode, home, reader, loaded, answered, faults, cut>>
    BY <1>0, <1>2 DEF Incr, IncrSeq, metaVars, queueVars, liveVars, runVars
  <2>2. seq' \in [Tasks -> Nat]
    BY <2>1 DEF RedisTypeOK, StoreTypeOK
  <2>3. held' \in [Actors -> Nat]
    BY <1>0, <2>1, <2>2 DEF RedisTypeOK
  <2>. QED
    BY <2>1, <2>2, <2>3 DEF RedisTypeOK, StoreTypeOK
<1>3. CASE Xadd(a)
  <2>. DEFINE E == {e \in Event : e.seq > 0}
  <2>1. /\ log' = [log EXCEPT ![t] = Append(@, EventOf(a))]
        /\ UNCHANGED <<status, cancelled, seq, stream, pel, memory, inbox, conn>>
        /\ UNCHANGED <<held, mode, home, reader, loaded, answered, faults, cut>>
    BY <1>0, <1>3 DEF Xadd, XaddEvent, metaVars, queueVars, liveVars, runVars
  <2>2. Wrote(t, a)
    BY <1>1, <1>3 DEF AppendMove, Drew, Published, Xadd, Does, At
  <2>3. log'[t] \in Seq(E)
    BY <2>2, Logging
  <2>4. log \in [Tasks -> Seq(E)]
    BY DEF RedisTypeOK, StoreTypeOK
  <2>. HIDE DEF E
  <2>5. log' \in [Tasks -> Seq(E)]
    BY <2>1, <2>3, <2>4
  <2>. QED
    BY <2>1, <2>5 DEF RedisTypeOK, StoreTypeOK, E
<1>4. CASE Publish(a)
  <2>1. /\ inbox' = [c \in Clients |-> IF Subscribed(c, t) THEN Append(inbox[c], EventOf(a)) ELSE inbox[c]]
        /\ answered' = answered \cup {u \in Tasks : a = Create(u)}
        /\ UNCHANGED <<status, cancelled, seq, log, stream, pel, memory, conn>>
        /\ UNCHANGED <<held, mode, home, reader, loaded, faults, cut>>
    BY <1>0, <1>4 DEF Publish, PublishEvent, metaVars, queueVars, liveVars, runVars
  <2>2. EventOf(a) \in Event
    BY <1>0, <1>4, EventsAreTyped DEF Publish, Does, At, AppendOps
  <2>3. \A c \in Clients : inbox[c] \in Seq(Event)
    BY DEF RedisTypeOK, StoreTypeOK
  <2>4. \A c \in Clients : Append(inbox[c], EventOf(a)) \in Seq(Event)
    BY <2>2, <2>3, AppendProperties
  <2>5. inbox' \in [Clients -> Seq(Event)]
    BY <2>1, <2>3, <2>4
  <2>6. answered' \in SUBSET Tasks
    BY <2>1 DEF RedisTypeOK
  <2>. QED
    BY <2>1, <2>5, <2>6 DEF RedisTypeOK, StoreTypeOK
<1>. QED
  BY <1>2, <1>3, <1>4 DEF AppendStep

\* Steps of a run.
LEMMA RunTypes ==
  ASSUME RedisTypeOK, NEW t \in Tasks, TaskInv(t), todo' \in [Actors -> Seq(Commands)],
         Start(t) \/ Hset(t) \/ Test(t) \/ Refuse(t) \/ SetUp(t)
           \/ Enter(t) \/ Join(t) \/ Save(t) \/ Leave(t) \/ Ack(t)
  PROVE  RedisTypeOK'
<1>0. Session[t] \in Sessions /\ loaded[t] \in Seq(Tasks) /\ memory[Session[t]] \in Seq(Tasks)
  BY PayloadAssumption DEF RedisTypeOK, StoreTypeOK
<1>1. CASE Start(t) \/ Test(t) \/ Refuse(t) \/ SetUp(t) \/ Join(t)
  <2>1. UNCHANGED <<storeVars, held, runVars>>
    BY <1>1 DEF Start, Test, Refuse, SetUp, Join
  <2>. QED
    BY <2>1 DEF storeVars, metaVars, queueVars, liveVars, runVars, RedisTypeOK, StoreTypeOK
<1>2. CASE Hset(t)
  <2>1. /\ status' = [status EXCEPT ![t] = Arg(Run(t))]
        /\ UNCHANGED <<cancelled, seq, log, stream, pel, memory, inbox, conn>>
        /\ UNCHANGED <<held, mode, home, reader, loaded, answered, faults, cut>>
    BY <1>2 DEF Hset, HsetStatus, queueVars, liveVars, runVars
  <2>2. Head(todo[Run(t)]) \in Sound /\ Head(todo[Run(t)]).op = "hset"
    BY <1>2, HeadsAreSound, WritersAreActors DEF Hset, Does, At, TaskInv
  <2>3. Arg(Run(t)) \in Statuses
    BY <2>2 DEF Arg, Sound, Statuses
  <2>. QED
    BY <2>1, <2>3 DEF RedisTypeOK, StoreTypeOK
<1>3. CASE Enter(t) \/ Leave(t)
  <2>1. UNCHANGED <<storeVars, held, mode, home, reader, answered, faults, cut>>
    BY <1>3 DEF Enter, Leave
  <2>2. loaded' = [loaded EXCEPT ![t] = memory[Session[t]]] \/ loaded' = [loaded EXCEPT ![t] = <<>>]
    BY <1>3 DEF Enter, Leave
  <2>4. <<>> \in Seq(Tasks)
    OBVIOUS
  <2>3. loaded' \in [Tasks -> Seq(Tasks)]
    BY <1>0, <2>2, <2>4 DEF RedisTypeOK
  <2>. QED
    BY <2>1, <2>3 DEF storeVars, metaVars, queueVars, liveVars, RedisTypeOK, StoreTypeOK
<1>4. CASE Save(t)
  <2>1. /\ memory' = [memory EXCEPT ![Session[t]] = Append(loaded[t], t)]
        /\ UNCHANGED <<status, cancelled, seq, log, stream, pel, inbox, conn>>
        /\ UNCHANGED <<held, mode, home, reader, loaded, answered, faults, cut>>
    BY <1>4 DEF Save, SessionSet, metaVars, queueVars, liveVars, runVars
  <2>2. Append(loaded[t], t) \in Seq(Tasks)
    BY <1>0, AppendProperties
  <2>3. memory' \in [Sessions -> Seq(Tasks)]
    BY <2>1, <2>2 DEF RedisTypeOK, StoreTypeOK
  <2>. QED
    BY <2>1, <2>3 DEF RedisTypeOK, StoreTypeOK
<1>5. CASE Ack(t)
  <2>1. /\ pel' = pel \ {t}
        /\ UNCHANGED <<status, cancelled, seq, log, stream, memory, inbox, conn>>
        /\ UNCHANGED <<held, mode, home, reader, loaded, answered, faults, cut>>
    BY <1>5 DEF Ack, AckDelivery, metaVars, liveVars, runVars
  <2>2. pel' \in SUBSET Tasks
    BY <2>1 DEF RedisTypeOK, StoreTypeOK
  <2>. QED
    BY <2>1, <2>2 DEF RedisTypeOK, StoreTypeOK
<1>. QED
  BY <1>1, <1>2, <1>3, <1>4, <1>5

\* Steps of a reader, but for what it appends.
LEMMA ReadTypes ==
  ASSUME RedisTypeOK, NEW r \in Readers, NEW t \in Tasks, todo' \in [Actors -> Seq(Commands)],
         ReadLine(r, t) \/ LeaveReader(r, t)
  PROVE  RedisTypeOK'
<1>1. UNCHANGED <<storeVars, held, mode, home, loaded, answered, faults, cut>>
  BY DEF ReadLine, LeaveReader, actorVars, runVars
<1>2. reader' = reader \/ reader' = [reader EXCEPT ![Reader(r, t)] = "left"]
  BY DEF ReadLine, LeaveReader, runVars
<1>3. reader' \in [Readers \X Tasks -> {"awaited", "left", "stopped"}]
  BY <1>2 DEF RedisTypeOK
<1>. QED
  BY <1>1, <1>3 DEF storeVars, metaVars, queueVars, liveVars, RedisTypeOK, StoreTypeOK

\* Requests, and a worker's turn.
LEMMA ClientTypes ==
  ASSUME RedisTypeOK, NEW t \in Tasks, todo' \in [Actors -> Seq(Commands)],
         ClientStep(t) \/ \E w \in Workers : ConsumeTask(w, t)
  PROVE  RedisTypeOK'
<1>0. stream \in Seq(Tasks)
  BY DEF RedisTypeOK, StoreTypeOK
<1>1. CASE SubmitTask(t)
  <2>1. /\ status' = [status EXCEPT ![t] = "queued"]
        /\ seq' = [seq EXCEPT ![t] = 0]
        /\ stream' = Append(stream, t)
        /\ \E m \in Modes[t] : mode' = [mode EXCEPT ![t] = m]
        /\ UNCHANGED <<cancelled, log, pel, memory, inbox, conn>>
        /\ UNCHANGED <<held, home, reader, loaded, answered, faults, cut>>
    BY <1>1 DEF SubmitTask, QueueTask, liveVars
  <2>2. status' \in [Tasks -> Statuses] /\ seq' \in [Tasks -> Nat]
    BY <2>1 DEF RedisTypeOK, StoreTypeOK, Statuses
  <2>3. stream' \in Seq(Tasks)
    BY <1>0, <2>1, AppendProperties
  <2>4. mode' \in [Tasks -> {"mock", "agent", "other"}]
    BY <2>1, PayloadAssumption DEF RedisTypeOK
  <2>. QED
    BY <2>1, <2>2, <2>3, <2>4 DEF RedisTypeOK, StoreTypeOK
<1>2. CASE CancelTask(t)
  <2>1. /\ cancelled' = cancelled \cup {t}
        /\ UNCHANGED <<status, seq, log, stream, pel, memory, inbox, conn>>
        /\ UNCHANGED <<held, mode, home, reader, loaded, answered, faults, cut>>
    BY <1>2 DEF CancelTask, SetCancel, queueVars, liveVars, runVars
  <2>. QED
    BY <2>1 DEF RedisTypeOK, StoreTypeOK
<1>3. ASSUME NEW w \in Workers, ConsumeTask(w, t)
      PROVE  RedisTypeOK'
  <2>1. /\ stream # <<>> /\ stream' = Tail(stream)
        /\ pel' = pel \cup {t}
        /\ home' = [home EXCEPT ![t] = w]
        /\ UNCHANGED <<status, cancelled, seq, log, memory, inbox, conn>>
        /\ UNCHANGED <<held, mode, reader, loaded, answered, faults, cut>>
    BY <1>3 DEF ConsumeTask, ReadGroup, metaVars, liveVars
  <2>2. stream' \in Seq(Tasks)
    BY <1>0, <2>1, HeadTailProperties
  <2>3. pel' \in SUBSET Tasks /\ home' \in [Tasks -> Workers \cup {NoWorker}]
    BY <2>1 DEF RedisTypeOK, StoreTypeOK
  <2>. QED
    BY <2>1, <2>2, <2>3 DEF RedisTypeOK, StoreTypeOK
<1>. QED
  BY <1>1, <1>2, <1>3 DEF ClientStep

\* Faults.
LEMMA FaultTypes ==
  ASSUME RedisTypeOK, todo' \in [Actors -> Seq(Commands)], FaultStep
  PROVE  RedisTypeOK'
<1>0. faults' \in 0..MaxFaults
  <2>1. faults < MaxFaults /\ faults' = faults + 1
    BY DEF FaultStep, RaiseInTry, RaiseOutside, Restart, Abandon, Fault
  <2>. QED
    BY <2>1, BoundAssumption DEF RedisTypeOK
<1>1. UNCHANGED <<storeVars, held, mode, home, answered>>
  BY DEF FaultStep, RaiseInTry, RaiseOutside, Restart, Abandon
<1>2. <<>> \in Seq(Tasks)
  OBVIOUS
<1>4. reader' \in [Readers \X Tasks -> {"awaited", "left", "stopped"}]
  <2>. DEFINE S == {"awaited", "left", "stopped"}
              R == Readers \X Tasks
  <2>1. reader \in [R -> S] /\ "left" \in S /\ "stopped" \in S
    BY DEF RedisTypeOK
  <2>2. \A a \in R : reader[a] \in S
    BY <2>1
  <2>3. DOMAIN reader = R
    BY <2>1
  <2>. HIDE DEF S, R
  <2>4. ASSUME NEW t \in Tasks, RaiseInTry(t)
        PROVE  reader' \in [R -> S]
    <3>1. reader' = [a \in R |-> IF a[2] = t /\ AtWork(t) THEN "left" ELSE reader[a]]
      BY <2>3, <2>4 DEF RaiseInTry
    <3>. QED
      BY <2>1, <2>2, <3>1
  <2>5. ASSUME NEW t \in Tasks, RaiseOutside(t)
        PROVE  reader' \in [R -> S]
    BY <2>1, <2>5 DEF RaiseOutside
  <2>6. ASSUME NEW w \in Workers, Restart(w)
        PROVE  reader' \in [R -> S]
    <3>. DEFINE mine == {t \in Tasks : home[t] = w}
    <3>1. reader' = [a \in R |-> IF reader[a] = "left" /\ a[2] \in mine THEN "stopped" ELSE reader[a]]
      BY <2>3, <2>6 DEF Restart
    <3>. HIDE DEF mine
    <3>. QED
      BY <2>1, <2>2, <3>1
  <2>7. ASSUME NEW a \in Actors, Abandon(a)
        PROVE  reader' \in [R -> S]
    BY <2>1, <2>7 DEF Abandon
  <2>8. reader' \in [R -> S]
    BY <2>4, <2>5, <2>6, <2>7 DEF FaultStep
  <2>. QED
    BY <2>8 DEF R, S
<1>3. loaded' \in [Tasks -> Seq(Tasks)] /\ cut' \in SUBSET Tasks
  <2>1. loaded \in [Tasks -> Seq(Tasks)] /\ cut \in SUBSET Tasks
    BY DEF RedisTypeOK
  <2>2. ASSUME NEW t \in Tasks, RaiseInTry(t)
        PROVE  loaded' \in [Tasks -> Seq(Tasks)] /\ cut' \in SUBSET Tasks
    BY <1>2, <2>1, <2>2 DEF RaiseInTry
  <2>3. ASSUME NEW t \in Tasks, RaiseOutside(t)
        PROVE  loaded' \in [Tasks -> Seq(Tasks)] /\ cut' \in SUBSET Tasks
    BY <2>1, <2>3 DEF RaiseOutside
  <2>4. ASSUME NEW w \in Workers, Restart(w)
        PROVE  loaded' \in [Tasks -> Seq(Tasks)] /\ cut' \in SUBSET Tasks
    BY <1>2, <2>1, <2>4 DEF Restart
  <2>5. ASSUME NEW a \in Actors, Abandon(a)
        PROVE  loaded' \in [Tasks -> Seq(Tasks)] /\ cut' \in SUBSET Tasks
    BY <2>1, <2>5 DEF Abandon
  <2>. QED
    BY <2>2, <2>3, <2>4, <2>5 DEF FaultStep
<1>. QED
  BY <1>0, <1>1, <1>3, <1>4 DEF storeVars, metaVars, queueVars, liveVars, RedisTypeOK, StoreTypeOK

\* Every step gives each actor of Actors a script, and nobody else.
LEMMA ScriptsStay ==
  ASSUME RedisTypeOK, ServerNext
  PROVE  \E f : todo' = [a \in Actors |-> f[a]]
<1>0. DOMAIN todo = Actors /\ todo = [a \in Actors |-> todo[a]]
  BY DEF RedisTypeOK
<1>1. ASSUME NEW a, NEW s, Goes(a, s)
      PROVE  \E f : todo' = [b \in Actors |-> f[b]]
  <2>1. todo' = [b \in Actors |-> todo'[b]]
    BY <1>0, <1>1 DEF Goes
  <2>. QED
    BY <2>1
<1>2. ASSUME NEW w, Restart(w)
      PROVE  \E f : todo' = [b \in Actors |-> f[b]]
  <2>1. todo' = [b \in Actors |-> todo'[b]]
    BY <1>2 DEF Restart
  <2>. QED
    BY <2>1
<1>3. CASE Idle
  BY <1>0, <1>3 DEF Idle, serverVars, actorVars
<1>4. ASSUME NEW a, AppendStep(a)
      PROVE  \E s : Goes(a, s)
  BY <1>4 DEF AppendStep, Incr, Xadd, Publish, Does
<1>5. ASSUME NEW t, Start(t) \/ Hset(t) \/ Test(t) \/ Refuse(t) \/ SetUp(t)
                      \/ Enter(t) \/ Join(t) \/ Save(t) \/ Leave(t) \/ Ack(t)
      PROVE  \E s : Goes(Run(t), s)
  BY <1>5 DEF Start, Hset, Test, Refuse, SetUp, Enter, Join, Save, Leave, Ack, Does
<1>6. ASSUME NEW t, ClientStep(t) \/ (\E w \in Workers : ConsumeTask(w, t)) \/ RaiseInTry(t) \/ RaiseOutside(t)
      PROVE  \E a : \E s : Goes(a, s)
  BY <1>6 DEF ClientStep, SubmitTask, CancelTask, ConsumeTask, RaiseInTry, RaiseOutside
<1>7. ASSUME NEW a, Abandon(a)
      PROVE  \E s : Goes(a, s)
  BY <1>7 DEF Abandon
<1>8. ASSUME NEW r, NEW t, ReadLine(r, t)
      PROVE  \E s : Goes(Reader(r, t), s)
  BY <1>8 DEF ReadLine
<1>9. ASSUME NEW r, NEW t, LeaveReader(r, t)
      PROVE  \E f : todo' = [b \in Actors |-> f[b]]
  BY <1>0, <1>9 DEF LeaveReader, actorVars
<1>. QED
  BY <1>1, <1>2, <1>3, <1>4, <1>5, <1>6, <1>7, <1>8, <1>9
  DEF ServerNext, ServerStep, FaultStep, RequestStep, RunStep, ReaderStep

\* Every step keeps the types.
LEMMA KeepsTypes ==
  ASSUME RedisTypeOK, QueueInv, \A t \in Tasks : TaskInv(t), ServerNext
  PROVE  RedisTypeOK'
<1>1. \A t \in Tasks : Scripted(t)'
  BY StepMoves, KeepsScripted
<1>2. todo' \in [Actors -> Seq(Commands)]
  BY <1>1, ScriptsStay, ScriptsAreTyped
<1>3. ASSUME NEW t \in Tasks, RequestStep(t) \/ AppendStep(Run(t))
      PROVE  RedisTypeOK'
  BY <1>2, <1>3, WritersAreActors, AppendTypes DEF RequestStep
<1>4. ASSUME NEW t \in Tasks, RunStep(t)
      PROVE  RedisTypeOK'
  BY <1>2, <1>3, <1>4, RunTypes DEF RunStep
<1>5. ASSUME NEW t \in Tasks, ClientStep(t) \/ \E w \in Workers : ConsumeTask(w, t)
      PROVE  RedisTypeOK'
  BY <1>2, <1>5, ClientTypes
<1>6. CASE FaultStep
  BY <1>2, <1>6, FaultTypes
<1>7. CASE Idle
  BY <1>7 DEF Idle, serverVars, storeVars, metaVars, queueVars, liveVars, actorVars, runVars, RedisTypeOK, StoreTypeOK
<1>8. ASSUME NEW r \in Readers, NEW t \in Tasks, ReaderStep(r, t)
      PROVE  RedisTypeOK'
  <2>1. Reader(r, t) \in Writers(t)
    BY WritersAreActors
  <2>. QED
    BY <1>2, <1>8, <2>1, AppendTypes, ReadTypes DEF ReaderStep
<1>. QED
  BY <1>3, <1>4, <1>5, <1>6, <1>7, <1>8 DEF ServerNext, ServerStep

-----------------------------------------------------------------------------
(***************************************************************************)
(* The invariant.                                                          *)
(***************************************************************************)

\* Nothing was submitted yet: every part of the invariant holds.
LEMMA RedisInvHoldsAtFirst ==
  ASSUME ServerInit
  PROVE  RedisInv
<1>0. /\ StoreInit
      /\ mode = [t \in Tasks |-> "other"]
      /\ todo = [a \in Actors |-> <<>>]
      /\ held = [a \in Actors |-> 0]
      /\ home = [t \in Tasks |-> NoWorker]
      /\ reader = [a \in Readers \X Tasks |-> "awaited"]
      /\ loaded = [t \in Tasks |-> <<>>]
      /\ answered = {} /\ faults = 0 /\ cut = {}
  BY DEF ServerInit
<1>1. /\ status = [t \in Tasks |-> "absent"]
      /\ seq = [t \in Tasks |-> 0]
      /\ log = [t \in Tasks |-> <<>>]
      /\ cancelled = {} /\ stream = <<>> /\ pel = {}
      /\ memory = [s \in Sessions |-> <<>>]
      /\ inbox = [c \in Clients |-> <<>>]
      /\ conn = [c \in Clients |-> NoConn]
  BY <1>0 DEF StoreInit
<1>2. RedisTypeOK
  <2>. DEFINE E == {e \in Event : e.seq > 0}
  <2>1. \A S : <<>> \in Seq(S)
    OBVIOUS
  <2>2. NoConn \in Conns
    BY <2>1 DEF NoConn, Conns, ConnPhases
  <2>3. log \in [Tasks -> Seq(E)]
    BY <1>1, <2>1
  <2>4. StoreTypeOK
    BY <1>1, <2>1, <2>2, <2>3 DEF StoreTypeOK, Statuses
  <2>5. todo \in [Actors -> Seq(Commands)] /\ loaded \in [Tasks -> Seq(Tasks)]
    BY <1>0, <2>1
  <2>6. faults \in 0..MaxFaults
    BY <1>0, BoundAssumption
  <2>. QED
    BY <1>0, <2>4, <2>5, <2>6 DEF RedisTypeOK
<1>3. DOMAIN <<>> = {}
  OBVIOUS
<1>4. QueueInv
  BY <1>1, <1>3 DEF QueueInv
<1>5. ASSUME NEW t \in Tasks
      PROVE  TaskInv(t)
  <2>1. \A a \in Writers(t) : todo[a] = <<>>
    BY <1>0, WritersAreActors
  <2>2. /\ todo[Run(t)] = <<>> /\ todo[Create(t)] = <<>> /\ todo[Cancel(t)] = <<>>
        /\ \A r \in Readers : todo[Reader(r, t)] = <<>>
    BY <2>1, WritersAreActors
  <2>14. \A r \in Readers : reader[Reader(r, t)] = "awaited"
    BY <1>0 DEF Reader
  <2>3. status[t] = "absent" /\ seq[t] = 0 /\ log[t] = <<>> /\ home[t] = NoWorker
    BY <1>0, <1>1
  <2>4. \A K : ~LogHas(t, K)
    BY <1>3, <2>3 DEF LogHas
  <2>5. Range(todo[Run(t)]) = {}
    BY <2>2, ShortScripts
  <2>6. Scripted(t)
    BY <2>2, ShortScripts DEF Scripted
  <2>7. FreshInv(t)
    BY <1>0, <1>1, <2>2, <2>3, <2>4, <2>14 DEF FreshInv
  <2>15. ReaderInv(t)
    BY <1>3, <2>2 DEF ReaderInv, AtWork, Ahead
  <2>8. DeliveryInv(t)
    BY <1>1, <2>2 DEF DeliveryInv, Live
  <2>9. RunningInv(t) /\ SilentInv(t)
    BY <1>3, <2>3, <2>4 DEF RunningInv, SilentInv
  <2>10. VerdictInv(t)
    BY <1>3, <2>2, <2>4 DEF VerdictInv, Ahead
  <2>11. StatusInv(t)
    BY <2>2, <2>3, <2>4, AnnouncesOnce DEF StatusInv, At, Verdicts
  <2>12. NumberInv(t)
    <3>1. \A a \in Writers(t) : ~At(a, "xadd")
      BY <2>1 DEF At
    <3>2. (1..seq[t]) \ (Logged(t) \cup InHand(t)) = {}
      BY <2>3
    <3>3. Cardinality((1..seq[t]) \ (Logged(t) \cup InHand(t))) = 0
      BY <3>2, FS_EmptySet
    <3>4. faults * WritersOfRun = 0
      <4>1. 0 \in Nat
        OBVIOUS
      <4>2. WritersOfRun \in Nat
        BY <4>1, Shares
      <4>. QED
        BY <1>0, <4>2
    <3>. QED
      BY <1>3, <2>3, <3>1, <3>3, <3>4 DEF NumberInv
  <2>13. ConclusionInv(t)
    BY <1>0, <2>3 DEF ConclusionInv
  <2>. QED
    BY <2>6, <2>7, <2>8, <2>9, <2>10, <2>11, <2>12, <2>13, <2>15 DEF TaskInv
<1>6. \A t \in Tasks : ~InSession(t)
  <2>1. \A t \in Tasks : todo[Run(t)] = <<>>
    BY <1>0, WritersAreActors
  <2>. QED
    BY <2>1, InSessionLive
<1>7. SessionMutex /\ IsolatedOnOneWorker
  BY <1>6 DEF SessionMutex, IsolatedOnOneWorker
<1>. QED
  BY <1>2, <1>4, <1>5, <1>7 DEF RedisInv

\* Every step of the API process and of the workers keeps the invariant, ...
LEMMA ServerKeepsRedisInv ==
  ASSUME RedisInv, ServerNext
  PROVE  RedisInv'
<1>0. RedisTypeOK /\ QueueInv /\ (\A t \in Tasks : TaskInv(t)) /\ SessionMutex /\ IsolatedOnOneWorker
  BY DEF RedisInv
<1>1. RedisTypeOK'
  BY <1>0, KeepsTypes
<1>2. QueueInv'
  BY <1>0, KeepsQueue
<1>3. \A t \in Tasks : TaskInv(t)'
  BY <1>0, StepMoves, KeepsTask
<1>4. SessionMutex' /\ IsolatedOnOneWorker'
  BY <1>0, KeepsMutex, KeepsIsolated
<1>. QED
  BY <1>1, <1>2, <1>3, <1>4 DEF RedisInv

\* ... and so does a step of anyone who only reads.
LEMMA ReadersKeepRedisInv ==
  ASSUME RedisInv,
         UNCHANGED <<metaVars, seq, log, queueVars, memory, actorVars, runVars>>,
         inbox' \in [Clients -> Seq(Event)], conn' \in [Clients -> Conns]
  PROVE  RedisInv'
<1>0. RedisTypeOK /\ QueueInv /\ (\A t \in Tasks : TaskInv(t)) /\ SessionMutex /\ IsolatedOnOneWorker
  BY DEF RedisInv
<1>1. UNCHANGED <<status, cancelled, seq, log, stream, pel, memory, todo, held,
                  mode, home, reader, loaded, answered, faults, cut>>
  BY DEF metaVars, queueVars, actorVars, runVars
<1>2. RedisTypeOK'
  BY <1>0, <1>1 DEF RedisTypeOK, StoreTypeOK
<1>3. QueueInv'
  BY <1>0, <1>1 DEF QueueInv
<1>4. \A t \in Tasks : TaskInv(t)'
  <2>1. \A t \in Tasks : Untouched(t)
    BY <1>0, NothingMoves
  <2>. QED
    BY <1>0, <2>1, KeepsTask DEF Move
<1>5. SessionMutex'
  BY <1>0, <1>1 DEF SessionMutex, InSession, Ahead
<1>6. IsolatedOnOneWorker'
  BY <1>0, <1>1 DEF IsolatedOnOneWorker, InSession, Ahead, At
<1>. QED
  BY <1>2, <1>3, <1>4, <1>5, <1>6 DEF RedisInv

-----------------------------------------------------------------------------
(***************************************************************************)
(* What the invariant says of the properties of RedisServer.               *)
(***************************************************************************)

\* NumberInv, task by task, is NumbersAccounted.
LEMMA NumbersFollow ==
  ASSUME RedisInv
  PROVE  NumbersAccounted
<1>. SUFFICES ASSUME NEW t \in Tasks
              PROVE  /\ \A i, j \in DOMAIN log[t] : log[t][i].seq = log[t][j].seq => i = j
                     /\ Logged(t) \cup InHand(t) \subseteq 1..seq[t]
                     /\ Logged(t) \cap InHand(t) = {}
                     /\ Cardinality((1..seq[t]) \ (Logged(t) \cup InHand(t))) <= faults * WritersOfRun
  BY DEF NumbersAccounted
<1>1. NumberInv(t)
  BY DEF RedisInv, TaskInv
<1>2. \A n : n \in InHand(t) <=> \E a \in Writers(t) : At(a, "xadd") /\ held[a] = n
  BY InHandOf
<1>3. /\ \A i, j \in DOMAIN log[t] : log[t][i].seq = log[t][j].seq => i = j
      /\ \A i \in DOMAIN log[t] : log[t][i].seq \in 1..seq[t]
      /\ \A a \in Writers(t) : At(a, "xadd") =>
           /\ held[a] \in 1..seq[t]
           /\ \A i \in DOMAIN log[t] : log[t][i].seq # held[a]
      /\ Cardinality((1..seq[t]) \ (Logged(t) \cup InHand(t))) <= faults * WritersOfRun
  BY <1>1 DEF NumberInv
<1>4. Logged(t) \cup InHand(t) \subseteq 1..seq[t] /\ Logged(t) \cap InHand(t) = {}
  BY <1>2, <1>3 DEF Logged
<1>. QED
  BY <1>3, <1>4

\* A status is shown after its event, and a run that ended by itself has shown it.
LEMMA StatusesFollow ==
  ASSUME RedisInv
  PROVE  StatusFollowsLog
<1>. SUFFICES ASSUME NEW t \in Tasks
              PROVE  /\ status[t] = "failed" => LogHas(t, {"error"})
                     /\ status[t] = "cancelled" => LogHas(t, {"cancelled"})
                     /\ status[t] = "succeeded" => LogHas(t, {"ok"})
                     /\ home[t] # NoWorker /\ ~Live(t) /\ t \notin cut =>
                          /\ status[t] = "failed" <=> LogHas(t, {"error"})
                          /\ status[t] = "cancelled" <=> LogHas(t, {"cancelled"})
                          /\ status[t] = "succeeded" <=> LogHas(t, {"ok"}) /\ ~LogHas(t, {"error"})
  BY DEF StatusFollowsLog
<1>1. StatusInv(t)
  BY DEF RedisInv, TaskInv
<1>2. /\ status[t] = "failed" => LogHas(t, {"error"})
      /\ status[t] = "cancelled" => LogHas(t, {"cancelled"})
      /\ status[t] = "succeeded" => LogHas(t, {"ok"})
  <2>1. /\ {"error", "cancelled", "ok"} \subseteq VerdictKinds
        /\ Announces("error") = "failed" /\ Announces("cancelled") = "cancelled" /\ Announces("ok") = "succeeded"
    BY DEF VerdictKinds, ResultKinds, Announces
  <2>2. \A k \in VerdictKinds : status[t] = Announces(k) => LogHas(t, {k})
    BY <1>1 DEF StatusInv
  <2>. QED
    BY <2>1, <2>2
<1>3. ASSUME ~Live(t), t \notin cut
      PROVE  /\ LogHas(t, {"error"}) => status[t] = "failed"
             /\ LogHas(t, {"cancelled"}) => status[t] = "cancelled"
             /\ LogHas(t, {"ok"}) => status[t] \in {"succeeded", "failed"}
  <2>1. \A s : ~Pending(t, s)
    BY <1>3, ShortScripts DEF Pending, Live
  <2>2. \A S : Told(t, S) => status[t] \in S
    BY <2>1 DEF Told
  <2>3. /\ LogHas(t, {"error"}) => Told(t, {"failed"})
        /\ LogHas(t, {"cancelled"}) => Told(t, {"cancelled"})
        /\ LogHas(t, {"ok"}) => Told(t, {"succeeded", "failed"})
    BY <1>1, <1>3 DEF StatusInv
  <2>. QED
    BY <2>2, <2>3
<1>. QED
  BY <1>2, <1>3

\* SilentInv, task by task, is SilentAfterVerdict.
LEMMA SilenceFollows ==
  ASSUME RedisInv
  PROVE  SilentAfterVerdict
<1>1. \A t \in Tasks : SilentInv(t)
  BY DEF RedisInv, TaskInv
<1>. QED
  BY <1>1 DEF SilentAfterVerdict, SilentInv

\* The queue, the pending entries and the runs agree.
LEMMA DeliveriesFollow ==
  ASSUME RedisInv
  PROVE  DeliveredOnce
<1>1. QueueInv /\ \A t \in Tasks : FreshInv(t) /\ DeliveryInv(t) /\ RunningInv(t)
  BY DEF RedisInv, TaskInv
<1>. SUFFICES ASSUME NEW t \in Tasks
              PROVE  /\ \A i, j \in DOMAIN stream : stream[i] = t /\ stream[j] = t => i = j
                     /\ (\E i \in DOMAIN stream : stream[i] = t) =>
                          status[t] = "queued" /\ home[t] = NoWorker /\ ~Live(t)
                     /\ Live(t) => t \in pel /\ home[t] # NoWorker
                     /\ t \in pel => Live(t) \/ t \in cut
                     /\ \A i, j \in DOMAIN log[t] :
                          log[t][i].kind = "running" /\ log[t][j].kind = "running" => i = j
  BY DEF DeliveredOnce
<1>2. /\ \A i, j \in DOMAIN stream : stream[i] = t /\ stream[j] = t => i = j
      /\ \A i \in DOMAIN stream : stream[i] = t => status[t] = "queued" /\ home[t] = NoWorker
  BY <1>1 DEF QueueInv
<1>3. home[t] = NoWorker => ~Live(t)
  BY <1>1 DEF FreshInv, Live
<1>4. /\ Live(t) => t \in pel
      /\ t \in pel => Live(t) \/ t \in cut
  BY <1>1 DEF DeliveryInv
<1>5. \A i, j \in DOMAIN log[t] : log[t][i].kind = "running" /\ log[t][j].kind = "running" => i = j
  BY <1>1 DEF RunningInv
<1>. QED
  BY <1>2, <1>3, <1>4, <1>5

\* A status that is a verdict is set anew only for the error of an agent that raised.
LEMMA RevisionsFollow ==
  ASSUME RedisInv, NEW t \in Tasks, Move(t), status[t] \in Verdicts, status'[t] # status[t]
  PROVE  status[t] = "succeeded" /\ status'[t] = "failed" /\ mode[t] = "agent" /\ faults > 0
<1>0. RedisTypeOK /\ Scripted(t) /\ StatusInv(t) /\ Restricts(t, todo[Run(t)], faults) /\ Run(t) \in Writers(t)
  BY VerdictParts, WritersAreActors DEF RedisInv, TaskInv
<1>. DEFINE h == Head(todo[Run(t)])
<1>1. Set(t)
  BY DEF Move, Untouched, Submitted, Asked, Consumed, AppendMove, Drew, Wrote, Published, RunMove, WentOn,
         Acked, Decided, ReadMove, LeftAlone, BegunLine, FaultMove, Raised, CutShort, Stopped, Abandoned, KeepsRecord, KeepsMeta, Verdicts
<1>2. /\ h \in Range(todo[Run(t)]) /\ h.op = "hset" /\ status'[t] = h.arg
  BY <1>1 DEF Set, Passes, Rest
<1>3. /\ status[t] = "failed" => LogHas(t, {"error"})
      /\ status[t] = "cancelled" => LogHas(t, {"cancelled"})
      /\ status[t] = "succeeded" => LogHas(t, {"ok"})
  <2>1. /\ {"error", "cancelled", "ok"} \subseteq VerdictKinds
        /\ Announces("error") = "failed" /\ Announces("cancelled") = "cancelled" /\ Announces("ok") = "succeeded"
    BY DEF VerdictKinds, ResultKinds, Announces
  <2>2. \A k \in VerdictKinds : status[t] = Announces(k) => LogHas(t, {k})
    BY <1>0 DEF StatusInv
  <2>. QED
    BY <2>1, <2>2
<1>4. status[t] = "failed" \/ status[t] = "cancelled" \/ status[t] = "succeeded"
  BY DEF Verdicts
<1>. QED
  BY <1>0, <1>2, <1>3, <1>4 DEF Restricts, Closes, Succeeds

-----------------------------------------------------------------------------
(***************************************************************************)
(* The delivery: RedisServer implements TaskDelivery.                      *)
(***************************************************************************)

SameVerdicts(t) == status'[t] = status[t] /\ ToldOf(t)' = ToldOf(t)
SameDelivery(t) == DeliveryOf(t)' = DeliveryOf(t)

\* Nothing changes of what TaskDelivery says of t.
WayStays(t) == SameVerdicts(t) /\ SameDelivery(t) /\ KeepsCut(t)

\* The actions of a worker in TaskDelivery, as t sees them.
WayClaims(t) ==
  /\ status[t] = "queued" /\ ToldOf(t) = {}
  /\ status'[t] = "running"
  /\ ToldOf(t)' = ToldOf(t) /\ SameDelivery(t) /\ KeepsCut(t)

WayAnnounces(t, v) ==
  /\ ToldOf(t) = {} \/ (ToldOf(t) = {"succeeded"} /\ v = "failed")
  /\ ToldOf(t)' = ToldOf(t) \cup {v}
  /\ status'[t] = status[t] /\ SameDelivery(t) /\ KeepsCut(t)

Last(t, v) == v \in ToldOf(t) /\ ("failed" \in ToldOf(t) => v = "failed")

WayShows(t, v) ==
  /\ Last(t, v)
  /\ status'[t] = v
  /\ ToldOf(t)' = ToldOf(t) /\ SameDelivery(t) /\ KeepsCut(t)

WayAcknowledges(t) ==
  /\ t \in cut \/ Last(t, status[t])
  /\ DeliveryOf(t)' = "acknowledged"
  /\ SameVerdicts(t) /\ KeepsCut(t)

WayLoses(t) ==
  /\ t \notin cut /\ t \in cut'
  /\ SameVerdicts(t) /\ SameDelivery(t)

\* What a run without its last command does in TaskDelivery.
WayWorks(t) ==
  \/ WayClaims(t)
  \/ \E v \in Verdicts : WayAnnounces(t, v) \/ WayShows(t, v)

\* The announced verdicts are those whose kinds are in the log.
LEMMA ToldKinds ==
  ASSUME NEW t
  PROVE  /\ \A k \in VerdictKinds : Announces(k) \in ToldOf(t) <=> LogHas(t, {k})
         /\ \A k \in VerdictKinds : (Announces(k) \in ToldOf(t))' <=> LogHas(t, {k})'
         /\ ToldOf(t) \subseteq Verdicts /\ ToldOf(t)' \subseteq Verdicts
         /\ \A v \in Verdicts : \E k \in VerdictKinds : v = Announces(k)
BY DEF ToldOf, Announces, VerdictKinds, ResultKinds, Verdicts

\* ... and so they stay when these stay, or grow by what is logged.
LEMMA ToldAfter ==
  ASSUME NEW t
  PROVE  /\ (\A K : LogHas(t, K)' <=> LogHas(t, K)) => ToldOf(t)' = ToldOf(t)
         /\ \A k \in VerdictKinds :
              (\A K : LogHas(t, K)' <=> LogHas(t, K) \/ k \in K) =>
                ToldOf(t)' = ToldOf(t) \cup {Announces(k)}
<1>. DEFINE A == ToldOf(t)
            B == ToldOf(t)'
<1>1. /\ A \subseteq Verdicts /\ B \subseteq Verdicts
      /\ \A k \in VerdictKinds : Announces(k) \in A <=> LogHas(t, {k})
      /\ \A k \in VerdictKinds : Announces(k) \in B <=> LogHas(t, {k})'
      /\ \A v \in Verdicts : \E k \in VerdictKinds : v = Announces(k)
  BY ToldKinds
<1>. HIDE DEF A, B
<1>2. ASSUME \A K : LogHas(t, K)' <=> LogHas(t, K)
      PROVE  B = A
  <2>1. \A k \in VerdictKinds : LogHas(t, {k})' <=> LogHas(t, {k})
    BY <1>2
  <2>2. \A v \in Verdicts : v \in B <=> v \in A
    BY <1>1, <2>1
  <2>. QED
    BY <1>1, <2>2
<1>3. ASSUME NEW k \in VerdictKinds, \A K : LogHas(t, K)' <=> LogHas(t, K) \/ k \in K
      PROVE  B = A \cup {Announces(k)}
  <2>1. \A j \in VerdictKinds : LogHas(t, {j})' <=> LogHas(t, {j}) \/ k = j
    BY <1>3
  <2>2. \A v \in Verdicts : v \in B <=> v \in A \/ v = Announces(k)
    BY <1>1, <2>1, AnnouncesOnce
  <2>3. Announces(k) \in Verdicts
    BY AnnouncesOnce
  <2>. QED
    BY <1>1, <2>2, <2>3
<1>. QED
  BY <1>2, <1>3 DEF A, B

\* Where a delivery is, is said by the queue, the pending entries and the worker.
LEMMA DeliveryStays ==
  ASSUME NEW t, KeepsPending(t), KeepsHome(t), InQueue(t)' <=> InQueue(t)
  PROVE  SameDelivery(t)
BY DEF KeepsPending, KeepsHome, SameDelivery, DeliveryOf

\* Who has a run is given and not in the queue.
LEMMA RunIsGiven ==
  ASSUME QueueInv, NEW t \in Tasks, TaskInv(t), todo[Run(t)] # <<>>
  PROVE  /\ DeliveryOf(t) = "given" /\ ~InQueue(t) /\ home[t] # NoWorker
         /\ status[t] # "absent"
<1>1. home[t] # NoWorker /\ t \in pel /\ status[t] # "absent"
  BY DEF TaskInv, FreshInv, DeliveryInv, Live
<1>2. ~InQueue(t)
  BY <1>1 DEF QueueInv, InQueue
<1>. QED
  BY <1>1, <1>2 DEF DeliveryOf

\* What no step touches stays in TaskDelivery.
LEMMA UntouchedStays ==
  ASSUME NEW t, Untouched(t), InQueue(t)' <=> InQueue(t)
  PROVE  WayStays(t)
<1>1. ToldOf(t)' = ToldOf(t)
  BY LogStays, ToldAfter DEF Untouched, KeepsLog
<1>2. SameDelivery(t)
  BY DeliveryStays DEF Untouched, KeepsRecord
<1>. QED
  BY <1>1, <1>2 DEF WayStays, SameVerdicts, Untouched, KeepsRecord, KeepsMeta, KeepsFate

\* The XADD of a verdict announces it, and no run announces two but the error
\* that comes after a success.
LEMMA WritesAnnounce ==
  ASSUME RedisTypeOK, QueueInv, NEW t \in Tasks, TaskInv(t), NEW a \in Writers(t), Wrote(t, a),
         InQueue(t)' <=> InQueue(t)
  PROVE  WayStays(t) \/ (todo[Run(t)] # <<>> /\ t \notin cut /\ WayWorks(t))
<1>. DEFINE h == Head(todo[a])
            k == EventOf(a).kind
<1>1. /\ Passes(t, a) /\ h.op = "xadd" /\ todo[a] # <<>>
      /\ status'[t] = status[t] /\ KeepsCut(t) /\ SameDelivery(t)
  BY DeliveryStays DEF Wrote, Passes, KeepsRecord, KeepsMeta, KeepsFate
<1>2. k = h.arg /\ \A K : LogHas(t, K)' <=> LogHas(t, K) \/ k \in K
  BY Logging
<1>3. CASE k \notin VerdictKinds
  <2>1. \A j \in VerdictKinds : LogHas(t, {j})' <=> LogHas(t, {j})
    BY <1>2, <1>3
  <2>2. \A j \in VerdictKinds : (Announces(j) \in ToldOf(t))' <=> Announces(j) \in ToldOf(t)
    BY <2>1, ToldKinds
  <2>3. \A v \in Verdicts : v \in ToldOf(t)' <=> v \in ToldOf(t)
    <3>1. \A j \in VerdictKinds : Announces(j) \in ToldOf(t)' <=> Announces(j) \in ToldOf(t)
      BY <2>2 DEF Announces
    <3>2. \A v \in Verdicts : \E j \in VerdictKinds : v = Announces(j)
      BY ToldKinds
    <3>. QED
      BY <3>1, <3>2
  <2>4. ToldOf(t)' = ToldOf(t)
    BY <2>3, ToldKinds
  <2>. QED
    BY <1>1, <2>4 DEF WayStays, SameVerdicts
<1>4. CASE k \in VerdictKinds
  <2>1. a = Run(t)
    BY <1>1, <1>2, <1>4, ReaderAssumption DEF Passes, VerdictKinds, ResultKinds
  <2>2. h \in Range(todo[Run(t)])
    BY <1>1, <2>1, HeadsAreSound DEF TaskInv
  <2>3. t \notin cut
    BY <1>1, <2>2 DEF TaskInv, ConclusionInv
  <2>4. Restricts(t, todo[Run(t)], faults)
    BY VerdictParts DEF TaskInv
  <2>5. ~LogHas(t, {"error"}) /\ ~LogHas(t, {"cancelled"}) /\ (LogHas(t, {"ok"}) => k = "error")
    BY <1>1, <1>2, <2>2, <2>4 DEF Restricts, Closes, Succeeds
  <2>6. "failed" \notin ToldOf(t) /\ "cancelled" \notin ToldOf(t) /\ ("succeeded" \in ToldOf(t) => k = "error")
    BY <2>5 DEF ToldOf
  <2>7. ToldOf(t) = {} \/ (ToldOf(t) = {"succeeded"} /\ Announces(k) = "failed")
    BY <2>6, ToldKinds, VerdictsAnnounced DEF Verdicts
  <2>8. ToldOf(t)' = ToldOf(t) \cup {Announces(k)}
    BY <1>2, <1>4, ToldAfter
  <2>9. Announces(k) \in Verdicts
    BY <1>4, AnnouncesOnce
  <2>. HIDE DEF k
  <2>10. WayAnnounces(t, Announces(k))
    BY <1>1, <2>7, <2>8 DEF WayAnnounces
  <2>. QED
    BY <1>1, <2>1, <2>3, <2>9, <2>10 DEF WayWorks
<1>. QED
  BY <1>3, <1>4

\* The HSET of a status shows "running" once, then the last verdict of the log.
LEMMA SetsShow ==
  ASSUME RedisTypeOK, QueueInv, NEW t \in Tasks, TaskInv(t), Set(t), InQueue(t)' <=> InQueue(t)
  PROVE  WayStays(t) \/ (todo[Run(t)] # <<>> /\ t \notin cut /\ WayWorks(t))
<1>. DEFINE h == Head(todo[Run(t)])
<1>1. /\ h.op = "hset" /\ todo[Run(t)] # <<>>
      /\ status'[t] = h.arg /\ KeepsCut(t) /\ SameDelivery(t) /\ log'[t] = log[t]
  BY DeliveryStays DEF Set, Passes, KeepsLog, KeepsFate
<1>2. ToldOf(t)' = ToldOf(t)
  BY <1>1, LogStays, ToldAfter
<1>3. h \in Range(todo[Run(t)]) /\ h \in Sound
  BY <1>1, WritersAreActors, HeadsAreSound DEF TaskInv
<1>4. t \notin cut
  BY <1>1, <1>3 DEF TaskInv, ConclusionInv
<1>5. /\ LogHas(t, {"error"}) => h.arg = "failed"
      /\ LogHas(t, {"cancelled"}) => h.arg = "cancelled"
      /\ LogHas(t, {"ok"}) => h.arg \in {"succeeded", "failed"}
  BY <1>1, <1>3, VerdictParts DEF TaskInv, Restricts, Closes, Succeeds
<1>6. /\ "failed" \in ToldOf(t) => h.arg = "failed"
      /\ "cancelled" \in ToldOf(t) => h.arg = "cancelled"
      /\ "succeeded" \in ToldOf(t) => h.arg \in {"succeeded", "failed"}
  BY <1>5 DEF ToldOf
<1>7. h.arg = "running" \/ h.arg \in Verdicts
  BY <1>1, <1>3 DEF Sound
<1>8. StatusInv(t)
  BY DEF TaskInv
<1>9. CASE h.arg = "running"
  <2>1. ToldOf(t) = {}
    BY <1>6, <1>9, ToldKinds DEF Verdicts
  <2>2. status[t] \notin Verdicts
    <3>1. \A k \in VerdictKinds : status[t] = Announces(k) => Announces(k) \in ToldOf(t)
      BY <1>8, ToldKinds DEF StatusInv
    <3>. QED
      BY <2>1, <3>1, ToldKinds
  <2>3. status[t] \in {"queued", "running"}
    BY <1>1, <2>2, RunIsGiven DEF RedisTypeOK, StoreTypeOK, Statuses
  <2>4. CASE status[t] = "queued"
    <3>1. WayClaims(t)
      BY <1>1, <1>2, <1>9, <2>1, <2>4 DEF WayClaims
    <3>. QED
      BY <1>1, <1>4, <3>1 DEF WayWorks
  <2>5. CASE status[t] = "running"
    BY <1>1, <1>2, <1>9, <2>5 DEF WayStays, SameVerdicts
  <2>. QED
    BY <2>3, <2>4, <2>5
<1>10. CASE h.arg \in Verdicts
  <2>1. PICK k \in VerdictKinds : h.arg = Announces(k)
    BY <1>10, ToldKinds
  <2>2. LogHas(t, {k})
    BY <1>1, <1>8, <2>1 DEF StatusInv, At, Arg
  <2>3. h.arg \in ToldOf(t)
    BY <2>1, <2>2, ToldKinds
  <2>. HIDE DEF h
  <2>4. WayShows(t, h.arg)
    BY <1>1, <1>2, <1>6, <2>3 DEF WayShows, Last
  <2>. QED
    BY <1>1, <1>4, <1>10, <2>4 DEF WayWorks
<1>. QED
  BY <1>7, <1>9, <1>10

\* The XACK comes when the status shows the last verdict of the log.
LEMMA AcksSettle ==
  ASSUME RedisTypeOK, QueueInv, NEW t \in Tasks, TaskInv(t), Acked(t), InQueue(t)' <=> InQueue(t)
  PROVE  todo[Run(t)] # <<>> /\ WayAcknowledges(t)
<1>. DEFINE C == Range(todo[Run(t)])
<1>1. /\ todo[Run(t)] # <<>> /\ KeepsCut(t) /\ home'[t] = home[t] /\ t \notin pel'
      /\ status'[t] = status[t] /\ log'[t] = log[t]
      /\ \A c \in C : c.op = "ack"
  <2>1. /\ Passes(t, Run(t)) /\ Head(todo[Run(t)]).op = "ack"
        /\ KeepsCut(t) /\ home'[t] = home[t] /\ t \notin pel'
        /\ status'[t] = status[t] /\ log'[t] = log[t]
    BY DEF Acked, KeepsHome, KeepsMeta, KeepsLog, KeepsFate
  <2>2. todo[Run(t)] # <<>> /\ Rest(todo[Run(t)], todo'[Run(t)]) /\ todo'[Run(t)] = <<>>
    BY <2>1 DEF Passes
  <2>3. \A c \in C : c = Head(todo[Run(t)])
    BY <2>2 DEF Rest
  <2>. QED
    BY <2>1, <2>2, <2>3
<1>2. ToldOf(t)' = ToldOf(t)
  BY <1>1, LogStays, ToldAfter
<1>3. DeliveryOf(t)' = "acknowledged"
  BY <1>1, RunIsGiven DEF DeliveryOf
<1>4. ASSUME t \notin cut
      PROVE  Last(t, status[t])
  <2>1. StatusInv(t) /\ ConclusionInv(t) /\ home[t] # NoWorker
    BY <1>1, RunIsGiven DEF TaskInv
  <2>2. ~Concluding(C) /\ \A v : ~Pending(t, v)
    BY <1>1 DEF Concluding, Pending, Do
  <2>3. status[t] \in Verdicts
    BY <1>4, <2>1, <2>2 DEF ConclusionInv
  <2>4. status[t] \in ToldOf(t)
    <3>1. PICK k \in VerdictKinds : status[t] = Announces(k)
      BY <2>3, ToldKinds
    <3>2. LogHas(t, {k})
      BY <2>1, <3>1 DEF StatusInv
    <3>. QED
      BY <3>1, <3>2, ToldKinds
  <2>5. "failed" \in ToldOf(t) => status[t] = "failed"
    <3>1. "failed" \in ToldOf(t) => LogHas(t, {"error"})
      BY DEF ToldOf
    <3>2. LogHas(t, {"error"}) => Told(t, {"failed"})
      BY <1>4, <2>1 DEF StatusInv
    <3>3. Told(t, {"failed"}) => status[t] = "failed"
      BY <2>2 DEF Told
    <3>. QED
      BY <3>1, <3>2, <3>3
  <2>. QED
    BY <2>4, <2>5 DEF Last
<1>. QED
  BY <1>1, <1>2, <1>3, <1>4 DEF WayAcknowledges, SameVerdicts

\* What a step that neither submits nor consumes a task is in TaskDelivery.
LEMMA OwnWay ==
  ASSUME RedisTypeOK, QueueInv, NEW t \in Tasks, TaskInv(t), OwnMove(t), InQueue(t)' <=> InQueue(t)
  PROVE  \/ WayStays(t)
         \/ todo[Run(t)] # <<>> /\ t \notin cut /\ WayWorks(t)
         \/ todo[Run(t)] # <<>> /\ WayAcknowledges(t)
         \/ todo[Run(t)] # <<>> /\ WayLoses(t)
<1>1. ASSUME KeepsMeta(t), KeepsHome(t), KeepsPending(t), KeepsCut(t), log'[t] = log[t]
      PROVE  WayStays(t)
  <2>1. ToldOf(t)' = ToldOf(t)
    BY <1>1, LogStays, ToldAfter
  <2>2. SameDelivery(t)
    BY <1>1, DeliveryStays
  <2>. QED
    BY <1>1, <2>1, <2>2 DEF WayStays, SameVerdicts, KeepsMeta
<1>2. CASE Untouched(t) \/ Asked(t) \/ WentOn(t) \/ Decided(t) \/ Raised(t)
  BY <1>1, <1>2 DEF Untouched, Asked, WentOn, Decided, Raised, KeepsRecord, KeepsLog, KeepsFate
<1>3. ASSUME NEW a \in Writers(t), Drew(t, a) \/ Published(t, a) \/ Abandoned(t, a)
      PROVE  WayStays(t)
  BY <1>1, <1>3 DEF Drew, Published, Abandoned, KeepsRecord, KeepsLog, KeepsFate
<1>4. CASE CutShort(t)
  <2>1. /\ todo[Run(t)] # <<>> /\ t \in cut' /\ KeepsMeta(t) /\ KeepsHome(t) /\ KeepsPending(t)
        /\ log'[t] = log[t]
    BY <1>4 DEF CutShort, KeepsRecord, KeepsLog
  <2>2. ToldOf(t)' = ToldOf(t) /\ SameDelivery(t)
    BY <2>1, LogStays, ToldAfter, DeliveryStays
  <2>. QED
    BY <2>1, <2>2 DEF WayStays, WayLoses, SameVerdicts, KeepsMeta, KeepsCut
<1>5. CASE Stopped(t)
  <2>1. /\ t \in cut' <=> t \in cut \/ todo[Run(t)] # <<>>
        /\ KeepsMeta(t) /\ KeepsHome(t) /\ KeepsPending(t) /\ log'[t] = log[t]
    BY <1>5 DEF Stopped, Live, KeepsRecord, KeepsLog
  <2>2. ToldOf(t)' = ToldOf(t) /\ SameDelivery(t)
    BY <2>1, LogStays, ToldAfter, DeliveryStays
  <2>. QED
    BY <2>1, <2>2 DEF WayStays, WayLoses, SameVerdicts, KeepsMeta, KeepsCut
<1>6. CASE ReadMove(t)
  BY <1>1, <1>6, ReadersApart DEF KeepsRecord, KeepsLog
<1>. QED
  BY <1>2, <1>3, <1>4, <1>5, <1>6, WritesAnnounce, SetsShow, AcksSettle
     DEF OwnMove, AppendMove, RunMove, FaultMove

\* The functions over Tasks that TaskDelivery is instantiated with.
ToldMap == [t \in Tasks |-> ToldOf(t)]
DeliveryMap == [t \in Tasks |-> DeliveryOf(t)]

\* The initial states are initial states of the delivery.
LEMMA WayInitial == ServerInit => Way!DeliveryInit
<1>. SUFFICES ASSUME ServerInit
              PROVE  Way!DeliveryInit
  OBVIOUS
<1>1. DOMAIN <<>> = {}
  OBVIOUS
<1>2. /\ status = [t \in Tasks |-> "absent"] /\ log = [t \in Tasks |-> <<>>]
      /\ stream = <<>> /\ pel = {} /\ home = [t \in Tasks |-> NoWorker] /\ cut = {}
  BY DEF ServerInit, StoreInit
<1>3. \A t \in Tasks : ToldOf(t) = {}
  BY <1>1, <1>2 DEF ToldOf, LogHas
<1>4. \A t \in Tasks : DeliveryOf(t) = "none"
  BY <1>1, <1>2 DEF DeliveryOf, InQueue
<1>. QED
  BY <1>2, <1>3, <1>4 DEF Way!DeliveryInit

\* SubmitTask puts its task in the queue, and it was nowhere.
LEMMA SubmitQueues ==
  ASSUME RedisTypeOK, QueueInv, NEW t \in Tasks, TaskInv(t), SubmitTask(t)
  PROVE  /\ DeliveryOf(t) = "none" /\ InQueue(t)'
         /\ \A u \in Tasks : u # t => (InQueue(u)' <=> InQueue(u))
<1>. DEFINE n == Len(stream)
<1>1. /\ stream \in Seq(Tasks) /\ n \in Nat /\ DOMAIN stream = 1..n
      /\ status[t] = "absent" /\ stream' = Append(stream, t)
  BY LenProperties DEF SubmitTask, QueueTask, RedisTypeOK, StoreTypeOK
<1>2. /\ DOMAIN stream' = 1..(n + 1) /\ stream'[n + 1] = t
      /\ \A i \in 1..n : stream'[i] = stream[i]
  <2>1. Append(stream, t) \in Seq(Tasks) /\ Len(Append(stream, t)) = n + 1
    BY <1>1, AppendProperties
  <2>2. Append(stream, t)[n + 1] = t /\ \A i \in 1..n : Append(stream, t)[i] = stream[i]
    BY <1>1, AppendProperties
  <2>. QED
    BY <1>1, <2>1, <2>2, LenProperties
<1>. HIDE DEF n
<1>3. n + 1 \in 1..(n + 1) /\ \A i \in 1..(n + 1) : i \in 1..n \/ i = n + 1
  BY <1>1
<1>4. InQueue(t)' /\ \A u \in Tasks : u # t => (InQueue(u)' <=> InQueue(u))
  <2>1. 1..n \subseteq 1..(n + 1)
    BY <1>1
  <2>. QED
    BY <1>1, <1>2, <1>3, <2>1 DEF InQueue
<1>5. ~InQueue(t)
  BY <1>1 DEF QueueInv, InQueue
<1>6. home[t] = NoWorker /\ t \notin pel
  BY <1>1 DEF TaskInv, FreshInv
<1>. QED
  BY <1>4, <1>5, <1>6 DEF DeliveryOf

\* ConsumeTask takes its task from the queue, where it was once.
LEMMA ConsumeTakes ==
  ASSUME RedisTypeOK, QueueInv, NEW w \in Workers, NEW t \in Tasks, ConsumeTask(w, t)
  PROVE  /\ InQueue(t) /\ ~InQueue(t)'
         /\ \A u \in Tasks : u # t => (InQueue(u)' <=> InQueue(u))
<1>. DEFINE n == Len(stream)
<1>1. /\ stream \in Seq(Tasks) /\ n \in Nat /\ DOMAIN stream = 1..n
      /\ stream # <<>> /\ t = Head(stream) /\ stream' = Tail(stream)
  BY LenProperties DEF ConsumeTask, ReadGroup, RedisTypeOK, StoreTypeOK
<1>2. /\ n \in Nat \ {0} /\ DOMAIN stream' = 1..(n - 1) /\ t = stream[1]
      /\ \A i \in 1..(n - 1) : stream'[i] = stream[i + 1]
  <2>1. Tail(stream) \in Seq(Tasks) /\ Len(Tail(stream)) = n - 1 /\ n \in Nat \ {0}
    BY <1>1, HeadTailProperties, EmptySeq
  <2>2. \A i \in 1..(n - 1) : Tail(stream)[i] = stream[i + 1]
    BY <1>1, <2>1, HeadTailProperties
  <2>3. Head(stream) = stream[1]
    BY <1>1
  <2>. QED
    BY <1>1, <2>1, <2>2, <2>3, LenProperties
<1>3. \A i, j \in 1..n : stream[i] = stream[j] => i = j
  BY <1>1 DEF QueueInv
<1>. HIDE DEF n
<1>4. /\ 1 \in 1..n
      /\ \A i \in 1..(n - 1) : i + 1 \in 1..n /\ i + 1 # 1
      /\ \A i \in 1..n : i = 1 \/ (i - 1 \in 1..(n - 1) /\ (i - 1) + 1 = i)
  BY <1>2
<1>5. InQueue(t)
  BY <1>1, <1>2, <1>4 DEF InQueue
<1>6. ~InQueue(t)'
  BY <1>2, <1>3, <1>4 DEF InQueue
<1>7. ASSUME NEW u \in Tasks, u # t
      PROVE  InQueue(u)' <=> InQueue(u)
  <2>1. InQueue(u)' => InQueue(u)
    BY <1>1, <1>2, <1>4 DEF InQueue
  <2>2. ASSUME NEW i \in 1..n, stream[i] = u
        PROVE  InQueue(u)'
    <3>1. i - 1 \in 1..(n - 1) /\ (i - 1) + 1 = i
      BY <1>2, <1>4, <1>7, <2>2
    <3>2. stream'[i - 1] = u
      BY <1>2, <2>2, <3>1
    <3>. QED
      BY <1>2, <3>1, <3>2 DEF InQueue
  <2>. QED
    BY <1>1, <2>1, <2>2 DEF InQueue
<1>. QED
  BY <1>5, <1>6, <1>7

\* When only t moves, the functions change at t alone.
LEMMA WayOfOne ==
  ASSUME status \in [Tasks -> Statuses], status' \in [Tasks -> Statuses],
         cut \in SUBSET Tasks, cut' \in SUBSET Tasks,
         NEW t \in Tasks, \A u \in Tasks : u # t => WayStays(u)
  PROVE  /\ status' = [status EXCEPT ![t] = status'[t]]
         /\ ToldMap' = [ToldMap EXCEPT ![t] = ToldOf(t)']
         /\ DeliveryMap' = [DeliveryMap EXCEPT ![t] = DeliveryOf(t)']
         /\ KeepsCut(t) => cut' = cut
         /\ t \in cut' => cut' = cut \cup {t}
<1>1. \A u \in Tasks : u # t => /\ status'[u] = status[u] /\ ToldOf(u)' = ToldOf(u)
                                /\ DeliveryOf(u)' = DeliveryOf(u) /\ (u \in cut' <=> u \in cut)
  BY DEF WayStays, SameVerdicts, SameDelivery, KeepsCut
<1>2. status' = [status EXCEPT ![t] = status'[t]]
  BY <1>1
<1>3. ToldMap' = [ToldMap EXCEPT ![t] = ToldOf(t)']
  BY <1>1 DEF ToldMap
<1>4. DeliveryMap' = [DeliveryMap EXCEPT ![t] = DeliveryOf(t)']
  BY <1>1 DEF DeliveryMap
<1>5. KeepsCut(t) => cut' = cut
  BY <1>1 DEF KeepsCut
<1>6. t \in cut' => cut' = cut \cup {t}
  BY <1>1
<1>. QED
  BY <1>2, <1>3, <1>4, <1>5, <1>6

\* When nothing moves, they stay.
LEMMA WayOfNone ==
  ASSUME status \in [Tasks -> Statuses], status' \in [Tasks -> Statuses],
         cut \in SUBSET Tasks, cut' \in SUBSET Tasks,
         \A u \in Tasks : WayStays(u)
  PROVE  UNCHANGED Way!deliveryVars
<1>1. \A u \in Tasks : /\ status'[u] = status[u] /\ ToldOf(u)' = ToldOf(u)
                       /\ DeliveryOf(u)' = DeliveryOf(u) /\ (u \in cut' <=> u \in cut)
  BY DEF WayStays, SameVerdicts, SameDelivery, KeepsCut
<1>2. status' = status /\ cut' = cut
  BY <1>1
<1>3. ToldMap' = ToldMap /\ DeliveryMap' = DeliveryMap
  BY <1>1 DEF ToldMap, DeliveryMap
<1>. QED
  BY <1>2, <1>3 DEF Way!deliveryVars, ToldMap, DeliveryMap

\* The move of a run that a worker has is an action of TaskDelivery.
LEMMA WayOfRun ==
  ASSUME status \in [Tasks -> Statuses], status' \in [Tasks -> Statuses],
         cut \in SUBSET Tasks, cut' \in SUBSET Tasks,
         NEW t \in Tasks, \A u \in Tasks : u # t => WayStays(u),
         DeliveryOf(t) = "given",
         (t \notin cut /\ WayWorks(t)) \/ WayAcknowledges(t) \/ WayLoses(t)
  PROVE  Way!DeliveryNext
<1>1. /\ status' = [status EXCEPT ![t] = status'[t]]
      /\ ToldMap' = [ToldMap EXCEPT ![t] = ToldOf(t)']
      /\ DeliveryMap' = [DeliveryMap EXCEPT ![t] = DeliveryOf(t)']
      /\ KeepsCut(t) => cut' = cut
      /\ t \in cut' => cut' = cut \cup {t}
  BY WayOfOne
<1>2. /\ ToldMap[t] = ToldOf(t) /\ DeliveryMap[t] = "given"
      /\ status'[t] = status[t] => status' = status
      /\ ToldOf(t)' = ToldOf(t) => ToldMap' = ToldMap
      /\ SameDelivery(t) => DeliveryMap' = DeliveryMap
  <2>1. ToldMap[t] = ToldOf(t) /\ DeliveryMap[t] = DeliveryOf(t)
    BY DEF ToldMap, DeliveryMap
  <2>2. status'[t] = status[t] => status' = status
    BY <1>1
  <2>3. ToldOf(t)' = ToldOf(t) => ToldMap' = ToldMap
    BY <1>1, <2>1 DEF ToldMap
  <2>4. SameDelivery(t) => DeliveryMap' = DeliveryMap
    BY <1>1, <2>1 DEF DeliveryMap, SameDelivery
  <2>. QED
    BY <2>1, <2>2, <2>3, <2>4
<1>3. CASE t \notin cut /\ WayClaims(t)
  <2>1. Way!Claim(t)
    BY <1>1, <1>2, <1>3 DEF WayClaims, Way!Claim, Way!Held, ToldMap, DeliveryMap
  <2>. QED
    BY <2>1 DEF Way!DeliveryNext
<1>4. ASSUME t \notin cut, NEW v \in Verdicts, WayAnnounces(t, v)
      PROVE  Way!DeliveryNext
  <2>1. Way!Announce(t, v)
    BY <1>1, <1>2, <1>4 DEF WayAnnounces, Way!Announce, Way!Held, ToldMap, DeliveryMap
  <2>. QED
    BY <2>1 DEF Way!DeliveryNext, Way!Verdicts, Verdicts
<1>5. ASSUME t \notin cut, NEW v \in Verdicts, WayShows(t, v)
      PROVE  Way!DeliveryNext
  <2>1. Way!Show(t, v)
    BY <1>1, <1>2, <1>5 DEF WayShows, Last, Way!Show, Way!Latest, Way!Held, ToldMap, DeliveryMap
  <2>. QED
    BY <2>1 DEF Way!DeliveryNext, Way!Verdicts, Verdicts
<1>6. CASE WayAcknowledges(t)
  <2>1. Way!Acknowledge(t)
    BY <1>1, <1>2, <1>6 DEF WayAcknowledges, SameVerdicts, Last, Way!Acknowledge, Way!Latest, ToldMap, DeliveryMap
  <2>. QED
    BY <2>1 DEF Way!DeliveryNext
<1>7. CASE WayLoses(t)
  <2>1. Way!Lose({t})
    BY <1>1, <1>2, <1>7 DEF WayLoses, SameVerdicts, Way!Lose, Way!Held, ToldMap, DeliveryMap
  <2>. QED
    BY <2>1 DEF Way!DeliveryNext
<1>. QED
  BY <1>3, <1>4, <1>5, <1>6, <1>7 DEF WayWorks

\* SubmitTask is Submit.
LEMMA WayOfSubmit ==
  ASSUME RedisInv, RedisInv', NEW t \in Tasks, SubmitTask(t), Submitted(t), OthersUntouched(t)
  PROVE  Way!Submit(t)
<1>1. /\ RedisTypeOK /\ QueueInv /\ TaskInv(t)
      /\ status \in [Tasks -> Statuses] /\ status' \in [Tasks -> Statuses]
      /\ cut \in SUBSET Tasks /\ cut' \in SUBSET Tasks
  BY DEF RedisInv, RedisTypeOK, StoreTypeOK
<1>2. /\ DeliveryOf(t) = "none" /\ InQueue(t)'
      /\ \A u \in Tasks : u # t => (InQueue(u)' <=> InQueue(u))
  BY <1>1, SubmitQueues
<1>3. \A u \in Tasks : u # t => WayStays(u)
  BY <1>2, UntouchedStays DEF OthersUntouched
<1>4. status[t] = "absent" /\ status'[t] = "queued" /\ KeepsCut(t) /\ log'[t] = log[t]
  BY DEF Submitted, KeepsFate
<1>5. ToldOf(t)' = ToldOf(t)
  BY <1>4, LogStays, ToldAfter
<1>6. DeliveryOf(t)' = "queued"
  BY <1>2 DEF DeliveryOf
<1>7. /\ status' = [status EXCEPT ![t] = "queued"] /\ cut' = cut
      /\ ToldMap' = [ToldMap EXCEPT ![t] = ToldOf(t)]
      /\ DeliveryMap' = [DeliveryMap EXCEPT ![t] = "queued"]
  BY <1>1, <1>3, <1>4, <1>5, <1>6, WayOfOne
<1>8. ToldMap' = ToldMap
  BY <1>7 DEF ToldMap
<1>. QED
  BY <1>2, <1>4, <1>7, <1>8 DEF Way!Submit, ToldMap, DeliveryMap

\* ConsumeTask is Give.
LEMMA WayOfConsume ==
  ASSUME RedisInv, RedisInv', NEW w \in Workers, NEW t \in Tasks, ConsumeTask(w, t),
         Consumed(t), OthersUntouched(t)
  PROVE  Way!Give(t)
<1>1. /\ RedisTypeOK /\ QueueInv /\ TaskInv(t)
      /\ status \in [Tasks -> Statuses] /\ status' \in [Tasks -> Statuses]
      /\ cut \in SUBSET Tasks /\ cut' \in SUBSET Tasks
  BY DEF RedisInv, RedisTypeOK, StoreTypeOK
<1>2. /\ InQueue(t) /\ ~InQueue(t)'
      /\ \A u \in Tasks : u # t => (InQueue(u)' <=> InQueue(u))
  BY <1>1, ConsumeTakes
<1>3. \A u \in Tasks : u # t => WayStays(u)
  BY <1>2, UntouchedStays DEF OthersUntouched
<1>4. status'[t] = status[t] /\ KeepsCut(t) /\ log'[t] = log[t] /\ t \in pel'
  BY DEF Consumed, KeepsMeta, KeepsLog, KeepsFate
<1>5. ToldOf(t)' = ToldOf(t)
  BY <1>4, LogStays, ToldAfter
<1>6. DeliveryOf(t)' = "given" /\ DeliveryOf(t) = "queued"
  BY <1>2, <1>4 DEF DeliveryOf
<1>7. /\ status' = [status EXCEPT ![t] = status[t]] /\ cut' = cut
      /\ ToldMap' = [ToldMap EXCEPT ![t] = ToldOf(t)]
      /\ DeliveryMap' = [DeliveryMap EXCEPT ![t] = "given"]
  BY <1>1, <1>3, <1>4, <1>5, <1>6, WayOfOne
<1>8. ToldMap' = ToldMap /\ status' = status
  BY <1>1, <1>7 DEF ToldMap
<1>. QED
  BY <1>6, <1>7, <1>8 DEF Way!Give, ToldMap, DeliveryMap

\* The end of a worker is Lose, of the runs it had.
LEMMA WayOfRestart ==
  ASSUME RedisInv, RedisInv', stream' = stream, \A t \in Tasks : Stopped(t) \/ Untouched(t)
  PROVE  [Way!DeliveryNext]_(Way!deliveryVars)
<1>. DEFINE T == {t \in Tasks : t \in cut' /\ t \notin cut}
<1>1. /\ RedisTypeOK /\ QueueInv /\ \A t \in Tasks : TaskInv(t)
      /\ status \in [Tasks -> Statuses] /\ status' \in [Tasks -> Statuses]
      /\ cut \in SUBSET Tasks /\ cut' \in SUBSET Tasks
  BY DEF RedisInv, RedisTypeOK, StoreTypeOK
<1>2. \A t \in Tasks : InQueue(t)' <=> InQueue(t)
  BY DEF InQueue
<1>3. ASSUME NEW t \in Tasks, Stopped(t)
      PROVE  /\ t \in cut => t \in cut'
             /\ t \in T => DeliveryOf(t) = "given"
             /\ status'[t] = status[t] /\ ToldOf(t)' = ToldOf(t) /\ DeliveryOf(t)' = DeliveryOf(t)
  <2>1. /\ t \in cut' <=> t \in cut \/ todo[Run(t)] # <<>>
        /\ KeepsMeta(t) /\ KeepsHome(t) /\ KeepsPending(t) /\ log'[t] = log[t]
    BY <1>3 DEF Stopped, Live, KeepsRecord, KeepsLog
  <2>2. ToldOf(t)' = ToldOf(t) /\ SameDelivery(t)
    BY <1>2, <2>1, LogStays, ToldAfter, DeliveryStays
  <2>3. todo[Run(t)] # <<>> => DeliveryOf(t) = "given"
    BY <1>1, RunIsGiven
  <2>. QED
    BY <2>1, <2>2, <2>3 DEF KeepsMeta, SameDelivery
<1>4. ASSUME NEW t \in Tasks, Untouched(t)
      PROVE  /\ t \in cut' <=> t \in cut
             /\ status'[t] = status[t] /\ ToldOf(t)' = ToldOf(t) /\ DeliveryOf(t)' = DeliveryOf(t)
  BY <1>2, <1>4, UntouchedStays DEF WayStays, SameVerdicts, SameDelivery, KeepsCut
<1>5. \A t \in Tasks :
        /\ status'[t] = status[t] /\ ToldOf(t)' = ToldOf(t) /\ DeliveryOf(t)' = DeliveryOf(t)
        /\ t \in cut => t \in cut'
        /\ t \in T => DeliveryOf(t) = "given"
  <2>. SUFFICES ASSUME NEW t \in Tasks
                PROVE  /\ status'[t] = status[t] /\ ToldOf(t)' = ToldOf(t) /\ DeliveryOf(t)' = DeliveryOf(t)
                       /\ t \in cut => t \in cut'
                       /\ t \in T => DeliveryOf(t) = "given"
    OBVIOUS
  <2>1. CASE Stopped(t)
    BY <1>3, <2>1
  <2>2. CASE Untouched(t)
    BY <1>4, <2>2
  <2>. QED
    BY <2>1, <2>2
<1>6. status' = status /\ cut' = cut \cup T
  BY <1>1, <1>5
<1>7. ToldMap' = ToldMap /\ DeliveryMap' = DeliveryMap
  BY <1>5 DEF ToldMap, DeliveryMap
<1>8. \A t \in T : DeliveryMap[t] = "given" /\ t \notin cut
  BY <1>5 DEF DeliveryMap
<1>9. T \in SUBSET Tasks
  OBVIOUS
<1>. HIDE DEF T
<1>10. CASE T = {}
  BY <1>6, <1>7, <1>10 DEF Way!deliveryVars, ToldMap, DeliveryMap
<1>11. CASE T # {}
  <2>1. Way!Lose(T)
    BY <1>6, <1>7, <1>8, <1>11 DEF Way!Lose, Way!Held, ToldMap, DeliveryMap
  <2>. QED
    BY <1>9, <2>1 DEF Way!DeliveryNext
<1>. QED
  BY <1>10, <1>11

\* Every step of the API process and of the workers is a step of the delivery,
\* or leaves it alone.
LEMMA WayStep ==
  ASSUME RedisInv, ServerNext
  PROVE  [Way!DeliveryNext]_(Way!deliveryVars)
<1>1. RedisInv'
  BY ServerKeepsRedisInv
<1>2. /\ RedisTypeOK /\ QueueInv /\ \A t \in Tasks : TaskInv(t)
      /\ status \in [Tasks -> Statuses] /\ status' \in [Tasks -> Statuses]
      /\ cut \in SUBSET Tasks /\ cut' \in SUBSET Tasks
  BY <1>1 DEF RedisInv, RedisTypeOK, StoreTypeOK
<1>3. ASSUME NEW t \in Tasks, SubmitTask(t)
      PROVE  Way!DeliveryNext
  <2>1. FreshInv(t)
    BY <1>2 DEF TaskInv
  <2>2. (Submitted(t) \/ Asked(t)) /\ OthersUntouched(t)
    BY <1>2, <1>3, <2>1, ClientMoves
  <2>3. status'[t] # status[t]
    BY <1>2, <1>3 DEF SubmitTask, QueueTask
  <2>4. Submitted(t)
    BY <2>2, <2>3 DEF Asked, KeepsMeta
  <2>5. Way!Submit(t)
    BY <1>1, <1>3, <2>2, <2>4, WayOfSubmit
  <2>. QED
    BY <2>5 DEF Way!DeliveryNext
<1>4. ASSUME NEW w \in Workers, NEW t \in Tasks, ConsumeTask(w, t)
      PROVE  Way!DeliveryNext
  <2>1. Consumed(t) /\ OthersUntouched(t)
    BY <1>2, <1>4, ConsumeMoves
  <2>2. Way!Give(t)
    BY <1>1, <1>4, <2>1, WayOfConsume
  <2>. QED
    BY <2>2 DEF Way!DeliveryNext
<1>5. ASSUME stream' = stream, NEW t \in Tasks, OwnMove(t), OthersUntouched(t)
      PROVE  [Way!DeliveryNext]_(Way!deliveryVars)
  <2>1. \A u \in Tasks : InQueue(u)' <=> InQueue(u)
    BY <1>5 DEF InQueue
  <2>2. \A u \in Tasks : u # t => WayStays(u)
    BY <1>5, <2>1, UntouchedStays DEF OthersUntouched
  <2>3. TaskInv(t)
    BY <1>2
  <2>4. \/ WayStays(t)
        \/ todo[Run(t)] # <<>> /\ t \notin cut /\ WayWorks(t)
        \/ todo[Run(t)] # <<>> /\ WayAcknowledges(t)
        \/ todo[Run(t)] # <<>> /\ WayLoses(t)
    BY <1>2, <1>5, <2>1, <2>3, OwnWay
  <2>5. CASE WayStays(t)
    <3>1. \A u \in Tasks : WayStays(u)
      BY <2>2, <2>5
    <3>. QED
      BY <1>2, <3>1, WayOfNone
  <2>6. CASE todo[Run(t)] # <<>> /\ ((t \notin cut /\ WayWorks(t)) \/ WayAcknowledges(t) \/ WayLoses(t))
    <3>1. DeliveryOf(t) = "given"
      BY <1>2, <2>3, <2>6, RunIsGiven
    <3>2. Way!DeliveryNext
      BY <1>2, <2>2, <2>6, <3>1, WayOfRun
    <3>. QED
      BY <3>2
  <2>. QED
    BY <2>4, <2>5, <2>6
<1>6. CASE stream' = stream
  <2>1. CASE \A t \in Tasks : Stopped(t) \/ Untouched(t)
    BY <1>1, <1>6, <2>1, WayOfRestart
  <2>. QED
    BY <1>2, <1>3, <1>4, <1>5, <1>6, <2>1, OneTaskMoves
<1>. QED
  BY <1>3, <1>4, <1>6, QueueSteps

=============================================================================
