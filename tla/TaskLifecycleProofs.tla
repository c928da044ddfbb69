------------------------ MODULE TaskLifecycleProofs -------------------------
(***************************************************************************)
(* TaskServer implements TaskLifecycle, for any tasks, slots and faults.   *)
(*                                                                         *)
(* Seen through status and log, every step of the server has one of four   *)
(* shapes for one task: silent, submitting, claiming or concluding.  That  *)
(* status and log agree follows from the shapes by induction, and the      *)
(* refinement follows from the shapes and that agreement.                  *)
(***************************************************************************)
EXTENDS TaskServerProofs

HasKind(ks, K) == \E i \in 1..Len(ks) : ks[i] \in K

\* No event of ks is a verdict.
Silent(ks) == ~HasKind(ks, VerdictKinds)

\* The events ks announce the verdict v and no other.
Tells(ks, v) ==
  /\ v = "failed" <=> HasKind(ks, {"error"})
  /\ v = "cancelled" <=> HasKind(ks, {"cancelled"})
  /\ v = "succeeded" <=> HasKind(ks, {"ok"}) /\ ~HasKind(ks, {"error"})

StillShape == UNCHANGED <<status, log>>

SilentShape(t, ks) == AppendEvents(t, ks) /\ Silent(ks) /\ UNCHANGED status

SubmitShape(t, ks) ==
  /\ AppendEvents(t, ks) /\ Silent(ks)
  /\ status[t] = "absent" /\ status' = [status EXCEPT ![t] = "queued"]

ClaimShape(t, ks) ==
  /\ AppendEvents(t, ks) /\ Silent(ks)
  /\ status[t] = "queued" /\ status' = [status EXCEPT ![t] = "running"]

ConcludeShape(t, ks) ==
  /\ AppendEvents(t, ks)
  /\ status[t] \in {"queued", "running"}
  /\ \E v \in Verdicts : Tells(ks, v) /\ status' = [status EXCEPT ![t] = v]
  /\ HasKind(ks, {"ok"}) /\ HasKind(ks, {"error"}) => SaveMayFail

Shaped(t, ks) ==
  \/ SilentShape(t, ks)
  \/ SubmitShape(t, ks)
  \/ ClaimShape(t, ks)
  \/ ConcludeShape(t, ks)

-----------------------------------------------------------------------------
\* The kinds of a log after appending are those before and those appended.
LEMMA AppendKinds ==
  ASSUME LogTypeOK, NEW t \in Tasks, NEW ks \in Seq(Kinds), AppendEvents(t, ks),
         NEW u \in Tasks, NEW K
  PROVE  LogHas(u, K)' <=> LogHas(u, K) \/ (u = t /\ HasKind(ks, K))
<1>. DEFINE evs == Stamp(seq[t], ks)
<1>1. /\ evs \in Seq(Event) /\ Len(evs) = Len(ks) /\ Len(ks) \in Nat
      /\ \A i \in 1..Len(ks) : evs[i].kind = ks[i]
  BY StampEvents, LenProperties DEF LogTypeOK
<1>. HIDE DEF evs
<1>2. log' = [log EXCEPT ![t] = @ \o evs] /\ log \in [Tasks -> Seq(Event)]
  BY DEF AppendEvents, LogAndFanOut, evs, LogTypeOK
<1>3. CASE u # t
  BY <1>2, <1>3 DEF LogHas
<1>4. CASE u = t
  <2>. DEFINE l == log[t]
              m == l \o evs
  <2>1. l \in Seq(Event) /\ DOMAIN l = 1..Len(l) /\ Len(l) \in Nat
    BY <1>2, LenProperties
  <2>2. /\ m \in Seq(Event)
        /\ Len(m) = Len(l) + Len(ks)
        /\ \A i \in 1 .. Len(l) + Len(ks) : m[i] = IF i <= Len(l) THEN l[i] ELSE evs[i - Len(l)]
    <3>1. /\ m \in Seq(Event)
          /\ Len(m) = Len(l) + Len(evs)
          /\ \A i \in 1 .. Len(l) + Len(evs) : m[i] = IF i <= Len(l) THEN l[i] ELSE evs[i - Len(l)]
      BY <1>1, <2>1, ConcatProperties
    <3>. QED
      BY <1>1, <3>1
  <2>3. DOMAIN m = 1 .. Len(l) + Len(ks)
    BY <2>2, LenProperties
  <2>4. log'[u] = m /\ log[u] = l
    BY <1>2, <1>4
  <2>. HIDE DEF l, m
  <2>5. ASSUME LogHas(u, K)' PROVE LogHas(u, K) \/ HasKind(ks, K)
    <3>1. PICK i \in 1 .. Len(l) + Len(ks) : m[i].kind \in K
      BY <2>3, <2>4, <2>5 DEF LogHas
    <3>2. CASE i <= Len(l)
      BY <2>1, <2>2, <2>4, <3>1, <3>2 DEF LogHas
    <3>3. CASE i > Len(l)
      <4>1. i - Len(l) \in 1..Len(ks) /\ m[i] = evs[i - Len(l)]
        BY <1>1, <2>1, <2>2, <3>1, <3>3
      <4>. QED
        BY <1>1, <3>1, <4>1 DEF HasKind
    <3>. QED
      BY <2>1, <3>1, <3>2, <3>3
  <2>6. ASSUME LogHas(u, K) PROVE LogHas(u, K)'
    <3>1. PICK i \in 1..Len(l) : l[i].kind \in K
      BY <2>1, <2>4, <2>6 DEF LogHas
    <3>2. i \in DOMAIN m /\ m[i] = l[i]
      BY <1>1, <2>1, <2>2, <2>3
    <3>. QED
      BY <2>4, <3>1, <3>2 DEF LogHas
  <2>7. ASSUME HasKind(ks, K) PROVE LogHas(u, K)'
    <3>1. PICK i \in 1..Len(ks) : ks[i] \in K
      BY <2>7 DEF HasKind
    <3>2. /\ Len(l) + i \in 1 .. Len(l) + Len(ks)
          /\ ~(Len(l) + i <= Len(l))
          /\ (Len(l) + i) - Len(l) = i
      BY <1>1, <2>1
    <3>3. m[Len(l) + i] = evs[i]
      BY <2>2, <3>2
    <3>. QED
      BY <1>1, <2>3, <2>4, <3>1, <3>2, <3>3 DEF LogHas
  <2>. QED
    BY <1>4, <2>5, <2>6, <2>7
<1>. QED
  BY <1>3, <1>4

\* What the one or two events of a step announce.
LEMMA KindsOf ==
  /\ <<>> \in Seq(Kinds) /\ Silent(<<>>)
  /\ \A k \in Kinds : /\ <<k>> \in Seq(Kinds)
                      /\ \A K : HasKind(<<k>>, K) <=> k \in K
  /\ \A k, l \in Kinds : /\ <<k, l>> \in Seq(Kinds)
                         /\ \A K : HasKind(<<k, l>>, K) <=> k \in K \/ l \in K
<1>1. Len(<<>>) = 0
  OBVIOUS
<1>2. ASSUME NEW k \in Kinds, NEW K PROVE HasKind(<<k>>, K) <=> k \in K
  <2>1. Len(<<k>>) = 1 /\ <<k>>[1] = k
    OBVIOUS
  <2>. QED
    BY <2>1 DEF HasKind
<1>3. ASSUME NEW k \in Kinds, NEW l \in Kinds, NEW K
      PROVE  HasKind(<<k, l>>, K) <=> k \in K \/ l \in K
  <2>1. Len(<<k, l>>) = 2 /\ <<k, l>>[1] = k /\ <<k, l>>[2] = l
    OBVIOUS
  <2>. QED
    BY <2>1 DEF HasKind
<1>. QED
  BY <1>1, <1>2, <1>3 DEF Silent, HasKind

\* The kinds the server logs.
LEMMA KindFacts ==
  /\ {"queued", "running", "cancel_requested", "agent", "stdout", "stderr"} \cup AgentKinds
       \subseteq Kinds \ VerdictKinds
  /\ {"ok", "cancelled", "error"} = VerdictKinds
  /\ VerdictKinds \subseteq Kinds
BY BoundAssumption DEF Kinds, StreamKinds, VerdictKinds, ResultKinds

\* Every step has one of the shapes.
LEMMA ShapeStep ==
  ASSUME ServerInv, [ServerNext]_serverVars
  PROVE  StillShape \/ \E t \in Tasks, ks \in Seq(Kinds) : Shaped(t, ks)
<1>. USE KindsOf, KindFacts
<1>1. /\ pending \in Seq(Tasks) /\ runner \in [Tasks -> Phases]
      /\ status \in [Tasks -> Statuses]
      /\ \A t \in Tasks : Owned(t)
  BY OneOwnerParts DEF ServerInv, ServerTypeOK, StoreTypeOK
<1>2. ASSUME NEW t \in Tasks
      PROVE  /\ runner[t] = "waiting" => status[t] = "queued"
             /\ runner[t] \in {"sleeping", "thinking"} => status[t] = "running"
  BY <1>1 DEF Owned, Holders
<1>3. ASSUME NEW t \in Tasks, CreateTask(t)
      PROVE  SubmitShape(t, <<"queued">>)
  BY <1>3 DEF CreateTask, EnqueueTask, UpdateMeta, SubmitShape, Silent
<1>4. ASSUME NEW t \in Tasks, CancelTask(t)
      PROVE  SilentShape(t, <<"cancel_requested">>)
  BY <1>4 DEF CancelTask, RequestCancel, SilentShape, Silent
<1>5. ASSUME NEW t \in Tasks, StartRun(t)
      PROVE  \E ks \in Seq(Kinds) : Shaped(t, ks)
  <2>1. status[t] = "queued"
    BY <1>2, <1>5 DEF StartRun, MayStart, RejectMode, StartMock, StartMockCancelled,
                      RefuseAgent, SetupRaises, StartAgent, QueueForSession
  <2>2. CASE StartMock(t)
    <3>1. ClaimShape(t, <<"running">>)
      BY <2>1, <2>2 DEF StartMock, Report, UpdateMeta, ClaimShape, Silent
    <3>. QED
      BY <3>1 DEF Shaped
  <2>3. CASE SetupRaises(t) \/ StartAgent(t) \/ QueueForSession(t)
    <3>1. ClaimShape(t, <<>>)
      BY <2>1, <2>3 DEF SetupRaises, StartAgent, QueueForSession, Report, UpdateMeta, ClaimShape
    <3>. QED
      BY <3>1 DEF Shaped
  <2>4. CASE RejectMode(t) \/ RefuseAgent(t)
    <3>1. Tells(<<"error">>, "failed")
      BY DEF Tells
    <3>2. ConcludeShape(t, <<"error">>)
      BY <2>1, <2>4, <3>1 DEF RejectMode, RefuseAgent, Report, UpdateMeta, ConcludeShape, Verdicts
    <3>. QED
      BY <3>2 DEF Shaped
  <2>5. CASE StartMockCancelled(t)
    <3>1. Tells(<<"running", "cancelled">>, "cancelled")
      BY DEF Tells
    <3>2. ConcludeShape(t, <<"running", "cancelled">>)
      BY <2>1, <2>5, <3>1 DEF StartMockCancelled, Report, UpdateMeta, ConcludeShape, Verdicts
    <3>. QED
      BY <3>2 DEF Shaped
  <2>. QED
    BY <1>5, <2>2, <2>3, <2>4, <2>5 DEF StartRun
<1>6. ASSUME NEW t \in Tasks, ContinueRun(t) \/ LeakedReader(t)
      PROVE  StillShape \/ \E ks \in Seq(Kinds) : Shaped(t, ks)
  <2>1. CASE TakeTurn(t) \/ ReaderRaises(t)
    BY <2>1 DEF TakeTurn, ReaderRaises, storeVars, StillShape
  <2>2. CASE MockStep(t)
    <3>1. status' = status
      BY <1>1, <1>2, <2>2 DEF MockStep, Report, UpdateMeta
    <3>2. SilentShape(t, <<"agent">>)
      BY <2>2, <3>1 DEF MockStep, Report, SilentShape, Silent
    <3>. QED
      BY <3>2 DEF Shaped
  <2>3. CASE AgentEvent(t)
    <3>1. PICK k \in AgentKinds : AppendEvents(t, <<k>>)
      BY <2>3 DEF AgentEvent
    <3>2. SilentShape(t, <<k>>)
      BY <2>3, <3>1 DEF AgentEvent, SilentShape, Silent
    <3>. QED
      BY <3>2 DEF Shaped
  <2>4. CASE LeakedReader(t)
    <3>1. PICK k \in {"stdout", "stderr"} : AppendEvents(t, <<k>>)
      BY <2>4 DEF LeakedReader
    <3>2. SilentShape(t, <<k>>)
      BY <2>4, <3>1 DEF LeakedReader, SilentShape, Silent
    <3>. QED
      BY <3>2 DEF Shaped
  <2>5. CASE MockCancelled(t)
    <3>1. Tells(<<"agent", "cancelled">>, "cancelled")
      BY DEF Tells
    <3>2. ConcludeShape(t, <<"agent", "cancelled">>)
      BY <1>2, <2>5, <3>1 DEF MockCancelled, Report, UpdateMeta, ConcludeShape, Verdicts
    <3>. QED
      BY <3>2 DEF Shaped
  <2>6. CASE MockSucceeds(t)
    <3>1. Tells(<<"agent", "ok">>, "succeeded")
      BY DEF Tells
    <3>2. ~HasKind(<<"agent", "ok">>, {"error"})
      OBVIOUS
    <3>3. ConcludeShape(t, <<"agent", "ok">>)
      BY <1>2, <2>6, <3>1, <3>2 DEF MockSucceeds, Report, UpdateMeta, ConcludeShape, Verdicts
    <3>. QED
      BY <3>3 DEF Shaped
  <2>7. CASE AgentSucceeds(t)
    <3>1. Tells(<<"ok">>, "succeeded")
      BY DEF Tells
    <3>2. ConcludeShape(t, <<"ok">>)
      BY <1>2, <2>7, <3>1 DEF AgentSucceeds, Report, UpdateMeta, ConcludeShape, Verdicts
    <3>. QED
      BY <3>2 DEF Shaped
  <2>8. CASE SaveRaises(t)
    <3>1. Tells(<<"ok", "error">>, "failed")
      BY DEF Tells
    <3>2. ConcludeShape(t, <<"ok", "error">>)
      BY <1>2, <2>8, <3>1 DEF SaveRaises, Report, UpdateMeta, ConcludeShape, Verdicts
    <3>. QED
      BY <3>2 DEF Shaped
  <2>9. CASE AgentRaises(t)
    <3>1. Tells(<<"error">>, "failed")
      BY DEF Tells
    <3>2. ConcludeShape(t, <<"error">>)
      BY <1>2, <2>9, <3>1 DEF AgentRaises, Report, UpdateMeta, ConcludeShape, Verdicts
    <3>. QED
      BY <3>2 DEF Shaped
  <2>. QED
    BY <1>6, <2>1, <2>2, <2>3, <2>4, <2>5, <2>6, <2>7, <2>8, <2>9 DEF ContinueRun
<1>7. CASE ConsumeTask
  BY <1>7 DEF ConsumeTask, logVars, StillShape
<1>8. CASE UNCHANGED serverVars
  BY <1>8 DEF serverVars, storeVars, StillShape
<1>9. ASSUME NEW t \in Tasks, CreateTask(t) \/ CancelTask(t)
      PROVE  \E ks \in Seq(Kinds) : Shaped(t, ks)
  BY <1>3, <1>4, <1>9 DEF Shaped
<1>. QED
  BY <1>5, <1>6, <1>7, <1>8, <1>9 DEF ServerNext, ServerStep, Idle

-----------------------------------------------------------------------------
\* Status and log agree about t.
Agrees(t) ==
  /\ status[t] = "failed" <=> LogHas(t, {"error"})
  /\ status[t] = "cancelled" <=> LogHas(t, {"cancelled"})
  /\ status[t] = "succeeded" <=> LogHas(t, {"ok"}) /\ ~LogHas(t, {"error"})

\* The events of runs that go on announce no verdict.
LEMMA SilentKinds ==
  ASSUME NEW ks \in Seq(Kinds), Silent(ks)
  PROVE  ~HasKind(ks, {"ok"}) /\ ~HasKind(ks, {"cancelled"}) /\ ~HasKind(ks, {"error"})
BY KindFacts DEF Silent, HasKind

\* A task without a verdict has none in its log, and any result is one of two.
LEMMA NoVerdictYet ==
  ASSUME NEW t \in Tasks, Agrees(t)
  PROVE  /\ status[t] \notin Verdicts =>
              ~LogHas(t, {"ok"}) /\ ~LogHas(t, {"cancelled"}) /\ ~LogHas(t, {"error"})
         /\ LogHas(t, ResultKinds) <=> LogHas(t, {"ok"}) \/ LogHas(t, {"cancelled"})
BY DEF Agrees, Verdicts, LogHas, ResultKinds

\* A shaped step of t keeps the agreement of every task u.
LEMMA ShapedAgrees ==
  ASSUME ServerInv, NEW t \in Tasks, NEW ks \in Seq(Kinds), Shaped(t, ks),
         NEW u \in Tasks, Agrees(u)
  PROVE  Agrees(u)'
<1>1. /\ LogTypeOK /\ status \in [Tasks -> Statuses] /\ AppendEvents(t, ks)
  BY DEF ServerInv, ServerTypeOK, StoreTypeOK, Shaped, SilentShape, SubmitShape, ClaimShape,
         ConcludeShape
<1>2. /\ LogHas(u, {"error"})' <=> LogHas(u, {"error"}) \/ (u = t /\ HasKind(ks, {"error"}))
      /\ LogHas(u, {"cancelled"})' <=> LogHas(u, {"cancelled"}) \/ (u = t /\ HasKind(ks, {"cancelled"}))
      /\ LogHas(u, {"ok"})' <=> LogHas(u, {"ok"}) \/ (u = t /\ HasKind(ks, {"ok"}))
  BY <1>1, AppendKinds
<1>3. CASE u # t
  <2>1. status'[u] = status[u]
    BY <1>1, <1>3 DEF Shaped, SilentShape, SubmitShape, ClaimShape, ConcludeShape
  <2>. QED
    BY <1>2, <1>3, <2>1 DEF Agrees
<1>4. CASE u = t /\ Silent(ks) /\ ~ConcludeShape(t, ks)
  <2>1. \/ status'[u] = status[u]
        \/ status[u] \notin Verdicts /\ status'[u] \notin Verdicts
    BY <1>1, <1>4 DEF Shaped, SilentShape, SubmitShape, ClaimShape, Verdicts
  <2>. QED
    BY <1>2, <1>4, <2>1, SilentKinds, NoVerdictYet DEF Agrees, Verdicts
<1>5. CASE u = t /\ ConcludeShape(t, ks)
  <2>1. PICK v \in Verdicts : Tells(ks, v) /\ status' = [status EXCEPT ![t] = v]
    BY <1>5 DEF ConcludeShape
  <2>2. status[u] \notin Verdicts /\ status'[u] = v
    BY <1>1, <1>5, <2>1 DEF ConcludeShape, Verdicts
  <2>. QED
    BY <1>2, <1>5, <2>1, <2>2, NoVerdictYet DEF Agrees, Tells
<1>. QED
  BY <1>3, <1>4, <1>5 DEF Shaped, SilentShape, SubmitShape, ClaimShape

\* Before the first step no task has a verdict and every log is empty.
LEMMA AgreementInit == ServerInit => VerdictMatchesLog
<1>1. DOMAIN <<>> = {}
  OBVIOUS
<1>. QED
  BY <1>1 DEF ServerInit, StoreInit, VerdictMatchesLog, LogHas

\* A step of any action keeps status and log in agreement.
LEMMA AgreementStep ==
  ServerInv /\ VerdictMatchesLog /\ [ServerNext]_serverVars => VerdictMatchesLog'
<1>. SUFFICES ASSUME ServerInv, VerdictMatchesLog, [ServerNext]_serverVars, NEW u \in Tasks
              PROVE  Agrees(u)'
  BY DEF VerdictMatchesLog, Agrees
<1>1. Agrees(u)
  BY DEF VerdictMatchesLog, Agrees
<1>2. CASE StillShape
  BY <1>1, <1>2 DEF StillShape, Agrees, LogHas
<1>. QED
  BY <1>1, <1>2, ShapeStep, ShapedAgrees

\* Status and log never disagree about a verdict, whatever fails: the agent, a
\* tool, the save of a session, or a cancel request that comes at any time.
THEOREM StatusMatchesLog == ServerSpec => []VerdictMatchesLog
BY AgreementInit, AgreementStep, Invariance, PTL DEF ServerSpec

-----------------------------------------------------------------------------
\* What the log announces after a shaped step.
LEMMA AnnouncedStep ==
  ASSUME ServerInv, VerdictMatchesLog, NEW t \in Tasks, NEW ks \in Seq(Kinds), Shaped(t, ks),
         NEW u \in Tasks
  PROVE  /\ (u # t \/ Silent(ks)) => Announced(u)' = Announced(u)
         /\ \A v \in Verdicts :
              u = t /\ ConcludeShape(t, ks) /\ Tells(ks, v) =>
                Announced(u)' = IF v = "failed" THEN "error" ELSE "result"
<1>1. /\ LogTypeOK /\ AppendEvents(t, ks) /\ Agrees(u)
  BY DEF ServerInv, ServerTypeOK, StoreTypeOK, Shaped, SilentShape, SubmitShape, ClaimShape,
         ConcludeShape, VerdictMatchesLog, Agrees
<1>2. /\ LogHas(u, {"error"})' <=> LogHas(u, {"error"}) \/ (u = t /\ HasKind(ks, {"error"}))
      /\ LogHas(u, ResultKinds)' <=> LogHas(u, ResultKinds) \/ (u = t /\ HasKind(ks, ResultKinds))
  BY <1>1, AppendKinds
<1>3. HasKind(ks, ResultKinds) <=> HasKind(ks, {"ok"}) \/ HasKind(ks, {"cancelled"})
  BY DEF HasKind, ResultKinds
<1>4. (u # t \/ Silent(ks)) => Announced(u)' = Announced(u)
  BY <1>2, <1>3, SilentKinds DEF Announced
<1>5. ASSUME NEW v \in Verdicts, u = t, ConcludeShape(t, ks), Tells(ks, v)
      PROVE  Announced(u)' = IF v = "failed" THEN "error" ELSE "result"
  <2>1. ~LogHas(u, {"error"})
    BY <1>1, <1>5, NoVerdictYet DEF ConcludeShape, Verdicts
  <2>2. v # "failed" => HasKind(ks, ResultKinds)
    BY <1>3, <1>5 DEF Tells, Verdicts
  <2>. QED
    BY <1>2, <1>5, <2>1, <2>2 DEF Announced, Tells
<1>. QED
  BY <1>4, <1>5

\* The initial states are initial states of the lifecycle.
LEMMA LifeInitial == ServerInit => Life!LifeInit
<1>1. DOMAIN <<>> = {}
  OBVIOUS
<1>. QED
  BY <1>1 DEF ServerInit, StoreInit, Life!LifeInit, Announced, LogHas

\* A step of the server is a step of the lifecycle or leaves it alone.
LEMMA LifeStep ==
  ASSUME ServerInv, VerdictMatchesLog, [ServerNext]_serverVars
  PROVE  [Life!LifeNext]_(Life!lifeVars)
<1>. DEFINE told == [t \in Tasks |-> Announced(t)]
<1>1. CASE StillShape
  <2>1. \A t \in Tasks : Announced(t)' = Announced(t)
    BY <1>1 DEF StillShape, Announced, LogHas
  <2>. QED
    BY <1>1, <2>1 DEF StillShape, Life!lifeVars
<1>2. ASSUME NEW t \in Tasks, NEW ks \in Seq(Kinds), Shaped(t, ks)
      PROVE  [Life!LifeNext]_(Life!lifeVars)
  <2>1. CASE SilentShape(t, ks)
    <3>1. \A u \in Tasks : Announced(u)' = Announced(u)
      BY <1>2, <2>1, AnnouncedStep DEF SilentShape
    <3>. QED
      BY <2>1, <3>1 DEF SilentShape, Life!lifeVars
  <2>2. CASE SubmitShape(t, ks)
    <3>1. \A u \in Tasks : Announced(u)' = Announced(u)
      BY <1>2, <2>2, AnnouncedStep DEF SubmitShape
    <3>2. Life!Submit(t)
      BY <2>2, <3>1 DEF SubmitShape, Life!Submit
    <3>. QED
      BY <3>2 DEF Life!LifeNext
  <2>3. CASE ClaimShape(t, ks)
    <3>1. \A u \in Tasks : Announced(u)' = Announced(u)
      BY <1>2, <2>3, AnnouncedStep DEF ClaimShape
    <3>2. Life!Claim(t)
      BY <2>3, <3>1 DEF ClaimShape, Life!Claim
    <3>. QED
      BY <3>2 DEF Life!LifeNext
  <2>4. CASE ConcludeShape(t, ks)
    <3>1. PICK v \in Verdicts : Tells(ks, v) /\ status' = [status EXCEPT ![t] = v]
      BY <2>4 DEF ConcludeShape
    <3>2. \A u \in Tasks : u # t => Announced(u)' = Announced(u)
      BY <1>2, AnnouncedStep
    <3>3. Announced(t)' = IF v = "failed" THEN "error" ELSE "result"
      BY <1>2, <2>4, <3>1, AnnouncedStep
    <3>4. told' = [told EXCEPT ![t] = IF v = "failed" THEN "error" ELSE "result"]
      BY <3>2, <3>3
    <3>5. Life!Conclude(t, v)
      BY <2>4, <3>1, <3>4 DEF ConcludeShape, Life!Conclude
    <3>. QED
      BY <3>5 DEF Life!LifeNext, Life!Verdicts, Verdicts
  <2>. QED
    BY <1>2, <2>1, <2>2, <2>3, <2>4 DEF Shaped
<1>. QED
  BY <1>1, <1>2, ShapeStep

\* The server implements the lifecycle: every task goes from queued to running
\* to one verdict, never back, and the log announces the verdict in the step
\* that sets it.
THEOREM ImplementsLifecycle == ServerSpec => Lifecycle
BY LifeInitial, LifeStep, Invariance, StatusMatchesLog, PTL
   DEF ServerSpec, Lifecycle, Life!LifeSpec

=============================================================================
