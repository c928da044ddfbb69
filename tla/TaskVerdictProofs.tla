------------------------- MODULE TaskVerdictProofs --------------------------
(***************************************************************************)
(* What TaskServer's logs and session memories say about how runs end,     *)
(* for any tasks, slots and faults: nothing is announced after a verdict   *)
(* but what SilentAfterVerdict allows, the memories hold the turns of the  *)
(* runs that succeeded, and a mock run notices a cancel request within a   *)
(* step.                                                                   *)
(*                                                                         *)
(* The first and the last are about the order of the events of a log.      *)
(* Pair says that an event of one kind is before one of another, PairStep  *)
(* what a step adds to the pairs of a log; which events a step may append, *)
(* and when, follows from the invariants proved before.                    *)
(***************************************************************************)
EXTENDS TaskLifecycleProofs

\* In the log of t, an event of K is before an event of L.
Pair(t, K, L) ==
  \E i, j \in DOMAIN log[t] : i < j /\ log[t][i].kind \in K /\ log[t][j].kind \in L

\* So it is in the kinds ks.
HasPair(ks, K, L) ==
  \E i, j \in 1..Len(ks) : i < j /\ ks[i] \in K /\ ks[j] \in L

\* The kinds of the log a step appends to.
LEMMA AppendedLog ==
  ASSUME LogTypeOK, NEW t \in Tasks, NEW ks \in Seq(Kinds), AppendEvents(t, ks)
  PROVE  /\ Len(log[t]) \in Nat /\ Len(ks) \in Nat
         /\ DOMAIN log[t] = 1..Len(log[t])
         /\ DOMAIN log'[t] = 1 .. Len(log[t]) + Len(ks)
         /\ \A i \in 1..Len(log[t]) : log'[t][i].kind = log[t][i].kind
         /\ \A i \in 1..Len(ks) : log'[t][Len(log[t]) + i].kind = ks[i]
         /\ \A u \in Tasks : u # t => log'[u] = log[u]
<1>. DEFINE evs == Stamp(seq[t], ks)
<1>1. /\ evs \in Seq(Event) /\ Len(evs) = Len(ks) /\ Len(ks) \in Nat
      /\ \A i \in 1..Len(ks) : evs[i].kind = ks[i]
  BY StampEvents, LenProperties DEF LogTypeOK
<1>. HIDE DEF evs
<1>2. log' = [log EXCEPT ![t] = @ \o evs] /\ log \in [Tasks -> Seq(Event)]
  BY DEF AppendEvents, LogAndFanOut, evs, LogTypeOK
<1>3. log[t] \in Seq(Event) /\ DOMAIN log[t] = 1..Len(log[t]) /\ Len(log[t]) \in Nat
  BY <1>2, LenProperties
<1>4. /\ log[t] \o evs \in Seq(Event)
      /\ Len(log[t] \o evs) = Len(log[t]) + Len(evs)
      /\ \A i \in 1 .. Len(log[t]) + Len(evs) :
           (log[t] \o evs)[i] = IF i <= Len(log[t]) THEN log[t][i] ELSE evs[i - Len(log[t])]
  BY <1>1, <1>3, ConcatProperties
<1>5. log'[t] = log[t] \o evs /\ \A u \in Tasks : u # t => log'[u] = log[u]
  BY <1>2
<1>6. DOMAIN log'[t] = 1 .. Len(log[t]) + Len(ks)
  BY <1>1, <1>4, <1>5, LenProperties
<1>7. \A i \in 1..Len(log[t]) : log'[t][i] = log[t][i]
  BY <1>1, <1>3, <1>4, <1>5
<1>8. ASSUME NEW i \in 1..Len(ks)
      PROVE  log'[t][Len(log[t]) + i].kind = ks[i]
  <2>1. /\ Len(log[t]) + i \in 1 .. Len(log[t]) + Len(evs)
        /\ ~(Len(log[t]) + i <= Len(log[t]))
        /\ (Len(log[t]) + i) - Len(log[t]) = i
    BY <1>1, <1>3
  <2>2. log'[t][Len(log[t]) + i] = evs[i]
    BY <1>4, <1>5, <2>1
  <2>. QED
    BY <1>1, <2>2
<1>. QED
  BY <1>1, <1>3, <1>5, <1>6, <1>7, <1>8

\* A pair of a log after a step was there, or is of an event that was there and
\* one that is appended, or of two that are appended.
LEMMA PairStep ==
  ASSUME LogTypeOK, NEW t \in Tasks, NEW ks \in Seq(Kinds), AppendEvents(t, ks),
         NEW u \in Tasks, NEW K, NEW L, Pair(u, K, L)'
  PROVE  \/ Pair(u, K, L)
         \/ u = t /\ LogHas(t, K) /\ HasKind(ks, L)
         \/ u = t /\ HasPair(ks, K, L)
<1>. DEFINE n == Len(log[t])
<1>1. /\ n \in Nat /\ Len(ks) \in Nat
      /\ DOMAIN log[t] = 1..n
      /\ DOMAIN log'[t] = 1 .. n + Len(ks)
      /\ \A i \in 1..n : log'[t][i].kind = log[t][i].kind
      /\ \A i \in 1..Len(ks) : log'[t][n + i].kind = ks[i]
      /\ u # t => log'[u] = log[u]
  BY AppendedLog
<1>. HIDE DEF n
<1>2. CASE u # t
  BY <1>1, <1>2 DEF Pair
<1>3. CASE u = t
  <2>1. PICK i \in DOMAIN log'[t], j \in DOMAIN log'[t] :
          i < j /\ log'[t][i].kind \in K /\ log'[t][j].kind \in L
    BY <1>3 DEF Pair
  <2>2. \A k \in DOMAIN log'[t] :
          \/ k \in 1..n /\ log'[t][k].kind = log[t][k].kind
          \/ /\ k > n /\ k - n \in 1..Len(ks)
             /\ log'[t][k].kind = ks[k - n]
    <3>. SUFFICES ASSUME NEW k \in 1 .. n + Len(ks), k > n
                  PROVE  k - n \in 1..Len(ks) /\ log'[t][k].kind = ks[k - n]
      BY <1>1
    <3>1. k - n \in 1..Len(ks) /\ n + (k - n) = k
      BY <1>1
    <3>. QED
      BY <1>1, <3>1
  <2>3. i \in Nat /\ j \in Nat
    BY <1>1
  <2>4. CASE i \in 1..n /\ j \in 1..n
    <3>1. i \in DOMAIN log[t] /\ j \in DOMAIN log[t] /\ log[t][i].kind \in K /\ log[t][j].kind \in L
      BY <1>1, <2>1, <2>4
    <3>. QED
      BY <1>3, <2>1, <3>1 DEF Pair
  <2>5. CASE i \in 1..n /\ j > n
    <3>1. j \notin 1..n
      BY <1>1, <2>3, <2>5
    <3>2. j - n \in 1..Len(ks) /\ ks[j - n] \in L
      BY <2>1, <2>2, <3>1, Zenon
    <3>3. i \in DOMAIN log[t] /\ log[t][i].kind \in K
      BY <1>1, <2>1, <2>5
    <3>. QED
      BY <1>3, <3>2, <3>3 DEF LogHas, HasKind
  <2>6. CASE i > n /\ j > n
    <3>1. i \notin 1..n /\ j \notin 1..n
      BY <1>1, <2>3, <2>6
    <3>2. i - n \in 1..Len(ks) /\ ks[i - n] \in K
      BY <2>1, <2>2, <3>1, Zenon
    <3>3. j - n \in 1..Len(ks) /\ ks[j - n] \in L
      BY <2>1, <2>2, <3>1, Zenon
    <3>4. i - n < j - n
      BY <1>1, <2>1, <2>3
    <3>. QED
      BY <1>3, <3>2, <3>3, <3>4, Zenon DEF HasPair
  <2>. QED
    BY <1>1, <2>1, <2>2, <2>3, <2>4, <2>5, <2>6
<1>. QED
  BY <1>2, <1>3

\* The one or two events of a step hold one pair at most.
LEMMA PairsOf ==
  /\ \A K, L : ~HasPair(<<>>, K, L)
  /\ \A k : \A K, L : ~HasPair(<<k>>, K, L)
  /\ \A k, l : \A K, L : HasPair(<<k, l>>, K, L) <=> k \in K /\ l \in L
<1>1. Len(<<>>) = 0 /\ \A k : Len(<<k>>) = 1
  OBVIOUS
<1>2. ASSUME NEW k, NEW l, NEW K, NEW L
      PROVE  HasPair(<<k, l>>, K, L) <=> k \in K /\ l \in L
  <2>1. Len(<<k, l>>) = 2 /\ <<k, l>>[1] = k /\ <<k, l>>[2] = l
    OBVIOUS
  <2>. QED
    BY <2>1 DEF HasPair
<1>. QED
  BY <1>1, <1>2 DEF HasPair

-----------------------------------------------------------------------------
\* The events that may be logged for t now: before its verdict one step's own,
\* after it those that SilentAfterVerdict allows.
Speaks(t, ks) ==
  \/ /\ status[t] \notin Verdicts
     /\ \/ \E k \in Kinds : ks = <<k>>
        \/ \E k \in Kinds \ VerdictKinds, l \in Kinds : ks = <<k, l>>
        \/ ks \in {<<>>, <<"ok", "error">>}
  \/ ks = <<"cancel_requested">>
  \/ t \in leaked /\ ks \in {<<"stdout">>, <<"stderr">>}

\* What a run may say that has no verdict yet.
LEMMA MaySpeak ==
  ASSUME NEW t \in Tasks, status[t] \notin Verdicts
  PROVE  /\ Speaks(t, <<>>) /\ Speaks(t, <<"ok", "error">>)
         /\ \A k \in Kinds : Speaks(t, <<k>>)
         /\ \A k \in Kinds \ VerdictKinds, l \in Kinds : Speaks(t, <<k, l>>)
BY Zenon DEF Speaks

\* A run that has a verdict is over, and no reader is taken back.
LEMMA VerdictStep ==
  ASSUME ServerInv, [ServerNext]_serverVars
  PROVE  /\ leaked \subseteq leaked'
         /\ \/ UNCHANGED log
            \/ \E t \in Tasks, ks \in Seq(Kinds) : AppendEvents(t, ks) /\ Speaks(t, ks)
<1>. USE KindsOf, KindFacts
<1>1. \A t \in Tasks : /\ status[t] = "absent" => status[t] \notin Verdicts
                       /\ runner[t] = "waiting" => status[t] \notin Verdicts
                       /\ t \in Holders => status[t] \notin Verdicts
  BY OneOwnerParts DEF ServerInv, ServerTypeOK, StoreTypeOK, Owned, Verdicts
<1>2. ASSUME NEW t \in Tasks, CreateTask(t)
      PROVE  AppendEvents(t, <<"queued">>) /\ Speaks(t, <<"queued">>)
  BY <1>1, <1>2 DEF CreateTask, EnqueueTask, Speaks
<1>3. ASSUME NEW t \in Tasks, CancelTask(t)
      PROVE  AppendEvents(t, <<"cancel_requested">>) /\ Speaks(t, <<"cancel_requested">>)
  BY <1>3 DEF CancelTask, RequestCancel, Speaks
<1>4. ASSUME NEW t \in Tasks, StartRun(t)
      PROVE  \E ks \in Seq(Kinds) : AppendEvents(t, ks) /\ Speaks(t, ks)
  <2>1. status[t] \notin Verdicts
    BY <1>1, <1>4 DEF StartRun, MayStart, RejectMode, StartMock, StartMockCancelled,
                      RefuseAgent, SetupRaises, StartAgent, QueueForSession
  <2>2. /\ Speaks(t, <<>>) /\ Speaks(t, <<"running">>) /\ Speaks(t, <<"error">>)
        /\ Speaks(t, <<"running", "cancelled">>)
    BY <2>1, MaySpeak
  <2>3. /\ <<>> \in Seq(Kinds) /\ <<"running">> \in Seq(Kinds) /\ <<"error">> \in Seq(Kinds)
        /\ <<"running", "cancelled">> \in Seq(Kinds)
    OBVIOUS
  <2>. QED
    BY <1>4, <2>2, <2>3
       DEF StartRun, RejectMode, StartMock, StartMockCancelled, RefuseAgent, SetupRaises,
           StartAgent, QueueForSession, Report
<1>5. ASSUME NEW t \in Tasks, ContinueRun(t) \/ LeakedReader(t)
      PROVE  \/ UNCHANGED log
             \/ \E ks \in Seq(Kinds) : AppendEvents(t, ks) /\ Speaks(t, ks)
  <2>1. CASE TakeTurn(t) \/ ReaderRaises(t)
    BY <2>1 DEF TakeTurn, ReaderRaises, storeVars, logVars
  <2>2. CASE LeakedReader(t)
    BY <2>2 DEF LeakedReader, Speaks
  <2>3. CASE AgentEvent(t)
    <3>1. status[t] \notin Verdicts
      BY <1>1, <2>3 DEF AgentEvent, Holders
    <3>2. PICK k \in AgentKinds : AppendEvents(t, <<k>>)
      BY <2>3 DEF AgentEvent
    <3>3. k \in Kinds /\ <<k>> \in Seq(Kinds)
      BY <3>2
    <3>4. Speaks(t, <<k>>)
      BY <3>1, <3>3, Zenon DEF Speaks
    <3>. QED
      BY <3>2, <3>3, <3>4
  <2>4. CASE \/ MockStep(t) \/ MockCancelled(t) \/ MockSucceeds(t)
             \/ AgentSucceeds(t) \/ SaveRaises(t) \/ AgentRaises(t)
    <3>1. status[t] \notin Verdicts
      BY <1>1, <2>4 DEF MockStep, MockCancelled, MockSucceeds, AgentSucceeds, SaveRaises,
                        AgentRaises, Holders
    <3>2. /\ Speaks(t, <<"agent">>) /\ Speaks(t, <<"ok">>) /\ Speaks(t, <<"error">>)
          /\ Speaks(t, <<"agent", "cancelled">>) /\ Speaks(t, <<"agent", "ok">>)
          /\ Speaks(t, <<"ok", "error">>)
      BY <3>1, MaySpeak
    <3>3. /\ <<"agent">> \in Seq(Kinds) /\ <<"ok">> \in Seq(Kinds) /\ <<"error">> \in Seq(Kinds)
          /\ <<"agent", "cancelled">> \in Seq(Kinds) /\ <<"agent", "ok">> \in Seq(Kinds)
          /\ <<"ok", "error">> \in Seq(Kinds)
      OBVIOUS
    <3>. QED
      BY <2>4, <3>2, <3>3
         DEF MockStep, MockCancelled, MockSucceeds, AgentSucceeds, SaveRaises, AgentRaises,
             Report
  <2>. QED
    BY <1>5, <2>1, <2>2, <2>3, <2>4 DEF ContinueRun
<1>6. ConsumeTask => UNCHANGED log
  BY DEF ConsumeTask, logVars
<1>7. UNCHANGED serverVars => UNCHANGED log
  BY DEF serverVars, storeVars, logVars
<1>8. leaked \subseteq leaked'
  <2>1. ASSUME NEW t \in Tasks, CreateTask(t) \/ CancelTask(t) PROVE leaked' = leaked
    BY <2>1 DEF CreateTask, CancelTask, runnerVars
  <2>2. ASSUME NEW t \in Tasks, StartRun(t) PROVE leaked' = leaked
    BY <2>2 DEF StartRun, RejectMode, StartMock, StartMockCancelled, RefuseAgent, SetupRaises,
                StartAgent, QueueForSession, EndAtOnce
  <2>3. ASSUME NEW t \in Tasks, ContinueRun(t) \/ LeakedReader(t) PROVE leaked \subseteq leaked'
    BY <2>3 DEF ContinueRun, MockStep, MockCancelled, MockSucceeds, TakeTurn, AgentEvent,
                ReaderRaises, LeakedReader, AgentSucceeds, SaveRaises, AgentRaises
  <2>4. ConsumeTask => leaked' = leaked
    BY DEF ConsumeTask
  <2>5. UNCHANGED serverVars => leaked' = leaked
    BY DEF serverVars, runnerVars
  <2>. QED
    BY <2>1, <2>2, <2>3, <2>4, <2>5 DEF ServerNext, ServerStep, Idle
<1>9. \/ UNCHANGED log
      \/ \E t \in Tasks, ks \in Seq(Kinds) : AppendEvents(t, ks) /\ Speaks(t, ks)
  BY <1>2, <1>3, <1>4, <1>5, <1>6, <1>7 DEF ServerNext, ServerStep, Idle
<1>. QED
  BY <1>8, <1>9

\* SilentAfterVerdict as pairs that no log has.
Quiet(t) ==
  /\ ~Pair(t, VerdictKinds, Kinds \ {"cancel_requested", "error", "stdout", "stderr"})
  /\ ~Pair(t, {"cancelled", "error"}, {"error"})
  /\ t \notin leaked => ~Pair(t, VerdictKinds, {"stdout", "stderr"})

\* What is quiet says no more than SilentAfterVerdict allows.
LEMMA QuietIsSilent ==
  ASSUME LogTypeOK, \A t \in Tasks : Quiet(t)
  PROVE  SilentAfterVerdict
<1>. SUFFICES ASSUME NEW t \in Tasks, NEW i \in DOMAIN log[t], NEW j \in DOMAIN log[t],
                     i < j, log[t][i].kind \in VerdictKinds
              PROVE  \/ log[t][j].kind = "cancel_requested"
                     \/ log[t][i].kind = "ok" /\ log[t][j].kind = "error"
                     \/ t \in leaked /\ log[t][j].kind \in {"stdout", "stderr"}
  BY DEF SilentAfterVerdict
<1>1. log[t][j].kind \in Kinds
  <2>1. log[t] \in Seq(Event) /\ j \in 1..Len(log[t])
    BY LenProperties DEF LogTypeOK
  <2>2. log[t][j] \in Event
    BY <2>1, ElementOfSeq
  <2>. QED
    BY <2>2 DEF Event
<1>2. log[t][j].kind \in {"cancel_requested", "error", "stdout", "stderr"}
  BY <1>1, Zenon DEF Quiet, Pair
<1>3. log[t][j].kind = "error" => log[t][i].kind = "ok"
  <2>1. log[t][j].kind = "error" => log[t][i].kind \notin {"cancelled", "error"}
    BY DEF Quiet, Pair
  <2>. QED
    BY <2>1 DEF VerdictKinds, ResultKinds
<1>4. log[t][j].kind \in {"stdout", "stderr"} => t \in leaked
  BY Zenon DEF Quiet, Pair
<1>. QED
  BY <1>2, <1>3, <1>4

\* A step keeps a log quiet: if it has a verdict, little can be appended, and
\* if it has none, one step's own events are quiet among themselves.
LEMMA QuietStep ==
  ASSUME ServerInv, VerdictMatchesLog, [ServerNext]_serverVars, NEW u \in Tasks, Quiet(u)
  PROVE  Quiet(u)'
<1>. DEFINE Loud == Kinds \ {"cancel_requested", "error", "stdout", "stderr"}
            Out == {"stdout", "stderr"}
<1>1. LogTypeOK /\ leaked \subseteq leaked' /\ Agrees(u)
  BY VerdictStep DEF ServerInv, ServerTypeOK, StoreTypeOK, VerdictMatchesLog, Agrees
<1>2. CASE UNCHANGED log
  <2>1. \A K, L : Pair(u, K, L)' => Pair(u, K, L)
    BY <1>2 DEF Pair
  <2>. QED
    BY <1>1, <2>1 DEF Quiet
<1>3. ASSUME NEW t \in Tasks, NEW ks \in Seq(Kinds), AppendEvents(t, ks), Speaks(t, ks)
      PROVE  Quiet(u)'
  <2>1. CASE u # t
    <3>1. \A K, L : Pair(u, K, L)' => Pair(u, K, L)
      BY <1>1, <1>3, <2>1, PairStep
    <3>. QED
      BY <1>1, <3>1 DEF Quiet
  <2>2. CASE u = t /\ status[u] \notin Verdicts
    <3>1. ~LogHas(u, VerdictKinds) /\ ~LogHas(u, {"cancelled", "error"})
      BY <1>1, <2>2, NoVerdictYet DEF LogHas, VerdictKinds, ResultKinds
    <3>2. /\ ~HasPair(ks, VerdictKinds, Loud)
          /\ ~HasPair(ks, {"cancelled", "error"}, {"error"})
          /\ ~HasPair(ks, VerdictKinds, Out)
      <4>1. CASE ks = <<>> \/ \E k : ks = <<k>>
        BY <4>1, PairsOf
      <4>2. CASE \E k \in Kinds \ VerdictKinds, l \in Kinds : ks = <<k, l>>
        <5>1. PICK k \in Kinds \ VerdictKinds, l \in Kinds : ks = <<k, l>>
          BY <4>2
        <5>2. k \notin {"cancelled", "error"} /\ k \notin VerdictKinds
          BY KindFacts
        <5>. QED
          BY <5>1, <5>2, PairsOf
      <4>3. CASE ks = <<"ok", "error">>
        <5>1. "error" \notin Loud /\ "error" \notin Out /\ "ok" \notin {"cancelled", "error"}
          OBVIOUS
        <5>. QED
          BY <4>3, <5>1, PairsOf
      <4>. QED
        BY <1>3, <4>1, <4>2, <4>3 DEF Speaks
    <3>3. /\ ~Pair(u, VerdictKinds, Loud)'
          /\ ~Pair(u, {"cancelled", "error"}, {"error"})'
      BY <1>1, <1>3, <2>2, <3>1, <3>2, PairStep DEF Quiet
    <3>4. t \notin leaked => ~Pair(u, VerdictKinds, Out)'
      BY <1>1, <1>3, <2>2, <3>1, <3>2, PairStep DEF Quiet
    <3>. QED
      BY <1>1, <2>2, <3>3, <3>4 DEF Quiet
  <2>3. CASE u = t /\ status[u] \in Verdicts
    <3>1. PICK k \in {"cancel_requested", "stdout", "stderr"} :
            ks = <<k>> /\ (k # "cancel_requested" => t \in leaked)
      BY <1>3, <2>3 DEF Speaks
    <3>2. \A K : HasKind(ks, K) <=> k \in K
      BY <3>1, KindsOf, KindFacts
    <3>3. k \notin Loud /\ k \notin {"error"} /\ (k \in Out => t \in leaked)
      BY <3>1
    <3>4. \A K, L : ~HasPair(ks, K, L)
      BY <3>1, PairsOf
    <3>5. /\ ~Pair(u, VerdictKinds, Loud)'
          /\ ~Pair(u, {"cancelled", "error"}, {"error"})'
      BY <1>1, <1>3, <2>3, <3>2, <3>3, <3>4, PairStep DEF Quiet
    <3>6. t \notin leaked => ~Pair(u, VerdictKinds, Out)'
      BY <1>1, <1>3, <2>3, <3>2, <3>3, <3>4, PairStep DEF Quiet
    <3>. QED
      BY <1>1, <2>3, <3>5, <3>6 DEF Quiet
  <2>. QED
    BY <2>1, <2>2, <2>3
<1>. QED
  BY <1>2, <1>3, VerdictStep

AllQuiet == \A t \in Tasks : Quiet(t)

\* Before the first step every log is empty.
LEMMA QuietInit == ServerInit => AllQuiet
<1>1. DOMAIN <<>> = {}
  OBVIOUS
<1>. QED
  BY <1>1 DEF ServerInit, StoreInit, AllQuiet, Quiet, Pair

\* A run is over when it announces its verdict: whatever is cancelled, fails or
\* is left behind, only late cancel requests, the error of a failed save and
\* the output of readers left behind follow it in the log.
THEOREM VerdictsAreLast == ServerSpec => []SilentAfterVerdict
<1>1. ServerInv /\ VerdictMatchesLog /\ AllQuiet /\ [ServerNext]_serverVars => AllQuiet'
  BY QuietStep DEF AllQuiet
<1>2. ServerInv /\ AllQuiet => SilentAfterVerdict
  BY QuietIsSilent DEF AllQuiet, ServerInv, ServerTypeOK, StoreTypeOK
<1>. QED
  BY <1>1, <1>2, QuietInit, Invariance, StatusMatchesLog, PTL DEF ServerSpec

-----------------------------------------------------------------------------
\* A run with a session succeeds in the step that saves the memory.
LEMMA SucceedStep ==
  ASSUME ServerInv, [ServerNext]_serverVars
  PROVE  \/ \E t \in Tasks : AgentSucceeds(t) /\ HasSession(t)
         \/ /\ UNCHANGED memory
            /\ \A u \in Tasks :
                 HasSession(u) => (status'[u] = "succeeded" <=> status[u] = "succeeded")
<1>. DEFINE Same == \A u \in Tasks :
                      HasSession(u) => (status'[u] = "succeeded" <=> status[u] = "succeeded")
<1>1. status \in [Tasks -> Statuses]
  BY DEF ServerInv, ServerTypeOK, StoreTypeOK
<1>2. \A t \in Tasks : /\ runner[t] = "waiting" => status[t] # "succeeded"
                       /\ t \in Holders => status[t] # "succeeded"
  BY OneOwnerParts DEF ServerInv, ServerTypeOK, StoreTypeOK, Owned
<1>3. ASSUME NEW t \in Tasks, CreateTask(t) \/ CancelTask(t)
      PROVE  UNCHANGED memory /\ Same
  BY <1>1, <1>3 DEF CreateTask, EnqueueTask, UpdateMeta, CancelTask
<1>4. ASSUME NEW t \in Tasks, StartRun(t)
      PROVE  UNCHANGED memory /\ Same
  <2>1. UNCHANGED memory /\ \E s \in {"running", "failed", "cancelled"} : UpdateMeta(t, s)
    BY <1>4 DEF StartRun, RejectMode, StartMock, StartMockCancelled, RefuseAgent, SetupRaises,
                StartAgent, QueueForSession, Report
  <2>2. status[t] # "succeeded"
    BY <1>2, <1>4 DEF StartRun, MayStart, RejectMode, StartMock, StartMockCancelled, RefuseAgent,
                      SetupRaises, StartAgent, QueueForSession
  <2>. QED
    BY <1>1, <2>1, <2>2 DEF UpdateMeta
<1>5. ASSUME NEW t \in Tasks, ContinueRun(t) \/ LeakedReader(t)
      PROVE  (AgentSucceeds(t) /\ HasSession(t)) \/ (UNCHANGED memory /\ Same)
  <2>1. CASE TakeTurn(t) \/ AgentEvent(t) \/ ReaderRaises(t) \/ LeakedReader(t)
    BY <2>1 DEF TakeTurn, AgentEvent, ReaderRaises, LeakedReader, storeVars
  <2>2. CASE MockStep(t) \/ MockCancelled(t) \/ SaveRaises(t) \/ AgentRaises(t)
    <3>1. UNCHANGED memory /\ \E s \in {"running", "failed", "cancelled"} : UpdateMeta(t, s)
      BY <2>2 DEF MockStep, MockCancelled, SaveRaises, AgentRaises, Report
    <3>2. status[t] # "succeeded"
      BY <1>2, <2>2 DEF MockStep, MockCancelled, SaveRaises, AgentRaises, Holders
    <3>. QED
      BY <1>1, <3>1, <3>2 DEF UpdateMeta
  <2>3. CASE MockSucceeds(t) \/ (AgentSucceeds(t) /\ ~HasSession(t))
    <3>1. UNCHANGED memory /\ UpdateMeta(t, "succeeded")
      BY <2>3 DEF MockSucceeds, AgentSucceeds, Report
    <3>2. ~HasSession(t)
      BY <2>3 DEF MockSucceeds, ServerInv, Turns, HasSession
    <3>. QED
      BY <1>1, <3>1, <3>2 DEF UpdateMeta
  <2>. QED
    BY <1>5, <2>1, <2>2, <2>3 DEF ContinueRun
<1>6. ConsumeTask => UNCHANGED memory /\ Same
  BY DEF ConsumeTask
<1>7. UNCHANGED serverVars => UNCHANGED memory /\ Same
  BY DEF serverVars, storeVars
<1>. QED
  BY <1>3, <1>4, <1>5, <1>6, <1>7 DEF ServerNext, ServerStep, Idle

\* The memory of key k holds the turn of t.
Holds(k, t) == \E i \in DOMAIN memory[k] : memory[k][i] = t

\* A run that succeeds adds its turn, which was nowhere, to the memory it loaded.
LEMMA HoldsStep ==
  ASSUME ServerInv, SessionIsolated, MemoryHoldsSuccesses, [ServerNext]_serverVars
  PROVE  MemoryHoldsSuccesses'
<1>1. /\ memory \in [Keys -> Seq(Tasks)] /\ status \in [Tasks -> Statuses]
  BY DEF ServerInv, ServerTypeOK, StoreTypeOK
<1>2. CASE /\ UNCHANGED memory
           /\ \A u \in Tasks :
                HasSession(u) => (status'[u] = "succeeded" <=> status[u] = "succeeded")
  BY <1>2 DEF MemoryHoldsSuccesses
<1>3. ASSUME NEW t \in Tasks, AgentSucceeds(t), HasSession(t)
      PROVE  MemoryHoldsSuccesses'
  <2>. SUFFICES ASSUME NEW k \in Keys, OneSession(k)
                PROVE  /\ \A i, j \in DOMAIN memory'[k] : memory'[k][i] = memory'[k][j] => i = j
                       /\ \A u \in Tasks : Holds(k, u)' <=>
                            HasSession(u) /\ Key[u] = k /\ status'[u] = "succeeded"
    BY Zenon DEF MemoryHoldsSuccesses, Holds, HasSession, OneSession
  <2>. DEFINE m == memory[Key[t]]
  <2>1. Key[t] \in Keys /\ m \in Seq(Tasks) /\ Len(m) \in Nat /\ DOMAIN m = 1..Len(m)
    BY <1>1, KeyAssumption, LenProperties
  <2>2. status[t] # "succeeded" /\ status' = [status EXCEPT ![t] = "succeeded"]
    <3>1. t \in Holders
      BY <1>3 DEF AgentSucceeds, Holders
    <3>. QED
      BY <1>3, <3>1, OneOwnerParts
         DEF ServerInv, ServerTypeOK, StoreTypeOK, Owned, AgentSucceeds, Report, UpdateMeta
  <2>3. /\ memory' = [memory EXCEPT ![Key[t]] = Append(loaded[t], t)]
        /\ k = Key[t] => loaded[t] = m
    BY <1>3 DEF AgentSucceeds, SessionIsolated
  <2>4. /\ DOMAIN Append(m, t) = 1 .. Len(m) + 1
        /\ \A i \in 1..Len(m) : Append(m, t)[i] = m[i]
        /\ Append(m, t)[Len(m) + 1] = t
    BY <2>1, AppendProperties, LenProperties
  <2>5. ~Holds(k, t)
    BY <2>2 DEF Holds, MemoryHoldsSuccesses
  <2>6. /\ \A i, j \in DOMAIN memory[k] : memory[k][i] = memory[k][j] => i = j
        /\ \A u \in Tasks : Holds(k, u) <=> HasSession(u) /\ Key[u] = k /\ status[u] = "succeeded"
    BY Zenon DEF MemoryHoldsSuccesses, Holds
  <2>7. /\ status'[t] = "succeeded"
        /\ \A u \in Tasks : u # t => status'[u] = status[u]
    BY <1>1, <2>2
  <2>8. CASE k # Key[t]
    <3>1. memory'[k] = memory[k]
      BY <1>1, <2>3, <2>8
    <3>2. \A u \in Tasks : Holds(k, u)' <=> Holds(k, u)
      BY <3>1 DEF Holds
    <3>. QED
      BY <2>5, <2>6, <2>7, <2>8, <3>1, <3>2, Zenon
  <2>9. CASE k = Key[t]
    <3>1. memory'[k] = Append(m, t) /\ memory[k] = m
      BY <1>1, <2>1, <2>3, <2>9
    <3>. HIDE DEF m
    <3>2. \A i \in 1..Len(m) : m[i] # t
      BY <2>1, <2>5, <3>1 DEF Holds
    <3>3. \A i, j \in DOMAIN memory'[k] : memory'[k][i] = memory'[k][j] => i = j
      BY <2>1, <2>4, <2>6, <3>1, <3>2
    <3>4. \A u \in Tasks : Holds(k, u)' <=> Holds(k, u) \/ u = t
      BY <2>1, <2>4, <3>1 DEF Holds
    <3>. QED
      BY <1>3, <2>6, <2>7, <2>9, <3>3, <3>4, Zenon
  <2>. QED
    BY <2>8, <2>9
<1>. QED
  BY <1>2, <1>3, SucceedStep

\* Before the first step every memory is empty and no run has succeeded.
LEMMA HoldsInit == ServerInit => MemoryHoldsSuccesses
<1>1. DOMAIN <<>> = {}
  OBVIOUS
<1>. QED
  BY <1>1 DEF ServerInit, StoreInit, MemoryHoldsSuccesses

\* The memory of every user's session, stored under a key of its own, holds the
\* turn of every run of it that succeeded, once, and of no other run, however
\* runs overlap and fail.
THEOREM MemoryIsExact == ServerSpec => []MemoryHoldsSuccesses
BY HoldsInit, HoldsStep, Invariance, SessionsAreIsolated, PTL DEF ServerSpec

-----------------------------------------------------------------------------
\* Only agent runs come to an agent.
AgentsThink == \A t \in Tasks : runner[t] = "thinking" => Mode[t] = "agent"

\* No other run comes to one: every step keeps AgentsThink.
LEMMA ThinkStep ==
  ASSUME ServerInv, AgentsThink, [ServerNext]_serverVars
  PROVE  AgentsThink'
<1>. SUFFICES ASSUME NEW u \in Tasks, runner'[u] = "thinking", Mode[u] # "agent"
              PROVE  FALSE
  BY DEF AgentsThink
<1>1. runner \in [Tasks -> Phases] /\ pending \in Seq(Tasks) /\ runner[u] # "thinking"
  BY DEF ServerInv, ServerTypeOK, StoreTypeOK, AgentsThink
<1>2. ASSUME NEW t \in Tasks, CreateTask(t) \/ CancelTask(t) PROVE FALSE
  BY <1>1, <1>2 DEF CreateTask, CancelTask, runnerVars
<1>3. ASSUME NEW t \in Tasks, StartRun(t) PROVE FALSE
  BY <1>1, <1>3 DEF StartRun, RejectMode, StartMock, StartMockCancelled, RefuseAgent, SetupRaises,
                    StartAgent, QueueForSession, MayStart, Suspend, EndAtOnce
<1>4. ASSUME NEW t \in Tasks, ContinueRun(t) \/ LeakedReader(t) PROVE FALSE
  <2>1. CASE TakeTurn(t)
    BY <1>1, <2>1 DEF TakeTurn, ServerInv, Turns, HasSession
  <2>2. CASE MockStep(t) \/ AgentEvent(t) \/ ReaderRaises(t) \/ LeakedReader(t)
    BY <1>1, <2>2 DEF MockStep, AgentEvent, ReaderRaises, LeakedReader
  <2>3. CASE \/ MockCancelled(t) \/ MockSucceeds(t) \/ AgentSucceeds(t) \/ SaveRaises(t)
             \/ AgentRaises(t)
    BY <1>1, <2>3 DEF MockCancelled, MockSucceeds, AgentSucceeds, SaveRaises, AgentRaises, End
  <2>. QED
    BY <1>4, <2>1, <2>2, <2>3 DEF ContinueRun
<1>5. ConsumeTask => FALSE
  BY <1>1 DEF ConsumeTask
<1>6. UNCHANGED serverVars => FALSE
  BY <1>1 DEF serverVars, runnerVars
<1>. QED
  BY <1>2, <1>3, <1>4, <1>5, <1>6 DEF ServerNext, ServerStep, Idle

\* What a mock task's log may get: nothing about its work; the start of its run
\* or a step of it while the flag is unset; the start or a step with the verdict.
MockSays(t, ks) ==
  \/ /\ ~HasKind(ks, {"running", "agent", "ok"})
     /\ status'[t] \in Verdicts <=> status[t] \in Verdicts
     /\ status'[t] \in {"absent", "queued"} => status[t] \in {"absent", "queued"}
  \/ /\ t \notin cancelled
     /\ \/ ks = <<"running">> /\ status[t] = "queued" /\ status'[t] = "running"
        \/ ks = <<"agent">> /\ status[t] = "running" /\ status'[t] = "running"
  \/ ks = <<"running", "cancelled">> /\ status[t] = "queued" /\ status'[t] \in Verdicts
  \/ /\ ks \in {<<"agent", "cancelled">>, <<"agent", "ok">>}
     /\ status[t] = "running" /\ status'[t] \in Verdicts

\* The flag of a task is set by the request that is logged, and never unset.
LEMMA MockStepSays ==
  ASSUME ServerInv, AgentsThink, [ServerNext]_serverVars
  PROVE  \/ UNCHANGED <<log, status, cancelled>>
         \/ \E t \in Tasks, ks \in Seq(Kinds) :
              /\ AppendEvents(t, ks)
              /\ HasKind(ks, {"cancel_requested"}) => t \in cancelled'
              /\ cancelled \subseteq cancelled'
              /\ \A u \in Tasks : u # t => status'[u] = status[u]
              /\ Mode[t] = "mock" => MockSays(t, ks)
<1>. DEFINE Says(t, ks) ==
              /\ ks \in Seq(Kinds)
              /\ AppendEvents(t, ks)
              /\ HasKind(ks, {"cancel_requested"}) => t \in cancelled'
              /\ cancelled \subseteq cancelled'
              /\ \A u \in Tasks : u # t => status'[u] = status[u]
              /\ Mode[t] = "mock" => MockSays(t, ks)
<1>. USE KindsOf, KindFacts
<1>1. status \in [Tasks -> Statuses]
  BY DEF ServerInv, ServerTypeOK, StoreTypeOK
<1>2. \A t \in Tasks : /\ runner[t] = "waiting" => status[t] = "queued"
                       /\ t \in Holders => status[t] = "running"
  BY OneOwnerParts DEF ServerInv, ServerTypeOK, StoreTypeOK, Owned
<1>3. ASSUME NEW t \in Tasks, CreateTask(t)
      PROVE  Says(t, <<"queued">>)
  BY <1>1, <1>3 DEF CreateTask, EnqueueTask, UpdateMeta, MockSays, Verdicts
<1>4. ASSUME NEW t \in Tasks, CancelTask(t)
      PROVE  Says(t, <<"cancel_requested">>)
  BY <1>4 DEF CancelTask, RequestCancel, MockSays
<1>. DEFINE Own == {ks \in Seq(Kinds) : ~HasKind(ks, {"cancel_requested"})}
<1>5. /\ <<>> \in Own /\ <<"running">> \in Own /\ <<"error">> \in Own /\ <<"ok">> \in Own
      /\ <<"agent">> \in Own /\ <<"ok", "error">> \in Own /\ <<"running", "cancelled">> \in Own
      /\ <<"agent", "cancelled">> \in Own /\ <<"agent", "ok">> \in Own
  <2>1. ~HasKind(<<>>, {"cancel_requested"})
    BY DEF Silent, HasKind
  <2>. QED
    BY <2>1
<1>6. ASSUME NEW t \in Tasks, NEW ks \in Own, NEW s, Report(t, ks, s),
              Mode[t] = "mock" /\ status'[t] = s => MockSays(t, ks)
       PROVE  Says(t, ks)
  <2>1. UNCHANGED cancelled /\ status' = [status EXCEPT ![t] = s] /\ AppendEvents(t, ks)
    BY <1>6 DEF Report, UpdateMeta
  <2>. QED
    BY <1>1, <1>6, <2>1
<1>. HIDE DEF Own
<1>7. ASSUME NEW t \in Tasks, StartRun(t)
      PROVE  \E ks : Says(t, ks)
  <2>1. status[t] = "queued"
    BY <1>2, <1>7 DEF StartRun, MayStart, RejectMode, StartMock, StartMockCancelled,
                      RefuseAgent, SetupRaises, StartAgent, QueueForSession
  <2>2. CASE StartMock(t)
    <3>1. Report(t, <<"running">>, "running") /\ t \notin cancelled
      BY <2>2 DEF StartMock, IsCancelled
    <3>2. Says(t, <<"running">>)
      BY <1>5, <1>6, <2>1, <3>1 DEF MockSays
    <3>. QED
      BY <3>2
  <2>3. CASE StartMockCancelled(t)
    <3>1. Report(t, <<"running", "cancelled">>, "cancelled")
      BY <2>3 DEF StartMockCancelled
    <3>2. Says(t, <<"running", "cancelled">>)
      BY <1>5, <1>6, <2>1, <3>1 DEF MockSays, Verdicts
    <3>. QED
      BY <3>2
  <2>4. CASE RejectMode(t) \/ RefuseAgent(t) \/ SetupRaises(t) \/ StartAgent(t) \/ QueueForSession(t)
    <3>1. Mode[t] # "mock"
      BY <2>4 DEF RejectMode, RefuseAgent, SetupRaises, StartAgent, QueueForSession, MayStart
    <3>2. PICK ks \in {<<>>, <<"error">>}, s \in {"running", "failed"} : Report(t, ks, s)
      BY <2>4 DEF RejectMode, RefuseAgent, SetupRaises, StartAgent, QueueForSession
    <3>3. ks \in Own
      BY <1>5, <3>2
    <3>4. Says(t, ks)
      BY <1>6, <3>1, <3>2, <3>3, Zenon
    <3>. QED
      BY <3>4
  <2>. QED
    BY <1>7, <2>2, <2>3, <2>4 DEF StartRun
<1>8. ASSUME NEW t \in Tasks, ContinueRun(t) \/ LeakedReader(t)
      PROVE  UNCHANGED <<log, status, cancelled>> \/ \E ks : Says(t, ks)
  <2>1. CASE TakeTurn(t) \/ ReaderRaises(t)
    BY <2>1 DEF TakeTurn, ReaderRaises, storeVars, logVars
  <2>2. CASE LeakedReader(t)
    <3>1. PICK k \in {"stdout", "stderr"} : AppendEvents(t, <<k>>)
      BY <2>2 DEF LeakedReader
    <3>2. Says(t, <<k>>)
      BY <2>2, <3>1 DEF LeakedReader, MockSays
    <3>. QED
      BY <3>2
  <2>3. CASE AgentEvent(t)
    <3>1. PICK k \in AgentKinds : AppendEvents(t, <<k>>)
      BY <2>3 DEF AgentEvent
    <3>2. k \in Kinds /\ k # "cancel_requested"
      BY <3>1, BoundAssumption DEF StreamKinds
    <3>3. Mode[t] # "mock"
      BY <2>3 DEF AgentEvent, AgentsThink
    <3>4. <<k>> \in Seq(Kinds) /\ ~HasKind(<<k>>, {"cancel_requested"})
      BY <3>2
    <3>5. Says(t, <<k>>)
      BY <2>3, <3>1, <3>3, <3>4 DEF AgentEvent
    <3>. QED
      BY <3>5
  <2>4. CASE MockStep(t)
    <3>1. Report(t, <<"agent">>, "running") /\ t \notin cancelled /\ status[t] = "running"
      BY <1>2, <2>4 DEF MockStep, IsCancelled, Holders
    <3>2. Says(t, <<"agent">>)
      BY <1>5, <1>6, <3>1 DEF MockSays
    <3>. QED
      BY <3>2
  <2>5. CASE MockCancelled(t) \/ MockSucceeds(t)
    <3>1. PICK ks \in {<<"agent", "cancelled">>, <<"agent", "ok">>}, s \in Verdicts : Report(t, ks, s)
      BY <2>5 DEF MockCancelled, MockSucceeds, Verdicts
    <3>2. status[t] = "running"
      BY <1>2, <2>5 DEF MockCancelled, MockSucceeds, Holders
    <3>3. status'[t] = s => MockSays(t, ks)
      BY <3>1, <3>2 DEF MockSays
    <3>4. ks \in Own
      BY <1>5, <3>1
    <3>5. Says(t, ks)
      BY <1>6, <3>1, <3>3, <3>4, Zenon
    <3>. QED
      BY <3>5
  <2>6. CASE AgentSucceeds(t) \/ SaveRaises(t) \/ AgentRaises(t)
    <3>1. Mode[t] # "mock"
      BY <2>6 DEF AgentsThink, AgentSucceeds, SaveRaises, AgentRaises
    <3>2. PICK ks \in {<<"ok">>, <<"error">>, <<"ok", "error">>}, s \in Verdicts : Report(t, ks, s)
      BY <2>6 DEF AgentSucceeds, SaveRaises, AgentRaises, Verdicts
    <3>3. ks \in Own
      BY <1>5, <3>2
    <3>4. Says(t, ks)
      BY <1>6, <3>1, <3>2, <3>3, Zenon
    <3>. QED
      BY <3>4
  <2>. QED
    BY <1>8, <2>1, <2>2, <2>3, <2>4, <2>5, <2>6 DEF ContinueRun
<1>9. ConsumeTask => UNCHANGED <<log, status, cancelled>>
  BY DEF ConsumeTask, logVars
<1>10. UNCHANGED serverVars => UNCHANGED <<log, status, cancelled>>
  BY DEF serverVars, storeVars, logVars
<1>. HIDE DEF Says
<1>11. UNCHANGED <<log, status, cancelled>> \/ \E t \in Tasks : \E ks : Says(t, ks)
  BY <1>3, <1>4, <1>7, <1>8, <1>9, <1>10 DEF ServerNext, ServerStep, Idle
<1>. QED
  BY <1>11 DEF Says

-----------------------------------------------------------------------------
\* Work after a cancel request that is new after a step is of a request and a
\* step of the run that were logged before, and one that is appended.
LEMMA WorkStep ==
  ASSUME LogTypeOK, NEW t \in Tasks, NEW ks \in Seq(Kinds), AppendEvents(t, ks),
         NEW u \in Tasks, WorksAfterCancel(u)'
  PROVE  \/ WorksAfterCancel(u)
         \/ u = t /\ Pair(t, {"cancel_requested"}, {"agent"}) /\ HasKind(ks, {"agent"})
         \/ u = t /\ HasPair(ks, {"agent"}, {"agent"})
<1>. DEFINE n == Len(log[t])
<1>1. /\ n \in Nat /\ Len(ks) \in Nat
      /\ DOMAIN log[t] = 1..n
      /\ DOMAIN log'[t] = 1 .. n + Len(ks)
      /\ \A i \in 1..n : log'[t][i].kind = log[t][i].kind
      /\ \A i \in 1..Len(ks) : log'[t][n + i].kind = ks[i]
      /\ u # t => log'[u] = log[u]
  BY AppendedLog
<1>. HIDE DEF n
<1>2. CASE u # t
  BY <1>1, <1>2 DEF WorksAfterCancel
<1>3. CASE u = t
  <2>1. PICK i \in DOMAIN log'[t], j \in DOMAIN log'[t], k \in DOMAIN log'[t] :
          /\ i < j /\ j < k
          /\ log'[t][i].kind = "cancel_requested"
          /\ log'[t][j].kind = "agent"
          /\ log'[t][k].kind = "agent"
    BY <1>3 DEF WorksAfterCancel
  <2>2. ASSUME NEW l \in DOMAIN log'[t], l \notin 1..n
        PROVE  l - n \in 1..Len(ks) /\ log'[t][l].kind = ks[l - n]
    <3>1. l - n \in 1..Len(ks) /\ n + (l - n) = l
      BY <1>1, <2>2
    <3>. QED
      BY <1>1, <3>1
  <2>3. i \in Nat /\ j \in Nat /\ k \in Nat /\ (k \in 1..n => j \in 1..n) /\ (j \in 1..n => i \in 1..n)
    BY <1>1, <2>1
  <2>4. CASE k \in 1..n
    <3>1. /\ i \in DOMAIN log[t] /\ j \in DOMAIN log[t] /\ k \in DOMAIN log[t]
          /\ log[t][i].kind = "cancel_requested"
          /\ log[t][j].kind = "agent"
          /\ log[t][k].kind = "agent"
      BY <1>1, <2>1, <2>3, <2>4
    <3>2. i < j /\ j < k
      BY <2>1
    <3>3. WorksAfterCancel(u)
      BY <1>3, <3>1, <3>2, SMT DEF WorksAfterCancel
    <3>. QED
      BY <3>3
  <2>5. CASE j \in 1..n /\ k \notin 1..n
    <3>1. k - n \in 1..Len(ks) /\ ks[k - n] = "agent"
      BY <2>1, <2>2, <2>5, Zenon
    <3>2. Pair(t, {"cancel_requested"}, {"agent"})
      BY <1>1, <2>1, <2>3, <2>5 DEF Pair
    <3>. QED
      BY <1>3, <3>1, <3>2 DEF HasKind
  <2>6. CASE j \notin 1..n /\ k \notin 1..n
    <3>1. k - n \in 1..Len(ks) /\ ks[k - n] \in {"agent"}
      BY <2>1, <2>2, <2>6, Zenon
    <3>2. j - n \in 1..Len(ks) /\ ks[j - n] \in {"agent"}
      BY <2>1, <2>2, <2>6, Zenon
    <3>3. j - n < k - n
      BY <1>1, <2>1, <2>3
    <3>. QED
      BY <1>3, <3>1, <3>2, <3>3, Zenon DEF HasPair
  <2>. QED
    BY <2>3, <2>4, <2>5, <2>6
<1>. QED
  BY <1>2, <1>3

\* What the flag and the log of t say of cancel requests.  Up to its verdict a
\* mock run logs nothing of its work once a request is logged; the step with
\* the verdict is the one that may.
Heeds(t) ==
  /\ LogHas(t, {"cancel_requested"}) => t \in cancelled
  /\ Mode[t] = "mock" =>
       /\ status[t] \notin Verdicts => ~Pair(t, {"cancel_requested"}, {"agent", "running"})
       /\ status[t] \in {"absent", "queued"} => ~LogHas(t, {"agent", "ok"})
       /\ ~WorksAfterCancel(t)
       /\ Pair(t, {"cancel_requested"}, {"running"}) => ~LogHas(t, {"agent", "ok"})

\* A run that heeds the flag goes on doing so.
LEMMA HeedStep ==
  ASSUME ServerInv, AgentsThink, [ServerNext]_serverVars, NEW u \in Tasks, Heeds(u)
  PROVE  Heeds(u)'
<1>. DEFINE cr == {"cancel_requested"}
            work == {"agent", "running"}
            done == {"agent", "ok"}
<1>1. LogTypeOK
  BY DEF ServerInv, ServerTypeOK, StoreTypeOK
<1>2. CASE UNCHANGED <<log, status, cancelled>>
  BY <1>2 DEF Heeds, LogHas, Pair, WorksAfterCancel
<1>3. ASSUME NEW t \in Tasks, NEW ks \in Seq(Kinds), AppendEvents(t, ks),
             HasKind(ks, cr) => t \in cancelled', cancelled \subseteq cancelled',
             \A v \in Tasks : v # t => status'[v] = status[v],
             Mode[t] = "mock" => MockSays(t, ks)
      PROVE  Heeds(u)'
  <2>1. LogHas(u, cr)' => u \in cancelled'
    BY <1>1, <1>3, AppendKinds DEF Heeds
  <2>2. ASSUME Mode[u] = "mock"
        PROVE  /\ status'[u] \notin Verdicts => ~Pair(u, cr, work)'
               /\ status'[u] \in {"absent", "queued"} => ~LogHas(u, done)'
               /\ ~WorksAfterCancel(u)'
               /\ Pair(u, cr, {"running"})' => ~LogHas(u, done)'
    <3>1. /\ status[u] \notin Verdicts => ~Pair(u, cr, work)
          /\ status[u] \in {"absent", "queued"} => ~LogHas(u, done)
          /\ ~WorksAfterCancel(u)
          /\ Pair(u, cr, {"running"}) => ~LogHas(u, done)
          /\ u \notin cancelled => ~LogHas(u, cr)
      BY <2>2 DEF Heeds
    <3>2. CASE u # t
      <4>1. /\ \A K, L : Pair(u, K, L)' => Pair(u, K, L)
            /\ \A K : LogHas(u, K)' <=> LogHas(u, K)
            /\ WorksAfterCancel(u)' => WorksAfterCancel(u)
        BY <1>1, <1>3, <3>2, PairStep, AppendKinds, WorkStep
      <4>2. status'[u] = status[u]
        BY <1>3, <3>2
      <4>. QED
        BY <3>1, <4>1, <4>2
    <3>3. CASE u = t
      <4>1. /\ Pair(u, cr, work)' =>
                 Pair(u, cr, work) \/ (LogHas(u, cr) /\ HasKind(ks, work)) \/ HasPair(ks, cr, work)
            /\ Pair(u, cr, {"running"})' =>
                 \/ Pair(u, cr, {"running"})
                 \/ LogHas(u, cr) /\ HasKind(ks, {"running"})
                 \/ HasPair(ks, cr, {"running"})
            /\ LogHas(u, done)' <=> LogHas(u, done) \/ HasKind(ks, done)
            /\ WorksAfterCancel(u)' => \/ WorksAfterCancel(u)
                                       \/ Pair(u, cr, {"agent"}) /\ HasKind(ks, {"agent"})
                                       \/ HasPair(ks, {"agent"}, {"agent"})
        BY <1>1, <1>3, <3>3, PairStep, AppendKinds, WorkStep
      <4>2. /\ Pair(u, cr, {"agent"}) => Pair(u, cr, work)
            /\ Pair(u, cr, {"running"}) => Pair(u, cr, work)
        BY DEF Pair
      <4>3. MockSays(u, ks)
        BY <1>3, <2>2, <3>3
      <4>4. CASE /\ ~HasKind(ks, {"running", "agent", "ok"})
                 /\ status'[u] \in Verdicts <=> status[u] \in Verdicts
                 /\ status'[u] \in {"absent", "queued"} => status[u] \in {"absent", "queued"}
        <5>1. /\ ~HasKind(ks, work) /\ ~HasKind(ks, {"running"}) /\ ~HasKind(ks, done)
              /\ ~HasKind(ks, {"agent"})
          BY <4>4 DEF HasKind
        <5>2. ~HasPair(ks, cr, work) /\ ~HasPair(ks, cr, {"running"}) /\ ~HasPair(ks, {"agent"}, {"agent"})
          BY <5>1 DEF HasKind, HasPair
        <5>. QED
          BY <3>1, <4>1, <4>4, <5>1, <5>2
      <4>5. CASE /\ u \notin cancelled
                 /\ \/ ks = <<"running">> /\ status[u] = "queued" /\ status'[u] = "running"
                    \/ ks = <<"agent">> /\ status[u] = "running" /\ status'[u] = "running"
        <5>1. \A K, L : ~HasPair(ks, K, L)
          BY <4>5, PairsOf
        <5>2. status[u] \notin Verdicts /\ status'[u] = "running"
          BY <4>5 DEF Verdicts
        <5>3. ~LogHas(u, cr) /\ ~Pair(u, cr, work)
          BY <3>1, <4>5, <5>2
        <5>. QED
          BY <3>1, <4>1, <4>2, <5>1, <5>2, <5>3
      <4>6. CASE ks = <<"running", "cancelled">> /\ status[u] = "queued" /\ status'[u] \in Verdicts
        <5>1. ~HasKind(ks, done) /\ ~HasKind(ks, {"agent"}) /\ ~HasPair(ks, {"agent"}, {"agent"})
          BY <4>6, KindsOf, KindFacts, PairsOf
        <5>2. status'[u] \notin {"absent", "queued"} /\ ~LogHas(u, done)
          BY <3>1, <4>6 DEF Verdicts
        <5>. QED
          BY <3>1, <4>1, <4>6, <5>1, <5>2
      <4>7. CASE /\ ks \in {<<"agent", "cancelled">>, <<"agent", "ok">>}
                 /\ status[u] = "running" /\ status'[u] \in Verdicts
        <5>1. /\ ~HasKind(ks, {"running"}) /\ ~HasPair(ks, cr, {"running"})
              /\ ~HasPair(ks, {"agent"}, {"agent"})
          BY <4>7, KindsOf, KindFacts, PairsOf
        <5>2. status'[u] \notin {"absent", "queued"} /\ ~Pair(u, cr, work)
          BY <3>1, <4>7 DEF Verdicts
        <5>. QED
          BY <3>1, <4>1, <4>2, <4>7, <5>1, <5>2
      <4>. QED
        BY <4>3, <4>4, <4>5, <4>6, <4>7, Zenon DEF MockSays
    <3>. QED
      BY <3>2, <3>3
  <2>. QED
    BY <2>1, <2>2 DEF Heeds
<1>. QED
  BY <1>2, <1>3, MockStepSays

AllHeed == AgentsThink /\ \A t \in Tasks : Heeds(t)

\* Before the first step every log is empty and no run is in its agent.
LEMMA HeedInit == ServerInit => AllHeed
<1>1. DOMAIN <<>> = {}
  OBVIOUS
<1>. QED
  BY <1>1 DEF ServerInit, StoreInit, RunnerInit, AllHeed, AgentsThink, Heeds, LogHas, Pair,
              WorksAfterCancel

\* A mock run notices a cancel request within one step, whenever it is made and
\* however many are, and a request made before the run leaves it no step.
THEOREM MockHeedsCancel == ServerSpec => []CancelStopsMock
<1>1. ServerInv /\ AllHeed /\ [ServerNext]_serverVars => AllHeed'
  BY ThinkStep, HeedStep DEF AllHeed
<1>2. AllHeed => CancelStopsMock
  BY DEF AllHeed, Heeds, CancelStopsMock, Pair
<1>. QED
  BY <1>1, <1>2, HeedInit, Invariance, PTL DEF ServerSpec

=============================================================================
