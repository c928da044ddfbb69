-------------------------- MODULE TaskServerProofs --------------------------
(***************************************************************************)
(* Proofs about TaskServer, for any tasks, sessions, number of slots and   *)
(* any faults.                                                             *)
(*                                                                         *)
(* ServerTypeOK is not inductive by itself: giving a slot back stays in    *)
(* range only because slots are conserved, and taking the tail of a        *)
(* session's line is defined only because the run that leaves is its head. *)
(* Turns says the latter, and SessionIsolated rests on it too: two runs    *)
(* cannot both be at the head of a line.                                   *)
(***************************************************************************)
EXTENDS TaskServer, SequenceTheorems, FiniteSetTheorems, TLAPS

-----------------------------------------------------------------------------
(***************************************************************************)
(* What appending to a log preserves.                                      *)
(***************************************************************************)

\* Stamping kinds gives events, one per kind, numbered on from n.
LEMMA StampEvents ==
  ASSUME NEW n \in Nat, NEW ks \in Seq(Kinds)
  PROVE  /\ Stamp(n, ks) \in Seq(Event)
         /\ Len(Stamp(n, ks)) = Len(ks)
         /\ \A i \in 1..Len(ks) :
              Stamp(n, ks)[i].seq = n + i /\ Stamp(n, ks)[i].kind = ks[i]
<1>1. Len(ks) \in Nat /\ \A i \in 1..Len(ks) : ks[i] \in Kinds
  BY LenProperties, ElementOfSeq
<1>2. \A i \in 1..Len(ks) : [seq |-> n + i, kind |-> ks[i]] \in Event
  BY <1>1 DEF Event
<1>3. Stamp(n, ks) \in [1..Len(ks) -> Event]
  BY <1>2 DEF Stamp
<1>4. Stamp(n, ks) \in Seq(Event)
  BY <1>1, <1>3, SeqDef
<1>5. Len(Stamp(n, ks)) = Len(ks)
  BY <1>1, <1>4, LenProperties DEF Stamp
<1>. QED
  BY <1>1, <1>4, <1>5 DEF Stamp

\* Offering events to a listener queue keeps it within its capacity.
LEMMA OfferBounded ==
  ASSUME NEW q \in Seq(Event), Len(q) <= QueueMax, NEW evs \in Seq(Event)
  PROVE  /\ Room(q, Len(evs)) \in 0..Len(evs)
         /\ Offer(q, evs) \in Seq(Event)
         /\ Len(Offer(q, evs)) <= QueueMax
<1>. DEFINE m == Room(q, Len(evs))
<1>1. Len(q) \in Nat /\ Len(evs) \in Nat /\ QueueMax \in Nat
  BY LenProperties, QueueAssumption
<1>2. m \in 0..Len(evs) /\ Len(q) + m <= QueueMax
  BY <1>1 DEF Room
<1>. HIDE DEF m
<1>3. \A i \in 1..m : evs[i] \in Event
  BY <1>1, <1>2, ElementOfSeq
<1>4. SubSeq(evs, 1, m) \in Seq(Event) /\ Len(SubSeq(evs, 1, m)) = m
  BY <1>1, <1>2, <1>3, SubSeqProperties
<1>5. q \o SubSeq(evs, 1, m) \in Seq(Event) /\ Len(q \o SubSeq(evs, 1, m)) = Len(q) + m
  BY <1>4, ConcatProperties
<1>. QED
  BY <1>2, <1>5 DEF m, Offer

\* append_event keeps logs, counters, listener queues and the record of what
\* was missed well-typed.
LEMMA AppendTyped ==
  ASSUME LogTypeOK, listeners \in [Tasks -> SUBSET Clients],
         NEW t \in Tasks, NEW ks \in Seq(Kinds), AppendEvents(t, ks)
  PROVE  LogTypeOK'
<1>. DEFINE evs == Stamp(seq[t], ks)
<1>1. evs \in Seq(Event) /\ Len(evs) \in Nat /\ \A i \in 1..Len(evs) : evs[i].seq \in Nat
  <2>1. seq[t] \in Nat
    BY DEF LogTypeOK
  <2>2. evs \in Seq(Event)
    BY <2>1, StampEvents
  <2>3. \A i \in 1..Len(evs) : evs[i] \in Event
    BY <2>2, ElementOfSeq
  <2>. QED
    BY <2>2, <2>3, LenProperties DEF Event
<1>. HIDE DEF evs
<1>2. LogAndFanOut(t, evs)
  BY DEF AppendEvents, evs
<1>3. log' \in [Tasks -> Seq(Event)]
  <2>1. log[t] \o evs \in Seq(Event)
    BY <1>1, ConcatProperties DEF LogTypeOK
  <2>. QED
    BY <1>2, <2>1 DEF LogAndFanOut, LogTypeOK
<1>4. seq' \in [Tasks -> Nat]
  BY <1>1, <1>2 DEF LogAndFanOut, LogTypeOK
<1>5. \A c \in Clients : /\ Room(inbox[c], Len(evs)) \in 0..Len(evs)
                         /\ Offer(inbox[c], evs) \in Seq(Event)
                         /\ Len(Offer(inbox[c], evs)) <= QueueMax
  BY <1>1, OfferBounded DEF LogTypeOK
<1>6. inbox' \in [Clients -> Seq(Event)] /\ \A c \in Clients : Len(inbox'[c]) <= QueueMax
  BY <1>2, <1>5 DEF LogAndFanOut, LogTypeOK
<1>7. missed' \in [Clients -> SUBSET Nat]
  <2>1. \A c \in Clients : \A i \in Room(inbox[c], Len(evs)) + 1 .. Len(evs) : evs[i].seq \in Nat
    BY <1>1, <1>5
  <2>. QED
    BY <1>2, <2>1 DEF LogAndFanOut, LogTypeOK
<1>. QED
  BY <1>3, <1>4, <1>6, <1>7 DEF LogTypeOK

\* append_event numbers on without a gap: a log numbered 1, 2, 3, ... stays so.
LEMMA AppendNumbered ==
  ASSUME LogTypeOK, NEW t \in Tasks, NEW ks \in Seq(Kinds), AppendEvents(t, ks),
         NEW u \in Tasks, Numbered(u)
  PROVE  Numbered(u)'
<1>. DEFINE evs == Stamp(seq[t], ks)
<1>1. /\ seq[t] \in Nat
      /\ evs \in Seq(Event)
      /\ Len(evs) \in Nat
      /\ \A i \in 1..Len(evs) : evs[i].seq = seq[t] + i
  BY StampEvents, LenProperties DEF LogTypeOK
<1>2. /\ log[u] \in Seq(Event) /\ log[t] \in Seq(Event)
      /\ Len(log[u]) \in Nat /\ DOMAIN log[u] = 1..Len(log[u])
  BY LenProperties DEF LogTypeOK
<1>. HIDE DEF evs
<1>3. /\ log' = [log EXCEPT ![t] = @ \o evs]
      /\ seq' = [seq EXCEPT ![t] = @ + Len(evs)]
  BY DEF AppendEvents, LogAndFanOut, evs
<1>4. CASE u # t
  BY <1>3, <1>4 DEF Numbered, LogTypeOK
<1>5. CASE u = t
  <2>1. log'[u] = log[u] \o evs /\ seq'[u] = seq[u] + Len(evs)
    BY <1>3, <1>5 DEF LogTypeOK
  <2>2. /\ log[u] \o evs \in Seq(Event)
        /\ Len(log[u] \o evs) = Len(log[u]) + Len(evs)
        /\ \A i \in 1 .. Len(log[u]) + Len(evs) :
             (log[u] \o evs)[i] = IF i <= Len(log[u]) THEN log[u][i] ELSE evs[i - Len(log[u])]
    BY <1>1, <1>2, ConcatProperties
  <2>3. DOMAIN (log[u] \o evs) = 1 .. Len(log[u]) + Len(evs)
    BY <2>2, LenProperties
  <2>4. seq[u] = Len(log[u]) /\ \A i \in 1..Len(log[u]) : log[u][i].seq = i
    BY <1>2 DEF Numbered
  <2>5. ASSUME NEW i \in 1 .. Len(log[u]) + Len(evs)
        PROVE  (log[u] \o evs)[i].seq = i
    <3>1. CASE i <= Len(log[u])
      BY <1>2, <2>2, <2>4, <3>1
    <3>2. CASE i > Len(log[u])
      <4>1. i - Len(log[u]) \in 1..Len(evs)
        BY <1>1, <1>2, <3>2
      <4>2. (log[u] \o evs)[i] = evs[i - Len(log[u])]
        BY <1>1, <1>2, <2>2, <3>2
      <4>. QED
        BY <1>1, <1>2, <1>5, <2>4, <4>1, <4>2
    <3>. QED
      BY <1>2, <3>1, <3>2
  <2>. QED
    BY <2>1, <2>2, <2>3, <2>4, <2>5 DEF Numbered
<1>. QED
  BY <1>4, <1>5

-----------------------------------------------------------------------------
(***************************************************************************)
(* The slots, the owners of the sessions and the types.                    *)
(***************************************************************************)

\* The run in its agent is at the head of its session's line, one that queues
\* is somewhere in it, and only mock runs sleep.
Turns ==
  \A t \in Tasks :
    /\ runner[t] = "thinking" /\ HasSession(t) =>
         line[Session[t]] # <<>> /\ Head(line[Session[t]]) = t
    /\ runner[t] = "queueing" =>
         /\ HasSession(t)
         /\ \E i \in 1..Len(line[Session[t]]) : line[Session[t]][i] = t
    /\ runner[t] = "sleeping" => Mode[t] = "mock"

ServerInv ==
  /\ ServerTypeOK
  /\ SlotsConserved
  /\ OneOwner
  /\ Turns

-----------------------------------------------------------------------------
\* A task that has a session has one of Sessions.
LEMMA SessionOf ==
  ASSUME NEW t \in Tasks, HasSession(t)
  PROVE  Session[t] \in Sessions /\ Mode[t] = "agent"
BY SessionAssumption DEF HasSession

\* The runs that hold a slot are finitely many.
LEMMA HoldersFinite == IsFiniteSet(Holders) /\ Cardinality(Holders) \in Nat
BY TasksAssumption, FS_Subset, FS_CardinalityType DEF Holders

\* The head of a queue is one of its entries.
LEMMA HeadInQueue ==
  ASSUME NEW S, NEW q \in Seq(S), q # <<>>
  PROVE  1 \in DOMAIN q /\ q[1] = Head(q) /\ Len(q) \in Nat \ {0}
BY EmptySeq, LenProperties

\* A step that takes a slot for a waiting run conserves the slots.
LEMMA SuspendSlots ==
  ASSUME ServerTypeOK, SlotsConserved, NEW t \in Tasks, runner[t] = "waiting", slots > 0,
         NEW p \in {"sleeping", "queueing", "thinking"}, Suspend(t, p)
  PROVE  /\ runner' \in [Tasks -> Phases]
         /\ slots' \in 0..MaxConcurrent
         /\ SlotsConserved'
<1>1. runner' \in [Tasks -> Phases] /\ slots' \in 0..MaxConcurrent
  BY BoundAssumption DEF Suspend, ServerTypeOK, Phases
<1>2. Holders' = Holders \cup {t} /\ t \notin Holders
  BY DEF Suspend, ServerTypeOK, Holders
<1>3. Cardinality(Holders') = Cardinality(Holders) + 1
  BY <1>2, HoldersFinite, FS_AddElement
<1>. QED
  BY <1>1, <1>3, HoldersFinite, BoundAssumption DEF Suspend, SlotsConserved, ServerTypeOK

\* A step that ends a run that held a slot gives exactly one slot back.
LEMMA EndSlots ==
  ASSUME ServerTypeOK, SlotsConserved, NEW t \in Tasks, t \in Holders, End(t)
  PROVE  /\ runner' \in [Tasks -> Phases]
         /\ slots' \in 0..MaxConcurrent
         /\ SlotsConserved'
<1>1. runner' \in [Tasks -> Phases]
  BY DEF End, ServerTypeOK, Phases
<1>2. Holders' = Holders \ {t}
  BY DEF End, ServerTypeOK, Holders
<1>3. /\ Cardinality(Holders') = Cardinality(Holders) - 1
      /\ Cardinality(Holders') \in Nat
  BY <1>2, HoldersFinite, FS_RemoveElement, FS_CardinalityType
<1>4. slots \in 0..MaxConcurrent /\ slots' = slots + 1 /\ MaxConcurrent \in Nat
  BY BoundAssumption DEF End, ServerTypeOK
<1>. QED
  BY <1>1, <1>3, <1>4, HoldersFinite DEF SlotsConserved

\* A step that neither takes nor gives back a slot conserves them.
LEMMA SameSlots ==
  ASSUME ServerTypeOK, SlotsConserved, slots' = slots, Holders' = Holders
  PROVE  slots' \in 0..MaxConcurrent /\ SlotsConserved'
BY DEF ServerTypeOK, SlotsConserved

\* What a run reports keeps the store well-typed.
LEMMA ReportTyped ==
  ASSUME StoreTypeOK, NEW t \in Tasks, NEW ks \in Seq(Kinds), NEW s \in Statuses,
         Report(t, ks, s), memory' \in [Keys -> Seq(Tasks)]
  PROVE  StoreTypeOK'
<1>1. LogTypeOK'
  BY AppendTyped DEF Report, StoreTypeOK
<1>. QED
  BY <1>1 DEF Report, UpdateMeta, StoreTypeOK

\* Leaving the head of a session's line keeps the lines well-typed.
LEMMA EndTyped ==
  ASSUME ServerTypeOK, Turns, NEW t \in Tasks, t \in Holders, runner[t] # "queueing", End(t)
  PROVE  /\ line' \in [Sessions -> Seq(Tasks)]
         /\ loaded' \in [Tasks -> Seq(Tasks)]
<1>1. loaded' \in [Tasks -> Seq(Tasks)]
  BY EmptySeq DEF End, ServerTypeOK
<1>2. CASE HasSession(t)
  <2>1. runner[t] = "thinking"
    BY <1>2, SessionOf DEF Turns, Holders
  <2>2. line[Session[t]] \in Seq(Tasks) /\ line[Session[t]] # <<>>
    BY <1>2, <2>1, SessionOf DEF Turns, ServerTypeOK
  <2>3. Tail(line[Session[t]]) \in Seq(Tasks)
    BY <2>2, HeadTailProperties
  <2>. QED
    BY <1>1, <1>2, <2>3 DEF End, LeaveSession, ServerTypeOK
<1>3. CASE ~HasSession(t)
  BY <1>1, <1>3 DEF End, LeaveSession, ServerTypeOK
<1>. QED
  BY <1>2, <1>3

-----------------------------------------------------------------------------
\* The initial state satisfies the invariant.
LEMMA InitInv == ServerInit => ServerInv
<1>. SUFFICES ASSUME ServerInit PROVE ServerInv
  OBVIOUS
<1>. USE DEF ServerInit, StoreInit, RunnerInit
<1>1. LogTypeOK
  BY EmptySeq, QueueAssumption DEF LogTypeOK
<1>2. StoreTypeOK
  BY <1>1, EmptySeq DEF StoreTypeOK, Statuses
<1>3. ServerTypeOK
  BY <1>2, EmptySeq, BoundAssumption DEF ServerTypeOK, Phases
<1>4. Holders = {}
  BY DEF Holders
<1>5. SlotsConserved
  BY <1>4, FS_EmptySet, BoundAssumption DEF SlotsConserved
<1>6. Turns
  BY DEF Turns
<1>7. OneOwner
  BY <1>4 DEF OneOwner
<1>. QED
  BY <1>3, <1>5, <1>6, <1>7 DEF ServerInv

\* A run that starts keeps types and slots.
LEMMA StartTyped ==
  ASSUME ServerInv, NEW t \in Tasks, StartRun(t)
  PROVE  ServerTypeOK' /\ SlotsConserved'
<1>. USE DEF ServerInv
<1>1. /\ ServerTypeOK /\ StoreTypeOK /\ SlotsConserved
      /\ runner[t] = "waiting" /\ slots > 0 /\ memory \in [Keys -> Seq(Tasks)]
  BY DEF ServerTypeOK, StoreTypeOK, StartRun, MayStart, RejectMode, StartMock,
         StartMockCancelled, RefuseAgent, SetupRaises, StartAgent, QueueForSession
<1>2. ASSUME EndAtOnce(t), UNCHANGED memory,
             NEW ks \in Seq(Kinds), NEW s \in Statuses, Report(t, ks, s)
      PROVE  ServerTypeOK' /\ SlotsConserved'
  <2>1. StoreTypeOK'
    BY <1>1, <1>2, ReportTyped
  <2>2. Holders' = Holders /\ runner' \in [Tasks -> Phases]
    BY <1>1, <1>2 DEF EndAtOnce, Holders, ServerTypeOK, Phases
  <2>. QED
    BY <1>1, <1>2, <2>1, <2>2, SameSlots DEF EndAtOnce, ServerTypeOK
<1>3. ASSUME NEW p \in {"sleeping", "queueing", "thinking"}, Suspend(t, p),
             UNCHANGED <<memory, step, leaked>>,
             line' \in [Sessions -> Seq(Tasks)], loaded' \in [Tasks -> Seq(Tasks)],
             NEW ks \in Seq(Kinds), NEW s \in Statuses, Report(t, ks, s)
      PROVE  ServerTypeOK' /\ SlotsConserved'
  <2>1. StoreTypeOK'
    BY <1>1, <1>3, ReportTyped
  <2>. QED
    BY <1>1, <1>3, <2>1, SuspendSlots DEF ServerTypeOK
<1>4. CASE RejectMode(t)
  <2>1. <<"error">> \in Seq(Kinds)
    BY DEF Kinds, VerdictKinds
  <2>. QED
    BY <1>2, <1>4, <2>1 DEF RejectMode, Statuses, Verdicts
<1>5. CASE StartMock(t)
  <2>1. <<"running">> \in Seq(Kinds)
    BY DEF Kinds
  <2>. QED
    BY <1>1, <1>3, <1>5, <2>1 DEF StartMock, Statuses, ServerTypeOK
<1>6. CASE StartMockCancelled(t)
  <2>1. <<"running", "cancelled">> \in Seq(Kinds)
    BY DEF Kinds, VerdictKinds, ResultKinds
  <2>. QED
    BY <1>2, <1>6, <2>1 DEF StartMockCancelled, Statuses, Verdicts
<1>7. CASE RefuseAgent(t)
  <2>1. <<"error">> \in Seq(Kinds)
    BY DEF Kinds, VerdictKinds
  <2>. QED
    BY <1>2, <1>7, <2>1 DEF RefuseAgent, Statuses, Verdicts
<1>8. CASE SetupRaises(t)
  BY <1>2, <1>8, EmptySeq DEF SetupRaises, Statuses
<1>9. CASE StartAgent(t)
  <2>1. line' \in [Sessions -> Seq(Tasks)]
    BY <1>1, <1>9, SessionOf DEF StartAgent, ServerTypeOK
  <2>2. loaded' \in [Tasks -> Seq(Tasks)]
    BY <1>1, <1>9, KeyAssumption, EmptySeq DEF StartAgent, ServerTypeOK
  <2>. QED
    BY <1>3, <1>9, <2>1, <2>2, EmptySeq DEF StartAgent, Statuses
<1>10. CASE QueueForSession(t)
  <2>1. line' \in [Sessions -> Seq(Tasks)]
    BY <1>1, <1>10, SessionOf, AppendProperties DEF QueueForSession, ServerTypeOK
  <2>2. loaded' \in [Tasks -> Seq(Tasks)]
    BY <1>1, <1>10 DEF QueueForSession, ServerTypeOK
  <2>. QED
    BY <1>3, <1>10, <2>1, <2>2, EmptySeq DEF QueueForSession, Statuses
<1>. QED
  BY <1>4, <1>5, <1>6, <1>7, <1>8, <1>9, <1>10 DEF StartRun

\* A run that goes on or ends keeps types and slots.
LEMMA ContinueTyped ==
  ASSUME ServerInv, NEW t \in Tasks, ContinueRun(t) \/ LeakedReader(t)
  PROVE  ServerTypeOK' /\ SlotsConserved'
<1>. USE DEF ServerInv
<1>1. /\ ServerTypeOK /\ StoreTypeOK /\ SlotsConserved /\ Turns
      /\ memory \in [Keys -> Seq(Tasks)]
      /\ [step EXCEPT ![t] = @ + 1] \in [Tasks -> Nat]
  BY DEF ServerTypeOK, StoreTypeOK
<1>2. ASSUME runner[t] \in {"sleeping", "thinking"}, End(t), UNCHANGED leaked,
             step' \in [Tasks -> Nat], memory' \in [Keys -> Seq(Tasks)],
             NEW ks \in Seq(Kinds), NEW s \in Statuses, Report(t, ks, s)
      PROVE  ServerTypeOK' /\ SlotsConserved'
  <2>1. StoreTypeOK'
    BY <1>1, <1>2, ReportTyped
  <2>2. t \in Holders
    BY <1>2 DEF Holders
  <2>. QED
    BY <1>1, <1>2, <2>1, <2>2, EndSlots, EndTyped DEF ServerTypeOK
<1>3. ASSUME UNCHANGED <<runner, slots, line, loaded, leaked>>,
             step' \in [Tasks -> Nat], StoreTypeOK'
      PROVE  ServerTypeOK' /\ SlotsConserved'
  BY <1>1, <1>3 DEF ServerTypeOK, SlotsConserved, Holders
<1>4. ASSUME NEW k \in Kinds, AppendEvents(t, <<k>>),
             UNCHANGED <<status, pending, cancelled, memory, listeners>>
      PROVE  StoreTypeOK'
  <2>1. <<k>> \in Seq(Kinds)
    OBVIOUS
  <2>2. LogTypeOK'
    BY <1>1, <1>4, <2>1, AppendTyped DEF StoreTypeOK
  <2>. QED
    BY <1>1, <1>4, <2>2 DEF StoreTypeOK
<1>5. CASE MockStep(t)
  <2>1. <<"agent">> \in Seq(Kinds)
    BY DEF Kinds, StreamKinds
  <2>2. StoreTypeOK'
    BY <1>1, <1>5, <2>1, ReportTyped DEF MockStep, Statuses
  <2>. QED
    BY <1>1, <1>3, <1>5, <2>2 DEF MockStep
<1>6. CASE MockCancelled(t)
  <2>1. <<"agent", "cancelled">> \in Seq(Kinds)
    BY DEF Kinds, StreamKinds, VerdictKinds, ResultKinds
  <2>. QED
    BY <1>1, <1>2, <1>6, <2>1 DEF MockCancelled, Statuses, Verdicts
<1>7. CASE MockSucceeds(t)
  <2>1. <<"agent", "ok">> \in Seq(Kinds)
    BY DEF Kinds, StreamKinds, VerdictKinds, ResultKinds
  <2>. QED
    BY <1>1, <1>2, <1>7, <2>1 DEF MockSucceeds, Statuses, Verdicts
<1>8. CASE TakeTurn(t)
  <2>1. Holders' = Holders /\ runner' \in [Tasks -> Phases]
    BY <1>1, <1>8 DEF TakeTurn, Holders, ServerTypeOK, Phases
  <2>2. loaded' \in [Tasks -> Seq(Tasks)]
    BY <1>1, <1>8, KeyAssumption DEF TakeTurn, ServerTypeOK
  <2>3. StoreTypeOK'
    BY <1>1, <1>8 DEF TakeTurn, storeVars, StoreTypeOK, LogTypeOK
  <2>. QED
    BY <1>1, <1>8, <2>1, <2>2, <2>3, SameSlots DEF TakeTurn, ServerTypeOK
<1>9. CASE AgentEvent(t)
  BY <1>1, <1>3, <1>4, <1>9, BoundAssumption DEF AgentEvent, Kinds
<1>10. CASE ReaderRaises(t)
  <2>1. StoreTypeOK'
    BY <1>1, <1>10 DEF ReaderRaises, storeVars, StoreTypeOK, LogTypeOK
  <2>. QED
    BY <1>1, <1>10, <2>1 DEF ReaderRaises, ServerTypeOK, SlotsConserved, Holders
<1>11. CASE LeakedReader(t)
  BY <1>1, <1>3, <1>4, <1>11 DEF LeakedReader, Kinds, StreamKinds
<1>12. CASE AgentSucceeds(t)
  <2>1. <<"ok">> \in Seq(Kinds)
    BY DEF Kinds, VerdictKinds, ResultKinds
  <2>2. memory' \in [Keys -> Seq(Tasks)]
    BY <1>1, <1>12, AppendProperties, KeyAssumption DEF AgentSucceeds, ServerTypeOK
  <2>3. step' \in [Tasks -> Nat]
    BY <1>1, <1>12 DEF AgentSucceeds, ServerTypeOK
  <2>. QED
    BY <1>2, <1>12, <2>1, <2>2, <2>3 DEF AgentSucceeds, Statuses, Verdicts
<1>13. CASE SaveRaises(t)
  <2>1. <<"ok", "error">> \in Seq(Kinds)
    BY DEF Kinds, VerdictKinds, ResultKinds
  <2>2. step' \in [Tasks -> Nat]
    BY <1>1, <1>13 DEF SaveRaises, ServerTypeOK
  <2>. QED
    BY <1>1, <1>2, <1>13, <2>1, <2>2 DEF SaveRaises, Statuses, Verdicts
<1>14. CASE AgentRaises(t)
  <2>1. <<"error">> \in Seq(Kinds)
    BY DEF Kinds, VerdictKinds
  <2>2. step' \in [Tasks -> Nat]
    BY <1>1, <1>14 DEF AgentRaises, ServerTypeOK
  <2>. QED
    BY <1>1, <1>2, <1>14, <2>1, <2>2 DEF AgentRaises, Statuses, Verdicts
<1>. QED
  BY <1>5, <1>6, <1>7, <1>8, <1>9, <1>10, <1>11, <1>12, <1>13, <1>14 DEF ContinueRun

\* A step of any action keeps types and slots.
LEMMA TypeStep ==
  ASSUME ServerInv, [ServerNext]_serverVars
  PROVE  ServerTypeOK' /\ SlotsConserved'
<1>. USE DEF ServerInv
<1>1. StoreTypeOK /\ ServerTypeOK /\ SlotsConserved /\ Turns
  BY DEF ServerTypeOK
<1>2. ASSUME NEW t \in Tasks, CreateTask(t)
      PROVE  ServerTypeOK' /\ SlotsConserved'
  <2>1. LogTypeOK'
    <3>1. <<"queued">> \in Seq(Kinds)
      BY DEF Kinds
    <3>. QED
      BY <1>1, <1>2, <3>1, AppendTyped DEF CreateTask, EnqueueTask, StoreTypeOK
  <2>2. pending' \in Seq(Tasks)
    BY <1>1, <1>2, AppendProperties DEF CreateTask, EnqueueTask, StoreTypeOK
  <2>3. StoreTypeOK'
    BY <1>1, <1>2, <2>1, <2>2 DEF CreateTask, EnqueueTask, UpdateMeta, StoreTypeOK, Statuses
  <2>4. UNCHANGED runnerVars
    BY <1>2 DEF CreateTask
  <2>. QED
    BY <1>1, <2>3, <2>4 DEF ServerTypeOK, SlotsConserved, Holders, runnerVars
<1>3. ASSUME NEW t \in Tasks, CancelTask(t)
      PROVE  ServerTypeOK' /\ SlotsConserved'
  <2>1. LogTypeOK'
    <3>1. <<"cancel_requested">> \in Seq(Kinds)
      BY DEF Kinds
    <3>. QED
      BY <1>1, <1>3, <3>1, AppendTyped DEF CancelTask, RequestCancel, StoreTypeOK
  <2>2. StoreTypeOK'
    BY <1>1, <1>3, <2>1 DEF CancelTask, RequestCancel, StoreTypeOK
  <2>3. UNCHANGED runnerVars
    BY <1>3 DEF CancelTask
  <2>. QED
    BY <1>1, <2>2, <2>3 DEF ServerTypeOK, SlotsConserved, Holders, runnerVars
<1>4. ASSUME ConsumeTask
      PROVE  ServerTypeOK' /\ SlotsConserved'
  <2>1. Head(pending) \in Tasks /\ pending' \in Seq(Tasks)
    BY <1>1, <1>4, HeadTailProperties DEF ConsumeTask, StoreTypeOK
  <2>2. StoreTypeOK'
    BY <1>1, <1>4, <2>1 DEF ConsumeTask, logVars, StoreTypeOK, LogTypeOK
  <2>3. runner' \in [Tasks -> Phases]
    BY <1>1, <1>4, <2>1 DEF ConsumeTask, ServerTypeOK, Phases
  <2>4. runner[Head(pending)] = "none"
    BY <1>1, <1>4, HeadInQueue DEF ConsumeTask, OneOwner, StoreTypeOK
  <2>5. Holders' = Holders
    BY <1>1, <1>4, <2>1, <2>4 DEF ConsumeTask, ServerTypeOK, Holders
  <2>. QED
    BY <1>1, <1>4, <2>2, <2>3, <2>5, SameSlots DEF ConsumeTask, ServerTypeOK
<1>5. CASE UNCHANGED serverVars
  BY <1>1, <1>5 DEF serverVars, storeVars, runnerVars, ServerTypeOK, StoreTypeOK,
                    LogTypeOK, SlotsConserved, Holders
<1>. QED
  BY <1>2, <1>3, <1>4, <1>5, StartTyped, ContinueTyped DEF ServerNext, ServerStep, Idle

-----------------------------------------------------------------------------
\* The task t is in the queue.
InQueue(t) == \E i \in 1..Len(pending) : pending[i] = t

Owned(t) ==
  /\ status[t] = "queued" <=> InQueue(t) \/ runner[t] = "waiting"
  /\ InQueue(t) => runner[t] = "none"
  /\ t \in Holders => status[t] = "running"
  /\ runner[t] = "done" =>
       status[t] \in Verdicts \/ (SetupMayFail /\ status[t] = "running")

\* OneOwner, taken apart.
LEMMA OneOwnerParts ==
  ASSUME pending \in Seq(Tasks)
  PROVE  OneOwner <=> /\ \A i, j \in 1..Len(pending) : pending[i] = pending[j] => i = j
                      /\ \A t \in Tasks : Owned(t)
BY LenProperties DEF OneOwner, Owned, InQueue

\* A step of a run, which never touches the queue, keeps the owners of tasks:
\* it takes t from waiting or holding a slot to holding a slot while "running"
\* or to the end with a verdict.
LEMMA RunOwner ==
  ASSUME ServerInv, NEW t \in Tasks, UNCHANGED pending,
         NEW s \in {"running"} \cup Verdicts, NEW p \in Phases,
         runner[t] \in {"waiting", "sleeping", "queueing", "thinking"},
         status' = [status EXCEPT ![t] = s], runner' = [runner EXCEPT ![t] = p],
         \/ p \in {"sleeping", "queueing", "thinking"} /\ s = "running"
         \/ p = "done" /\ (s \in Verdicts \/ SetupMayFail)
  PROVE  OneOwner'
<1>1. /\ pending \in Seq(Tasks) /\ pending' \in Seq(Tasks)
      /\ runner \in [Tasks -> Phases] /\ status \in [Tasks -> Statuses]
  BY DEF ServerInv, ServerTypeOK, StoreTypeOK
<1>2. /\ \A i, j \in 1..Len(pending) : pending[i] = pending[j] => i = j
      /\ \A u \in Tasks : Owned(u)
  BY <1>1, OneOwnerParts DEF ServerInv
<1>3. ASSUME NEW u \in Tasks PROVE Owned(u)'
  <2>1. CASE u = t
    BY <1>1, <1>2, <2>1 DEF Owned, InQueue, Holders, Verdicts
  <2>2. CASE u # t
    BY <1>1, <1>2, <2>2 DEF Owned, InQueue, Holders
  <2>. QED
    BY <2>1, <2>2
<1>. QED
  BY <1>1, <1>2, <1>3, LenProperties DEF OneOwner, Owned, InQueue

\* A step of any action keeps the owners of tasks.
LEMMA OwnerStep ==
  ASSUME ServerInv, [ServerNext]_serverVars
  PROVE  OneOwner'
<1>1. /\ pending \in Seq(Tasks) /\ OneOwner
      /\ runner \in [Tasks -> Phases] /\ status \in [Tasks -> Statuses]
  BY DEF ServerInv, ServerTypeOK, StoreTypeOK
<1>2. /\ \A i, j \in 1..Len(pending) : pending[i] = pending[j] => i = j
      /\ \A u \in Tasks : Owned(u)
  BY <1>1, OneOwnerParts
<1>3. ASSUME NEW t \in Tasks, CreateTask(t)
      PROVE  OneOwner'
  <2>1. /\ pending' = Append(pending, t) /\ pending' \in Seq(Tasks)
        /\ Len(pending) \in Nat /\ Len(pending') = Len(pending) + 1
        /\ \A i \in 1..Len(pending) : pending'[i] = pending[i]
        /\ pending'[Len(pending) + 1] = t
    BY <1>1, <1>3, AppendProperties, LenProperties DEF CreateTask, EnqueueTask
  <2>2. /\ status[t] = "absent" /\ status' = [status EXCEPT ![t] = "queued"]
        /\ runner' = runner
    BY <1>3 DEF CreateTask, EnqueueTask, UpdateMeta, runnerVars
  <2>3. ~InQueue(t) /\ runner[t] = "none"
    BY <1>1, <1>2, <2>2 DEF Owned, Phases, Holders, Verdicts
  <2>4. ASSUME NEW i \in 1..Len(pending'), NEW j \in 1..Len(pending'), pending'[i] = pending'[j]
        PROVE  i = j
    BY <1>2, <2>1, <2>3, <2>4 DEF InQueue
  <2>5. ASSUME NEW u \in Tasks
        PROVE  InQueue(u)' <=> InQueue(u) \/ u = t
    BY <2>1 DEF InQueue
  <2>6. ASSUME NEW u \in Tasks
        PROVE  Owned(u)'
    BY <1>1, <1>2, <2>2, <2>3, <2>5 DEF Owned, Holders
  <2>. QED
    BY <2>1, <2>4, <2>6, LenProperties DEF OneOwner, Owned, InQueue
<1>4. ASSUME ConsumeTask
      PROVE  OneOwner'
  <2>. DEFINE h == Head(pending)
  <2>1. /\ h \in Tasks /\ pending' = Tail(pending) /\ pending' \in Seq(Tasks)
        /\ Len(pending) \in Nat \ {0} /\ h = pending[1]
        /\ Len(pending') = Len(pending) - 1
        /\ \A i \in 1..Len(pending') : pending'[i] = pending[i + 1]
    BY <1>1, <1>4, HeadTailProperties, HeadInQueue DEF ConsumeTask
  <2>2. runner' = [runner EXCEPT ![h] = "waiting"] /\ status' = status
    BY <1>4 DEF ConsumeTask
  <2>. HIDE DEF h
  <2>3. InQueue(h) /\ runner[h] = "none" /\ status[h] = "queued"
    BY <1>2, <2>1 DEF Owned, InQueue
  <2>4. ASSUME NEW i \in 1..Len(pending'), NEW j \in 1..Len(pending'), pending'[i] = pending'[j]
        PROVE  i = j
    <3>1. i + 1 \in 1..Len(pending) /\ j + 1 \in 1..Len(pending)
      BY <2>1
    <3>2. pending[i + 1] = pending[j + 1]
      BY <2>1, <2>4
    <3>3. i + 1 = j + 1
      BY <1>2, <3>1, <3>2
    <3>. QED
      BY <3>3, <2>1
  <2>5. ASSUME NEW u \in Tasks
        PROVE  InQueue(u)' <=> InQueue(u) /\ u # h
    <3>1. ASSUME InQueue(u)' PROVE InQueue(u) /\ u # h
      <4>1. PICK i \in 1..Len(pending') : pending'[i] = u
        BY <3>1 DEF InQueue
      <4>2. i + 1 \in 1..Len(pending) /\ pending[i + 1] = u /\ i + 1 # 1
        BY <2>1, <4>1
      <4>3. 1 \in 1..Len(pending)
        BY <2>1
      <4>. QED
        BY <1>2, <2>1, <4>2, <4>3 DEF InQueue
    <3>2. ASSUME InQueue(u), u # h PROVE InQueue(u)'
      <4>1. PICK i \in 1..Len(pending) : pending[i] = u
        BY <3>2 DEF InQueue
      <4>2. i - 1 \in 1..Len(pending') /\ pending'[i - 1] = pending[(i - 1) + 1]
        BY <2>1, <3>2, <4>1
      <4>3. (i - 1) + 1 = i
        BY <4>1
      <4>. QED
        BY <4>1, <4>2, <4>3 DEF InQueue
    <3>. QED
      BY <3>1, <3>2
  <2>6. ASSUME NEW u \in Tasks
        PROVE  Owned(u)'
    BY <1>1, <1>2, <2>1, <2>2, <2>3, <2>5 DEF Owned, Holders
  <2>7. DOMAIN pending' = 1..Len(pending')
    BY <2>1, LenProperties
  <2>. QED
    BY <2>4, <2>6, <2>7 DEF OneOwner, Owned, InQueue
<1>5. ASSUME UNCHANGED <<pending, status, runner>>
      PROVE  OneOwner'
  BY <1>1, <1>5 DEF OneOwner, Holders
<1>6. ASSUME NEW t \in Tasks, StartRun(t)
      PROVE  OneOwner'
  BY <1>6, RunOwner
     DEF StartRun, RejectMode, StartMock, StartMockCancelled, RefuseAgent, SetupRaises,
         StartAgent, QueueForSession, MayStart, Report, UpdateMeta, Suspend, EndAtOnce,
         Verdicts, Phases
<1>7. ASSUME NEW t \in Tasks, ContinueRun(t) \/ LeakedReader(t)
      PROVE  OneOwner'
  <2>1. status[t] = "running" \/ runner[t] \notin {"sleeping", "thinking", "queueing"}
    BY <1>2 DEF Owned, Holders
  <2>2. CASE MockStep(t)
    <3>1. status' = [status EXCEPT ![t] = "running"] /\ status[t] = "running"
      BY <2>1, <2>2 DEF MockStep, Report, UpdateMeta
    <3>2. status' = status
      BY <1>1, <3>1
    <3>. QED
      BY <1>5, <2>2, <3>2 DEF MockStep, Report
  <2>3. CASE TakeTurn(t)
    <3>1. status' = [status EXCEPT ![t] = "running"]
      BY <1>1, <2>1, <2>3 DEF TakeTurn, storeVars
    <3>. QED
      BY <2>3, <3>1, RunOwner DEF TakeTurn, storeVars, Phases
  <2>4. CASE AgentEvent(t) \/ ReaderRaises(t) \/ LeakedReader(t)
    BY <1>5, <2>4 DEF AgentEvent, ReaderRaises, LeakedReader, storeVars
  <2>5. CASE MockCancelled(t) \/ MockSucceeds(t) \/ AgentSucceeds(t) \/ SaveRaises(t)
             \/ AgentRaises(t)
    BY <2>5, RunOwner
       DEF MockCancelled, MockSucceeds, AgentSucceeds, SaveRaises, AgentRaises, Report,
           UpdateMeta, End, Verdicts, Phases
  <2>. QED
    BY <1>7, <2>2, <2>3, <2>4, <2>5 DEF ContinueRun
<1>8. ASSUME NEW t \in Tasks, CancelTask(t)
      PROVE  OneOwner'
  BY <1>5, <1>8 DEF CancelTask, runnerVars
<1>. QED
  BY <1>3, <1>4, <1>5, <1>6, <1>7, <1>8
     DEF ServerNext, ServerStep, Idle, serverVars, storeVars, runnerVars

-----------------------------------------------------------------------------
Turn(t) ==
  /\ runner[t] = "thinking" /\ HasSession(t) =>
       line[Session[t]] # <<>> /\ Head(line[Session[t]]) = t
  /\ runner[t] = "queueing" =>
       /\ HasSession(t)
       /\ \E i \in 1..Len(line[Session[t]]) : line[Session[t]][i] = t
  /\ runner[t] = "sleeping" => Mode[t] = "mock"

\* A run that ends leaves the head of its line to the next run that queues.
LEMMA EndTurn ==
  ASSUME ServerInv, NEW t \in Tasks, runner[t] \in {"sleeping", "thinking"}, End(t)
  PROVE  Turns'
<1>1. /\ runner \in [Tasks -> Phases] /\ line \in [Sessions -> Seq(Tasks)]
      /\ \A u \in Tasks : Turn(u)
  BY DEF ServerInv, ServerTypeOK, Turns, Turn
<1>2. runner' = [runner EXCEPT ![t] = "done"]
  BY DEF End
<1>3. CASE ~HasSession(t)
  <2>1. line' = line
    BY <1>3 DEF End, LeaveSession
  <2>. QED
    BY <1>1, <1>2, <2>1 DEF Turns, Turn
<1>4. CASE HasSession(t)
  <2>. DEFINE s == Session[t]
              q == line[s]
  <2>1. s \in Sessions /\ runner[t] = "thinking" /\ q \in Seq(Tasks) /\ q # <<>> /\ Head(q) = t
    BY <1>1, <1>4, SessionOf DEF Turn
  <2>2. /\ Len(q) \in Nat \ {0} /\ q[1] = t
        /\ Len(Tail(q)) = Len(q) - 1
        /\ \A i \in 1..Len(Tail(q)) : Tail(q)[i] = q[i + 1]
    BY <2>1, HeadTailProperties, HeadInQueue
  <2>3. line' = [line EXCEPT ![s] = Tail(q)]
    BY <1>4 DEF End, LeaveSession
  <2>4. ASSUME NEW u \in Tasks PROVE Turn(u)'
    <3>1. CASE u = t
      BY <1>1, <1>2, <3>1 DEF Turn
    <3>2. CASE u # t /\ (~HasSession(u) \/ Session[u] # s)
      <4>1. runner'[u] = runner[u] /\ (HasSession(u) => line'[Session[u]] = line[Session[u]])
        BY <1>1, <1>2, <2>3, <3>2, SessionOf
      <4>. QED
        BY <1>1, <4>1 DEF Turn
    <3>3. CASE u # t /\ HasSession(u) /\ Session[u] = s
      <4>1. runner'[u] = runner[u] /\ line'[Session[u]] = Tail(q)
        BY <1>1, <1>2, <2>1, <2>3, <3>3
      <4>2. runner[u] # "thinking"
        BY <1>1, <2>1, <3>3 DEF Turn
      <4>3. ASSUME runner[u] = "queueing"
            PROVE  \E i \in 1..Len(Tail(q)) : Tail(q)[i] = u
        <5>1. PICK i \in 1..Len(q) : q[i] = u
          BY <1>1, <3>3, <4>3 DEF Turn
        <5>2. i - 1 \in 1..Len(Tail(q)) /\ Tail(q)[i - 1] = q[(i - 1) + 1] /\ (i - 1) + 1 = i
          BY <2>2, <3>3, <5>1
        <5>. QED
          BY <5>1, <5>2
      <4>4. runner[u] = "sleeping" => Mode[u] = "mock"
        BY <1>1 DEF Turn
      <4>. QED
        BY <3>3, <4>1, <4>2, <4>3, <4>4 DEF Turn
    <3>. QED
      BY <3>1, <3>2, <3>3
  <2>. QED
    BY <2>4 DEF Turns, Turn
<1>. QED
  BY <1>3, <1>4

\* A step of any action keeps the turns.
LEMMA TurnStep ==
  ASSUME ServerInv, [ServerNext]_serverVars
  PROVE  Turns'
<1>1. /\ runner \in [Tasks -> Phases] /\ line \in [Sessions -> Seq(Tasks)]
      /\ pending \in Seq(Tasks)
      /\ \A u \in Tasks : Turn(u)
  BY DEF ServerInv, ServerTypeOK, StoreTypeOK, Turns, Turn
<1>2. ASSUME UNCHANGED <<runner, line>> PROVE Turns'
  BY <1>1, <1>2 DEF Turns, Turn
<1>3. ASSUME NEW t \in Tasks, NEW p, UNCHANGED line, runner' = [runner EXCEPT ![t] = p],
             p \in {"waiting", "done"} \/ (p = "sleeping" /\ Mode[t] = "mock")
      PROVE  Turns'
  BY <1>1, <1>3 DEF Turns, Turn
<1>4. ASSUME NEW t \in Tasks, StartAgent(t) PROVE Turns'
  <2>1. runner' = [runner EXCEPT ![t] = "thinking"]
    BY <1>4 DEF StartAgent, Suspend
  <2>2. CASE ~HasSession(t)
    BY <1>1, <1>4, <2>1, <2>2 DEF StartAgent, Turns, Turn
  <2>3. CASE HasSession(t)
    <3>1. /\ Session[t] \in Sessions /\ line[Session[t]] = <<>>
          /\ line' = [line EXCEPT ![Session[t]] = <<t>>]
      BY <1>4, <2>3, SessionOf DEF StartAgent
    <3>2. <<t>> # <<>> /\ Head(<<t>>) = t /\ Len(<<>>) = 0
      OBVIOUS
    <3>3. ASSUME NEW u \in Tasks PROVE Turn(u)'
      <4>1. CASE u = t
        BY <1>1, <2>1, <3>1, <3>2, <4>1 DEF Turn
      <4>2. CASE u # t /\ HasSession(u) /\ Session[u] = Session[t]
        <5>1. runner'[u] = runner[u] /\ runner[u] \notin {"thinking", "queueing"}
          BY <1>1, <2>1, <3>1, <3>2, <4>2 DEF Turn
        <5>. QED
          BY <1>1, <5>1 DEF Turn
      <4>3. CASE u # t /\ ~(HasSession(u) /\ Session[u] = Session[t])
        <5>1. runner'[u] = runner[u] /\ (HasSession(u) => line'[Session[u]] = line[Session[u]])
          BY <1>1, <2>1, <3>1, <4>3, SessionOf
        <5>. QED
          BY <1>1, <5>1 DEF Turn
      <4>. QED
        BY <4>1, <4>2, <4>3
    <3>. QED
      BY <3>3 DEF Turns, Turn
  <2>. QED
    BY <2>2, <2>3
<1>5. ASSUME NEW t \in Tasks, QueueForSession(t) PROVE Turns'
  <2>. DEFINE q == line[Session[t]]
  <2>1. /\ runner' = [runner EXCEPT ![t] = "queueing"]
        /\ HasSession(t) /\ Session[t] \in Sessions /\ q # <<>> /\ q \in Seq(Tasks)
        /\ line' = [line EXCEPT ![Session[t]] = Append(q, t)]
    BY <1>1, <1>5, SessionOf DEF QueueForSession, Suspend
  <2>2. /\ Len(q) \in Nat
        /\ Append(q, t) # <<>> /\ Head(Append(q, t)) = Head(q)
        /\ Len(Append(q, t)) = Len(q) + 1
        /\ Append(q, t)[Len(q) + 1] = t
        /\ \A i \in 1..Len(q) : Append(q, t)[i] = q[i]
    BY <2>1, AppendProperties, HeadTailAppend, LenProperties
  <2>3. ASSUME NEW u \in Tasks PROVE Turn(u)'
    <3>1. CASE u = t
      BY <1>1, <2>1, <2>2, <3>1 DEF Turn
    <3>2. CASE u # t /\ HasSession(u) /\ Session[u] = Session[t]
      <4>1. runner'[u] = runner[u] /\ line'[Session[u]] = Append(q, t)
        BY <1>1, <2>1, <3>2
      <4>. QED
        BY <1>1, <2>2, <3>2, <4>1 DEF Turn
    <3>3. CASE u # t /\ ~(HasSession(u) /\ Session[u] = Session[t])
      <4>1. runner'[u] = runner[u] /\ (HasSession(u) => line'[Session[u]] = line[Session[u]])
        BY <1>1, <2>1, <3>3, SessionOf
      <4>. QED
        BY <1>1, <4>1 DEF Turn
    <3>. QED
      BY <3>1, <3>2, <3>3
  <2>. QED
    BY <2>3 DEF Turns, Turn
<1>6. ASSUME NEW t \in Tasks, TakeTurn(t) PROVE Turns'
  <2>1. /\ runner' = [runner EXCEPT ![t] = "thinking"] /\ line' = line
        /\ HasSession(t) /\ Session[t] \in Sessions /\ Head(line[Session[t]]) = t
    BY <1>1, <1>6, SessionOf DEF TakeTurn, Turn
  <2>2. line[Session[t]] # <<>>
    <3>1. PICK i \in 1..Len(line[Session[t]]) : line[Session[t]][i] = t
      BY <1>1, <1>6 DEF TakeTurn, Turn
    <3>2. Len(<<>>) = 0
      OBVIOUS
    <3>. QED
      BY <3>1, <3>2
  <2>. QED
    BY <1>1, <2>1, <2>2 DEF Turns, Turn
<1>7. ASSUME NEW t \in Tasks, StartRun(t) PROVE Turns'
  <2>1. CASE RejectMode(t) \/ StartMockCancelled(t) \/ RefuseAgent(t) \/ SetupRaises(t)
    BY <1>3, <2>1 DEF RejectMode, StartMockCancelled, RefuseAgent, SetupRaises, EndAtOnce
  <2>2. CASE StartMock(t)
    BY <1>3, <2>2 DEF StartMock, MayStart, Suspend
  <2>. QED
    BY <1>4, <1>5, <1>7, <2>1, <2>2 DEF StartRun
<1>8. ASSUME NEW t \in Tasks, ContinueRun(t) \/ LeakedReader(t) PROVE Turns'
  <2>1. CASE MockStep(t) \/ AgentEvent(t) \/ ReaderRaises(t) \/ LeakedReader(t)
    BY <1>2, <2>1 DEF MockStep, AgentEvent, ReaderRaises, LeakedReader
  <2>2. CASE MockCancelled(t) \/ MockSucceeds(t) \/ AgentSucceeds(t) \/ SaveRaises(t)
             \/ AgentRaises(t)
    BY <2>2, EndTurn DEF MockCancelled, MockSucceeds, AgentSucceeds, SaveRaises, AgentRaises
  <2>. QED
    BY <1>6, <1>8, <2>1, <2>2 DEF ContinueRun
<1>9. ASSUME ConsumeTask PROVE Turns'
  <2>1. Head(pending) \in Tasks
    BY <1>1, <1>9, HeadTailProperties DEF ConsumeTask
  <2>. QED
    BY <1>3, <1>9, <2>1 DEF ConsumeTask
<1>10. ASSUME NEW t \in Tasks, CreateTask(t) \/ CancelTask(t) PROVE Turns'
  BY <1>2, <1>10 DEF CreateTask, CancelTask, runnerVars
<1>11. CASE UNCHANGED serverVars
  BY <1>2, <1>11 DEF serverVars, runnerVars
<1>. QED
  BY <1>7, <1>8, <1>9, <1>10, <1>11 DEF ServerNext, ServerStep, Idle

\* The invariant is inductive.
LEMMA InvStep == ServerInv /\ [ServerNext]_serverVars => ServerInv'
BY TypeStep, OwnerStep, TurnStep DEF ServerInv

\* The inductive invariant holds in every reachable state.
THEOREM Invariance == ServerSpec => []ServerInv
BY InitInv, InvStep, PTL DEF ServerSpec

\* The types, for any tasks, slots and faults: in particular the semaphore's
\* value never leaves 0..MAX_CONCURRENT_TASKS and no listener queue outgrows
\* its capacity.
THEOREM TypeCorrect == ServerSpec => []ServerTypeOK
<1>1. ServerInv => ServerTypeOK
  BY DEF ServerInv
<1>. QED
  BY <1>1, Invariance, PTL

\* Backpressure: slots and the runs that hold one add up to
\* MAX_CONCURRENT_TASKS, however runs end.
THEOREM SlotsAreConserved == ServerSpec => []SlotsConserved
<1>1. ServerInv => SlotsConserved
  BY DEF ServerInv
<1>. QED
  BY <1>1, Invariance, PTL

\* A task is in the queue, before the semaphore, in a run or over, in exactly
\* one of them, and its status says which.
THEOREM TasksHaveOneOwner == ServerSpec => []OneOwner
<1>1. ServerInv => OneOwner
  BY DEF ServerInv
<1>. QED
  BY <1>1, Invariance, PTL

-----------------------------------------------------------------------------
(***************************************************************************)
(* The logs and the session memories: logs are numbered without a gap, a run*)
(* works on the memory that is stored, and no save loses another's turn.   *)
(***************************************************************************)

\* Every step leaves the logs alone or appends to one of them, and registers
\* no listener.
LEMMA LogStep ==
  ASSUME ServerInv, [ServerNext]_serverVars
  PROVE  /\ UNCHANGED listeners
         /\ \/ UNCHANGED logVars
            \/ \E t \in Tasks, ks \in Seq(Kinds) : AppendEvents(t, ks)
<1>1. /\ <<>> \in Seq(Kinds) /\ \A k \in Kinds : <<k>> \in Seq(Kinds)
      /\ \A k, l \in Kinds : <<k, l>> \in Seq(Kinds)
  OBVIOUS
<1>2. {"queued", "running", "cancel_requested", "agent", "stdout", "stderr",
       "ok", "cancelled", "error"} \cup AgentKinds \subseteq Kinds
  BY BoundAssumption DEF Kinds, StreamKinds, VerdictKinds, ResultKinds
<1>3. ASSUME NEW t \in Tasks, CreateTask(t) \/ CancelTask(t)
      PROVE  UNCHANGED listeners /\ \E ks \in Seq(Kinds) : AppendEvents(t, ks)
  BY <1>1, <1>2, <1>3 DEF CreateTask, EnqueueTask, CancelTask, RequestCancel
<1>4. ASSUME NEW t \in Tasks, StartRun(t)
      PROVE  UNCHANGED listeners /\ \E ks \in Seq(Kinds) : AppendEvents(t, ks)
  BY <1>1, <1>2, <1>4
     DEF StartRun, RejectMode, StartMock, StartMockCancelled, RefuseAgent, SetupRaises,
         StartAgent, QueueForSession, Report
<1>5. ASSUME NEW t \in Tasks, ContinueRun(t) \/ LeakedReader(t)
      PROVE  /\ UNCHANGED listeners
             /\ UNCHANGED logVars \/ \E ks \in Seq(Kinds) : AppendEvents(t, ks)
  <2>1. CASE TakeTurn(t) \/ ReaderRaises(t)
    BY <2>1 DEF TakeTurn, ReaderRaises, storeVars, logVars
  <2>2. CASE AgentEvent(t)
    BY <1>1, <1>2, <2>2 DEF AgentEvent
  <2>3. CASE LeakedReader(t)
    BY <1>1, <1>2, <2>3 DEF LeakedReader
  <2>4. CASE \/ MockStep(t) \/ MockCancelled(t) \/ MockSucceeds(t)
             \/ AgentSucceeds(t) \/ SaveRaises(t) \/ AgentRaises(t)
    BY <1>1, <1>2, <2>4
       DEF MockStep, MockCancelled, MockSucceeds, AgentSucceeds, SaveRaises, AgentRaises, Report
  <2>. QED
    BY <1>5, <2>1, <2>2, <2>3, <2>4 DEF ContinueRun
<1>6. CASE ConsumeTask
  BY <1>6 DEF ConsumeTask, logVars
<1>7. CASE UNCHANGED serverVars
  BY <1>7 DEF serverVars, storeVars, logVars
<1>. QED
  BY <1>3, <1>4, <1>5, <1>6, <1>7 DEF ServerNext, ServerStep, Idle

\* A log numbered without a gap stays so.
LEMMA NumberedStep ==
  ASSUME ServerInv, SeqContiguous, [ServerNext]_serverVars
  PROVE  SeqContiguous'
<1>. SUFFICES ASSUME NEW u \in Tasks
              PROVE  Numbered(u)'
  BY DEF SeqContiguous
<1>1. LogTypeOK /\ Numbered(u)
  BY DEF ServerInv, ServerTypeOK, StoreTypeOK, SeqContiguous
<1>2. CASE UNCHANGED logVars
  BY <1>1, <1>2 DEF Numbered, logVars
<1>3. CASE \E t \in Tasks, ks \in Seq(Kinds) : AppendEvents(t, ks)
  BY <1>1, <1>3, AppendNumbered
<1>. QED
  BY <1>2, <1>3, LogStep

\* Before the first step every log is empty.
LEMMA NumberedInit == ServerInit => SeqContiguous
<1>1. Len(<<>>) = 0 /\ DOMAIN <<>> = {}
  OBVIOUS
<1>. QED
  BY <1>1 DEF ServerInit, StoreInit, SeqContiguous, Numbered

\* The events of every log are numbered 1, 2, 3, ... by whoever appends them:
\* routes, runs, tools, and readers left behind.
THEOREM LogsAreNumbered == ServerSpec => []SeqContiguous
BY NumberedInit, NumberedStep, Invariance, PTL DEF ServerSpec

-----------------------------------------------------------------------------
\* Only a run that succeeds writes a session memory, and then it appends its
\* turn to the memory it loaded.
LEMMA MemoryStep ==
  ASSUME ServerInv, [ServerNext]_serverVars
  PROVE  \/ UNCHANGED memory
         \/ \E t \in Tasks : /\ AgentSucceeds(t) /\ HasSession(t)
                             /\ memory' = [memory EXCEPT ![Key[t]] = Append(loaded[t], t)]
<1>1. ASSUME NEW t \in Tasks, CreateTask(t) \/ CancelTask(t) PROVE UNCHANGED memory
  BY <1>1 DEF CreateTask, CancelTask
<1>2. ASSUME NEW t \in Tasks, StartRun(t) PROVE UNCHANGED memory
  BY <1>2 DEF StartRun, RejectMode, StartMock, StartMockCancelled, RefuseAgent, SetupRaises,
              StartAgent, QueueForSession
<1>3. ASSUME NEW t \in Tasks, ContinueRun(t) \/ LeakedReader(t)
      PROVE  \/ UNCHANGED memory
             \/ /\ AgentSucceeds(t) /\ HasSession(t)
                /\ memory' = [memory EXCEPT ![Key[t]] = Append(loaded[t], t)]
  BY <1>3 DEF ContinueRun, MockStep, MockCancelled, MockSucceeds, TakeTurn, AgentEvent,
              ReaderRaises, LeakedReader, AgentSucceeds, SaveRaises, AgentRaises, storeVars
<1>4. CASE ConsumeTask
  BY <1>4 DEF ConsumeTask
<1>5. CASE UNCHANGED serverVars
  BY <1>5 DEF serverVars, storeVars
<1>. QED
  BY <1>1, <1>2, <1>3, <1>4, <1>5 DEF ServerNext, ServerStep, Idle

\* A run keeps what it loaded as long as it is in its agent, and one that comes
\* to its agent loads the memory as it is stored.
LEMMA LoadStep ==
  ASSUME ServerInv, [ServerNext]_serverVars, NEW u \in Tasks, HasSession(u),
         runner'[u] = "thinking"
  PROVE  \/ runner[u] = "thinking" /\ loaded'[u] = loaded[u]
         \/ UNCHANGED memory /\ loaded'[u] = memory[Key[u]]
<1>1. /\ runner \in [Tasks -> Phases] /\ loaded \in [Tasks -> Seq(Tasks)]
      /\ pending \in Seq(Tasks)
  BY DEF ServerInv, ServerTypeOK, StoreTypeOK
<1>2. ASSUME NEW t \in Tasks, CreateTask(t) \/ CancelTask(t)
      PROVE  UNCHANGED <<runner, loaded>>
  BY <1>2 DEF CreateTask, CancelTask, runnerVars
<1>3. ASSUME NEW t \in Tasks, StartRun(t)
      PROVE  \/ runner[u] = "thinking" /\ loaded'[u] = loaded[u]
             \/ UNCHANGED memory /\ loaded'[u] = memory[Key[u]]
  <2>1. CASE StartAgent(t)
    BY <1>1, <2>1 DEF StartAgent, Suspend
  <2>2. CASE \/ RejectMode(t) \/ StartMock(t) \/ StartMockCancelled(t) \/ RefuseAgent(t)
             \/ SetupRaises(t) \/ QueueForSession(t)
    BY <1>1, <2>2 DEF RejectMode, StartMock, StartMockCancelled, RefuseAgent, SetupRaises,
                      QueueForSession, Suspend, EndAtOnce
  <2>. QED
    BY <1>3, <2>1, <2>2 DEF StartRun
<1>4. ASSUME NEW t \in Tasks, ContinueRun(t) \/ LeakedReader(t)
      PROVE  \/ runner[u] = "thinking" /\ loaded'[u] = loaded[u]
             \/ UNCHANGED memory /\ loaded'[u] = memory[Key[u]]
  <2>1. CASE TakeTurn(t)
    BY <1>1, <2>1 DEF TakeTurn, storeVars
  <2>2. CASE MockStep(t) \/ AgentEvent(t) \/ ReaderRaises(t) \/ LeakedReader(t)
    BY <1>1, <2>2 DEF MockStep, AgentEvent, ReaderRaises, LeakedReader
  <2>3. CASE \/ MockCancelled(t) \/ MockSucceeds(t) \/ AgentSucceeds(t) \/ SaveRaises(t)
             \/ AgentRaises(t)
    BY <1>1, <2>3
       DEF MockCancelled, MockSucceeds, AgentSucceeds, SaveRaises, AgentRaises, End
  <2>. QED
    BY <1>4, <2>1, <2>2, <2>3 DEF ContinueRun
<1>5. ASSUME ConsumeTask
      PROVE  runner[u] = "thinking" /\ loaded'[u] = loaded[u]
  <2>1. Head(pending) \in Tasks
    BY <1>1, <1>5, HeadTailProperties DEF ConsumeTask
  <2>. QED
    BY <1>1, <1>5, <2>1 DEF ConsumeTask
<1>6. CASE UNCHANGED serverVars
  BY <1>6 DEF serverVars, runnerVars
<1>. QED
  BY <1>2, <1>3, <1>4, <1>5, <1>6 DEF ServerNext, ServerStep, Idle

\* The memory a run works on stays the stored one: a run of another session
\* has another key, and one of the same session is not in its agent.  (Both are
\* needed of the tasks of one key only, and OneSession says it of them.)
LEMMA IsolationStep ==
  ASSUME ServerInv, SessionIsolated, [ServerNext]_serverVars
  PROVE  SessionIsolated'
<1>. SUFFICES ASSUME NEW u \in Tasks, runner'[u] = "thinking", HasSession(u), OneSession(Key[u])
              PROVE  loaded'[u] = memory'[Key[u]]
  BY Zenon DEF SessionIsolated, OneSession, HasSession
<1>1. /\ memory \in [Keys -> Seq(Tasks)] /\ runner \in [Tasks -> Phases] /\ Turns
      /\ Key[u] \in Keys
  BY KeyAssumption DEF ServerInv, ServerTypeOK, StoreTypeOK
<1>2. CASE UNCHANGED memory
  BY <1>2, LoadStep DEF SessionIsolated
<1>3. ASSUME NEW t \in Tasks, AgentSucceeds(t), HasSession(t),
             memory' = [memory EXCEPT ![Key[t]] = Append(loaded[t], t)]
      PROVE  loaded'[u] = memory'[Key[u]]
  <2>1. u # t /\ runner[t] = "thinking"
    BY <1>1, <1>3 DEF AgentSucceeds, End
  <2>2. CASE UNCHANGED memory
    BY <1>2, <2>2
  <2>3. CASE runner[u] = "thinking" /\ loaded'[u] = loaded[u]
    <3>1. Session[u] # Session[t]
      BY <1>1, <1>3, <2>1, <2>3 DEF Turns
    <3>2. Key[u] # Key[t]
      BY <1>3, <3>1, Zenon DEF OneSession
    <3>. QED
      BY <1>1, <1>3, <2>3, <3>2 DEF SessionIsolated
  <2>. QED
    BY <2>2, <2>3, LoadStep
<1>. QED
  BY <1>2, <1>3, MemoryStep

\* No run is in its agent before the first step.
LEMMA IsolationInit == ServerInit => SessionIsolated
BY DEF ServerInit, RunnerInit, SessionIsolated

\* The session lock: a run in its agent works on the memory of its session as
\* it is stored now, for any number of runs, sessions and users, and whatever
\* the keys of other sessions.
THEOREM SessionsAreIsolated == ServerSpec => []SessionIsolated
BY IsolationInit, IsolationStep, Invariance, PTL DEF ServerSpec

\* No save of a session with a key of its own loses a turn: the stored memory
\* changes only by growing at its end.
THEOREM MemoryOnlyGrows == ServerSpec => MemoryGrows
<1>1. ServerInv /\ SessionIsolated /\ [ServerNext]_serverVars
        => [\A k \in {key \in Keys : OneSession(key)} :
              \/ memory'[k] = memory[k]
              \/ \E t \in Tasks : memory'[k] = Append(memory[k], t)]_serverVars
  <2>. SUFFICES ASSUME ServerInv, SessionIsolated, [ServerNext]_serverVars,
                       NEW k \in Keys, OneSession(k)
                PROVE  \/ memory'[k] = memory[k]
                       \/ \E t \in Tasks : memory'[k] = Append(memory[k], t)
    OBVIOUS
  <2>1. memory \in [Keys -> Seq(Tasks)]
    BY DEF ServerInv, ServerTypeOK, StoreTypeOK
  <2>2. ASSUME NEW t \in Tasks, AgentSucceeds(t), HasSession(t),
               memory' = [memory EXCEPT ![Key[t]] = Append(loaded[t], t)]
        PROVE  \/ memory'[k] = memory[k]
               \/ memory'[k] = Append(memory[k], t)
    BY <2>1, <2>2 DEF AgentSucceeds, SessionIsolated
  <2>. QED
    BY <2>2, MemoryStep
<1>. QED
  BY <1>1, Invariance, SessionsAreIsolated, PTL DEF ServerSpec, MemoryGrows

=============================================================================
