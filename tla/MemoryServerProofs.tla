------------------------- MODULE MemoryServerProofs -------------------------
(***************************************************************************)
(* The streams beside the server, proved for any number of tasks, clients  *)
(* and reconnections, any capacity of the queues and any faults: listeners *)
(* are registered exactly while they are forwarded from, no client is sent *)
(* an event twice or out of order, what it is not sent was missed in one of*)
(* two ways, and the verdict it is sent last is the one the status shows.  *)
(*                                                                         *)
(* The order rests on three facts about a client that Ordered adds: what   *)
(* was sent, what of the snapshot is left and what is queued are numbered  *)
(* in this order, and none beyond the end of the log.  "last" plays no     *)
(* part: the queue of a listener never holds what was sent already.        *)
(***************************************************************************)
EXTENDS MemoryServer, TaskLifecycleProofs

\* ListenersExact, for one client.
Exact(c) ==
  /\ \A t \in Tasks : c \in listeners[t] <=> phase[c] = "listening" /\ watching[c] = t
  /\ phase[c] # "listening" => inbox[c] = <<>>

Ordered(c) ==
  /\ phase[c] = "idle" => seen[c] = <<>>
  /\ phase[c] \in {"replaying", "listening", "broken"} => watching[c] \in Tasks
  /\ \A i, j \in DOMAIN seen[c] : i < j => seen[c][i] < seen[c][j]
  /\ watching[c] \in Tasks =>
       \A i \in DOMAIN seen[c] : seen[c][i] <= seq[watching[c]]
  /\ phase[c] = "replaying" =>
       \A e \in replay[c] :
         /\ e.seq <= seq[watching[c]]
         /\ \A i \in DOMAIN seen[c] : seen[c][i] < e.seq
         /\ \A o \in replay[c] : e.seq = o.seq => e = o
  /\ phase[c] = "listening" =>
       /\ \A j \in DOMAIN inbox[c] :
            /\ inbox[c][j].seq <= seq[watching[c]]
            /\ \A i \in DOMAIN seen[c] : seen[c][i] < inbox[c][j].seq
       /\ \A j, k \in DOMAIN inbox[c] : j < k => inbox[c][j].seq < inbox[c][k].seq

HandlersTyped ==
  /\ phase \in [Clients -> FeedPhases]
  /\ watching \in [Clients -> Tasks \cup {NoTask}]
  /\ from \in [Clients -> Nat]
  /\ replay \in [Clients -> SUBSET Event]
  /\ snapped \in [Clients -> Nat]
  /\ last \in [Clients -> Nat]
  /\ seen \in [Clients -> Seq(Nat)]

FeedInv ==
  /\ ServerInv
  /\ SeqContiguous
  /\ HandlersTyped
  /\ \A c \in Clients : Exact(c) /\ Ordered(c)

-----------------------------------------------------------------------------
\* No listener is registered, and nothing sent, before the first step.
LEMMA FeedInit == ProcessInit => FeedInv
<1>. SUFFICES ASSUME ProcessInit
              PROVE  FeedInv
  OBVIOUS
<1>1. ServerInv /\ SeqContiguous
  BY InitInv, NumberedInit DEF ProcessInit
<1>2. <<>> \in Seq(Nat) /\ DOMAIN <<>> = {}
  OBVIOUS
<1>3. HandlersTyped
  BY <1>2 DEF ProcessInit, HandlerInit, HandlersTyped, FeedPhases
<1>4. ASSUME NEW c \in Clients
      PROVE  Exact(c) /\ Ordered(c)
  BY <1>2, <1>4, NoTaskAssumption
     DEF ProcessInit, HandlerInit, ServerInit, StoreInit, Exact, Ordered
<1>. QED
  BY <1>1, <1>3, <1>4 DEF FeedInv

-----------------------------------------------------------------------------
\* Events numbered on from n, offered to a queue that is in order and not
\* beyond n, leave it in order: each is an old one or beyond n.
LEMMA OfferOrdered ==
  ASSUME NEW q \in Seq(Event), Len(q) <= QueueMax,
         NEW n \in Nat, NEW ks \in Seq(Kinds),
         \A j \in DOMAIN q : q[j].seq <= n,
         \A j, k \in DOMAIN q : j < k => q[j].seq < q[k].seq,
         NEW o, o = Offer(q, Stamp(n, ks))
  PROVE  /\ \A j \in DOMAIN o :
              /\ o[j].seq <= n + Len(ks)
              /\ n < o[j].seq \/ \E i \in DOMAIN q : o[j] = q[i]
         /\ \A j, k \in DOMAIN o : j < k => o[j].seq < o[k].seq
<1>. DEFINE evs == Stamp(n, ks)
            m == Room(q, Len(evs))
<1>1. /\ evs \in Seq(Event) /\ Len(evs) = Len(ks)
      /\ \A i \in 1..Len(ks) : evs[i].seq = n + i
  BY StampEvents
<1>2. Len(ks) \in Nat /\ Len(q) \in Nat /\ DOMAIN q = 1..Len(q)
  BY LenProperties
<1>3. m \in 0..Len(evs)
  BY <1>1, OfferBounded
<1>. HIDE DEF evs, m
<1>4. \A i \in 1..m : evs[i] \in Event
  BY <1>1, <1>2, <1>3, ElementOfSeq
<1>5. /\ SubSeq(evs, 1, m) \in Seq(Event) /\ Len(SubSeq(evs, 1, m)) = m
      /\ \A i \in 1..m : SubSeq(evs, 1, m)[i] = evs[i]
  BY <1>1, <1>2, <1>3, <1>4, SubSeqProperties
<1>6. o = q \o SubSeq(evs, 1, m)
  BY DEF Offer, evs, m
<1>7. /\ o \in Seq(Event) /\ Len(o) = Len(q) + m
      /\ \A i \in 1 .. Len(q) + m :
           o[i] = IF i <= Len(q) THEN q[i] ELSE SubSeq(evs, 1, m)[i - Len(q)]
  BY <1>5, <1>6, ConcatProperties
<1>8. DOMAIN o = 1 .. Len(q) + m
  BY <1>7, LenProperties
<1>9. \A j \in DOMAIN o :
        \/ j \in DOMAIN q /\ o[j] = q[j]
        \/ /\ j > Len(q) /\ j - Len(q) \in 1..Len(ks)
           /\ o[j].seq = n + (j - Len(q))
  <2>. SUFFICES ASSUME NEW j \in DOMAIN o, j > Len(q)
                PROVE  /\ j - Len(q) \in 1..Len(ks)
                       /\ o[j].seq = n + (j - Len(q))
    BY <1>2, <1>7, <1>8
  <2>1. j - Len(q) \in 1..m /\ j - Len(q) \in 1..Len(ks)
    BY <1>1, <1>2, <1>3, <1>8
  <2>2. o[j] = SubSeq(evs, 1, m)[j - Len(q)]
    BY <1>2, <1>3, <1>7, <1>8
  <2>. QED
    BY <1>1, <1>5, <2>1, <2>2
<1>10. \A j \in DOMAIN q : q[j].seq \in Nat
  <2>1. \A j \in DOMAIN q : q[j] \in Event
    BY <1>2, ElementOfSeq
  <2>. QED
    BY <2>1 DEF Event
<1>11. DOMAIN o \subseteq Nat
  BY <1>1, <1>2, <1>3, <1>8
<1>12. ASSUME NEW j \in DOMAIN o
       PROVE  /\ o[j].seq <= n + Len(ks)
              /\ n < o[j].seq \/ \E i \in DOMAIN q : o[j] = q[i]
  BY <1>2, <1>9, <1>10, <1>11
<1>13. ASSUME NEW j \in DOMAIN o, NEW k \in DOMAIN o, j < k
       PROVE  o[j].seq < o[k].seq
  <2>1. CASE k \in DOMAIN q /\ o[k] = q[k]
    <3>1. j \in DOMAIN q /\ o[j] = q[j]
      BY <1>2, <1>9, <1>11, <1>13, <2>1
    <3>. QED
      BY <1>13, <2>1, <3>1
  <2>2. CASE k > Len(q) /\ k - Len(q) \in 1..Len(ks) /\ o[k].seq = n + (k - Len(q))
    <3>1. CASE j \in DOMAIN q /\ o[j] = q[j]
      BY <1>2, <1>10, <1>11, <2>2, <3>1
    <3>2. CASE j > Len(q) /\ o[j].seq = n + (j - Len(q))
      BY <1>2, <1>11, <1>13, <2>2, <3>2
    <3>. QED
      BY <1>9, <3>1, <3>2
  <2>. QED
    BY <1>9, <2>1, <2>2
<1>. QED
  BY <1>12, <1>13

-----------------------------------------------------------------------------
\* Whatever a client was, is being, or will be sent is a number.
LEMMA Numbers ==
  ASSUME FeedInv, NEW c \in Clients
  PROVE  /\ \A i \in DOMAIN seen[c] : seen[c][i] \in Nat
         /\ \A e \in replay[c] : e.seq \in Nat
         /\ \A j \in DOMAIN inbox[c] : inbox[c][j].seq \in Nat
<1>1. seen[c] \in Seq(Nat) /\ replay[c] \in SUBSET Event /\ inbox[c] \in Seq(Event)
  BY DEF FeedInv, ServerInv, ServerTypeOK, StoreTypeOK, LogTypeOK, HandlersTyped
<1>2. /\ \A i \in DOMAIN seen[c] : seen[c][i] \in Nat
      /\ \A j \in DOMAIN inbox[c] : inbox[c][j] \in Event
  BY <1>1, LenProperties, ElementOfSeq
<1>3. \A e \in Event : e.seq \in Nat
  BY DEF Event
<1>. QED
  BY <1>1, <1>2, <1>3

\* A step of the server, which knows of no handler: it logs, and what it logs
\* is offered to the connections that listen to its task.
LEMMA ServerSideStep ==
  ASSUME FeedInv, [ServerNext]_serverVars, UNCHANGED feedVars
  PROVE  FeedInv'
<1>1. ServerInv' /\ SeqContiguous'
  BY InvStep, NumberedStep DEF FeedInv
<1>2. /\ phase' = phase /\ watching' = watching /\ replay' = replay /\ seen' = seen
      /\ from' = from /\ snapped' = snapped /\ last' = last
  BY DEF feedVars, handlerVars
<1>3. HandlersTyped'
  BY <1>2 DEF FeedInv, HandlersTyped
<1>4. /\ listeners' = listeners
      /\ \/ log' = log /\ seq' = seq /\ inbox' = inbox /\ missed' = missed
         \/ \E t \in Tasks, ks \in Seq(Kinds) : AppendEvents(t, ks)
  BY LogStep DEF FeedInv, logVars
<1>5. /\ seq \in [Tasks -> Nat] /\ inbox \in [Clients -> Seq(Event)]
      /\ \A c \in Clients : Len(inbox[c]) <= QueueMax
      /\ seen \in [Clients -> Seq(Nat)]
      /\ replay \in [Clients -> SUBSET Event]
  BY DEF FeedInv, ServerInv, ServerTypeOK, StoreTypeOK, LogTypeOK, HandlersTyped
<1>6. ASSUME NEW c \in Clients
      PROVE  Exact(c)' /\ Ordered(c)'
  <2>1. Exact(c) /\ Ordered(c)
    BY DEF FeedInv
  <2>2. CASE log' = log /\ seq' = seq /\ inbox' = inbox /\ missed' = missed
    BY <1>2, <1>4, <2>1, <2>2 DEF Exact, Ordered
  <2>3. ASSUME NEW t \in Tasks, NEW ks \in Seq(Kinds), AppendEvents(t, ks)
        PROVE  Exact(c)' /\ Ordered(c)'
    <3>1. Stamp(seq[t], ks) \in Seq(Event) /\ Len(Stamp(seq[t], ks)) = Len(ks) /\ Len(ks) \in Nat
      BY <1>5, StampEvents, LenProperties
    <3>2. /\ seq' = [seq EXCEPT ![t] = @ + Len(ks)]
          /\ inbox'[c] = IF c \in listeners[t] THEN Offer(inbox[c], Stamp(seq[t], ks))
                         ELSE inbox[c]
      BY <2>3, <3>1 DEF AppendEvents, LogAndFanOut
    <3>3. \A u \in Tasks : seq[u] \in Nat /\ seq'[u] \in Nat /\ seq[u] <= seq'[u]
      BY <1>5, <3>1, <3>2
    <3>4. CASE c \notin listeners[t]
      <4>1. inbox'[c] = inbox[c]
        BY <3>2, <3>4
      <4>2. Exact(c)'
        BY <1>2, <1>4, <2>1, <4>1 DEF Exact
      <4>. QED
        BY <1>2, <2>1, <3>3, <4>1, <4>2, Numbers DEF Ordered
    <3>5. CASE c \in listeners[t]
      <4>1. phase[c] = "listening" /\ watching[c] = t
        BY <2>1, <3>5 DEF Exact
      <4>2. Exact(c)'
        BY <1>2, <1>4, <2>1, <4>1 DEF Exact
      <4>3. /\ \A j \in DOMAIN inbox[c] : inbox[c][j].seq <= seq[t]
            /\ \A i \in DOMAIN seen[c] : seen[c][i] <= seq[t]
            /\ \A j, k \in DOMAIN inbox[c] : j < k => inbox[c][j].seq < inbox[c][k].seq
            /\ \A i \in DOMAIN seen[c], j \in DOMAIN inbox[c] : seen[c][i] < inbox[c][j].seq
        BY <2>1, <4>1 DEF Ordered
      <4>4. /\ \A j \in DOMAIN inbox'[c] :
                 /\ inbox'[c][j].seq <= seq[t] + Len(ks)
                 /\ \/ seq[t] < inbox'[c][j].seq
                    \/ \E i \in DOMAIN inbox[c] : inbox'[c][j] = inbox[c][i]
            /\ \A j, k \in DOMAIN inbox'[c] : j < k => inbox'[c][j].seq < inbox'[c][k].seq
        <5>1. inbox[c] \in Seq(Event) /\ Len(inbox[c]) <= QueueMax /\ seq[t] \in Nat
          BY <1>5
        <5>2. inbox'[c] = Offer(inbox[c], Stamp(seq[t], ks))
          BY <3>2, <3>5
        <5>. QED
          BY <4>3, <5>1, <5>2, OfferOrdered, Zenon
      <4>5. inbox' \in [Clients -> Seq(Event)] /\ seq'[t] = seq[t] + Len(ks) /\ seq[t] \in Nat
        BY <1>1, <1>5, <3>2 DEF ServerInv, ServerTypeOK, StoreTypeOK, LogTypeOK
      <4>6. \A j \in DOMAIN inbox'[c] : inbox'[c][j] \in Event
        BY <4>5, LenProperties, ElementOfSeq
      <4>7. \A j \in DOMAIN inbox'[c] : inbox'[c][j].seq \in Nat
        BY <4>6 DEF Event
      <4>8. \A i \in DOMAIN seen[c], j \in DOMAIN inbox'[c] : seen[c][i] < inbox'[c][j].seq
        BY <4>3, <4>4, <4>5, <4>7, Numbers
      <4>9. \A i \in DOMAIN seen[c] : seen[c][i] <= seq'[t]
        BY <3>1, <4>3, <4>5, Numbers
      <4>10. Ordered(c)'
        BY <1>2, <2>1, <4>1, <4>4, <4>5, <4>8, <4>9 DEF Ordered
      <4>. QED
        BY <4>2, <4>10
    <3>. QED
      BY <3>4, <3>5
  <2>. QED
    BY <1>4, <2>2, <2>3
<1>. QED
  BY <1>1, <1>3, <1>6 DEF FeedInv

-----------------------------------------------------------------------------
\* The queues are well-typed.
QueuesTyped ==
  /\ listeners \in [Tasks -> SUBSET Clients]
  /\ inbox \in [Clients -> Seq(Event)]
  /\ \A c \in Clients : Len(inbox[c]) <= QueueMax
  /\ missed \in [Clients -> SUBSET Nat]

\* A step of a handler or a client, which touches only queues, leaves the
\* server's invariant alone.
LEMMA ServerUntouched ==
  ASSUME FeedInv, UNCHANGED <<status, log, seq, pending, cancelled, memory, runnerVars>>,
         QueuesTyped'
  PROVE  ServerInv' /\ SeqContiguous'
<1>1. /\ status' = status /\ log' = log /\ seq' = seq /\ pending' = pending
      /\ cancelled' = cancelled /\ memory' = memory /\ runner' = runner /\ slots' = slots
      /\ step' = step /\ line' = line /\ loaded' = loaded /\ leaked' = leaked
  BY DEF runnerVars
<1>2. ServerTypeOK'
  BY <1>1 DEF FeedInv, ServerInv, ServerTypeOK, StoreTypeOK, LogTypeOK, QueuesTyped
<1>3. SlotsConserved' /\ OneOwner'
  BY <1>1 DEF FeedInv, ServerInv, SlotsConserved, OneOwner, Holders
<1>4. Turns'
  BY <1>1 DEF FeedInv, ServerInv, Turns
<1>5. SeqContiguous'
  BY <1>1 DEF FeedInv, SeqContiguous, Numbered
<1>. QED
  BY <1>2, <1>3, <1>4, <1>5 DEF ServerInv

\* The queues are well-typed to begin with, ...
LEMMA QueuesAreTyped == FeedInv => QueuesTyped
BY DEF FeedInv, ServerInv, ServerTypeOK, StoreTypeOK, LogTypeOK, QueuesTyped

\* ... when a listener is registered, ...
LEMMA SubscribeTyped ==
  ASSUME QueuesTyped, NEW c \in Clients, NEW t \in Tasks, SubscribeLive(c, t),
         missed' \in [Clients -> SUBSET Nat]
  PROVE  QueuesTyped'
<1>1. <<>> \in Seq(Event) /\ Len(<<>>) = 0 /\ 0 <= QueueMax
  BY QueueAssumption
<1>. QED
  BY <1>1 DEF QueuesTyped, SubscribeLive

\* ... when one is unregistered, ...
LEMMA UnsubscribeTyped ==
  ASSUME QueuesTyped, NEW c \in Clients, NEW t \in Tasks, Unsubscribe(c, t),
         missed' = missed
  PROVE  QueuesTyped'
<1>1. <<>> \in Seq(Event) /\ Len(<<>>) = 0 /\ 0 <= QueueMax
  BY QueueAssumption
<1>. QED
  BY <1>1 DEF QueuesTyped, Unsubscribe

\* ... and when an event is taken.
LEMMA TakeTyped ==
  ASSUME QueuesTyped, NEW c \in Clients, inbox[c] # <<>>,
         inbox' = [inbox EXCEPT ![c] = Tail(@)], listeners' = listeners, missed' = missed
  PROVE  QueuesTyped'
<1>1. inbox[c] \in Seq(Event) /\ Len(inbox[c]) <= QueueMax /\ Len(inbox[c]) \in Nat
  BY LenProperties DEF QueuesTyped
<1>2. Tail(inbox[c]) \in Seq(Event) /\ Len(Tail(inbox[c])) = Len(inbox[c]) - 1
  BY <1>1, HeadTailProperties
<1>3. Len(Tail(inbox[c])) <= QueueMax
  BY <1>1, <1>2, QueueAssumption
<1>. QED
  BY <1>2, <1>3 DEF QueuesTyped

\* A step on the connection c leaves the others as they are.
Alone(c) ==
  \A d \in Clients \ {c} :
    /\ phase'[d] = phase[d] /\ watching'[d] = watching[d] /\ replay'[d] = replay[d]
    /\ seen'[d] = seen[d] /\ inbox'[d] = inbox[d]
    /\ \A t \in Tasks : d \in listeners'[t] <=> d \in listeners[t]

\* So it is enough to look at c.
LEMMA OneClient ==
  ASSUME FeedInv, NEW c \in Clients, Alone(c),
         UNCHANGED <<status, log, seq, pending, cancelled, memory, runnerVars>>,
         QueuesTyped', HandlersTyped', Exact(c)', Ordered(c)'
  PROVE  FeedInv'
<1>1. ServerInv' /\ SeqContiguous'
  BY ServerUntouched
<1>2. ASSUME NEW d \in Clients, d # c
      PROVE  Exact(d)' /\ Ordered(d)'
  <2>1. Exact(d) /\ Ordered(d)
    BY DEF FeedInv
  <2>2. Exact(d)'
    BY <1>2, <2>1 DEF Alone, Exact
  <2>3. Ordered(d)'
    BY <1>2, <2>1 DEF Alone, Ordered
  <2>. QED
    BY <2>2, <2>3
<1>. QED
  BY <1>1, <1>2 DEF FeedInv

-----------------------------------------------------------------------------
\* What a snapshot of t beyond f holds.
LEMMA Snapshot ==
  ASSUME FeedInv, NEW t \in Tasks, NEW f \in Nat
  PROVE  /\ ReplayEvents(t, f) \in SUBSET Event
         /\ \A e \in ReplayEvents(t, f) : f < e.seq /\ e.seq <= seq[t]
         /\ \A e, o \in ReplayEvents(t, f) : e.seq = o.seq => e = o
<1>1. log[t] \in Seq(Event) /\ Numbered(t) /\ Len(log[t]) \in Nat /\ DOMAIN log[t] = 1..Len(log[t])
  BY LenProperties
     DEF FeedInv, SeqContiguous, ServerInv, ServerTypeOK, StoreTypeOK, LogTypeOK
<1>2. \A j \in DOMAIN log[t] : log[t][j] \in Event /\ log[t][j].seq = j /\ j <= seq[t]
  BY <1>1, ElementOfSeq DEF Numbered
<1>. QED
  BY <1>2 DEF ReplayEvents

\* A connection is opened, for a client that has nothing beyond f.
LEMMA OpenStep ==
  ASSUME FeedInv, NEW c \in Clients, NEW t \in Tasks, NEW f \in Nat,
         phase[c] \in {"idle", "broken"},
         \A i \in DOMAIN seen[c] : seen[c][i] <= f /\ seen[c][i] <= seq[t],
         Open(c, t, f), UNCHANGED runnerVars
  PROVE  FeedInv'
<1>1. HandlersTyped /\ QueuesTyped /\ Exact(c) /\ Ordered(c)
  BY QueuesAreTyped DEF FeedInv
<1>2. /\ watching' = [watching EXCEPT ![c] = t]
      /\ from' = [from EXCEPT ![c] = f]
      /\ snapped' = [snapped EXCEPT ![c] = Len(log[t])]
      /\ replay' = [replay EXCEPT ![c] = ReplayEvents(t, f)]
      /\ last' = [last EXCEPT ![c] = f]
      /\ UNCHANGED <<status, log, seq, pending, cancelled, memory>>
      /\ missed' = missed /\ seen' = seen
  BY DEF Open
<1>3. /\ ReplayEvents(t, f) \in SUBSET Event
      /\ \A e \in ReplayEvents(t, f) : f < e.seq /\ e.seq <= seq[t]
      /\ \A e, o \in ReplayEvents(t, f) : e.seq = o.seq => e = o
  BY Snapshot
<1>. HIDE DEF ReplayEvents
<1>4. Len(log[t]) \in Nat
  BY LenProperties DEF FeedInv, ServerInv, ServerTypeOK, StoreTypeOK, LogTypeOK
<1>5. \E p \in {"listening", "replaying"} : phase' = [phase EXCEPT ![c] = p]
  BY DEF Open, Goto
<1>6. HandlersTyped'
  BY <1>1, <1>2, <1>3, <1>4, <1>5 DEF HandlersTyped, FeedPhases
<1>7. \A u \in Tasks : c \notin listeners[u]
  BY <1>1 DEF Exact
<1>8. CASE ReplayEvents(t, f) = {}
  <2>1. phase' = [phase EXCEPT ![c] = "listening"] /\ SubscribeLive(c, t)
    BY <1>8 DEF Open, Goto
  <2>2. QueuesTyped'
    BY <1>1, <1>2, <2>1, SubscribeTyped DEF QueuesTyped
  <2>3. /\ listeners' = [listeners EXCEPT ![t] = @ \cup {c}]
        /\ inbox' = [inbox EXCEPT ![c] = <<>>]
    BY <2>1 DEF SubscribeLive
  <2>4. Exact(c)'
    BY <1>1, <1>2, <1>7, <2>1, <2>3 DEF Exact, HandlersTyped, QueuesTyped
  <2>5. inbox'[c] = <<>> /\ DOMAIN <<>> = {}
    BY <1>1, <2>3 DEF QueuesTyped
  <2>6. Ordered(c)'
    BY <1>1, <1>2, <2>1, <2>5 DEF Ordered, HandlersTyped
  <2>7. Alone(c)
    BY <1>1, <1>2, <2>1, <2>3 DEF Alone, HandlersTyped, QueuesTyped
  <2>. QED
    BY <1>2, <1>6, <2>2, <2>4, <2>6, <2>7, OneClient
<1>9. CASE ReplayEvents(t, f) # {}
  <2>1. /\ phase' = [phase EXCEPT ![c] = "replaying"]
        /\ listeners' = listeners /\ inbox' = inbox
    BY <1>9 DEF Open, Goto
  <2>2. QueuesTyped'
    BY <1>1, <1>2, <2>1 DEF QueuesTyped
  <2>3. Exact(c)'
    BY <1>1, <1>2, <1>7, <2>1 DEF Exact, HandlersTyped
  <2>4. \A e \in ReplayEvents(t, f) : e.seq \in Nat
    BY <1>3 DEF Event
  <2>5. \A e \in ReplayEvents(t, f), i \in DOMAIN seen[c] : seen[c][i] < e.seq
    BY <1>3, <2>4, Numbers
  <2>6. Ordered(c)'
    BY <1>1, <1>2, <1>3, <2>1, <2>5 DEF Ordered, HandlersTyped
  <2>7. Alone(c)
    BY <1>1, <1>2, <2>1 DEF Alone, HandlersTyped
  <2>. QED
    BY <1>2, <1>6, <2>2, <2>3, <2>6, <2>7, OneClient
<1>. QED
  BY <1>8, <1>9

\* A client connects, or comes back with the last seq it has.
LEMMA ConnectStep ==
  ASSUME FeedInv, UNCHANGED runnerVars, NEW c \in Clients,
         \/ \E t \in Tasks, f \in 0..MaxFrom : Connect(c, t, f)
         \/ Reconnect(c)
  PROVE  FeedInv'
<1>1. HandlersTyped /\ Ordered(c)
  BY DEF FeedInv
<1>2. ASSUME NEW t \in Tasks, NEW f \in 0..MaxFrom, Connect(c, t, f)
      PROVE  FeedInv'
  <2>1. phase[c] = "idle" /\ Open(c, t, f) /\ f \in Nat
    BY <1>2, MaxFromAssumption DEF Connect
  <2>2. DOMAIN seen[c] = {}
    BY <1>1, <2>1 DEF Ordered
  <2>. QED
    BY <2>1, <2>2, OpenStep
<1>3. CASE Reconnect(c)
  <2>. DEFINE f == IF seen[c] = <<>> THEN from[c] ELSE seen[c][Len(seen[c])]
  <2>1. phase[c] = "broken" /\ Open(c, watching[c], f) /\ watching[c] \in Tasks
    BY <1>1, <1>3 DEF Reconnect, Ordered
  <2>2. seen[c] \in Seq(Nat) /\ Len(seen[c]) \in Nat /\ DOMAIN seen[c] = 1..Len(seen[c])
    BY <1>1, LenProperties DEF HandlersTyped
  <2>3. \A i \in DOMAIN seen[c] : seen[c][i] <= seq[watching[c]]
    BY <1>1, <2>1 DEF Ordered
  <2>4. f \in Nat /\ \A i \in DOMAIN seen[c] : seen[c][i] <= f
    <3>1. CASE seen[c] = <<>>
      BY <1>1, <3>1 DEF HandlersTyped
    <3>2. CASE seen[c] # <<>>
      <4>1. Len(seen[c]) \in DOMAIN seen[c] /\ f = seen[c][Len(seen[c])]
        BY <2>2, <3>2, EmptySeq
      <4>2. \A i \in DOMAIN seen[c] : i = Len(seen[c]) \/ i < Len(seen[c])
        BY <2>2
      <4>3. \A i \in DOMAIN seen[c] : seen[c][i] \in Nat
        BY Numbers
      <4>. HIDE DEF f
      <4>4. \A i \in DOMAIN seen[c] : seen[c][i] = f \/ seen[c][i] < f
        BY <1>1, <4>1, <4>2 DEF Ordered
      <4>. QED
        BY <4>1, <4>3, <4>4
    <3>. QED
      BY <3>1, <3>2
  <2>. HIDE DEF f
  <2>. QED
    BY <2>1, <2>3, <2>4, OpenStep
<1>. QED
  BY <1>2, <1>3

\* The id is unknown: nothing was sent, nothing is registered.
LEMMA NotFoundStep ==
  ASSUME FeedInv, UNCHANGED runnerVars, NEW c \in Clients, NEW t \in Tasks, NotFound(c, t)
  PROVE  FeedInv'
<1>1. HandlersTyped /\ QueuesTyped /\ Exact(c) /\ Ordered(c)
  BY QueuesAreTyped DEF FeedInv
<1>2. /\ phase[c] = "idle" /\ phase' = [phase EXCEPT ![c] = "over"]
      /\ UNCHANGED <<storeVars, watching, from, replay, snapped, last, seen>>
  BY DEF NotFound, Goto
<1>3. HandlersTyped' /\ QueuesTyped'
  BY <1>1, <1>2 DEF HandlersTyped, QueuesTyped, FeedPhases, storeVars
<1>4. Exact(c)' /\ Ordered(c)' /\ Alone(c)
  BY <1>1, <1>2 DEF Exact, Ordered, Alone, HandlersTyped, storeVars
<1>. QED
  BY <1>2, <1>3, <1>4, OneClient DEF storeVars

\* An event that is after everything that was sent, and not beyond the end of
\* the log, is sent: what was sent stays in order.
LEMMA DeliverOrdered ==
  ASSUME FeedInv, NEW c \in Clients, watching[c] \in Tasks, NEW e \in Event, Deliver(c, e),
         \A i \in DOMAIN seen[c] : seen[c][i] < e.seq,
         e.seq <= seq[watching[c]]
  PROVE  /\ seen' \in [Clients -> Seq(Nat)]
         /\ \A i, j \in DOMAIN seen'[c] : i < j => seen'[c][i] < seen'[c][j]
         /\ \A i \in DOMAIN seen'[c] : /\ seen'[c][i] <= seq[watching[c]]
                                       /\ seen'[c][i] <= e.seq
         /\ \A d \in Clients \ {c} : seen'[d] = seen[d]
<1>1. /\ seen \in [Clients -> Seq(Nat)] /\ e.seq \in Nat
      /\ seen' = [seen EXCEPT ![c] = Append(@, e.seq)]
      /\ \A i, j \in DOMAIN seen[c] : i < j => seen[c][i] < seen[c][j]
      /\ \A i \in DOMAIN seen[c] : seen[c][i] <= seq[watching[c]]
  BY DEF FeedInv, HandlersTyped, Deliver, Event, Ordered
<1>2. /\ Append(seen[c], e.seq) \in Seq(Nat)
      /\ Len(Append(seen[c], e.seq)) = Len(seen[c]) + 1
      /\ \A i \in 1..Len(seen[c]) : Append(seen[c], e.seq)[i] = seen[c][i]
      /\ Append(seen[c], e.seq)[Len(seen[c]) + 1] = e.seq
  BY <1>1, AppendProperties
<1>3. /\ Len(seen[c]) \in Nat /\ DOMAIN seen[c] = 1..Len(seen[c])
      /\ DOMAIN Append(seen[c], e.seq) = 1 .. Len(seen[c]) + 1
  BY <1>1, <1>2, LenProperties
<1>4. seen'[c] = Append(seen[c], e.seq) /\ seen' \in [Clients -> Seq(Nat)]
      /\ \A d \in Clients \ {c} : seen'[d] = seen[d]
  BY <1>1, <1>2
<1>5. \A i \in DOMAIN seen'[c] :
        \/ i \in DOMAIN seen[c] /\ seen'[c][i] = seen[c][i]
        \/ i = Len(seen[c]) + 1 /\ seen'[c][i] = e.seq
  BY <1>2, <1>3, <1>4
<1>6. ASSUME NEW i \in DOMAIN seen'[c]
      PROVE  seen'[c][i] <= seq[watching[c]] /\ seen'[c][i] <= e.seq
  BY <1>1, <1>5, Numbers
<1>7. ASSUME NEW i \in DOMAIN seen'[c], NEW j \in DOMAIN seen'[c], i < j
      PROVE  seen'[c][i] < seen'[c][j]
  <2>1. i \in DOMAIN seen[c] /\ seen'[c][i] = seen[c][i]
    BY <1>2, <1>3, <1>4, <1>5, <1>7
  <2>. QED
    BY <1>1, <1>5, <1>7, <2>1
<1>. QED
  BY <1>4, <1>6, <1>7

\* The earliest event that is left of the snapshot is sent.
LEMMA SendReplayStep ==
  ASSUME FeedInv, UNCHANGED runnerVars, NEW c \in Clients, SendReplay(c)
  PROVE  FeedInv'
<1>1. HandlersTyped /\ QueuesTyped /\ Exact(c) /\ Ordered(c)
  BY QueuesAreTyped DEF FeedInv
<1>2. PICK e \in replay[c] :
        /\ \A o \in replay[c] : e.seq <= o.seq
        /\ Deliver(c, e)
        /\ replay' = [replay EXCEPT ![c] = @ \ {e}]
        /\ Goto(c, IF e.kind \in VerdictKinds THEN "over" ELSE "replaying")
  BY DEF SendReplay
<1>3. /\ phase[c] = "replaying" /\ watching[c] \in Tasks /\ e \in Event
      /\ UNCHANGED <<storeVars, watching, from, snapped, last>>
      /\ \A o \in Event : o.seq \in Nat
  BY <1>1 DEF SendReplay, Ordered, HandlersTyped, Event
<1>4. /\ \A i \in DOMAIN seen[c] : seen[c][i] < e.seq
      /\ e.seq <= seq[watching[c]]
  BY <1>1, <1>3 DEF Ordered
<1>5. PICK p \in {"over", "replaying"} : phase' = [phase EXCEPT ![c] = p]
  BY <1>2 DEF Goto
<1>6. /\ seen' \in [Clients -> Seq(Nat)]
      /\ \A i, j \in DOMAIN seen'[c] : i < j => seen'[c][i] < seen'[c][j]
      /\ \A i \in DOMAIN seen'[c] : seen'[c][i] <= seq[watching[c]] /\ seen'[c][i] <= e.seq
      /\ \A d \in Clients \ {c} : seen'[d] = seen[d]
  BY <1>2, <1>3, <1>4, DeliverOrdered
<1>7. HandlersTyped' /\ QueuesTyped'
  BY <1>1, <1>2, <1>3, <1>5, <1>6 DEF HandlersTyped, QueuesTyped, FeedPhases, storeVars
<1>8. Exact(c)' /\ Alone(c)
  BY <1>1, <1>2, <1>3, <1>5, <1>6 DEF Exact, Alone, HandlersTyped, storeVars
<1>9. ASSUME NEW o \in replay'[c]
      PROVE  /\ o \in replay[c] /\ e.seq < o.seq
             /\ \A i \in DOMAIN seen'[c] : seen'[c][i] < o.seq
  <2>1. o \in replay[c] /\ o # e
    BY <1>1, <1>2 DEF HandlersTyped
  <2>2. e.seq \in Nat /\ o.seq \in Nat /\ e.seq <= o.seq /\ e.seq # o.seq
    BY <1>1, <1>2, <1>3, <2>1 DEF Ordered, HandlersTyped
  <2>3. \A i \in DOMAIN seen'[c] : seen'[c][i] \in Nat
    BY <1>6, LenProperties, ElementOfSeq
  <2>. QED
    BY <1>6, <2>1, <2>2, <2>3
<1>10. Ordered(c)'
  BY <1>1, <1>3, <1>5, <1>6, <1>9 DEF Ordered, HandlersTyped, storeVars
<1>. QED
  BY <1>3, <1>7, <1>8, <1>10, OneClient DEF storeVars

\* The snapshot is sent: the listener starts with an empty queue.
LEMMA SubscribeStep ==
  ASSUME FeedInv, UNCHANGED runnerVars, NEW c \in Clients, Subscribe(c)
  PROVE  FeedInv'
<1>1. HandlersTyped /\ QueuesTyped /\ Exact(c) /\ Ordered(c)
  BY QueuesAreTyped DEF FeedInv
<1>2. /\ phase[c] = "replaying" /\ phase' = [phase EXCEPT ![c] = "listening"]
      /\ SubscribeLive(c, watching[c])
      /\ listeners' = [listeners EXCEPT ![watching[c]] = @ \cup {c}]
      /\ inbox' = [inbox EXCEPT ![c] = <<>>]
      /\ missed' = [missed EXCEPT ![c] = @ \cup Window(c, watching[c])]
      /\ UNCHANGED <<status, log, seq, pending, cancelled, memory,
                     watching, from, replay, snapped, last, seen>>
  BY DEF Subscribe, Goto, SubscribeLive
<1>3. watching[c] \in Tasks
  BY <1>1, <1>2 DEF Ordered
<1>4. Window(c, watching[c]) \in SUBSET Nat
  <2>1. log[watching[c]] \in Seq(Event) /\ snapped[c] \in Nat
    BY <1>1, <1>3 DEF FeedInv, ServerInv, ServerTypeOK, StoreTypeOK, LogTypeOK, HandlersTyped
  <2>2. \A i \in snapped[c] + 1 .. Len(log[watching[c]]) : log[watching[c]][i] \in Event
    BY <2>1, LenProperties, ElementOfSeq
  <2>. QED
    BY <2>2 DEF Window, Event
<1>5. missed' \in [Clients -> SUBSET Nat]
  BY <1>1, <1>2, <1>4 DEF QueuesTyped
<1>6. HandlersTyped' /\ QueuesTyped'
  BY <1>1, <1>2, <1>3, <1>5, SubscribeTyped DEF HandlersTyped, FeedPhases
<1>7. Exact(c)' /\ Alone(c)
  BY <1>1, <1>2, <1>3 DEF Exact, Alone, HandlersTyped, QueuesTyped
<1>8. inbox'[c] = <<>> /\ DOMAIN <<>> = {}
  BY <1>1, <1>2 DEF QueuesTyped
<1>9. Ordered(c)'
  BY <1>1, <1>2, <1>8 DEF Ordered, HandlersTyped
<1>. QED
  BY <1>2, <1>6, <1>7, <1>9, OneClient

\* The first event of a queue, and the rest of it.
LEMMA HeadOfQueue ==
  ASSUME FeedInv, NEW c \in Clients, phase[c] = "listening", inbox[c] # <<>>
  PROVE  /\ watching[c] \in Tasks
         /\ Head(inbox[c]) \in Event
         /\ Head(inbox[c]).seq <= seq[watching[c]]
         /\ \A i \in DOMAIN seen[c] : seen[c][i] < Head(inbox[c]).seq
         /\ \A j \in DOMAIN Tail(inbox[c]) :
              /\ j + 1 \in DOMAIN inbox[c] /\ Tail(inbox[c])[j] = inbox[c][j + 1]
              /\ Head(inbox[c]).seq < Tail(inbox[c])[j].seq
         /\ \A j, k \in DOMAIN Tail(inbox[c]) :
              j < k => Tail(inbox[c])[j].seq < Tail(inbox[c])[k].seq
<1>1. inbox[c] \in Seq(Event) /\ Ordered(c)
  BY DEF FeedInv, ServerInv, ServerTypeOK, StoreTypeOK, LogTypeOK
<1>2. /\ Head(inbox[c]) \in Event /\ Tail(inbox[c]) \in Seq(Event)
      /\ Len(Tail(inbox[c])) = Len(inbox[c]) - 1
      /\ \A i \in 1..Len(Tail(inbox[c])) : Tail(inbox[c])[i] = inbox[c][i + 1]
  BY <1>1, HeadTailProperties
<1>3. /\ 1 \in DOMAIN inbox[c] /\ inbox[c][1] = Head(inbox[c]) /\ Len(inbox[c]) \in Nat \ {0}
      /\ DOMAIN inbox[c] = 1..Len(inbox[c])
      /\ DOMAIN Tail(inbox[c]) = 1..Len(inbox[c]) - 1
  BY <1>1, <1>2, HeadInQueue, LenProperties
<1>4. \A j \in DOMAIN Tail(inbox[c]) :
        /\ j \in Nat /\ 1 < j + 1 /\ j + 1 \in DOMAIN inbox[c]
        /\ Tail(inbox[c])[j] = inbox[c][j + 1]
  BY <1>2, <1>3
<1>5. \A j, k \in DOMAIN inbox[c] : j < k => inbox[c][j].seq < inbox[c][k].seq
  BY <1>1 DEF Ordered
<1>6. \A j \in DOMAIN Tail(inbox[c]) : Head(inbox[c]).seq < Tail(inbox[c])[j].seq
  BY <1>3, <1>4, <1>5
<1>7. ASSUME NEW j \in DOMAIN Tail(inbox[c]), NEW k \in DOMAIN Tail(inbox[c]), j < k
      PROVE  Tail(inbox[c])[j].seq < Tail(inbox[c])[k].seq
  <2>1. j + 1 < k + 1
    BY <1>4, <1>7
  <2>. QED
    BY <1>4, <1>5, <2>1
<1>8. /\ watching[c] \in Tasks
      /\ Head(inbox[c]).seq <= seq[watching[c]]
      /\ \A i \in DOMAIN seen[c] : seen[c][i] < Head(inbox[c]).seq
  BY <1>1, <1>3 DEF Ordered
<1>. QED
  BY <1>2, <1>4, <1>6, <1>7, <1>8

\* The head of the queue is passed over.
LEMMA SkipStep ==
  ASSUME FeedInv, UNCHANGED runnerVars, NEW c \in Clients, Skip(c)
  PROVE  FeedInv'
<1>1. HandlersTyped /\ QueuesTyped /\ Exact(c) /\ Ordered(c)
  BY QueuesAreTyped DEF FeedInv
<1>2. /\ phase[c] = "listening" /\ inbox[c] # <<>>
      /\ inbox' = [inbox EXCEPT ![c] = Tail(@)]
      /\ UNCHANGED <<status, log, seq, pending, cancelled, memory, missed, listeners, runnerVars>>
      /\ UNCHANGED <<phase, watching, from, replay, snapped, last, seen>>
  BY DEF Skip, feedVars, handlerVars
<1>3. HandlersTyped' /\ QueuesTyped'
  BY <1>1, <1>2, TakeTyped DEF HandlersTyped
<1>4. inbox'[c] = Tail(inbox[c]) /\ \A d \in Clients \ {c} : inbox'[d] = inbox[d]
  BY <1>1, <1>2 DEF QueuesTyped
<1>5. Exact(c)' /\ Alone(c)
  BY <1>1, <1>2, <1>4 DEF Exact, Alone
<1>6. Ordered(c)'
  BY <1>1, <1>2, <1>4, HeadOfQueue DEF Ordered
<1>. QED
  BY <1>2, <1>3, <1>5, <1>6, OneClient

\* The head of the queue is sent, and a verdict ends the handler.
LEMMA ForwardStep ==
  ASSUME FeedInv, UNCHANGED runnerVars, NEW c \in Clients, Forward(c)
  PROVE  FeedInv'
<1>. DEFINE e == Head(inbox[c])
<1>1. HandlersTyped /\ QueuesTyped /\ Exact(c) /\ Ordered(c)
  BY QueuesAreTyped DEF FeedInv
<1>2. /\ phase[c] = "listening" /\ inbox[c] # <<>>
      /\ last' = [last EXCEPT ![c] = e.seq]
      /\ Deliver(c, e)
      /\ UNCHANGED <<status, log, seq, pending, cancelled, memory, missed,
                     watching, from, replay, snapped>>
  BY DEF Forward
<1>3. /\ watching[c] \in Tasks /\ e \in Event /\ e.seq \in Nat
      /\ e.seq <= seq[watching[c]]
      /\ \A i \in DOMAIN seen[c] : seen[c][i] < e.seq
      /\ \A j \in DOMAIN Tail(inbox[c]) : e.seq < Tail(inbox[c])[j].seq
  BY <1>2, HeadOfQueue DEF Event
<1>. HIDE DEF e
<1>4. /\ seen' \in [Clients -> Seq(Nat)]
      /\ \A i, j \in DOMAIN seen'[c] : i < j => seen'[c][i] < seen'[c][j]
      /\ \A i \in DOMAIN seen'[c] : seen'[c][i] <= seq[watching[c]] /\ seen'[c][i] <= e.seq
      /\ \A d \in Clients \ {c} : seen'[d] = seen[d]
  BY <1>2, <1>3, DeliverOrdered
<1>5. CASE e.kind \in VerdictKinds
  <2>1. phase' = [phase EXCEPT ![c] = "over"] /\ Unsubscribe(c, watching[c])
    BY <1>5 DEF Forward, Goto, e
  <2>2. /\ listeners' = [listeners EXCEPT ![watching[c]] = @ \ {c}]
        /\ inbox' = [inbox EXCEPT ![c] = <<>>]
    BY <2>1 DEF Unsubscribe
  <2>3. HandlersTyped' /\ QueuesTyped'
    BY <1>1, <1>2, <1>3, <1>4, <2>1, UnsubscribeTyped DEF HandlersTyped, FeedPhases
  <2>4. Exact(c)' /\ Alone(c)
    BY <1>1, <1>2, <1>3, <1>4, <2>1, <2>2 DEF Exact, Alone, HandlersTyped, QueuesTyped
  <2>5. Ordered(c)'
    BY <1>1, <1>2, <1>4, <2>1 DEF Ordered, HandlersTyped
  <2>. QED
    BY <1>2, <2>3, <2>4, <2>5, OneClient
<1>6. CASE e.kind \notin VerdictKinds
  <2>1. inbox' = [inbox EXCEPT ![c] = Tail(@)] /\ UNCHANGED <<phase, listeners>>
    BY <1>6 DEF Forward, e
  <2>2. HandlersTyped' /\ QueuesTyped'
    BY <1>1, <1>2, <1>3, <1>4, <2>1, TakeTyped DEF HandlersTyped
  <2>3. inbox'[c] = Tail(inbox[c]) /\ \A d \in Clients \ {c} : inbox'[d] = inbox[d]
    BY <1>1, <2>1 DEF QueuesTyped
  <2>4. Exact(c)' /\ Alone(c)
    BY <1>1, <1>2, <1>4, <2>1, <2>3 DEF Exact, Alone
  <2>5. \A j \in DOMAIN inbox'[c] :
          /\ inbox'[c][j].seq \in Nat
          /\ inbox'[c][j].seq <= seq[watching[c]]
          /\ e.seq < inbox'[c][j].seq
    <3>1. \A j \in DOMAIN inbox[c] :
            inbox[c][j].seq \in Nat /\ inbox[c][j].seq <= seq[watching[c]]
      BY <1>1, <1>2, Numbers DEF Ordered
    <3>. QED
      BY <1>2, <1>3, <2>3, <3>1, HeadOfQueue
  <2>6. \A i \in DOMAIN seen'[c] : seen'[c][i] \in Nat
    BY <1>4, LenProperties, ElementOfSeq
  <2>7. \A i \in DOMAIN seen'[c], j \in DOMAIN inbox'[c] : seen'[c][i] < inbox'[c][j].seq
    BY <1>3, <1>4, <2>5, <2>6
  <2>8. \A j, k \in DOMAIN inbox'[c] : j < k => inbox'[c][j].seq < inbox'[c][k].seq
    BY <1>2, <2>3, HeadOfQueue
  <2>9. Ordered(c)'
    BY <1>1, <1>2, <1>4, <2>1, <2>5, <2>7, <2>8 DEF Ordered
  <2>. QED
    BY <1>2, <2>2, <2>4, <2>9, OneClient
<1>. QED
  BY <1>5, <1>6

\* The client leaves: its listener goes with it, and it may lose what was on
\* the way.
LEMMA DisconnectStep ==
  ASSUME FeedInv, UNCHANGED runnerVars, NEW c \in Clients, Disconnect(c)
  PROVE  FeedInv'
<1>1. HandlersTyped /\ QueuesTyped /\ Exact(c) /\ Ordered(c)
  BY QueuesAreTyped DEF FeedInv
<1>2. /\ phase[c] \in {"replaying", "listening"}
      /\ phase' = [phase EXCEPT ![c] = "broken"]
      /\ replay' = [replay EXCEPT ![c] = {}]
      /\ UNCHANGED <<status, log, seq, pending, cancelled, memory, missed,
                     watching, from, snapped, last>>
      /\ IF phase[c] = "listening" THEN Unsubscribe(c, watching[c])
         ELSE UNCHANGED <<listeners, inbox>>
      /\ LoseInFlight(c)
  BY DEF Disconnect, Goto
<1>3. watching[c] \in Tasks
  BY <1>1, <1>2 DEF Ordered
<1>4. PICK n \in 0..Len(seen[c]) : seen' = [seen EXCEPT ![c] = SubSeq(@, 1, n)]
  BY <1>2 DEF LoseInFlight
<1>5. /\ Len(seen[c]) \in Nat /\ DOMAIN seen[c] = 1..Len(seen[c])
      /\ \A i \in 1..Len(seen[c]) : seen[c][i] \in Nat
  BY <1>1, LenProperties, ElementOfSeq DEF HandlersTyped
<1>6. /\ SubSeq(seen[c], 1, n) \in Seq(Nat) /\ Len(SubSeq(seen[c], 1, n)) = n
      /\ \A i \in 1..n : SubSeq(seen[c], 1, n)[i] = seen[c][i]
  <2>1. n \in Int /\ 1 \in Int /\ \A i \in 1..n : seen[c][i] \in Nat
    BY <1>4, <1>5
  <2>2. /\ SubSeq(seen[c], 1, n) \in Seq(Nat)
        /\ Len(SubSeq(seen[c], 1, n)) = IF 1 <= n THEN n - 1 + 1 ELSE 0
        /\ \A i \in 1 .. n - 1 + 1 : SubSeq(seen[c], 1, n)[i] = seen[c][1 + i - 1]
    BY <2>1, SubSeqProperties
  <2>. QED
    BY <1>4, <1>5, <2>2
<1>7. /\ seen' \in [Clients -> Seq(Nat)]
      /\ seen'[c] = SubSeq(seen[c], 1, n)
      /\ \A d \in Clients \ {c} : seen'[d] = seen[d]
  BY <1>1, <1>4, <1>6 DEF HandlersTyped
<1>8. \A i \in DOMAIN seen'[c] : i \in DOMAIN seen[c] /\ seen'[c][i] = seen[c][i]
  BY <1>4, <1>5, <1>6, <1>7, LenProperties
<1>9. HandlersTyped'
  BY <1>1, <1>2, <1>7 DEF HandlersTyped, FeedPhases
<1>10. Ordered(c)'
  BY <1>1, <1>2, <1>3, <1>8 DEF Ordered, HandlersTyped
<1>11. CASE phase[c] = "listening"
  <2>1. /\ Unsubscribe(c, watching[c])
        /\ listeners' = [listeners EXCEPT ![watching[c]] = @ \ {c}]
        /\ inbox' = [inbox EXCEPT ![c] = <<>>]
    BY <1>2, <1>11 DEF Unsubscribe
  <2>2. QueuesTyped'
    BY <1>1, <1>2, <1>3, <2>1, UnsubscribeTyped
  <2>3. Exact(c)' /\ Alone(c)
    BY <1>1, <1>2, <1>3, <1>7, <2>1 DEF Exact, Alone, HandlersTyped, QueuesTyped
  <2>. QED
    BY <1>2, <1>9, <1>10, <2>2, <2>3, OneClient
<1>12. CASE phase[c] = "replaying"
  <2>1. UNCHANGED <<listeners, inbox>>
    BY <1>2, <1>12
  <2>2. QueuesTyped'
    BY <1>1, <1>2, <2>1 DEF QueuesTyped
  <2>3. Exact(c)' /\ Alone(c)
    BY <1>1, <1>2, <1>7, <1>12, <2>1 DEF Exact, Alone, HandlersTyped
  <2>. QED
    BY <1>2, <1>9, <1>10, <2>2, <2>3, OneClient
<1>. QED
  BY <1>2, <1>11, <1>12

-----------------------------------------------------------------------------
\* The invariant is inductive.
LEMMA FeedStep == FeedInv /\ [ProcessNext]_processVars => FeedInv'
<1>. SUFFICES ASSUME FeedInv, [ProcessNext]_processVars
              PROVE  FeedInv'
  OBVIOUS
<1>1. CASE ServerSide \/ Quiet \/ UNCHANGED processVars
  BY <1>1, ServerSideStep DEF ServerSide, Quiet, ServerNext, processVars, serverVars
<1>2. CASE StreamSide
  BY <1>2, SendReplayStep, SubscribeStep, ForwardStep, SkipStep DEF StreamSide
<1>3. CASE ClientSide
  BY <1>3, ConnectStep, NotFoundStep, DisconnectStep DEF ClientSide
<1>. QED
  BY <1>1, <1>2, <1>3 DEF ProcessNext

\* The inductive invariant of the process: the server's holds beside the
\* streams, whatever clients do.
THEOREM ProcessInvariance == ProcessSpec => []FeedInv
BY FeedInit, FeedStep, PTL DEF ProcessSpec

\* The types of the process.
THEOREM FeedTypeCorrect == ProcessSpec => []FeedTypeOK
<1>1. FeedInv => FeedTypeOK
  BY DEF FeedInv, FeedTypeOK, HandlersTyped, ServerInv, ServerTypeOK
<1>. QED
  BY <1>1, ProcessInvariance, PTL

\* Whichever way handlers end, and whatever is logged meanwhile, a queue is
\* registered exactly while its handler forwards from it.
THEOREM ListenersAreExact == ProcessSpec => []ListenersExact
<1>1. FeedInv => ListenersExact
  BY DEF FeedInv, ListenersExact, Exact
<1>. QED
  BY <1>1, ProcessInvariance, PTL

\* Through snapshot, queue, full queues and reconnections, no client is sent an
\* event twice or after a later one.
THEOREM EventsAreSentInOrder == ProcessSpec => []SeenInOrder
<1>1. FeedInv => SeenInOrder
  BY DEF FeedInv, SeenInOrder, Ordered
<1>. QED
  BY <1>1, ProcessInvariance, PTL

-----------------------------------------------------------------------------
(***************************************************************************)
(* What a client is told.  Account adds to Ordered that no number between  *)
(* from_seq and the end of the snapshot, or of the log, is neither sent nor*)
(* due nor missed; Faithful that what is due are the events of the log;    *)
(* Gapless that what was sent to a client that missed nothing has no gap.  *)
(***************************************************************************)

\* e is the event of t that has its number.
EventOf(t, e) == e.seq \in DOMAIN log[t] /\ log[t][e.seq] = e

\* The account of a client that is sent the snapshot, ...
ReplayAccount(c) ==
  /\ last[c] = from[c]
  /\ \A e \in replay[c] : from[c] < e.seq /\ e.seq <= snapped[c]
  /\ \A n \in from[c] + 1 .. snapped[c] : n \in Covered(c)

\* ... and of one whose queue is registered.  "last" is a number it was sent,
\* or its from_seq.
QueueAccount(c) ==
  /\ replay[c] = {}
  /\ from[c] <= last[c]
  /\ last[c] = from[c] \/ \E i \in DOMAIN seen[c] : seen[c][i] = last[c]
  /\ \A n \in from[c] + 1 .. Len(log[watching[c]]) : n \in Covered(c)

Account(c) ==
  /\ phase[c] = "replaying" => ReplayAccount(c)
  /\ phase[c] = "listening" => QueueAccount(c)
  /\ phase[c] \in {"replaying", "listening"} /\ seen[c] # <<>> =>
       from[c] <= seen[c][Len(seen[c])]

Faithful(c) ==
  /\ phase[c] = "idle" => watching[c] = NoTask
  /\ phase[c] = "replaying" => \A e \in replay[c] : EventOf(watching[c], e)
  /\ phase[c] = "listening" => \A j \in DOMAIN inbox[c] : EventOf(watching[c], inbox[c][j])
  /\ phase[c] = "over" /\ watching[c] # NoTask =>
       /\ watching[c] \in Tasks
       /\ seen[c][Len(seen[c])] \in DOMAIN log[watching[c]]
       /\ LastKind(c) \in VerdictKinds

Gapless(c) ==
  missed[c] = {} => \A i \in DOMAIN seen[c] : seen[c][i] = seen[c][1] + i - 1

Accounts == \A c \in Clients : Account(c) /\ Faithful(c) /\ Gapless(c)

-----------------------------------------------------------------------------
\* The types the accounts are about.
LEMMA ClientTypes ==
  ASSUME FeedInv, NEW c \in Clients
  PROVE  /\ HandlersTyped /\ QueuesTyped /\ Exact(c) /\ Ordered(c)
         /\ seen[c] \in Seq(Nat) /\ Len(seen[c]) \in Nat /\ DOMAIN seen[c] = 1..Len(seen[c])
         /\ inbox[c] \in Seq(Event) /\ Len(inbox[c]) \in Nat /\ DOMAIN inbox[c] = 1..Len(inbox[c])
         /\ from[c] \in Nat /\ last[c] \in Nat /\ snapped[c] \in Nat
         /\ replay[c] \in SUBSET Event /\ missed[c] \in SUBSET Nat
         /\ watching[c] \in Tasks \cup {NoTask}
         /\ phase[c] \in FeedPhases
         /\ phase[c] \in {"replaying", "listening", "broken"} => watching[c] \in Tasks
<1>1. HandlersTyped /\ QueuesTyped /\ Exact(c) /\ Ordered(c)
  BY QueuesAreTyped DEF FeedInv
<1>2. /\ seen[c] \in Seq(Nat) /\ inbox[c] \in Seq(Event)
      /\ from[c] \in Nat /\ last[c] \in Nat /\ snapped[c] \in Nat
      /\ replay[c] \in SUBSET Event /\ missed[c] \in SUBSET Nat
      /\ watching[c] \in Tasks \cup {NoTask} /\ phase[c] \in FeedPhases
  BY <1>1 DEF HandlersTyped, QueuesTyped
<1>3. phase[c] \in {"replaying", "listening", "broken"} => watching[c] \in Tasks
  BY <1>1 DEF Ordered
<1>. QED
  BY <1>1, <1>2, <1>3, LenProperties

\* The log of a task, numbered.
LEMMA LogOf ==
  ASSUME FeedInv, NEW t \in Tasks
  PROVE  /\ log[t] \in Seq(Event) /\ Len(log[t]) \in Nat /\ DOMAIN log[t] = 1..Len(log[t])
         /\ seq[t] = Len(log[t])
         /\ \A i \in DOMAIN log[t] : log[t][i] \in Event /\ log[t][i].seq = i
<1>1. log[t] \in Seq(Event) /\ Numbered(t)
  BY DEF FeedInv, SeqContiguous, ServerInv, ServerTypeOK, StoreTypeOK, LogTypeOK
<1>. QED
  BY <1>1, LenProperties, ElementOfSeq DEF Numbered

\* A step on the connection c leaves the accounts of the others alone.
Apart(c) ==
  /\ log' = log
  /\ \A d \in Clients \ {c} :
       /\ phase'[d] = phase[d] /\ watching'[d] = watching[d] /\ from'[d] = from[d]
       /\ replay'[d] = replay[d] /\ snapped'[d] = snapped[d] /\ last'[d] = last[d]
       /\ seen'[d] = seen[d] /\ inbox'[d] = inbox[d] /\ missed'[d] = missed[d]

LEMMA OneAccount ==
  ASSUME Accounts, NEW c \in Clients, Apart(c),
         Account(c)', Faithful(c)', Gapless(c)'
  PROVE  Accounts'
<1>1. ASSUME NEW d \in Clients, d # c
      PROVE  Account(d)' /\ Faithful(d)' /\ Gapless(d)'
  <2>1. /\ log' = log
        /\ phase'[d] = phase[d] /\ watching'[d] = watching[d] /\ from'[d] = from[d]
        /\ replay'[d] = replay[d] /\ snapped'[d] = snapped[d] /\ last'[d] = last[d]
        /\ seen'[d] = seen[d] /\ inbox'[d] = inbox[d] /\ missed'[d] = missed[d]
    BY <1>1 DEF Apart
  <2>2. Account(d) /\ Faithful(d) /\ Gapless(d)
    BY DEF Accounts
  <2>3. Account(d)'
    BY <2>1, <2>2 DEF Account, ReplayAccount, QueueAccount, Covered
  <2>4. Faithful(d)'
    BY <2>1, <2>2 DEF Faithful, EventOf, LastKind
  <2>5. Gapless(d)'
    BY <2>1, <2>2 DEF Gapless
  <2>. QED
    BY <2>3, <2>4, <2>5
<1>. QED
  BY <1>1 DEF Accounts

\* An event is put behind what was sent.
LEMMA DeliverAppends ==
  ASSUME FeedInv, NEW c \in Clients, NEW e \in Event, Deliver(c, e)
  PROVE  /\ Len(seen'[c]) = Len(seen[c]) + 1
         /\ DOMAIN seen'[c] = 1 .. Len(seen[c]) + 1
         /\ \A i \in DOMAIN seen[c] : i \in DOMAIN seen'[c] /\ seen'[c][i] = seen[c][i]
         /\ seen'[c][Len(seen[c]) + 1] = e.seq
         /\ seen'[c] # <<>>
         /\ \A d \in Clients \ {c} : seen'[d] = seen[d]
<1>1. /\ seen \in [Clients -> Seq(Nat)] /\ e.seq \in Nat
      /\ seen' = [seen EXCEPT ![c] = Append(@, e.seq)]
      /\ seen[c] \in Seq(Nat) /\ Len(seen[c]) \in Nat /\ DOMAIN seen[c] = 1..Len(seen[c])
  BY ClientTypes DEF HandlersTyped, Deliver, Event
<1>2. seen'[c] = Append(seen[c], e.seq) /\ \A d \in Clients \ {c} : seen'[d] = seen[d]
  BY <1>1
<1>3. /\ Append(seen[c], e.seq) \in Seq(Nat)
      /\ Len(Append(seen[c], e.seq)) = Len(seen[c]) + 1
      /\ \A i \in 1..Len(seen[c]) : Append(seen[c], e.seq)[i] = seen[c][i]
      /\ Append(seen[c], e.seq)[Len(seen[c]) + 1] = e.seq
  BY <1>1, AppendProperties
<1>4. DOMAIN Append(seen[c], e.seq) = 1 .. Len(seen[c]) + 1
  BY <1>3, LenProperties
<1>5. Append(seen[c], e.seq) # <<>>
  BY <1>1, <1>3, EmptySeq
<1>. QED
  BY <1>1, <1>2, <1>3, <1>4, <1>5

\* The least number that is due to a client that missed nothing is the next one.
LEMMA NextNumber ==
  ASSUME FeedInv, NEW c \in Clients, missed[c] = {}, seen[c] # <<>>,
         from[c] <= seen[c][Len(seen[c])],
         NEW b \in Nat, \A n \in from[c] + 1 .. b : n \in Covered(c),
         NEW m \in Nat, m <= b, \A i \in DOMAIN seen[c] : seen[c][i] < m,
         \A o \in replay[c] : m <= o.seq,
         \A j \in DOMAIN inbox[c] : m <= inbox[c][j].seq
  PROVE  m = seen[c][Len(seen[c])] + 1
<1>. DEFINE s == seen[c][Len(seen[c])]
<1>1. Len(seen[c]) \in DOMAIN seen[c] /\ seen[c] \in Seq(Nat) /\ from[c] \in Nat
  BY ClientTypes, EmptySeq
<1>2. s \in Nat /\ s < m /\ \A i \in DOMAIN seen[c] : seen[c][i] <= s
  <2>1. \A i \in DOMAIN seen[c] : seen[c][i] \in Nat
    BY Numbers
  <2>2. \A i \in DOMAIN seen[c] : i \in Nat /\ i <= Len(seen[c])
    BY ClientTypes
  <2>3. \A i, j \in DOMAIN seen[c] : i < j => seen[c][i] < seen[c][j]
    BY ClientTypes DEF Ordered
  <2>4. ASSUME NEW i \in DOMAIN seen[c]
        PROVE  seen[c][i] <= s
    <3>1. i = Len(seen[c]) \/ i < Len(seen[c])
      BY <1>1, <2>2, ClientTypes
    <3>2. seen[c][i] = s \/ seen[c][i] < s
      BY <1>1, <2>3, <3>1
    <3>. QED
      BY <1>1, <2>1, <3>2
  <2>. QED
    BY <1>1, <2>1, <2>4
<1>. HIDE DEF s
<1>3. from[c] <= s
  BY DEF s
<1>4. s + 1 \in from[c] + 1 .. b
  BY <1>1, <1>2, <1>3
<1>5. s + 1 \in Covered(c)
  BY <1>4
<1>6. \A i \in DOMAIN seen[c] : seen[c][i] # s + 1
  BY <1>2, Numbers
<1>7. (\E o \in replay[c] : o.seq = s + 1) \/ (\E j \in DOMAIN inbox[c] : inbox[c][j].seq = s + 1)
  BY <1>5, <1>6 DEF Covered
<1>8. m <= s + 1
  BY <1>7
<1>. QED
  BY <1>2, <1>8 DEF s

\* The next number leaves no gap.
LEMMA DeliverGapless ==
  ASSUME FeedInv, NEW c \in Clients, NEW e \in Event, Deliver(c, e), Gapless(c),
         missed' = missed,
         missed[c] = {} /\ seen[c] # <<>> => e.seq = seen[c][Len(seen[c])] + 1
  PROVE  Gapless(c)'
<1>. SUFFICES ASSUME missed[c] = {}, NEW i \in DOMAIN seen'[c]
              PROVE  seen'[c][i] = seen'[c][1] + i - 1
  BY DEF Gapless
<1>1. /\ DOMAIN seen'[c] = 1 .. Len(seen[c]) + 1
      /\ \A k \in DOMAIN seen[c] : seen'[c][k] = seen[c][k]
      /\ seen'[c][Len(seen[c]) + 1] = e.seq /\ e.seq \in Nat
      /\ Len(seen[c]) \in Nat /\ DOMAIN seen[c] = 1..Len(seen[c])
  BY DeliverAppends, ClientTypes DEF Event
<1>2. \A k \in DOMAIN seen[c] : seen[c][k] = seen[c][1] + k - 1 /\ seen[c][k] \in Nat
  BY Numbers DEF Gapless
<1>3. CASE seen[c] = <<>>
  <2>1. i = 1 /\ seen'[c][1] = e.seq
    BY <1>1, <1>3
  <2>. QED
    BY <1>1, <2>1
<1>4. CASE seen[c] # <<>>
  <2>1. Len(seen[c]) >= 1
    BY <1>1, <1>4, ClientTypes, EmptySeq
  <2>2. seen'[c][1] = seen[c][1] /\ seen[c][1] \in Nat
    BY <1>1, <1>2, <2>1
  <2>3. seen[c][Len(seen[c])] = seen[c][1] + Len(seen[c]) - 1
    <3>1. Len(seen[c]) \in DOMAIN seen[c]
      BY <1>1, <2>1
    <3>. QED
      BY <1>2, <3>1
  <2>4. CASE i = Len(seen[c]) + 1
    <3>1. e.seq = seen[c][Len(seen[c])] + 1
      BY <1>4
    <3>2. seen'[c][i] = (seen[c][1] + Len(seen[c]) - 1) + 1
      BY <1>1, <2>3, <2>4, <3>1
    <3>. QED
      BY <1>1, <2>2, <2>4, <3>2
  <2>5. CASE i \in DOMAIN seen[c]
    BY <1>1, <1>2, <2>2, <2>5
  <2>. QED
    BY <1>1, <2>4, <2>5
<1>. QED
  BY <1>3, <1>4

\* An entry of a queue is its head or an entry of the rest.
LEMMA QueueSplit ==
  ASSUME NEW q \in Seq(Event), q # <<>>, NEW j \in DOMAIN q
  PROVE  q[j] = Head(q) \/ \E k \in DOMAIN Tail(q) : Tail(q)[k] = q[j]
<1>1. /\ Tail(q) \in Seq(Event) /\ Len(Tail(q)) = Len(q) - 1
      /\ \A i \in 1..Len(Tail(q)) : Tail(q)[i] = q[i + 1]
  BY HeadTailProperties
<1>2. /\ Len(q) \in Nat \ {0} /\ DOMAIN q = 1..Len(q) /\ q[1] = Head(q)
      /\ DOMAIN Tail(q) = 1 .. Len(q) - 1
  BY <1>1, HeadInQueue, LenProperties
<1>3. CASE j = 1
  BY <1>2, <1>3
<1>4. CASE j # 1
  <2>1. j - 1 \in DOMAIN Tail(q) /\ (j - 1) + 1 = j
    BY <1>2, <1>4
  <2>. QED
    BY <1>1, <1>2, <2>1
<1>. QED
  BY <1>3, <1>4
-----------------------------------------------------------------------------
\* An event that is passed over is not beyond from_seq: whatever was sent is
\* before it, so "last" still is from_seq.
LEMMA SkipAccounts ==
  ASSUME FeedInv, Accounts, NEW c \in Clients, Skip(c)
  PROVE  Accounts'
<1>1. /\ phase[c] = "listening" /\ inbox[c] # <<>>
      /\ Head(inbox[c]).seq <= last[c]
      /\ inbox' = [inbox EXCEPT ![c] = Tail(@)]
      /\ log' = log /\ missed' = missed
      /\ UNCHANGED <<phase, watching, from, replay, snapped, last, seen>>
  BY DEF Skip, feedVars, handlerVars
<1>2. inbox'[c] = Tail(inbox[c]) /\ \A d \in Clients \ {c} : inbox'[d] = inbox[d]
  BY <1>1, ClientTypes DEF QueuesTyped
<1>3. Account(c) /\ Faithful(c) /\ Gapless(c) /\ QueueAccount(c)
  BY <1>1 DEF Accounts, Account
<1>4. Head(inbox[c]).seq <= from[c]
  <2>1. \A i \in DOMAIN seen[c] : seen[c][i] < Head(inbox[c]).seq
    BY <1>1, HeadOfQueue
  <2>2. Head(inbox[c]).seq \in Nat /\ \A i \in DOMAIN seen[c] : seen[c][i] \in Nat
    BY <1>1, HeadOfQueue, Numbers DEF Event
  <2>. QED
    BY <1>1, <1>3, <2>1, <2>2, ClientTypes DEF QueueAccount
<1>5. ASSUME NEW j \in DOMAIN inbox[c]
      PROVE  inbox[c][j] = Head(inbox[c])
             \/ \E k \in DOMAIN Tail(inbox[c]) : Tail(inbox[c])[k] = inbox[c][j]
  BY <1>1, <1>5, QueueSplit, ClientTypes
<1>6. \A n \in from[c] + 1 .. Len(log[watching[c]]) : (n \in Covered(c))'
  <2>. SUFFICES ASSUME NEW n \in from[c] + 1 .. Len(log[watching[c]])
                PROVE  (n \in Covered(c))'
    OBVIOUS
  <2>1. n \in Covered(c) /\ n # Head(inbox[c]).seq
    BY <1>1, <1>3, <1>4, ClientTypes, HeadOfQueue DEF QueueAccount, Event
  <2>. QED
    BY <1>1, <1>2, <1>5, <2>1 DEF Covered
<1>7. Account(c)'
  BY <1>1, <1>3, <1>6 DEF Account, QueueAccount
<1>8. Faithful(c)'
  BY <1>1, <1>2, <1>3, HeadOfQueue DEF Faithful, EventOf
<1>9. Gapless(c)' /\ Apart(c)
  BY <1>1, <1>2, <1>3 DEF Gapless, Apart
<1>. QED
  BY <1>7, <1>8, <1>9, OneAccount

\* The snapshot is sent.  What was logged since it was taken is missed.
LEMMA SubscribeAccounts ==
  ASSUME FeedInv, Accounts, NEW c \in Clients, Subscribe(c)
  PROVE  Accounts'
<1>1. /\ phase[c] = "replaying" /\ replay[c] = {}
      /\ phase' = [phase EXCEPT ![c] = "listening"]
      /\ inbox' = [inbox EXCEPT ![c] = <<>>]
      /\ missed' = [missed EXCEPT ![c] = @ \cup Window(c, watching[c])]
      /\ log' = log
      /\ UNCHANGED <<watching, from, replay, snapped, last, seen>>
  BY DEF Subscribe, Goto, SubscribeLive
<1>2. Account(c) /\ Faithful(c) /\ Gapless(c) /\ ReplayAccount(c)
  BY <1>1 DEF Accounts, Account
<1>3. /\ phase'[c] = "listening" /\ inbox'[c] = <<>> /\ DOMAIN <<>> = {}
      /\ missed'[c] = missed[c] \cup Window(c, watching[c])
      /\ inbox[c] = <<>> /\ watching[c] \in Tasks
      /\ \A d \in Clients \ {c} : /\ phase'[d] = phase[d] /\ inbox'[d] = inbox[d]
                                  /\ missed'[d] = missed[d]
  BY <1>1, ClientTypes DEF HandlersTyped, QueuesTyped, Exact
<1>4. \A n \in from[c] + 1 .. Len(log[watching[c]]) : (n \in Covered(c))'
  <2>. SUFFICES ASSUME NEW n \in from[c] + 1 .. Len(log[watching[c]])
                PROVE  (n \in Covered(c))'
    OBVIOUS
  <2>1. CASE n <= snapped[c]
    <3>1. n \in Covered(c)
      BY <1>2, <2>1, ClientTypes DEF ReplayAccount
    <3>2. n \in {seen[c][i] : i \in DOMAIN seen[c]} \/ n \in missed[c]
      BY <1>1, <1>3, <3>1 DEF Covered
    <3>. QED
      BY <1>1, <1>3, <3>2 DEF Covered
  <2>2. CASE n > snapped[c]
    <3>1. n \in snapped[c] + 1 .. Len(log[watching[c]]) /\ n \in DOMAIN log[watching[c]]
      BY <1>3, <2>2, ClientTypes, LogOf
    <3>2. log[watching[c]][n].seq = n
      BY <1>3, <3>1, LogOf
    <3>3. n \in Window(c, watching[c])
      BY <3>1, <3>2 DEF Window
    <3>. QED
      BY <1>3, <3>3 DEF Covered
  <2>. QED
    BY <2>1, <2>2, <1>3, LogOf, ClientTypes
<1>5. Account(c)'
  BY <1>1, <1>2, <1>3, <1>4, ClientTypes DEF Account, QueueAccount, ReplayAccount
<1>6. Faithful(c)'
  BY <1>1, <1>2, <1>3 DEF Faithful
<1>7. Gapless(c)' /\ Apart(c)
  BY <1>1, <1>2, <1>3 DEF Gapless, Apart
<1>. QED
  BY <1>5, <1>6, <1>7, OneAccount

\* The next event of the snapshot is sent.
LEMMA SendAccounts ==
  ASSUME FeedInv, Accounts, NEW c \in Clients, SendReplay(c)
  PROVE  Accounts'
<1>1. PICK e \in replay[c] :
        /\ \A o \in replay[c] : e.seq <= o.seq
        /\ Deliver(c, e)
        /\ replay' = [replay EXCEPT ![c] = @ \ {e}]
        /\ Goto(c, IF e.kind \in VerdictKinds THEN "over" ELSE "replaying")
  BY DEF SendReplay
<1>2. /\ phase[c] = "replaying" /\ inbox' = inbox /\ missed' = missed /\ log' = log
      /\ UNCHANGED <<watching, from, snapped, last>>
  BY DEF SendReplay, storeVars
<1>3. Account(c) /\ Faithful(c) /\ Gapless(c) /\ ReplayAccount(c)
  BY <1>2 DEF Accounts, Account
<1>4. /\ e \in Event /\ e.seq \in Nat /\ inbox[c] = <<>> /\ watching[c] \in Tasks
      /\ from[c] < e.seq /\ e.seq <= snapped[c]
      /\ \A i \in DOMAIN seen[c] : seen[c][i] < e.seq
      /\ EventOf(watching[c], e)
  <2>1. e \in Event /\ e.seq \in Nat
    BY ClientTypes DEF Event
  <2>2. inbox[c] = <<>> /\ watching[c] \in Tasks
    BY <1>2, ClientTypes DEF Exact
  <2>3. from[c] < e.seq /\ e.seq <= snapped[c]
    BY <1>3 DEF ReplayAccount
  <2>4. \A i \in DOMAIN seen[c] : seen[c][i] < e.seq
    BY <1>2, ClientTypes DEF Ordered
  <2>5. EventOf(watching[c], e)
    BY <1>2, <1>3 DEF Faithful
  <2>. QED
    BY <2>1, <2>2, <2>3, <2>4, <2>5
<1>5. /\ Len(seen'[c]) = Len(seen[c]) + 1
      /\ \A i \in DOMAIN seen[c] : i \in DOMAIN seen'[c] /\ seen'[c][i] = seen[c][i]
      /\ Len(seen[c]) + 1 \in DOMAIN seen'[c]
      /\ seen'[c][Len(seen'[c])] = e.seq
      /\ \E i \in DOMAIN seen'[c] : seen'[c][i] = e.seq
      /\ \A d \in Clients \ {c} : seen'[d] = seen[d]
  <2>1. /\ Len(seen'[c]) = Len(seen[c]) + 1
        /\ DOMAIN seen'[c] = 1 .. Len(seen[c]) + 1
        /\ \A i \in DOMAIN seen[c] : i \in DOMAIN seen'[c] /\ seen'[c][i] = seen[c][i]
        /\ seen'[c][Len(seen[c]) + 1] = e.seq
        /\ \A d \in Clients \ {c} : seen'[d] = seen[d]
    BY <1>1, <1>4, DeliverAppends
  <2>2. Len(seen[c]) + 1 \in DOMAIN seen'[c]
    BY <2>1, ClientTypes
  <2>. QED
    BY <2>1, <2>2
<1>6. /\ replay'[c] = replay[c] \ {e} /\ phase'[c] \in {"over", "replaying"}
      /\ phase'[c] = "over" <=> e.kind \in VerdictKinds
      /\ \A d \in Clients \ {c} : replay'[d] = replay[d] /\ phase'[d] = phase[d]
  BY <1>1, ClientTypes DEF Goto, HandlersTyped
<1>7. ASSUME NEW n \in from[c] + 1 .. snapped[c]
      PROVE  (n \in Covered(c))'
  <2>1. n \in Covered(c)
    BY <1>3 DEF ReplayAccount
  <2>2. CASE n = e.seq
    BY <1>5, <2>2 DEF Covered
  <2>3. CASE n # e.seq
    <3>1. CASE \E i \in DOMAIN seen[c] : seen[c][i] = n
      BY <1>5, <3>1 DEF Covered
    <3>2. CASE \E o \in replay[c] : o.seq = n
      BY <1>6, <2>3, <3>2 DEF Covered
    <3>3. CASE n \in missed[c] \/ \E j \in DOMAIN inbox[c] : inbox[c][j].seq = n
      BY <1>2, <3>3 DEF Covered
    <3>. QED
      BY <2>1, <3>1, <3>2, <3>3 DEF Covered
  <2>. QED
    BY <2>2, <2>3
<1>8. ReplayAccount(c)'
  BY <1>2, <1>3, <1>6, <1>7 DEF ReplayAccount
<1>9. from[c] <= e.seq
  BY <1>4, ClientTypes
<1>10. Account(c)'
  BY <1>2, <1>5, <1>6, <1>8, <1>9 DEF Account
<1>11. Faithful(c)'
  BY <1>2, <1>3, <1>4, <1>5, <1>6 DEF Faithful, EventOf, LastKind
<1>12. missed[c] = {} /\ seen[c] # <<>> => e.seq = seen[c][Len(seen[c])] + 1
  <2>. SUFFICES ASSUME missed[c] = {}, seen[c] # <<>>
                PROVE  e.seq = seen[c][Len(seen[c])] + 1
    OBVIOUS
  <2>1. from[c] <= seen[c][Len(seen[c])]
    BY <1>2, <1>3 DEF Account
  <2>2. \A n \in from[c] + 1 .. snapped[c] : n \in Covered(c)
    BY <1>3 DEF ReplayAccount
  <2>3. \A j \in DOMAIN inbox[c] : e.seq <= inbox[c][j].seq
    BY <1>4
  <2>4. snapped[c] \in Nat
    BY ClientTypes
  <2>. QED
    BY <1>1, <1>4, <2>1, <2>2, <2>3, <2>4, NextNumber
<1>13. Gapless(c)'
  BY <1>1, <1>2, <1>3, <1>4, <1>12, DeliverGapless
<1>14. Apart(c)
  BY <1>2, <1>5, <1>6 DEF Apart
<1>. QED
  BY <1>10, <1>11, <1>13, <1>14, OneAccount

\* The next event of the queue is sent.
LEMMA ForwardAccounts ==
  ASSUME FeedInv, Accounts, NEW c \in Clients, Forward(c)
  PROVE  Accounts'
<1>. DEFINE e == Head(inbox[c])
<1>1. /\ phase[c] = "listening" /\ inbox[c] # <<>> /\ e.seq > last[c]
      /\ last' = [last EXCEPT ![c] = e.seq]
      /\ Deliver(c, e)
      /\ log' = log /\ missed' = missed
      /\ UNCHANGED <<watching, from, replay, snapped>>
  BY DEF Forward
<1>2. Account(c) /\ Faithful(c) /\ Gapless(c) /\ QueueAccount(c)
  BY <1>1 DEF Accounts, Account
<1>3. /\ e \in Event /\ e.seq \in Nat /\ watching[c] \in Tasks
      /\ \A i \in DOMAIN seen[c] : seen[c][i] < e.seq
      /\ \A j \in DOMAIN Tail(inbox[c]) : e.seq < Tail(inbox[c])[j].seq
  BY <1>1, HeadOfQueue DEF Event
<1>4. /\ EventOf(watching[c], e) /\ from[c] < e.seq
      /\ \E j \in DOMAIN inbox[c] : inbox[c][j] = e
  <2>1. 1 \in DOMAIN inbox[c] /\ inbox[c][1] = e
    BY <1>1, ClientTypes, HeadInQueue
  <2>2. EventOf(watching[c], e)
    BY <1>1, <1>2, <2>1 DEF Faithful
  <2>3. from[c] < e.seq
    BY <1>1, <1>2, <1>3, ClientTypes DEF QueueAccount
  <2>. QED
    BY <2>1, <2>2, <2>3
<1>5. \A j \in DOMAIN inbox[c] :
        \/ inbox[c][j] = e
        \/ \E k \in DOMAIN Tail(inbox[c]) : Tail(inbox[c])[k] = inbox[c][j]
  BY <1>1, QueueSplit, ClientTypes
<1>6. /\ Len(seen'[c]) = Len(seen[c]) + 1
      /\ \A i \in DOMAIN seen[c] : i \in DOMAIN seen'[c] /\ seen'[c][i] = seen[c][i]
      /\ Len(seen[c]) + 1 \in DOMAIN seen'[c]
      /\ seen'[c][Len(seen'[c])] = e.seq
      /\ \E i \in DOMAIN seen'[c] : seen'[c][i] = e.seq
      /\ \A d \in Clients \ {c} : seen'[d] = seen[d]
  <2>. HIDE DEF e
  <2>1. /\ Len(seen'[c]) = Len(seen[c]) + 1
        /\ DOMAIN seen'[c] = 1 .. Len(seen[c]) + 1
        /\ \A i \in DOMAIN seen[c] : i \in DOMAIN seen'[c] /\ seen'[c][i] = seen[c][i]
        /\ seen'[c][Len(seen[c]) + 1] = e.seq
        /\ \A d \in Clients \ {c} : seen'[d] = seen[d]
    BY <1>1, <1>3, DeliverAppends
  <2>2. Len(seen[c]) + 1 \in DOMAIN seen'[c]
    BY <2>1, ClientTypes
  <2>. QED
    BY <2>1, <2>2
<1>7. missed[c] = {} /\ seen[c] # <<>> => e.seq = seen[c][Len(seen[c])] + 1
  <2>. SUFFICES ASSUME missed[c] = {}, seen[c] # <<>>
                PROVE  e.seq = seen[c][Len(seen[c])] + 1
    OBVIOUS
  <2>. HIDE DEF e
  <2>1. from[c] <= seen[c][Len(seen[c])]
    BY <1>1, <1>2 DEF Account
  <2>2. /\ \A n \in from[c] + 1 .. Len(log[watching[c]]) : n \in Covered(c)
        /\ \A o \in replay[c] : e.seq <= o.seq
    BY <1>2 DEF QueueAccount
  <2>3. \A j \in DOMAIN inbox[c] : e.seq <= inbox[c][j].seq
    <3>1. \A k \in DOMAIN Tail(inbox[c]) : Tail(inbox[c])[k].seq \in Nat
      BY <1>1, HeadOfQueue, Numbers
    <3>. QED
      BY <1>3, <1>5, <3>1
  <2>4. Len(log[watching[c]]) \in Nat /\ e.seq <= Len(log[watching[c]])
    BY <1>3, <1>4, LogOf DEF EventOf
  <2>. QED
    BY <1>3, <2>1, <2>2, <2>3, <2>4, NextNumber
<1>8. Gapless(c)'
  <2>. HIDE DEF e
  <2>. QED
    BY <1>1, <1>2, <1>3, <1>7, DeliverGapless
<1>9. CASE e.kind \in VerdictKinds
  <2>1. /\ phase' = [phase EXCEPT ![c] = "over"]
        /\ inbox' = [inbox EXCEPT ![c] = <<>>]
    BY <1>9 DEF Forward, Goto, Unsubscribe
  <2>. HIDE DEF e
  <2>2. /\ phase'[c] = "over"
        /\ \A d \in Clients \ {c} : /\ phase'[d] = phase[d] /\ inbox'[d] = inbox[d]
                                    /\ last'[d] = last[d]
    BY <1>1, <2>1, ClientTypes DEF HandlersTyped, QueuesTyped
  <2>3. Account(c)'
    BY <2>2 DEF Account
  <2>4. Faithful(c)'
    BY <1>1, <1>3, <1>4, <1>6, <1>9, <2>2 DEF Faithful, EventOf, LastKind
  <2>5. Apart(c)
    BY <1>1, <1>6, <2>2 DEF Apart
  <2>. QED
    BY <1>8, <2>3, <2>4, <2>5, OneAccount
<1>10. CASE e.kind \notin VerdictKinds
  <2>1. inbox' = [inbox EXCEPT ![c] = Tail(@)] /\ phase' = phase
    BY <1>10 DEF Forward
  <2>. HIDE DEF e
  <2>2. /\ inbox'[c] = Tail(inbox[c]) /\ last'[c] = e.seq
        /\ \A d \in Clients \ {c} : inbox'[d] = inbox[d] /\ last'[d] = last[d]
    BY <1>1, <2>1, ClientTypes DEF HandlersTyped, QueuesTyped
  <2>3. ASSUME NEW n \in from[c] + 1 .. Len(log[watching[c]])
        PROVE  (n \in Covered(c))'
    <3>1. n \in Covered(c)
      BY <1>2 DEF QueueAccount
    <3>2. CASE n = e.seq
      BY <1>6, <3>2 DEF Covered
    <3>3. CASE \E i \in DOMAIN seen[c] : seen[c][i] = n
      BY <1>6, <3>3 DEF Covered
    <3>4. CASE n # e.seq /\ \E j \in DOMAIN inbox[c] : inbox[c][j].seq = n
      BY <1>5, <2>2, <3>4 DEF Covered
    <3>5. CASE n \in missed[c]
      BY <1>1, <3>5 DEF Covered
    <3>6. CASE \E o \in replay[c] : o.seq = n
      BY <1>1, <3>6 DEF Covered
    <3>. QED
      BY <3>1, <3>2, <3>3, <3>4, <3>5, <3>6 DEF Covered
  <2>4. from[c] <= e.seq
    BY <1>3, <1>4, ClientTypes
  <2>5. QueueAccount(c)'
    BY <1>1, <1>2, <1>6, <2>2, <2>3, <2>4 DEF QueueAccount
  <2>6. Account(c)'
    BY <1>1, <1>6, <2>1, <2>4, <2>5 DEF Account
  <2>7. \A k \in DOMAIN Tail(inbox[c]) :
          k + 1 \in DOMAIN inbox[c] /\ Tail(inbox[c])[k] = inbox[c][k + 1]
    BY <1>1, HeadOfQueue
  <2>8. Faithful(c)'
    BY <1>1, <1>2, <2>1, <2>2, <2>7 DEF Faithful, EventOf
  <2>9. Apart(c)
    BY <1>1, <1>6, <2>1, <2>2 DEF Apart
  <2>. QED
    BY <1>8, <2>6, <2>8, <2>9, OneAccount
<1>. QED
  BY <1>9, <1>10

-----------------------------------------------------------------------------
\* A connection is opened: all that the log holds beyond f is in the snapshot.
LEMMA OpenAccounts ==
  ASSUME FeedInv, Accounts, NEW c \in Clients, NEW t \in Tasks, NEW f \in Nat,
         phase[c] \in {"idle", "broken"},
         seen[c] = <<>> \/ f <= seen[c][Len(seen[c])],
         Open(c, t, f)
  PROVE  Accounts'
<1>1. /\ watching' = [watching EXCEPT ![c] = t]
      /\ from' = [from EXCEPT ![c] = f]
      /\ snapped' = [snapped EXCEPT ![c] = Len(log[t])]
      /\ replay' = [replay EXCEPT ![c] = ReplayEvents(t, f)]
      /\ last' = [last EXCEPT ![c] = f]
      /\ log' = log /\ missed' = missed /\ seen' = seen
  BY DEF Open
<1>2. \/ /\ ReplayEvents(t, f) = {}
         /\ phase' = [phase EXCEPT ![c] = "listening"]
         /\ inbox' = [inbox EXCEPT ![c] = <<>>]
      \/ /\ phase' = [phase EXCEPT ![c] = "replaying"]
         /\ inbox' = inbox
  BY DEF Open, Goto, SubscribeLive
<1>3. \A e \in ReplayEvents(t, f) : f < e.seq /\ e.seq <= Len(log[t]) /\ EventOf(t, e)
  <2>1. \A j \in DOMAIN log[t] : log[t][j].seq = j /\ j <= Len(log[t])
    BY LogOf
  <2>. QED
    BY <2>1 DEF ReplayEvents, EventOf
<1>4. \A n \in f + 1 .. Len(log[t]) : \E e \in ReplayEvents(t, f) : e.seq = n
  <2>. SUFFICES ASSUME NEW n \in f + 1 .. Len(log[t])
                PROVE  \E e \in ReplayEvents(t, f) : e.seq = n
    OBVIOUS
  <2>1. n \in DOMAIN log[t] /\ n > f
    BY LogOf
  <2>2. log[t][n].seq = n
    BY <2>1, LogOf
  <2>. QED
    BY <2>1, <2>2 DEF ReplayEvents
<1>. HIDE DEF ReplayEvents
<1>5. /\ watching'[c] = t /\ from'[c] = f /\ snapped'[c] = Len(log[t])
      /\ replay'[c] = ReplayEvents(t, f) /\ last'[c] = f
      /\ phase'[c] \in {"listening", "replaying"}
      /\ phase'[c] = "listening" => ReplayEvents(t, f) = {} /\ inbox'[c] = <<>>
      /\ \A d \in Clients \ {c} :
           /\ watching'[d] = watching[d] /\ from'[d] = from[d] /\ snapped'[d] = snapped[d]
           /\ replay'[d] = replay[d] /\ last'[d] = last[d] /\ phase'[d] = phase[d]
           /\ inbox'[d] = inbox[d]
  BY <1>1, <1>2, ClientTypes DEF HandlersTyped, QueuesTyped
<1>6. \A n \in f + 1 .. Len(log[t]) : (n \in Covered(c))'
  BY <1>4, <1>5 DEF Covered
<1>7. phase'[c] = "replaying" => ReplayAccount(c)'
  BY <1>3, <1>5, <1>6 DEF ReplayAccount
<1>8. phase'[c] = "listening" => QueueAccount(c)'
  BY <1>1, <1>5, <1>6 DEF QueueAccount
<1>9. Account(c)'
  BY <1>1, <1>5, <1>7, <1>8 DEF Account
<1>10. Faithful(c)'
  <2>1. DOMAIN <<>> = {}
    OBVIOUS
  <2>. QED
    BY <1>1, <1>3, <1>5, <2>1 DEF Faithful, EventOf
<1>11. Gapless(c)' /\ Apart(c)
  BY <1>1, <1>5 DEF Accounts, Gapless, Apart
<1>. QED
  BY <1>9, <1>10, <1>11, OneAccount

\* A client connects, or comes back with the last seq it has.
LEMMA ConnectAccounts ==
  ASSUME FeedInv, Accounts, NEW c \in Clients,
         \/ \E t \in Tasks, f \in 0..MaxFrom : Connect(c, t, f)
         \/ Reconnect(c)
  PROVE  Accounts'
<1>1. ASSUME NEW t \in Tasks, NEW f \in 0..MaxFrom, Connect(c, t, f)
      PROVE  Accounts'
  <2>1. phase[c] = "idle" /\ Open(c, t, f) /\ f \in Nat
    BY <1>1, MaxFromAssumption DEF Connect
  <2>2. seen[c] = <<>>
    BY <2>1, ClientTypes DEF Ordered
  <2>. QED
    BY <2>1, <2>2, OpenAccounts
<1>2. CASE Reconnect(c)
  <2>. DEFINE f == IF seen[c] = <<>> THEN from[c] ELSE seen[c][Len(seen[c])]
  <2>1. phase[c] = "broken" /\ Open(c, watching[c], f) /\ watching[c] \in Tasks
    BY <1>2, ClientTypes DEF Reconnect
  <2>2. f \in Nat /\ (seen[c] = <<>> \/ f <= seen[c][Len(seen[c])])
    <3>1. CASE seen[c] = <<>>
      BY <3>1, ClientTypes
    <3>2. CASE seen[c] # <<>>
      <4>1. Len(seen[c]) \in DOMAIN seen[c] /\ f = seen[c][Len(seen[c])]
        BY <3>2, ClientTypes, EmptySeq
      <4>2. seen[c][Len(seen[c])] \in Nat
        BY <4>1, Numbers
      <4>. QED
        BY <4>1, <4>2
    <3>. QED
      BY <3>1, <3>2
  <2>. HIDE DEF f
  <2>. QED
    BY <2>1, <2>2, OpenAccounts
<1>. QED
  BY <1>1, <1>2

\* The id is unknown: the connection never had a task.
LEMMA NotFoundAccounts ==
  ASSUME FeedInv, Accounts, NEW c \in Clients, NEW t \in Tasks, NotFound(c, t)
  PROVE  Accounts'
<1>1. /\ phase[c] = "idle" /\ phase' = [phase EXCEPT ![c] = "over"]
      /\ log' = log /\ inbox' = inbox /\ missed' = missed
      /\ UNCHANGED <<watching, from, replay, snapped, last, seen>>
  BY DEF NotFound, Goto, storeVars
<1>2. phase'[c] = "over" /\ \A d \in Clients \ {c} : phase'[d] = phase[d]
  BY <1>1, ClientTypes DEF HandlersTyped
<1>3. Faithful(c) /\ Gapless(c)
  BY DEF Accounts
<1>4. Account(c)' /\ Faithful(c)' /\ Gapless(c)' /\ Apart(c)
  BY <1>1, <1>2, <1>3 DEF Account, Faithful, Gapless, Apart
<1>. QED
  BY <1>4, OneAccount

\* The client leaves, and loses what was in flight: the last of what was sent.
LEMMA DisconnectAccounts ==
  ASSUME FeedInv, Accounts, NEW c \in Clients, Disconnect(c)
  PROVE  Accounts'
<1>1. /\ phase' = [phase EXCEPT ![c] = "broken"]
      /\ replay' = [replay EXCEPT ![c] = {}]
      /\ log' = log /\ missed' = missed
      /\ UNCHANGED <<watching, from, snapped, last>>
      /\ inbox' = inbox \/ inbox' = [inbox EXCEPT ![c] = <<>>]
  BY DEF Disconnect, Goto, Unsubscribe
<1>2. PICK n \in 0..Len(seen[c]) : seen' = [seen EXCEPT ![c] = SubSeq(@, 1, n)]
  BY DEF Disconnect, LoseInFlight
<1>3. /\ Len(SubSeq(seen[c], 1, n)) = n /\ SubSeq(seen[c], 1, n) \in Seq(Nat)
      /\ \A i \in 1..n : SubSeq(seen[c], 1, n)[i] = seen[c][i]
  <2>1. n \in Int /\ 1 \in Int /\ \A i \in 1..n : seen[c][i] \in Nat
    BY <1>2, ClientTypes, Numbers
  <2>2. /\ SubSeq(seen[c], 1, n) \in Seq(Nat)
        /\ Len(SubSeq(seen[c], 1, n)) = IF 1 <= n THEN n - 1 + 1 ELSE 0
        /\ \A i \in 1 .. n - 1 + 1 : SubSeq(seen[c], 1, n)[i] = seen[c][1 + i - 1]
    BY <2>1, SubSeqProperties
  <2>. QED
    BY <1>2, <2>2, ClientTypes
<1>4. /\ phase'[c] = "broken" /\ seen'[c] = SubSeq(seen[c], 1, n)
      /\ \A d \in Clients \ {c} : /\ phase'[d] = phase[d] /\ replay'[d] = replay[d]
                                  /\ inbox'[d] = inbox[d] /\ seen'[d] = seen[d]
  BY <1>1, <1>2, ClientTypes DEF HandlersTyped, QueuesTyped
<1>5. \A i \in DOMAIN seen'[c] :
        /\ i \in DOMAIN seen[c] /\ seen'[c][i] = seen[c][i]
        /\ 1 \in DOMAIN seen[c] /\ seen'[c][1] = seen[c][1]
  <2>1. DOMAIN seen'[c] = 1..n
    BY <1>3, <1>4, LenProperties
  <2>2. n \in Nat /\ n <= Len(seen[c])
    BY <1>2, ClientTypes
  <2>. QED
    BY <1>3, <1>4, <2>1, <2>2, ClientTypes
<1>6. Gapless(c)'
  BY <1>1, <1>5 DEF Accounts, Gapless
<1>7. Account(c)' /\ Faithful(c)' /\ Apart(c)
  BY <1>1, <1>4 DEF Account, Faithful, Apart
<1>. QED
  BY <1>6, <1>7, OneAccount
-----------------------------------------------------------------------------
\* The events of a log after appending are those before, then those appended.
LEMMA AppendedEvents ==
  ASSUME FeedInv, NEW t \in Tasks, NEW ks \in Seq(Kinds), AppendEvents(t, ks)
  PROVE  /\ Len(ks) \in Nat
         /\ Len(log'[t]) = Len(log[t]) + Len(ks)
         /\ DOMAIN log'[t] = 1 .. Len(log[t]) + Len(ks)
         /\ \A i \in DOMAIN log[t] : i \in DOMAIN log'[t] /\ log'[t][i] = log[t][i]
         /\ \A i \in 1..Len(ks) : log'[t][Len(log[t]) + i] = Stamp(seq[t], ks)[i]
         /\ \A u \in Tasks : u # t => log'[u] = log[u]
<1>. DEFINE evs == Stamp(seq[t], ks)
<1>1. evs \in Seq(Event) /\ Len(evs) = Len(ks) /\ Len(ks) \in Nat /\ Len(evs) \in Nat
  BY StampEvents, LenProperties, LogOf
<1>2. log' = [log EXCEPT ![t] = @ \o evs] /\ log \in [Tasks -> Seq(Event)]
  BY DEF AppendEvents, LogAndFanOut, FeedInv, ServerInv, ServerTypeOK, StoreTypeOK, LogTypeOK
<1>. HIDE DEF evs
<1>3. /\ log[t] \o evs \in Seq(Event)
      /\ Len(log[t] \o evs) = Len(log[t]) + Len(evs)
      /\ \A i \in 1 .. Len(log[t]) + Len(evs) :
           (log[t] \o evs)[i] = IF i <= Len(log[t]) THEN log[t][i] ELSE evs[i - Len(log[t])]
  <2>1. log[t] \in Seq(Event)
    BY LogOf
  <2>. QED
    BY <1>1, <2>1, ConcatProperties
<1>4. log'[t] = log[t] \o evs /\ \A u \in Tasks : u # t => log'[u] = log[u]
  BY <1>2
<1>5. DOMAIN log'[t] = 1 .. Len(log[t]) + Len(ks) /\ Len(log'[t]) = Len(log[t]) + Len(ks)
  BY <1>1, <1>3, <1>4, LenProperties
<1>6. \A i \in DOMAIN log[t] : i \in DOMAIN log'[t] /\ log'[t][i] = log[t][i]
  BY <1>1, <1>3, <1>4, <1>5, LogOf
<1>7. ASSUME NEW i \in 1..Len(ks)
      PROVE  log'[t][Len(log[t]) + i] = evs[i]
  <2>1. /\ Len(log[t]) + i \in 1 .. Len(log[t]) + Len(evs)
        /\ ~(Len(log[t]) + i <= Len(log[t]))
        /\ (Len(log[t]) + i) - Len(log[t]) = i
    BY <1>1, LogOf
  <2>. QED
    BY <1>3, <1>4, <2>1
<1>. QED
  BY <1>1, <1>4, <1>5, <1>6, <1>7 DEF evs

\* An event that is offered to a queue is put into it, in its place, or missed.
LEMMA OfferedEvents ==
  ASSUME NEW q \in Seq(Event), Len(q) <= QueueMax, NEW evs \in Seq(Event),
         NEW o, o = Offer(q, evs)
  PROVE  /\ \A j \in DOMAIN q : j \in DOMAIN o /\ o[j] = q[j]
         /\ \A j \in DOMAIN o : \/ j \in DOMAIN q /\ o[j] = q[j]
                                \/ \E i \in 1..Len(evs) : o[j] = evs[i]
         /\ \A i \in 1..Len(evs) : \/ \E j \in DOMAIN o : o[j] = evs[i]
                                   \/ i \in Room(q, Len(evs)) + 1 .. Len(evs)
<1>. DEFINE m == Room(q, Len(evs))
<1>1. Len(evs) \in Nat /\ Len(q) \in Nat /\ DOMAIN q = 1..Len(q) /\ m \in 0..Len(evs)
  BY LenProperties, OfferBounded
<1>. HIDE DEF m
<1>2. \A i \in 1..m : evs[i] \in Event
  BY <1>1, ElementOfSeq
<1>3. /\ SubSeq(evs, 1, m) \in Seq(Event) /\ Len(SubSeq(evs, 1, m)) = m
      /\ \A i \in 1..m : SubSeq(evs, 1, m)[i] = evs[i]
  BY <1>1, <1>2, SubSeqProperties
<1>4. o = q \o SubSeq(evs, 1, m)
  BY DEF Offer, m
<1>5. /\ o \in Seq(Event) /\ Len(o) = Len(q) + m
      /\ \A i \in 1 .. Len(q) + m :
           o[i] = IF i <= Len(q) THEN q[i] ELSE SubSeq(evs, 1, m)[i - Len(q)]
  BY <1>3, <1>4, ConcatProperties
<1>6. DOMAIN o = 1 .. Len(q) + m
  BY <1>5, LenProperties
<1>7. \A j \in DOMAIN q : j \in DOMAIN o /\ o[j] = q[j]
  BY <1>1, <1>5, <1>6
<1>8. ASSUME NEW j \in DOMAIN o
      PROVE  \/ j \in DOMAIN q /\ o[j] = q[j]
             \/ \E i \in 1..Len(evs) : o[j] = evs[i]
  <2>1. CASE j <= Len(q)
    BY <1>1, <1>5, <1>6, <2>1
  <2>2. CASE j > Len(q)
    <3>1. j - Len(q) \in 1..m /\ j - Len(q) \in 1..Len(evs)
      BY <1>1, <1>6, <2>2
    <3>2. o[j] = SubSeq(evs, 1, m)[j - Len(q)]
      BY <1>1, <1>5, <1>6, <2>2
    <3>. QED
      BY <1>3, <3>1, <3>2
  <2>. QED
    BY <1>1, <1>6, <2>1, <2>2
<1>9. ASSUME NEW i \in 1..Len(evs)
      PROVE  \/ \E j \in DOMAIN o : o[j] = evs[i]
             \/ i \in m + 1 .. Len(evs)
  <2>1. CASE i <= m
    <3>1. /\ Len(q) + i \in 1 .. Len(q) + m /\ ~(Len(q) + i <= Len(q))
          /\ (Len(q) + i) - Len(q) = i /\ i \in 1..m
      BY <1>1, <2>1
    <3>2. o[Len(q) + i] = evs[i]
      BY <1>3, <1>5, <3>1
    <3>. QED
      BY <1>6, <3>1, <3>2
  <2>2. CASE i > m
    BY <1>1, <2>2
  <2>. QED
    BY <1>1, <2>1, <2>2
<1>. QED
  BY <1>7, <1>8, <1>9 DEF m

\* What is logged is offered to the clients that listen to its task, and is due
\* or missed; the others have nothing to do with it.
LEMMA AppendAccounts ==
  ASSUME FeedInv, Accounts, UNCHANGED feedVars,
         NEW t \in Tasks, NEW ks \in Seq(Kinds), AppendEvents(t, ks)
  PROVE  Accounts'
<1>. DEFINE evs == Stamp(seq[t], ks)
<1>1. /\ phase' = phase /\ watching' = watching /\ replay' = replay /\ seen' = seen
      /\ from' = from /\ snapped' = snapped /\ last' = last
  BY DEF feedVars, handlerVars
<1>2. /\ evs \in Seq(Event) /\ Len(evs) = Len(ks)
      /\ \A i \in 1..Len(ks) : evs[i].seq = Len(log[t]) + i
  BY StampEvents, LogOf
<1>3. /\ Len(ks) \in Nat
      /\ Len(log'[t]) = Len(log[t]) + Len(ks)
      /\ DOMAIN log'[t] = 1 .. Len(log[t]) + Len(ks)
      /\ \A i \in DOMAIN log[t] : i \in DOMAIN log'[t] /\ log'[t][i] = log[t][i]
      /\ \A i \in 1..Len(ks) : log'[t][Len(log[t]) + i] = evs[i]
      /\ \A u \in Tasks : u # t => log'[u] = log[u]
  BY AppendedEvents
<1>4. \A c \in Clients :
        /\ inbox'[c] = IF c \in listeners[t] THEN Offer(inbox[c], evs) ELSE inbox[c]
        /\ missed'[c] = IF c \in listeners[t]
                        THEN missed[c] \cup
                               {evs[i].seq : i \in Room(inbox[c], Len(evs)) + 1 .. Len(evs)}
                        ELSE missed[c]
  BY DEF AppendEvents, LogAndFanOut
<1>. HIDE DEF evs
<1>5. ASSUME NEW i \in 1..Len(ks)
      PROVE  evs[i].seq \in DOMAIN log'[t] /\ log'[t][evs[i].seq] = evs[i]
  <2>1. Len(log[t]) + i \in DOMAIN log'[t]
    BY <1>3, LogOf
  <2>. QED
    BY <1>2, <1>3, <2>1
<1>6. \A u \in Tasks : \A i \in DOMAIN log[u] : i \in DOMAIN log'[u] /\ log'[u][i] = log[u][i]
  BY <1>3
<1>7. ASSUME NEW c \in Clients
      PROVE  Account(c)' /\ Faithful(c)' /\ Gapless(c)'
  <2>1. Account(c) /\ Faithful(c) /\ Gapless(c) /\ Exact(c)
    BY ClientTypes DEF Accounts
  <2>2. missed[c] \subseteq missed'[c]
    BY <1>4
  <2>3. Gapless(c)'
    <3>1. missed'[c] = {} => missed[c] = {}
      BY <2>2
    <3>. QED
      BY <1>1, <2>1, <3>1 DEF Gapless
  <2>4. phase[c] = "over" /\ watching[c] # NoTask =>
          /\ watching[c] \in Tasks
          /\ seen[c][Len(seen[c])] \in DOMAIN log'[watching[c]]
          /\ log'[watching[c]][seen[c][Len(seen[c])]].kind \in VerdictKinds
    BY <1>6, <2>1 DEF Faithful, LastKind
  <2>5. phase[c] = "replaying" => \A e \in replay[c] : EventOf(watching[c], e)'
    <3>. SUFFICES ASSUME phase[c] = "replaying", NEW e \in replay[c]
                  PROVE  EventOf(watching[c], e)'
      OBVIOUS
    <3>1. watching[c] \in Tasks /\ EventOf(watching[c], e)
      BY <2>1, ClientTypes DEF Faithful
    <3>. QED
      BY <1>1, <1>6, <3>1 DEF EventOf
  <2>6. CASE c \notin listeners[t]
    <3>1. inbox'[c] = inbox[c] /\ missed'[c] = missed[c]
      BY <1>4, <2>6
    <3>2. phase[c] = "listening" => /\ watching[c] # t /\ watching[c] \in Tasks
                                    /\ log'[watching[c]] = log[watching[c]]
      BY <1>3, <2>1, <2>6, ClientTypes DEF Exact
    <3>3. Account(c)'
      BY <1>1, <2>1, <3>1, <3>2 DEF Account, ReplayAccount, QueueAccount, Covered
    <3>4. phase[c] = "listening" =>
            \A j \in DOMAIN inbox[c] :
              /\ inbox[c][j].seq \in DOMAIN log'[watching[c]]
              /\ log'[watching[c]][inbox[c][j].seq] = inbox[c][j]
      BY <2>1, <3>2 DEF Faithful, EventOf
    <3>5. Faithful(c)'
      BY <1>1, <2>1, <2>4, <2>5, <3>1, <3>4 DEF Faithful, LastKind, EventOf
    <3>. QED
      BY <2>3, <3>3, <3>5
  <2>7. CASE c \in listeners[t]
    <3>1. phase[c] = "listening" /\ watching[c] = t /\ QueueAccount(c)
      BY <2>1, <2>7 DEF Exact, Account
    <3>2. /\ \A j \in DOMAIN inbox[c] : j \in DOMAIN inbox'[c] /\ inbox'[c][j] = inbox[c][j]
          /\ \A j \in DOMAIN inbox'[c] :
               \/ j \in DOMAIN inbox[c] /\ inbox'[c][j] = inbox[c][j]
               \/ \E i \in 1..Len(evs) : inbox'[c][j] = evs[i]
          /\ \A i \in 1..Len(evs) :
               \/ \E j \in DOMAIN inbox'[c] : inbox'[c][j] = evs[i]
               \/ i \in Room(inbox[c], Len(evs)) + 1 .. Len(evs)
      <4>1. inbox[c] \in Seq(Event) /\ Len(inbox[c]) <= QueueMax
        BY ClientTypes DEF QueuesTyped
      <4>2. inbox'[c] = Offer(inbox[c], evs)
        BY <1>4, <2>7
      <4>3. evs \in Seq(Event)
        BY <1>2
      <4>. QED
        BY <4>1, <4>2, <4>3, OfferedEvents
    <3>3. \A i \in 1..Len(ks) :
            \/ \E j \in DOMAIN inbox'[c] : inbox'[c][j] = evs[i]
            \/ evs[i].seq \in missed'[c]
      BY <1>2, <1>4, <2>7, <3>2
    <3>4. ASSUME NEW n \in from[c] + 1 .. Len(log'[t])
          PROVE  (n \in Covered(c))'
      <4>1. CASE n <= Len(log[t])
        <5>1. n \in Covered(c)
          BY <3>1, <4>1, ClientTypes, LogOf DEF QueueAccount
        <5>2. CASE \E j \in DOMAIN inbox[c] : inbox[c][j].seq = n
          BY <3>2, <5>2 DEF Covered
        <5>3. CASE n \in missed[c]
          BY <2>2, <5>3 DEF Covered
        <5>4. CASE \/ \E i \in DOMAIN seen[c] : seen[c][i] = n
                   \/ \E o \in replay[c] : o.seq = n
          BY <1>1, <5>4 DEF Covered
        <5>. QED
          BY <5>1, <5>2, <5>3, <5>4 DEF Covered
      <4>2. CASE n > Len(log[t])
        <5>1. n - Len(log[t]) \in 1..Len(ks) /\ n = Len(log[t]) + (n - Len(log[t]))
          BY <1>3, <4>2, ClientTypes, LogOf
        <5>2. evs[n - Len(log[t])].seq = n
          BY <1>2, <5>1
        <5>. QED
          BY <3>3, <5>1, <5>2 DEF Covered
      <4>. QED
        BY <4>1, <4>2, <1>3, LogOf, ClientTypes
    <3>5. QueueAccount(c)'
      BY <1>1, <3>1, <3>4 DEF QueueAccount
    <3>6. Account(c)'
      BY <1>1, <2>1, <3>1, <3>5 DEF Account
    <3>7. ASSUME NEW j \in DOMAIN inbox'[c]
          PROVE  inbox'[c][j].seq \in DOMAIN log'[t] /\ log'[t][inbox'[c][j].seq] = inbox'[c][j]
      <4>1. CASE j \in DOMAIN inbox[c] /\ inbox'[c][j] = inbox[c][j]
        <5>1. EventOf(t, inbox[c][j])
          BY <2>1, <3>1, <4>1 DEF Faithful
        <5>. QED
          BY <1>6, <4>1, <5>1 DEF EventOf
      <4>2. ASSUME NEW i \in 1..Len(evs), inbox'[c][j] = evs[i]
            PROVE  inbox'[c][j].seq \in DOMAIN log'[t] /\ log'[t][inbox'[c][j].seq] = inbox'[c][j]
        BY <1>2, <1>5, <4>2
      <4>. QED
        BY <3>2, <4>1, <4>2
    <3>8. Faithful(c)'
      BY <1>1, <3>1, <3>7 DEF Faithful, EventOf
    <3>. QED
      BY <2>3, <3>6, <3>8
  <2>. QED
    BY <2>6, <2>7
<1>. QED
  BY <1>7 DEF Accounts

\* A step of the server logs, or leaves the clients alone.
LEMMA ServerAccounts ==
  ASSUME FeedInv, Accounts, [ServerNext]_serverVars, UNCHANGED feedVars
  PROVE  Accounts'
<1>1. \/ log' = log /\ inbox' = inbox /\ missed' = missed
      \/ \E t \in Tasks, ks \in Seq(Kinds) : AppendEvents(t, ks)
  BY LogStep DEF FeedInv, logVars
<1>2. CASE log' = log /\ inbox' = inbox /\ missed' = missed
  <2>1. /\ phase' = phase /\ watching' = watching /\ replay' = replay /\ seen' = seen
        /\ from' = from /\ snapped' = snapped /\ last' = last
    BY DEF feedVars, handlerVars
  <2>2. ASSUME NEW c \in Clients
        PROVE  Account(c)' /\ Faithful(c)' /\ Gapless(c)'
    <3>1. Account(c) /\ Faithful(c) /\ Gapless(c)
      BY DEF Accounts
    <3>2. Account(c)'
      BY <1>2, <2>1, <3>1 DEF Account, ReplayAccount, QueueAccount, Covered
    <3>3. Faithful(c)' /\ Gapless(c)'
      BY <1>2, <2>1, <3>1 DEF Faithful, EventOf, LastKind, Gapless
    <3>. QED
      BY <3>2, <3>3
  <2>. QED
    BY <2>2 DEF Accounts
<1>. QED
  BY <1>1, <1>2, AppendAccounts

\* Before the first step no client has a task, and none was sent anything.
LEMMA AccountsInit == ProcessInit => Accounts
<1>. SUFFICES ASSUME ProcessInit, NEW c \in Clients
              PROVE  Account(c) /\ Faithful(c) /\ Gapless(c)
  BY DEF Accounts
<1>1. phase[c] = "idle" /\ watching[c] = NoTask /\ seen[c] = <<>> /\ DOMAIN <<>> = {}
  BY DEF ProcessInit, HandlerInit
<1>. QED
  BY <1>1 DEF Account, Faithful, Gapless

\* The accounts are kept by every step.
LEMMA AccountsStep == FeedInv /\ Accounts /\ [ProcessNext]_processVars => Accounts'
<1>. SUFFICES ASSUME FeedInv, Accounts, [ProcessNext]_processVars
              PROVE  Accounts'
  OBVIOUS
<1>1. CASE ServerSide \/ Quiet \/ UNCHANGED processVars
  BY <1>1, ServerAccounts DEF ServerSide, Quiet, ServerNext, processVars, serverVars
<1>2. CASE StreamSide
  BY <1>2, SendAccounts, SubscribeAccounts, ForwardAccounts, SkipAccounts DEF StreamSide
<1>3. CASE ClientSide
  BY <1>3, ConnectAccounts, NotFoundAccounts, DisconnectAccounts DEF ClientSide
<1>. QED
  BY <1>1, <1>2, <1>3 DEF ProcessNext

\* The accounts of all clients hold in every reachable state.
THEOREM AccountsHold == ProcessSpec => []Accounts
BY AccountsInit, AccountsStep, ProcessInvariance, PTL DEF ProcessSpec

\* Whatever a client of a task does not get was logged between its snapshot and
\* its registration, or found its queue full, however often it reconnects.
THEOREM LossesAreAccounted == ProcessSpec => []LossAccounted
<1>1. Accounts => LossAccounted
  BY DEF Accounts, Account, ReplayAccount, QueueAccount, LossAccounted
<1>. QED
  BY <1>1, AccountsHold, PTL

\* A client that missed nothing was sent consecutive numbers, through snapshot,
\* queue and reconnections.
THEOREM NothingIsLost == ProcessSpec => []NothingLost
<1>1. Accounts => NothingLost
  BY DEF Accounts, Gapless, NothingLost
<1>. QED
  BY <1>1, AccountsHold, PTL

-----------------------------------------------------------------------------
\* A log has both an ok result and an error only if a save may fail.
SavesMayFail == \A t \in Tasks : LogHas(t, {"ok"}) /\ LogHas(t, {"error"}) => SaveMayFail

\* What a status is made of.
StatusInv == VerdictMatchesLog /\ SavesMayFail

LEMMA StatusInit == ProcessInit => StatusInv
<1>1. DOMAIN <<>> = {}
  OBVIOUS
<1>2. ProcessInit => SavesMayFail
  BY <1>1 DEF ProcessInit, ServerInit, StoreInit, SavesMayFail, LogHas
<1>. QED
  BY <1>2, AgreementInit DEF ProcessInit, StatusInv

\* Only the save of a run that has logged its result adds an error to it.
LEMMA SavesStep ==
  ASSUME ServerInv, VerdictMatchesLog, SavesMayFail, [ServerNext]_serverVars
  PROVE  SavesMayFail'
<1>. SUFFICES ASSUME NEW u \in Tasks, LogHas(u, {"ok"})', LogHas(u, {"error"})'
              PROVE  SaveMayFail
  BY DEF SavesMayFail
<1>1. Agrees(u) /\ (LogHas(u, {"ok"}) /\ LogHas(u, {"error"}) => SaveMayFail)
  BY DEF VerdictMatchesLog, Agrees, SavesMayFail
<1>2. CASE StillShape
  BY <1>1, <1>2 DEF StillShape, LogHas
<1>3. ASSUME NEW t \in Tasks, NEW ks \in Seq(Kinds), Shaped(t, ks)
      PROVE  SaveMayFail
  <2>1. LogTypeOK /\ AppendEvents(t, ks)
    BY <1>3 DEF ServerInv, ServerTypeOK, StoreTypeOK, Shaped, SilentShape, SubmitShape,
                ClaimShape, ConcludeShape
  <2>2. /\ LogHas(u, {"error"})' <=> LogHas(u, {"error"}) \/ (u = t /\ HasKind(ks, {"error"}))
        /\ LogHas(u, {"ok"})' <=> LogHas(u, {"ok"}) \/ (u = t /\ HasKind(ks, {"ok"}))
    BY <2>1, AppendKinds
  <2>3. CASE ConcludeShape(t, ks)
    <3>1. u = t => ~LogHas(u, {"ok"}) /\ ~LogHas(u, {"error"})
      BY <1>1, <2>3, NoVerdictYet DEF ConcludeShape, Verdicts
    <3>. QED
      BY <1>1, <2>2, <2>3, <3>1 DEF ConcludeShape
  <2>4. CASE Silent(ks)
    BY <1>1, <2>2, <2>4, SilentKinds
  <2>. QED
    BY <1>3, <2>3, <2>4 DEF Shaped, SilentShape, SubmitShape, ClaimShape
<1>. QED
  BY <1>2, <1>3, ShapeStep

\* Streams and clients touch neither status nor log.
LEMMA StatusStep == FeedInv /\ StatusInv /\ [ProcessNext]_processVars => StatusInv'
<1>. SUFFICES ASSUME FeedInv, StatusInv, [ProcessNext]_processVars
              PROVE  StatusInv'
  OBVIOUS
<1>1. CASE [ServerNext]_serverVars
  BY <1>1, AgreementStep, SavesStep DEF FeedInv, StatusInv
<1>2. CASE UNCHANGED <<status, log>>
  BY <1>2 DEF StatusInv, VerdictMatchesLog, SavesMayFail, LogHas
<1>3. CASE ServerSide \/ Quiet \/ UNCHANGED processVars
  BY <1>1, <1>3 DEF ServerSide, Quiet, ServerNext, processVars, serverVars
<1>4. CASE StreamSide
  BY <1>2, <1>4 DEF StreamSide, SendReplay, Subscribe, Forward, Skip, storeVars
<1>5. CASE ClientSide
  BY <1>2, <1>5 DEF ClientSide, Connect, Reconnect, Open, NotFound, Disconnect, storeVars
<1>. QED
  BY <1>3, <1>4, <1>5 DEF ProcessNext

\* A client whose stream has ended was sent the task's verdict last, and finds
\* the status that goes with it; only when saves may fail can an ok result have
\* been followed by an error.
THEOREM StreamsTellTheStatus == ProcessSpec => []StreamTellsStatus
<1>1. FeedInv /\ Accounts /\ StatusInv => StreamTellsStatus
  <2>. SUFFICES ASSUME FeedInv, Accounts, StatusInv, NEW c \in Clients,
                       phase[c] = "over", watching[c] # NoTask
                PROVE  \/ LastKind(c) = "cancelled" /\ status[watching[c]] = "cancelled"
                       \/ LastKind(c) = "error" /\ status[watching[c]] = "failed"
                       \/ /\ LastKind(c) = "ok"
                          /\ status[watching[c]] \in
                               {"succeeded"} \cup (IF SaveMayFail THEN {"failed"} ELSE {})
    BY DEF StreamTellsStatus
  <2>1. /\ watching[c] \in Tasks
        /\ seen[c][Len(seen[c])] \in DOMAIN log[watching[c]]
        /\ LastKind(c) \in {"ok", "cancelled", "error"}
    BY KindFacts DEF Accounts, Faithful
  <2>2. LogHas(watching[c], {LastKind(c)})
    BY <2>1 DEF LogHas, LastKind
  <2>3. /\ status[watching[c]] = "failed" <=> LogHas(watching[c], {"error"})
        /\ status[watching[c]] = "cancelled" <=> LogHas(watching[c], {"cancelled"})
        /\ status[watching[c]] = "succeeded" <=>
             LogHas(watching[c], {"ok"}) /\ ~LogHas(watching[c], {"error"})
        /\ LogHas(watching[c], {"ok"}) /\ LogHas(watching[c], {"error"}) => SaveMayFail
    BY <2>1 DEF StatusInv, VerdictMatchesLog, SavesMayFail
  <2>4. CASE LastKind(c) = "cancelled"
    BY <2>2, <2>3, <2>4
  <2>5. CASE LastKind(c) = "error"
    BY <2>2, <2>3, <2>5
  <2>6. CASE LastKind(c) = "ok"
    <3>1. LogHas(watching[c], {"ok"})
      BY <2>2, <2>6
    <3>. QED
      BY <2>3, <2>6, <3>1
  <2>. QED
    BY <2>1, <2>4, <2>5, <2>6
<1>. QED
  BY <1>1, StatusInit, StatusStep, ProcessInvariance, AccountsHold, PTL DEF ProcessSpec

=============================================================================
