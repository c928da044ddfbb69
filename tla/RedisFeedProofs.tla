-------------------------- MODULE RedisFeedProofs ---------------------------
(***************************************************************************)
(* The streams over Redis beside the API process and the workers, proved   *)
(* for any number of tasks, clients, workers and faults.                   *)
(*                                                                         *)
(* To RedisInv the streams add two facts about each connection: what it    *)
(* was sent is in two parts, each in the order of the numbers, and every   *)
(* number of its log was sent, is on its way or was lost in a named way.   *)
(***************************************************************************)
EXTENDS RedisFeed, RedisServerProofs

\* The numbers of a sequence of events grow between two positions.
Grow(s, from, to) ==
  \A i, j \in DOMAIN s : from < i /\ i < j /\ j <= to => s[i].seq < s[j].seq

\* A connection has sent two parts, each in the order of the numbers: the
\* snapshot, whose rest is beyond what was sent, and live events up to "last".
SentInv(c) ==
  LET r == conn[c] IN
  /\ r.live <= Len(r.sent)
  /\ Grow(r.sent, 0, r.live)
  /\ Grow(r.sent, r.live, Len(r.sent))
  /\ r.phase = "idle" => r.sent = <<>> /\ r.live = 0
  /\ r.phase = "replaying" =>
       /\ r.live = Len(r.sent)
       /\ \A e \in r.replay :
            /\ \A i \in DOMAIN r.sent : r.sent[i].seq < e.seq
            /\ \A o \in r.replay : e.seq = o.seq => e = o
  /\ r.phase = "listening" =>
       \A i \in DOMAIN r.sent : r.live < i => r.sent[i].seq <= r.last

\* n was sent to c, is on its way to it, or was lost to it.
Accounted(c, n) ==
  \/ n \in SentNumbers(c) \cup conn[c].missed \cup Unpublished(conn[c].task)
  \/ \E i \in DOMAIN inbox[c] : inbox[c][i].seq = n

\* LossAccounted, for one connection; whoever reads a log reads that of a task.
LossInv(c) ==
  LET r == conn[c] IN
  /\ r.phase \in {"replaying", "listening"} => r.task \in Tasks
  /\ r.phase = "listening" /\ faults = 0 =>
       \A n \in Logged(r.task) : n > r.from => Accounted(c, n)

FeedInv == RedisInv /\ \A c \in Clients : SentInv(c) /\ LossInv(c)

-----------------------------------------------------------------------------
(***************************************************************************)
(* What a step of a handler does to its connection.                        *)
(***************************************************************************)

\* Only the connection c and its subscription change.
Only(c) ==
  /\ \A d \in Clients : d # c => conn'[d] = conn[d] /\ inbox'[d] = inbox[d]
  /\ UNCHANGED <<metaVars, seq, log, queueVars, memory, actorVars, runVars>>

Connected(c) ==
  /\ conn[c].phase = "idle" /\ conn'[c].phase = "replaying"
  /\ conn'[c].task \in Tasks
  /\ conn'[c].replay = ReplayEvents(conn'[c].task, conn'[c].from)
  /\ conn'[c].sent = <<>> /\ conn'[c].live = 0

Replayed(c, e) ==
  /\ conn[c].phase = "replaying" /\ e \in conn[c].replay
  /\ \A o \in conn[c].replay : e.seq <= o.seq
  /\ conn'[c].phase \in {"replaying", "over"} /\ conn'[c].task = conn[c].task
  /\ conn'[c].replay = conn[c].replay \ {e}
  /\ conn'[c].sent = Append(conn[c].sent, e) /\ conn'[c].live = conn[c].live + 1

Listens(c) ==
  /\ conn[c].phase = "replaying" /\ conn'[c].phase = "listening"
  /\ conn'[c].task = conn[c].task /\ conn'[c].from = conn[c].from
  /\ conn'[c].sent = conn[c].sent /\ conn'[c].live = conn[c].live
  /\ \A n \in Logged(conn[c].task) :
       n > conn[c].from => n \in SentNumbers(c) \cup Unpublished(conn[c].task) \cup conn'[c].missed

Forwarded(c, e) ==
  /\ conn[c].phase = "listening" /\ inbox[c] # <<>> /\ e = Head(inbox[c]) /\ e.seq > conn[c].last
  /\ conn'[c].phase \in {"listening", "over"}
  /\ conn'[c].task = conn[c].task /\ conn'[c].from = conn[c].from /\ conn'[c].missed = conn[c].missed
  /\ conn'[c].sent = Append(conn[c].sent, e) /\ conn'[c].live = conn[c].live
  /\ conn'[c].last = e.seq
  /\ conn'[c].phase = "listening" => inbox'[c] = Tail(inbox[c])

Skipped(c, e) ==
  /\ conn[c].phase = "listening" /\ inbox[c] # <<>> /\ e = Head(inbox[c])
  /\ conn'[c].phase = "listening"
  /\ conn'[c].task = conn[c].task /\ conn'[c].from = conn[c].from /\ conn'[c].last = conn[c].last
  /\ conn'[c].sent = conn[c].sent /\ conn'[c].live = conn[c].live
  /\ conn[c].missed \subseteq conn'[c].missed
  /\ e.seq \in SentNumbers(c) \cup conn'[c].missed \/ e.seq <= conn[c].from
  /\ inbox'[c] = Tail(inbox[c])

Left(c) ==
  /\ conn'[c].phase = "gone"
  /\ conn'[c].sent = conn[c].sent /\ conn'[c].live = conn[c].live

FeedMove(c) ==
  \/ Connected(c) \/ Listens(c) \/ Left(c)
  \/ \E e \in Event : Replayed(c, e) \/ Forwarded(c, e) \/ Skipped(c, e)

\* What a handler writes is a connection, and no one else sees it.
LEMMA BecomesOnly ==
  ASSUME RedisTypeOK, NEW c \in Clients, NEW r \in Conns, Becomes(c, r),
         NEW q \in Seq(Event), inbox' = [inbox EXCEPT ![c] = q]
  PROVE  /\ Only(c) /\ conn'[c] = r /\ inbox'[c] = q
         /\ conn' \in [Clients -> Conns] /\ inbox' \in [Clients -> Seq(Event)]
<1>1. conn \in [Clients -> Conns] /\ inbox \in [Clients -> Seq(Event)]
  BY DEF RedisTypeOK, StoreTypeOK
<1>2. /\ conn' = [conn EXCEPT ![c] = r]
      /\ UNCHANGED <<metaVars, seq, log, queueVars, memory, actorVars, runVars>>
  BY DEF Becomes
<1>. QED
  BY <1>1, <1>2 DEF Only

\* The events of the log beyond a number are events of the log.
LEMMA SnapshotOfLog ==
  ASSUME RedisTypeOK, NEW t \in Tasks, NEW f
  PROVE  /\ ReplayEvents(t, f) \subseteq Event
         /\ \A e \in ReplayEvents(t, f) : \E i \in DOMAIN log[t] : log[t][i] = e
         /\ Logged(t) \subseteq Nat
<1>1. log[t] \in Seq({e \in Event : e.seq > 0})
  BY DEF RedisTypeOK, StoreTypeOK
<1>2. \A i \in DOMAIN log[t] : log[t][i] \in {e \in Event : e.seq > 0}
  BY <1>1, ElementOfSeq
<1>3. \A i \in DOMAIN log[t] : log[t][i] \in Event /\ log[t][i].seq \in Nat
  BY <1>2 DEF Event
<1>. QED
  BY <1>3 DEF ReplayEvents, Logged

\* A handler that sends an event writes a connection, ...
LEMMA SendingConn ==
  ASSUME NEW r \in Conns, NEW q \in Seq(Event), NEW p \in ConnPhases, NEW R \in SUBSET Event,
         NEW l \in Nat, NEW k \in Nat
  PROVE  /\ [[r EXCEPT !.sent = q] EXCEPT !.replay = R, !.live = k, !.phase = p] \in Conns
         /\ [[r EXCEPT !.sent = q] EXCEPT !.last = l, !.phase = p] \in Conns
BY DEF Conns

\* ... and so does one that only goes on.
LEMMA WaitingConn ==
  ASSUME NEW r \in Conns, NEW p \in ConnPhases, NEW R \in SUBSET Event, NEW m \in SUBSET Nat
  PROVE  /\ [r EXCEPT !.phase = p, !.missed = m] \in Conns
         /\ [r EXCEPT !.missed = m] \in Conns
         /\ [r EXCEPT !.phase = p, !.replay = R] \in Conns
BY DEF Conns

\* Every step of a handler or of a client is one of these.
LEMMA FeedMoves ==
  ASSUME RedisTypeOK, NEW c \in Clients, HandlerStep(c) \/ ConnectionStep(c),
         conn[c].phase = "replaying" => conn[c].task \in Tasks
  PROVE  /\ Only(c) /\ FeedMove(c)
         /\ conn' \in [Clients -> Conns] /\ inbox' \in [Clients -> Seq(Event)]
<1>. DEFINE r == conn[c]
<1>0. /\ r \in Conns /\ inbox[c] \in Seq(Event)
      /\ inbox = [inbox EXCEPT ![c] = inbox[c]]
      /\ inbox \in [Clients -> Seq(Event)]
  BY DEF RedisTypeOK, StoreTypeOK
<1>1. /\ r.phase \in ConnPhases /\ r.task \in Tasks \cup {NoTask} /\ r.from \in Nat
      /\ r.replay \in SUBSET Event /\ r.last \in Nat /\ r.sent \in Seq(Event)
      /\ r.live \in Nat /\ r.missed \in SUBSET Nat
  BY <1>0 DEF Conns
<1>2. \A e \in Event : e.seq \in Nat /\ Append(r.sent, e) \in Seq(Event)
  BY <1>1, AppendProperties DEF Event
<1>. HIDE DEF r
<1>3. ASSUME NEW t \in Tasks, NEW f \in 0..MaxFrom, Connect(c, t, f)
      PROVE  /\ Only(c) /\ FeedMove(c)
             /\ conn' \in [Clients -> Conns] /\ inbox' \in [Clients -> Seq(Event)]
  <2>. DEFINE n == [NoConn EXCEPT !.phase = "replaying", !.task = t, !.from = f,
                                  !.replay = ReplayEvents(t, f), !.last = f]
  <2>1. r.phase = "idle" /\ Becomes(c, n) /\ inbox' = inbox
    BY <1>3 DEF Connect, r
  <2>2. f \in Nat /\ ReplayEvents(t, f) \in SUBSET Event /\ <<>> \in Seq(Event)
    BY MaxFromAssumption, SnapshotOfLog
  <2>3. n \in Conns
    BY <2>2 DEF Conns, ConnPhases, NoConn
  <2>4. /\ n.phase = "replaying" /\ n.task = t /\ n.from = f /\ n.replay = ReplayEvents(t, f)
        /\ n.sent = <<>> /\ n.live = 0
    BY DEF NoConn
  <2>. HIDE DEF n
  <2>5. /\ Only(c) /\ conn'[c] = n
        /\ conn' \in [Clients -> Conns] /\ inbox' \in [Clients -> Seq(Event)]
    BY <1>0, <2>1, <2>3, BecomesOnly
  <2>6. Connected(c)
    BY <2>1, <2>4, <2>5 DEF Connected, r
  <2>. QED
    BY <2>5, <2>6 DEF FeedMove
<1>4. ASSUME SendReplay(c)
      PROVE  /\ Only(c) /\ FeedMove(c)
             /\ conn' \in [Clients -> Conns] /\ inbox' \in [Clients -> Seq(Event)]
  <2>1. PICK e \in r.replay :
          /\ r.phase = "replaying" /\ \A o \in r.replay : e.seq <= o.seq
          /\ Becomes(c, [Send(r, e) EXCEPT !.replay = @ \ {e}, !.live = @ + 1,
                                           !.phase = IF IsVerdict(e) THEN "over" ELSE @])
          /\ inbox' = inbox
    BY <1>4 DEF SendReplay, r
  <2>. DEFINE p == IF IsVerdict(e) THEN "over" ELSE r.phase
              n == [[r EXCEPT !.sent = Append(r.sent, e)]
                     EXCEPT !.replay = r.replay \ {e}, !.live = r.live + 1, !.phase = p]
  <2>2. p \in {"replaying", "over"}
    BY <2>1
  <2>3. n = [Send(r, e) EXCEPT !.replay = @ \ {e}, !.live = @ + 1,
                               !.phase = IF IsVerdict(e) THEN "over" ELSE @]
    BY <1>0 DEF Send, Conns
  <2>4. /\ e \in Event /\ Append(r.sent, e) \in Seq(Event)
        /\ r.replay \ {e} \in SUBSET Event /\ r.live + 1 \in Nat
    BY <1>1, <1>2, <2>1
  <2>. HIDE DEF p
  <2>5. n \in Conns
    <3>1. p \in ConnPhases
      BY <2>2 DEF ConnPhases
    <3>. QED
      BY <1>0, <2>4, <3>1, SendingConn
  <2>6. /\ n.phase = p /\ n.task = r.task /\ n.replay = r.replay \ {e}
        /\ n.sent = Append(r.sent, e) /\ n.live = r.live + 1
    BY <1>0 DEF Conns
  <2>7. Becomes(c, n)
    BY <2>1, <2>3
  <2>. HIDE DEF n
  <2>8. /\ Only(c) /\ conn'[c] = n
        /\ conn' \in [Clients -> Conns] /\ inbox' \in [Clients -> Seq(Event)]
    BY <1>0, <2>1, <2>5, <2>7, BecomesOnly
  <2>9. Replayed(c, e)
    BY <2>1, <2>2, <2>6, <2>8 DEF Replayed, r
  <2>. QED
    BY <2>4, <2>8, <2>9 DEF FeedMove
<1>5. ASSUME Subscribe(c)
      PROVE  /\ Only(c) /\ FeedMove(c)
             /\ conn' \in [Clients -> Conns] /\ inbox' \in [Clients -> Seq(Event)]
  <2>. DEFINE m == {k \in Logged(r.task) : k > r.from} \ (SentNumbers(c) \cup Unpublished(r.task))
              n == [r EXCEPT !.phase = "listening", !.missed = m]
  <2>1. r.phase = "replaying" /\ Becomes(c, n) /\ inbox' = inbox
    BY <1>5 DEF Subscribe, r
  <2>2. m \in SUBSET Nat
    <3>1. Logged(r.task) \subseteq Nat
      BY <2>1, SnapshotOfLog DEF r
    <3>. QED
      BY <3>1
  <2>3. \A k \in Logged(r.task) : k > r.from => k \in SentNumbers(c) \cup Unpublished(r.task) \cup m
    OBVIOUS
  <2>. HIDE DEF m
  <2>4. n \in Conns
    <3>1. "listening" \in ConnPhases
      BY DEF ConnPhases
    <3>. QED
      BY <1>0, <2>2, <3>1, WaitingConn
  <2>5. /\ n.phase = "listening" /\ n.task = r.task /\ n.from = r.from
        /\ n.sent = r.sent /\ n.live = r.live /\ n.missed = m
    BY <1>0 DEF Conns
  <2>. HIDE DEF n
  <2>6. /\ Only(c) /\ conn'[c] = n
        /\ conn' \in [Clients -> Conns] /\ inbox' \in [Clients -> Seq(Event)]
    BY <1>0, <2>1, <2>4, BecomesOnly
  <2>7. Listens(c)
    BY <2>1, <2>3, <2>5, <2>6 DEF Listens, r
  <2>. QED
    BY <2>6, <2>7 DEF FeedMove
<1>6. ASSUME Forward(c)
      PROVE  /\ Only(c) /\ FeedMove(c)
             /\ conn' \in [Clients -> Conns] /\ inbox' \in [Clients -> Seq(Event)]
  <2>. DEFINE e == Head(inbox[c])
              p == IF IsVerdict(e) THEN "over" ELSE r.phase
              n == [[r EXCEPT !.sent = Append(r.sent, e)] EXCEPT !.last = e.seq, !.phase = p]
              q == IF IsVerdict(e) THEN <<>> ELSE Tail(inbox[c])
  <2>1. /\ r.phase = "listening" /\ inbox[c] # <<>> /\ e.seq > r.last
        /\ Becomes(c, [Send(r, e) EXCEPT !.last = e.seq, !.phase = IF IsVerdict(e) THEN "over" ELSE @])
        /\ inbox' = [inbox EXCEPT ![c] = q]
    BY <1>0, <1>6 DEF Forward, r
  <2>2. p \in {"listening", "over"} /\ (p = "listening" => q = Tail(inbox[c]))
    BY <2>1
  <2>3. n = [Send(r, e) EXCEPT !.last = e.seq, !.phase = IF IsVerdict(e) THEN "over" ELSE @]
    BY <1>0 DEF Send, Conns
  <2>4. e \in Event /\ Tail(inbox[c]) \in Seq(Event) /\ <<>> \in Seq(Event)
    BY <1>0, <2>1, HeadTailProperties
  <2>5. e.seq \in Nat /\ Append(r.sent, e) \in Seq(Event) /\ q \in Seq(Event)
    BY <1>2, <2>4
  <2>. HIDE DEF p, e
  <2>6. n \in Conns
    <3>1. p \in ConnPhases
      BY <2>2 DEF ConnPhases
    <3>. QED
      BY <1>0, <1>1, <2>5, <3>1, SendingConn
  <2>7. /\ n.phase = p /\ n.task = r.task /\ n.from = r.from /\ n.missed = r.missed
        /\ n.sent = Append(r.sent, e) /\ n.live = r.live /\ n.last = e.seq
    BY <1>0 DEF Conns
  <2>8. Becomes(c, n)
    BY <2>1, <2>3
  <2>. HIDE DEF n, q
  <2>9. /\ Only(c) /\ conn'[c] = n /\ inbox'[c] = q
        /\ conn' \in [Clients -> Conns] /\ inbox' \in [Clients -> Seq(Event)]
    BY <2>1, <2>5, <2>6, <2>8, BecomesOnly
  <2>10. Forwarded(c, e)
    BY <2>1, <2>2, <2>7, <2>9 DEF Forwarded, r, e
  <2>. QED
    BY <2>4, <2>9, <2>10 DEF FeedMove
<1>7. ASSUME Skip(c)
      PROVE  /\ Only(c) /\ FeedMove(c)
             /\ conn' \in [Clients -> Conns] /\ inbox' \in [Clients -> Seq(Event)]
  <2>. DEFINE e == Head(inbox[c])
              m == r.missed \cup ({e.seq} \ (SentNumbers(c) \cup 0..r.from))
              n == [r EXCEPT !.missed = m]
              q == Tail(inbox[c])
  <2>1. /\ r.phase = "listening" /\ inbox[c] # <<>>
        /\ Becomes(c, [r EXCEPT !.missed = @ \cup ({e.seq} \ (SentNumbers(c) \cup 0..r.from))])
        /\ inbox' = [inbox EXCEPT ![c] = q]
    BY <1>0, <1>7 DEF Skip, r
  <2>2. e \in Event /\ q \in Seq(Event)
    BY <1>0, <2>1, HeadTailProperties
  <2>3. e.seq \in Nat
    BY <1>2, <2>2
  <2>. HIDE DEF e
  <2>4. m \in SUBSET Nat /\ r.missed \subseteq m
    BY <1>1, <2>3
  <2>5. e.seq \in SentNumbers(c) \cup m \/ e.seq <= r.from
    BY <1>1, <2>3
  <2>6. Becomes(c, n)
    BY <2>1
  <2>. HIDE DEF m
  <2>7. n \in Conns
    BY <1>0, <1>1, <2>4, WaitingConn
  <2>8. /\ n.phase = r.phase /\ n.task = r.task /\ n.from = r.from /\ n.last = r.last
        /\ n.sent = r.sent /\ n.live = r.live /\ n.missed = m
    BY <1>0 DEF Conns
  <2>. HIDE DEF n
  <2>9. /\ Only(c) /\ conn'[c] = n /\ inbox'[c] = q
        /\ conn' \in [Clients -> Conns] /\ inbox' \in [Clients -> Seq(Event)]
    BY <2>1, <2>2, <2>6, <2>7, BecomesOnly
  <2>10. Skipped(c, e)
    BY <2>1, <2>4, <2>5, <2>8, <2>9 DEF Skipped, r, e
  <2>. QED
    BY <2>2, <2>9, <2>10 DEF FeedMove
<1>8. ASSUME Disconnect(c)
      PROVE  /\ Only(c) /\ FeedMove(c)
             /\ conn' \in [Clients -> Conns] /\ inbox' \in [Clients -> Seq(Event)]
  <2>. DEFINE n == [r EXCEPT !.phase = "gone", !.replay = {}]
  <2>1. Becomes(c, n) /\ inbox' = [inbox EXCEPT ![c] = <<>>] /\ <<>> \in Seq(Event)
    BY <1>8 DEF Disconnect, r
  <2>2. n \in Conns
    <3>1. "gone" \in ConnPhases /\ {} \in SUBSET Event
      BY DEF ConnPhases
    <3>. QED
      BY <1>0, <1>1, <3>1, WaitingConn
  <2>3. n.phase = "gone" /\ n.sent = r.sent /\ n.live = r.live
    BY <1>0 DEF Conns
  <2>. HIDE DEF n
  <2>4. /\ Only(c) /\ conn'[c] = n
        /\ conn' \in [Clients -> Conns] /\ inbox' \in [Clients -> Seq(Event)]
    BY <2>1, <2>2, BecomesOnly
  <2>5. Left(c)
    BY <2>3, <2>4 DEF Left, r
  <2>. QED
    BY <2>4, <2>5 DEF FeedMove
<1>. QED
  BY <1>3, <1>4, <1>5, <1>6, <1>7, <1>8 DEF HandlerStep, ConnectionStep

-----------------------------------------------------------------------------
(***************************************************************************)
(* What was sent is in order.                                              *)
(***************************************************************************)

\* The numbers of what a connection holds are numbers.
LEMMA EventsOfConn ==
  ASSUME RedisTypeOK, NEW c \in Clients
  PROVE  LET r == conn[c] IN
         /\ r.sent \in Seq(Event) /\ Len(r.sent) \in Nat /\ DOMAIN r.sent = 1..Len(r.sent)
         /\ \A i \in DOMAIN r.sent : r.sent[i] \in Event /\ r.sent[i].seq \in Nat
         /\ \A e \in r.replay : e \in Event
         /\ \A e \in Event : e.seq \in Nat
         /\ r.last \in Nat /\ r.live \in Nat /\ r.from \in Nat
<1>1. conn[c].sent \in Seq(Event) /\ conn[c].replay \in SUBSET Event /\ conn[c].last \in Nat
      /\ conn[c].live \in Nat /\ conn[c].from \in Nat
  BY DEF RedisTypeOK, StoreTypeOK, Conns
<1>2. \A e \in Event : e.seq \in Nat
  BY DEF Event
<1>3. Len(conn[c].sent) \in Nat /\ DOMAIN conn[c].sent = 1..Len(conn[c].sent)
  BY <1>1, LenProperties
<1>4. \A i \in DOMAIN conn[c].sent : conn[c].sent[i] \in Event
  BY <1>1, ElementOfSeq
<1>. QED
  BY <1>1, <1>2, <1>3, <1>4

\* One more event sent.
LEMMA OneMoreSent ==
  ASSUME NEW s \in Seq(Event), NEW e \in Event
  PROVE  LET n == Len(s) + 1
             q == Append(s, e) IN
         /\ Len(s) \in Nat /\ DOMAIN s = 1..Len(s)
         /\ Len(q) = n /\ DOMAIN q = 1..n
         /\ q[n] = e /\ \A i \in 1..Len(s) : q[i] = s[i]
<1>1. Len(s) \in Nat /\ DOMAIN s = 1..Len(s)
  BY LenProperties
<1>2. Append(s, e) \in Seq(Event) /\ Len(Append(s, e)) = Len(s) + 1
      /\ Append(s, e)[Len(s) + 1] = e /\ \A i \in 1..Len(s) : Append(s, e)[i] = s[i]
  BY AppendProperties
<1>3. DOMAIN Append(s, e) = 1..(Len(s) + 1)
  BY <1>2, LenProperties
<1>. QED
  BY <1>1, <1>2, <1>3

\* A handler keeps the two orders: the snapshot is sent by increasing numbers,
\* a live event only beyond "last".
LEMMA HandlersKeepSent ==
  ASSUME RedisInv, NEW c \in Clients, SentInv(c), FeedMove(c), Only(c)
  PROVE  SentInv(c)'
<1>. DEFINE r == conn[c]
            k == conn'[c]
<1>0. RedisTypeOK /\ \A t \in Tasks : NumberInv(t)
  BY DEF RedisInv, TaskInv
<1>1. /\ r.sent \in Seq(Event) /\ Len(r.sent) \in Nat /\ DOMAIN r.sent = 1..Len(r.sent)
      /\ \A i \in DOMAIN r.sent : r.sent[i].seq \in Nat
      /\ \A e \in r.replay : e \in Event
      /\ \A e \in Event : e.seq \in Nat
      /\ r.last \in Nat /\ r.live \in Nat
  BY <1>0, EventsOfConn
<1>2. /\ r.live <= Len(r.sent)
      /\ Grow(r.sent, 0, r.live)
      /\ Grow(r.sent, r.live, Len(r.sent))
      /\ r.phase = "replaying" =>
           /\ r.live = Len(r.sent)
           /\ \A e \in r.replay :
                /\ \A i \in DOMAIN r.sent : r.sent[i].seq < e.seq
                /\ \A o \in r.replay : e.seq = o.seq => e = o
      /\ r.phase = "listening" =>
           \A i \in DOMAIN r.sent : r.live < i => r.sent[i].seq <= r.last
  BY DEF SentInv
<1>. DEFINE Parts == /\ k.live <= Len(k.sent)
                     /\ Grow(k.sent, 0, k.live)
                     /\ Grow(k.sent, k.live, Len(k.sent))
            Waits == k.phase = "idle" => k.sent = <<>> /\ k.live = 0
            Replays == k.phase = "replaying" =>
                         /\ k.live = Len(k.sent)
                         /\ \A e \in k.replay :
                              /\ \A i \in DOMAIN k.sent : k.sent[i].seq < e.seq
                              /\ \A o \in k.replay : e.seq = o.seq => e = o
            Hears == k.phase = "listening" =>
                       \A i \in DOMAIN k.sent : k.live < i => k.sent[i].seq <= k.last
<1>3. Parts /\ Waits /\ Replays /\ Hears => SentInv(c)'
  BY DEF SentInv
<1>4. CASE Connected(c)
  <2>1. k.phase = "replaying" /\ k.task \in Tasks /\ k.sent = <<>> /\ k.live = 0
        /\ k.replay = ReplayEvents(k.task, k.from)
    BY <1>4 DEF Connected
  <2>2. DOMAIN k.sent = {} /\ Len(k.sent) = 0
    BY <2>1
  <2>3. \A e, o \in k.replay : e.seq = o.seq => e = o
    <3>1. \A e \in k.replay : \E i \in DOMAIN log[k.task] : log[k.task][i] = e
      BY <2>1 DEF ReplayEvents
    <3>2. \A i, j \in DOMAIN log[k.task] : log[k.task][i].seq = log[k.task][j].seq => i = j
      BY <1>0, <2>1 DEF NumberInv
    <3>. QED
      BY <3>1, <3>2
  <2>. QED
    BY <1>3, <2>1, <2>2, <2>3 DEF Grow
<1>5. ASSUME NEW e \in Event, Replayed(c, e)
      PROVE  SentInv(c)'
  <2>. DEFINE n == Len(r.sent) + 1
  <2>1. /\ r.phase = "replaying" /\ e \in r.replay /\ \A o \in r.replay : e.seq <= o.seq
        /\ k.phase \in {"replaying", "over"} /\ k.replay = r.replay \ {e}
        /\ k.sent = Append(r.sent, e) /\ k.live = r.live + 1
    BY <1>5 DEF Replayed
  <2>2. /\ Len(k.sent) = n /\ DOMAIN k.sent = 1..n
        /\ k.sent[n] = e /\ \A i \in 1..Len(r.sent) : k.sent[i] = r.sent[i]
    BY <1>1, <2>1, OneMoreSent
  <2>3. r.live = Len(r.sent) /\ k.live = n /\ n \in Nat /\ e.seq \in Nat
    BY <1>1, <1>2, <2>1
  <2>4. \A i, j \in 1..Len(r.sent) : i < j => r.sent[i].seq < r.sent[j].seq
    <3>1. \A i, j \in DOMAIN r.sent : 0 < i /\ i < j /\ j <= r.live => r.sent[i].seq < r.sent[j].seq
      BY <1>2 DEF Grow
    <3>2. ASSUME NEW i \in 1..Len(r.sent), NEW j \in 1..Len(r.sent), i < j
          PROVE  r.sent[i].seq < r.sent[j].seq
      <4>1. i \in DOMAIN r.sent /\ j \in DOMAIN r.sent
        BY <1>1
      <4>2. 0 < i /\ j <= r.live
        BY <1>1, <2>3
      <4>. QED
        BY <3>1, <3>2, <4>1, <4>2
    <3>. QED
      BY <3>2
  <2>5. \A i \in 1..Len(r.sent) : r.sent[i].seq < e.seq
    BY <1>1, <1>2, <2>1
  <2>6. \A i \in 1..n : i \in 1..Len(r.sent) \/ i = n
    BY <1>1
  <2>7. Parts /\ Waits
    BY <1>1, <2>1, <2>2, <2>3, <2>4, <2>5, <2>6 DEF Grow
  <2>8. Replays
    <3>1. ASSUME NEW o \in k.replay
          PROVE  e.seq < o.seq /\ o.seq \in Nat
      <4>1. o \in r.replay /\ o # e
        BY <3>1, <2>1
      <4>2. o.seq # e.seq /\ e.seq <= o.seq /\ o.seq \in Nat
        BY <1>1, <1>2, <2>1, <4>1
      <4>. QED
        BY <2>3, <4>2
    <3>2. ASSUME NEW o \in k.replay, NEW i \in DOMAIN k.sent
          PROVE  k.sent[i].seq < o.seq
      <4>1. e.seq < o.seq /\ o.seq \in Nat
        BY <3>1, <3>2
      <4>2. k.sent[i].seq = e.seq \/ (k.sent[i].seq < e.seq /\ k.sent[i].seq \in Nat)
        BY <1>1, <2>2, <2>5, <2>6, <3>2
      <4>. QED
        BY <2>3, <4>1, <4>2
    <3>. QED
      BY <1>2, <2>1, <2>2, <2>3, <3>2
  <2>. QED
    BY <1>3, <2>1, <2>7, <2>8
<1>6. CASE Listens(c)
  <2>1. /\ r.phase = "replaying" /\ k.phase = "listening"
        /\ k.sent = r.sent /\ k.live = r.live
    BY <1>6 DEF Listens
  <2>2. Hears
    BY <1>1, <1>2, <2>1
  <2>. QED
    BY <1>2, <1>3, <2>1, <2>2
<1>7. ASSUME NEW e \in Event, Forwarded(c, e)
      PROVE  SentInv(c)'
  <2>. DEFINE n == Len(r.sent) + 1
  <2>1. /\ r.phase = "listening" /\ e.seq > r.last
        /\ k.phase \in {"listening", "over"}
        /\ k.sent = Append(r.sent, e) /\ k.live = r.live /\ k.last = e.seq
    BY <1>7 DEF Forwarded
  <2>2. /\ Len(k.sent) = n /\ DOMAIN k.sent = 1..n
        /\ k.sent[n] = e /\ \A i \in 1..Len(r.sent) : k.sent[i] = r.sent[i]
    BY <1>1, <2>1, OneMoreSent
  <2>3. n \in Nat /\ e.seq \in Nat
    BY <1>1
  <2>4. \A i \in 1..Len(r.sent) : r.live < i => r.sent[i].seq < e.seq
    BY <1>1, <1>2, <2>1, <2>3
  <2>5. \A i \in 1..n : i \in 1..Len(r.sent) \/ i = n
    BY <1>1
  <2>6. Parts /\ Waits
    BY <1>1, <1>2, <2>1, <2>2, <2>3, <2>4, <2>5 DEF Grow
  <2>7. Hears
    BY <1>1, <2>1, <2>2, <2>3, <2>4, <2>5
  <2>. QED
    BY <1>3, <2>1, <2>6, <2>7
<1>8. ASSUME NEW e \in Event, Skipped(c, e)
      PROVE  SentInv(c)'
  <2>1. /\ r.phase = "listening" /\ k.phase = "listening" /\ k.last = r.last
        /\ k.sent = r.sent /\ k.live = r.live
    BY <1>8 DEF Skipped
  <2>. QED
    BY <1>2, <1>3, <2>1
<1>9. CASE Left(c)
  <2>1. k.phase = "gone" /\ k.sent = r.sent /\ k.live = r.live
    BY <1>9 DEF Left
  <2>. QED
    BY <1>2, <1>3, <2>1
<1>. QED
  BY <1>4, <1>5, <1>6, <1>7, <1>8, <1>9 DEF FeedMove

\* Two events that a client was sent out of order are one of the snapshot and a
\* live one.
LEMMA OrdersFollow ==
  ASSUME RedisTypeOK, \A c \in Clients : SentInv(c)
  PROVE  SentInTwoOrders
<1>. SUFFICES ASSUME NEW c \in Clients, NEW i \in DOMAIN conn[c].sent, NEW j \in DOMAIN conn[c].sent,
                     i < j, conn[c].sent[i].seq >= conn[c].sent[j].seq
              PROVE  i <= conn[c].live /\ conn[c].live < j
  BY DEF SentInTwoOrders
<1>. DEFINE r == conn[c]
<1>1. /\ Len(r.sent) \in Nat /\ DOMAIN r.sent = 1..Len(r.sent) /\ r.live \in Nat
      /\ r.sent[i].seq \in Nat /\ r.sent[j].seq \in Nat
  BY EventsOfConn
<1>2. Grow(r.sent, 0, r.live) /\ Grow(r.sent, r.live, Len(r.sent))
  BY DEF SentInv
<1>. QED
  BY <1>1, <1>2 DEF Grow

-----------------------------------------------------------------------------
(***************************************************************************)
(* What is lost is accounted for.                                          *)
(***************************************************************************)

\* An event that is taken from a subscription leaves the others in it.
LEMMA TailHoldsTheRest ==
  ASSUME NEW q \in Seq(Event), q # <<>>
  PROVE  \A i \in DOMAIN q : q[i] = Head(q) \/ \E j \in DOMAIN Tail(q) : Tail(q)[j] = q[i]
<1>. DEFINE n == Len(q)
            r == Tail(q)
<1>1. n \in Nat /\ DOMAIN q = 1..n /\ n # 0 /\ Head(q) = q[1]
  BY LenProperties, EmptySeq
<1>2. r \in Seq(Event) /\ Len(r) = n - 1
  BY HeadTailProperties
<1>3. \A i \in 1..Len(r) : r[i] = q[i + 1]
  BY <1>2, HeadTailProperties
<1>4. DOMAIN r = 1..Len(r)
  BY <1>2, LenProperties
<1>. HIDE DEF n, r
<1>5. ASSUME NEW i \in 1..n, i # 1
      PROVE  \E j \in DOMAIN r : r[j] = q[i]
  <2>1. i - 1 \in 1..(n - 1) /\ (i - 1) + 1 = i
    BY <1>1, <1>5
  <2>2. r[i - 1] = q[i] /\ i - 1 \in DOMAIN r
    BY <1>2, <1>3, <1>4, <2>1
  <2>. QED
    BY <2>2
<1>. QED
  BY <1>1, <1>5 DEF r

\* An event that joins a sequence joins it at the end, and the others stay.
LEMMA AppendHoldsAll ==
  ASSUME NEW q \in Seq(Event), NEW e \in Event
  PROVE  /\ \E j \in DOMAIN Append(q, e) : Append(q, e)[j] = e
         /\ \A i \in DOMAIN q : \E j \in DOMAIN Append(q, e) : Append(q, e)[j] = q[i]
<1>. DEFINE n == Len(q)
            r == Append(q, e)
<1>1. /\ n \in Nat /\ DOMAIN q = 1..n
      /\ DOMAIN r = 1..(n + 1)
      /\ r[n + 1] = e /\ \A i \in 1..n : r[i] = q[i]
  BY OneMoreSent
<1>. HIDE DEF n, r
<1>2. n + 1 \in 1..(n + 1) /\ \A i \in 1..n : i \in 1..(n + 1)
  BY <1>1
<1>3. (\E j \in DOMAIN r : r[j] = e) /\ \A i \in DOMAIN q : \E j \in DOMAIN r : r[j] = q[i]
  BY <1>1, <1>2
<1>. QED
  BY <1>3 DEF r

\* The numbers in a sequence of events.
NumbersIn(s) == {s[i].seq : i \in DOMAIN s}

\* Taking an event from a sequence, or adding one, as seen by the numbers.
LEMMA NumbersMove ==
  ASSUME NEW q \in Seq(Event)
  PROVE  /\ q # <<>> => \A n \in NumbersIn(q) : n = Head(q).seq \/ n \in NumbersIn(Tail(q))
         /\ \A e \in Event :
              /\ e.seq \in NumbersIn(Append(q, e))
              /\ NumbersIn(q) \subseteq NumbersIn(Append(q, e))
<1>1. ASSUME q # <<>>, NEW n \in NumbersIn(q)
      PROVE  n = Head(q).seq \/ n \in NumbersIn(Tail(q))
  <2>. DEFINE r == Tail(q)
  <2>1. PICK i \in DOMAIN q : n = q[i].seq
    BY DEF NumbersIn
  <2>2. q[i] = Head(q) \/ \E j \in DOMAIN r : r[j] = q[i]
    BY <1>1, TailHoldsTheRest
  <2>. HIDE DEF r
  <2>3. (\E j \in DOMAIN r : r[j] = q[i]) => n \in NumbersIn(r)
    BY <2>1 DEF NumbersIn
  <2>. QED
    BY <2>1, <2>2, <2>3 DEF r
<1>2. ASSUME NEW e \in Event
      PROVE  e.seq \in NumbersIn(Append(q, e)) /\ NumbersIn(q) \subseteq NumbersIn(Append(q, e))
  <2>. DEFINE r == Append(q, e)
  <2>1. (\E j \in DOMAIN r : r[j] = e) /\ \A i \in DOMAIN q : \E j \in DOMAIN r : r[j] = q[i]
    BY AppendHoldsAll
  <2>. HIDE DEF r
  <2>2. e.seq \in NumbersIn(r) /\ NumbersIn(q) \subseteq NumbersIn(r)
    BY <2>1 DEF NumbersIn
  <2>. QED
    BY <2>2 DEF r
<1>. QED
  BY <1>1, <1>2

\* What is known of a connection, and of the same connection after a step.
LEMMA AccountOf ==
  ASSUME NEW c, NEW n
  PROVE  /\ Accounted(c, n) <=>
              \/ n \in NumbersIn(conn[c].sent) \cup conn[c].missed \cup Unpublished(conn[c].task)
              \/ n \in NumbersIn(inbox[c])
         /\ Accounted(c, n)' <=>
              \/ n \in NumbersIn(conn'[c].sent) \cup conn'[c].missed \cup Unpublished(conn[c].task)'
              \/ n \in NumbersIn(inbox'[c])
BY DEF Accounted, SentNumbers, NumbersIn

\* LossInv after a step.
LEMMA LossAfter ==
  ASSUME NEW c, conn'[c].phase \in {"replaying", "listening"} => conn'[c].task \in Tasks,
         conn'[c].phase = "listening", faults' = 0 =>
           \A n \in Logged(conn[c].task)' : n > conn'[c].from => Accounted(c, n)'
  PROVE  LossInv(c)'
BY DEF LossInv

\* A connection that listens to nothing loses nothing.
LEMMA LossOfOthers ==
  ASSUME NEW c, conn'[c].phase \in {"replaying", "listening"} => conn'[c].task \in Tasks,
         conn'[c].phase # "listening"
  PROVE  LossInv(c)'
BY DEF LossInv

\* What the log of a task holds, and what is still to be published, does not
\* change with a connection.
LEMMA ReadersKeepNumbers ==
  ASSUME NEW c, Only(c), NEW d, conn'[d].task = conn[d].task
  PROVE  /\ Logged(conn[d].task)' = Logged(conn[d].task)
         /\ Unpublished(conn[d].task)' = Unpublished(conn[d].task)
         /\ faults' = faults
<1>1. log' = log /\ todo' = todo /\ held' = held /\ faults' = faults
  BY DEF Only, actorVars, runVars
<1>. QED
  BY <1>1 DEF Logged, Unpublished, At

\* A handler keeps account of every event of the log.
LEMMA HandlersKeepLoss ==
  ASSUME RedisInv, NEW c \in Clients, LossInv(c), FeedMove(c), Only(c)
  PROVE  LossInv(c)'
<1>. DEFINE r == conn[c]
            k == conn'[c]
            q == inbox[c]
<1>0. RedisTypeOK
  BY DEF RedisInv
<1>1. /\ r.sent \in Seq(Event) /\ q \in Seq(Event) /\ r.from \in Nat
      /\ \A e \in Event : e.seq \in Nat
  BY <1>0, EventsOfConn DEF RedisTypeOK, StoreTypeOK
<1>2. /\ r.phase \in {"replaying", "listening"} => r.task \in Tasks
      /\ r.phase = "listening" /\ faults = 0 =>
           \A n \in Logged(r.task) : n > r.from => Accounted(c, n)
  BY DEF LossInv
<1>3. k.task = r.task =>
        /\ Logged(conn[c].task)' = Logged(r.task)
        /\ Unpublished(conn[c].task)' = Unpublished(r.task)
        /\ faults' = faults
  BY ReadersKeepNumbers
<1>4. ASSUME k.task = r.task, k.from = r.from, r.phase = "listening", k.phase = "listening",
             \A n \in Nat : n > r.from /\ n \in NumbersIn(r.sent) \cup r.missed \cup NumbersIn(q) =>
                n \in NumbersIn(k.sent) \cup k.missed \cup NumbersIn(inbox'[c])
      PROVE  LossInv(c)'
  <2>1. ASSUME faults' = 0, NEW n \in Logged(conn[c].task)', n > k.from
        PROVE  Accounted(c, n)'
    <3>1. n \in Logged(r.task) /\ faults = 0 /\ n > r.from
      BY <1>3, <1>4, <2>1
    <3>2. n \in Nat
      BY <1>0, <1>2, <1>4, <3>1, SnapshotOfLog
    <3>3. Accounted(c, n)
      BY <1>2, <1>4, <3>1
    <3>4. n \in NumbersIn(r.sent) \cup r.missed \cup Unpublished(r.task) \/ n \in NumbersIn(q)
      BY <3>3, AccountOf
    <3>5. n \in NumbersIn(k.sent) \cup k.missed \cup Unpublished(conn[c].task)' \/ n \in NumbersIn(inbox'[c])
      BY <1>3, <1>4, <3>1, <3>2, <3>4
    <3>. QED
      BY <3>5, AccountOf
  <2>. QED
    BY <1>2, <1>4, <2>1, LossAfter
<1>5. CASE Connected(c)
  BY <1>5, LossOfOthers DEF Connected
<1>6. ASSUME NEW e \in Event, Replayed(c, e)
      PROVE  LossInv(c)'
  BY <1>2, <1>6, LossOfOthers DEF Replayed
<1>7. CASE Listens(c)
  <2>1. /\ r.phase = "replaying" /\ k.phase = "listening"
        /\ k.task = r.task /\ k.from = r.from /\ k.sent = r.sent
        /\ \A n \in Logged(r.task) :
             n > r.from => n \in SentNumbers(c) \cup Unpublished(r.task) \cup k.missed
    BY <1>7 DEF Listens
  <2>2. ASSUME faults' = 0, NEW n \in Logged(conn[c].task)', n > k.from
        PROVE  Accounted(c, n)'
    <3>1. n \in NumbersIn(r.sent) \cup Unpublished(r.task) \cup k.missed
      BY <1>3, <2>1, <2>2 DEF SentNumbers, NumbersIn
    <3>2. n \in NumbersIn(k.sent) \cup k.missed \cup Unpublished(conn[c].task)'
      BY <1>3, <2>1, <3>1
    <3>. QED
      BY <3>2, AccountOf
  <2>. QED
    BY <1>2, <2>1, <2>2, LossAfter
<1>8. ASSUME NEW e \in Event, Forwarded(c, e)
      PROVE  LossInv(c)'
  <2>1. /\ r.phase = "listening" /\ q # <<>> /\ e = Head(q)
        /\ k.phase \in {"listening", "over"}
        /\ k.task = r.task /\ k.from = r.from /\ k.missed = r.missed
        /\ k.sent = Append(r.sent, e)
        /\ k.phase = "listening" => inbox'[c] = Tail(q)
    BY <1>8 DEF Forwarded
  <2>2. CASE k.phase = "over"
    BY <2>2, LossOfOthers
  <2>3. CASE k.phase = "listening"
    <3>1. e.seq \in NumbersIn(k.sent) /\ NumbersIn(r.sent) \subseteq NumbersIn(k.sent)
      BY <1>1, <2>1, NumbersMove
    <3>2. \A n \in NumbersIn(q) : n = e.seq \/ n \in NumbersIn(inbox'[c])
      BY <1>1, <2>1, <2>3, NumbersMove
    <3>. QED
      BY <1>4, <2>1, <2>3, <3>1, <3>2
  <2>. QED
    BY <2>1, <2>2, <2>3
<1>9. ASSUME NEW e \in Event, Skipped(c, e)
      PROVE  LossInv(c)'
  <2>1. /\ r.phase = "listening" /\ q # <<>> /\ e = Head(q)
        /\ k.phase = "listening"
        /\ k.task = r.task /\ k.from = r.from /\ k.sent = r.sent
        /\ r.missed \subseteq k.missed
        /\ e.seq \in SentNumbers(c) \cup k.missed \/ e.seq <= r.from
        /\ inbox'[c] = Tail(q)
    BY <1>9 DEF Skipped
  <2>2. \A n \in NumbersIn(q) : n = e.seq \/ n \in NumbersIn(inbox'[c])
    BY <1>1, <2>1, NumbersMove
  <2>3. e.seq > r.from => e.seq \in NumbersIn(k.sent) \cup k.missed
    <3>1. SentNumbers(c) = NumbersIn(k.sent)
      BY <2>1 DEF SentNumbers, NumbersIn
    <3>2. e.seq \in Nat
      BY <1>1
    <3>. QED
      BY <1>1, <2>1, <3>1, <3>2
  <2>. QED
    BY <1>4, <2>1, <2>2, <2>3
<1>10. CASE Left(c)
  BY <1>10, LossOfOthers DEF Left
<1>. QED
  BY <1>5, <1>6, <1>7, <1>8, <1>9, <1>10 DEF FeedMove

\* The other connections see nothing of it.
LEMMA HandlersLeaveOthers ==
  ASSUME NEW c \in Clients, Only(c), NEW d \in Clients, d # c, SentInv(d), LossInv(d)
  PROVE  SentInv(d)' /\ LossInv(d)'
<1>1. conn'[d] = conn[d] /\ inbox'[d] = inbox[d]
  BY DEF Only
<1>2. /\ Logged(conn[d].task)' = Logged(conn[d].task)
      /\ Unpublished(conn[d].task)' = Unpublished(conn[d].task)
      /\ faults' = faults
  BY <1>1, ReadersKeepNumbers
<1>3. SentInv(d)'
  BY <1>1 DEF SentInv, Grow
<1>4. \A n : Accounted(d, n)' <=> Accounted(d, n)
  BY <1>1, <1>2, AccountOf
<1>5. LossInv(d)'
  BY <1>1, <1>2, <1>4 DEF LossInv
<1>. QED
  BY <1>3, <1>5

\* What is published reaches the subscribers at once, and only an actor's own
\* step, or a fault, takes it on from there.
LEMMA PublishSteps ==
  ASSUME RedisInv, ServerNext
  PROVE  /\ conn' = conn
         /\ inbox' = inbox \/ \E a \in Actors : Publish(a)
         /\ \A a \in Actors : At(a, "publish") =>
              Publish(a) \/ faults' = faults + 1 \/ (todo'[a] = todo[a] /\ held'[a] = held[a])
<1>0. /\ RedisTypeOK /\ QueueInv /\ \A t \in Tasks : FreshInv(t)
      /\ DOMAIN todo = Actors /\ DOMAIN held = Actors
      /\ \A t \in Tasks : Run(t) \in Actors /\ Create(t) \in Actors /\ Cancel(t) \in Actors
  BY DEF RedisInv, RedisTypeOK, TaskInv, Actors, Run, Create, Cancel
<1>. DEFINE Quiet(a) == todo'[a] = todo[a] /\ held'[a] = held[a]
            Stays == inbox' = inbox /\ conn' = conn
<1>1. ASSUME NEW b \in Actors, NEW s, Goes(b, s), held' = held, ~At(b, "publish")
      PROVE  \A a \in Actors : At(a, "publish") => Quiet(a)
  <2>1. \A a \in Actors : a # b => todo'[a] = todo[a]
    BY <1>0, <1>1 DEF Goes
  <2>. QED
    BY <1>1, <2>1
<1>2. ASSUME NEW b \in Actors, Incr(b)
      PROVE  Stays /\ \A a \in Actors : At(a, "publish") => Quiet(a)
  <2>1. /\ At(b, "incr") /\ Goes(b, Tail(todo[b])) /\ Stays
        /\ \E n : held' = [held EXCEPT ![b] = n]
    BY <1>2 DEF Incr, Does, IncrSeq, liveVars
  <2>2. ~At(b, "publish")
    BY <2>1 DEF At
  <2>3. \A a \in Actors : a # b => Quiet(a)
    BY <1>0, <2>1 DEF Goes
  <2>. QED
    BY <2>1, <2>2, <2>3
<1>3. ASSUME NEW b \in Actors, Xadd(b)
      PROVE  Stays /\ \A a \in Actors : At(a, "publish") => Quiet(a)
  <2>1. At(b, "xadd") /\ Goes(b, Tail(todo[b])) /\ Stays /\ held' = held
    BY <1>3 DEF Xadd, Does, XaddEvent, liveVars
  <2>2. ~At(b, "publish")
    BY <2>1 DEF At
  <2>. QED
    BY <1>1, <2>1, <2>2
<1>4. ASSUME NEW b \in Actors, Publish(b)
      PROVE  conn' = conn /\ \A a \in Actors : a # b => Quiet(a)
  <2>1. Goes(b, Tail(todo[b])) /\ conn' = conn /\ held' = held
    BY <1>4 DEF Publish, Does, PublishEvent
  <2>. QED
    BY <1>0, <2>1 DEF Goes
<1>5. ASSUME NEW t \in Tasks, SubmitTask(t)
      PROVE  Stays /\ \A a \in Actors : At(a, "publish") => Quiet(a)
  <2>1. /\ status[t] = "absent" /\ Goes(Create(t), Emit("queued")) /\ held' = held /\ Stays
    BY <1>5 DEF SubmitTask, QueueTask, liveVars
  <2>2. ~At(Create(t), "publish")
    BY <1>0, <2>1 DEF FreshInv, At
  <2>. QED
    BY <1>0, <1>1, <2>1, <2>2
<1>6. ASSUME NEW t \in Tasks, CancelTask(t)
      PROVE  Stays /\ \A a \in Actors : At(a, "publish") => Quiet(a)
  <2>1. /\ t \notin cancelled /\ Goes(Cancel(t), Emit("cancel_requested")) /\ held' = held /\ Stays
    BY <1>6 DEF CancelTask, SetCancel, liveVars
  <2>2. ~At(Cancel(t), "publish")
    BY <1>0, <2>1 DEF FreshInv, At
  <2>. QED
    BY <1>0, <1>1, <2>1, <2>2
<1>7. ASSUME NEW w \in Workers, NEW t \in Tasks, ConsumeTask(w, t)
      PROVE  Stays /\ \A a \in Actors : At(a, "publish") => Quiet(a)
  <2>1. /\ \E s : Goes(Run(t), s)
        /\ held' = held /\ Stays
    BY <1>7 DEF ConsumeTask, ReadGroup, liveVars
  <2>2. home[t] = NoWorker
    BY <1>0, <1>7, ConsumeMoves DEF Consumed
  <2>3. ~At(Run(t), "publish")
    BY <1>0, <2>2 DEF FreshInv, At
  <2>. QED
    BY <1>0, <1>1, <2>1, <2>3
<1>8. ASSUME NEW t \in Tasks, Start(t) \/ Hset(t) \/ Test(t) \/ Refuse(t) \/ SetUp(t)
                                \/ Enter(t) \/ Join(t) \/ Save(t) \/ Leave(t) \/ Ack(t)
      PROVE  Stays /\ \A a \in Actors : At(a, "publish") => Quiet(a)
  <2>1. held' = held /\ Stays
    BY <1>8 DEF Start, Hset, HsetStatus, Test, Refuse, SetUp, Enter, Join, Save, SessionSet, Leave, Ack, AckDelivery,
                storeVars, liveVars
  <2>2. \E op \in {"start", "hset", "test", "setup", "enter", "join", "save", "leave", "ack"} :
          At(Run(t), op) /\ \E s : Goes(Run(t), s)
    BY <1>8 DEF Start, Hset, Test, Refuse, SetUp, Enter, Join, Save, Leave, Ack, Does
  <2>3. ~At(Run(t), "publish")
    BY <2>2 DEF At
  <2>. QED
    BY <1>0, <1>1, <2>1, <2>2, <2>3
<1>9. ASSUME FaultStep
      PROVE  Stays /\ faults' = faults + 1
  BY <1>9 DEF FaultStep, RaiseInTry, RaiseOutside, Restart, Abandon, Fault, storeVars, liveVars
<1>10. ASSUME Idle
       PROVE  Stays /\ \A a \in Actors : Quiet(a)
  BY <1>10 DEF Idle, serverVars, storeVars, liveVars, actorVars
<1>11. ASSUME NEW b \in Actors, AppendStep(b)
       PROVE  /\ conn' = conn
              /\ inbox' = inbox \/ \E a \in Actors : Publish(a)
              /\ \A a \in Actors : At(a, "publish") => Publish(a) \/ Quiet(a)
  BY <1>2, <1>3, <1>4, <1>11 DEF AppendStep
<1>. HIDE DEF Quiet, Stays
<1>12. ASSUME NEW t \in Tasks, ClientStep(t) \/ RequestStep(t) \/ RunStep(t)
       PROVE  \/ \E b \in Actors : AppendStep(b)
              \/ Stays /\ \A a \in Actors : At(a, "publish") => Quiet(a)
  BY <1>0, <1>5, <1>6, <1>8, <1>12 DEF ClientStep, RequestStep, RunStep
<1>13. ASSUME NEW r \in Readers, NEW t \in Tasks, ReaderStep(r, t)
       PROVE  \/ \E b \in Actors : AppendStep(b)
              \/ Stays /\ \A a \in Actors : At(a, "publish") => Quiet(a)
  <2>. DEFINE b == Reader(r, t)
  <2>1. CASE ReadLine(r, t)
    <3>1. /\ todo[b] = <<>> /\ held' = held /\ Stays
          /\ \E s : Goes(b, s)
      BY <2>1 DEF ReadLine, storeVars, liveVars, Stays
    <3>2. ~At(b, "publish")
      BY <3>1 DEF At
    <3>3. b \in Actors
      BY DEF Actors, Reader
    <3>. QED
      BY <1>1, <3>1, <3>2, <3>3
  <2>2. CASE LeaveReader(r, t)
    BY <2>2 DEF LeaveReader, storeVars, liveVars, actorVars, Stays, Quiet
  <2>3. CASE AppendStep(b)
    <3>1. b \in Actors
      BY DEF Actors, Reader
    <3>. QED
      BY <2>3, <3>1
  <2>. QED
    BY <1>13, <2>1, <2>2, <2>3 DEF ReaderStep
<1>14. \/ \E b \in Actors : AppendStep(b)
       \/ Stays /\ \A a \in Actors : At(a, "publish") => Quiet(a)
       \/ Stays /\ faults' = faults + 1
  BY <1>7, <1>9, <1>10, <1>12, <1>13 DEF ServerNext, ServerStep
<1>. QED
  BY <1>11, <1>14 DEF Quiet, Stays

\* A number that joins the log is the number of an event to be published.
LEMMA LoggedBeforePublished ==
  ASSUME RedisInv, NEW t \in Tasks, Move(t), NEW n, n \in Logged(t)', n \notin Logged(t)
  PROVE  n \in Unpublished(t)'
<1>0. RedisTypeOK /\ TaskInv(t)
  BY DEF RedisInv
<1>1. log'[t] # log[t]
  BY DEF Logged
<1>2. PICK a \in Writers(t) : Wrote(t, a)
  BY <1>1 DEF Move, Untouched, Submitted, Asked, Consumed, AppendMove, Drew, Published, RunMove, Set, WentOn,
              Acked, Decided, ReadMove, LeftAlone, BegunLine, FaultMove, Raised, CutShort, Stopped, Abandoned,
              KeepsLog
<1>. DEFINE m == Len(log[t])
            e == EventOf(a)
<1>3. /\ Passes(t, a) /\ Head(todo[a]).op = "xadd" /\ held' = held
  BY <1>2 DEF Wrote
<1>4. /\ e.seq = held[a]
      /\ m \in Nat /\ DOMAIN log[t] = 1..m /\ DOMAIN log'[t] = 1..(m + 1)
      /\ log'[t][m + 1] = e /\ \A i \in 1..m : log'[t][i] = log[t][i]
  BY <1>0, <1>2, Logging
<1>. HIDE DEF m, e
<1>5. n = held[a]
  <2>1. PICK i \in 1..(m + 1) : log'[t][i].seq = n
    BY <1>4 DEF Logged
  <2>2. i \notin 1..m
    BY <1>4, <2>1 DEF Logged
  <2>3. i = m + 1
    BY <1>4, <2>1, <2>2
  <2>. QED
    BY <1>4, <2>1, <2>3
<1>6. todo'[a] # <<>> /\ Head(todo'[a]).op = "publish"
  <2>1. todo'[a] # <<>>
    BY <1>3 DEF Passes
  <2>. QED
    BY <1>3, <2>1 DEF Passes, Rest, Follows
<1>7. a \in Actors /\ a[2] = t
  BY WritersAreActors
<1>. QED
  BY <1>3, <1>5, <1>6, <1>7 DEF Unpublished, At

\* Every step of the API process and of the workers keeps the account.
LEMMA ServerKeepsFeed ==
  ASSUME RedisInv, ServerNext, NEW c \in Clients, SentInv(c), LossInv(c)
  PROVE  SentInv(c)' /\ LossInv(c)'
<1>. DEFINE r == conn[c]
            t == conn[c].task
<1>0. /\ RedisTypeOK /\ (\A u \in Tasks : TaskInv(u) /\ Move(u))
  BY StepMoves DEF RedisInv
<1>1. /\ conn' = conn
      /\ inbox' = inbox \/ \E a \in Actors : Publish(a)
      /\ \A a \in Actors : At(a, "publish") =>
           Publish(a) \/ faults' = faults + 1 \/ (todo'[a] = todo[a] /\ held'[a] = held[a])
  BY PublishSteps
<1>2. SentInv(c)'
  BY <1>1 DEF SentInv, Grow
<1>3. /\ r.phase \in {"replaying", "listening"} => t \in Tasks
      /\ r.phase = "listening" /\ faults = 0 =>
           \A n \in Logged(t) : n > r.from => Accounted(c, n)
  BY DEF LossInv
<1>4. /\ \A e \in Event : e.seq \in Nat
      /\ inbox[c] \in Seq(Event)
  BY <1>0 DEF RedisTypeOK, StoreTypeOK, Event
<1>5. ASSUME NEW a \in Actors, Publish(a)
      PROVE  /\ NumbersIn(inbox[c]) \subseteq NumbersIn(inbox'[c])
             /\ r.phase = "listening" /\ a[2] = t => held[a] \in NumbersIn(inbox'[c])
  <2>1. /\ inbox' = [d \in Clients |-> IF Subscribed(d, a[2]) THEN Append(inbox[d], EventOf(a)) ELSE inbox[d]]
        /\ todo[a] # <<>> /\ Head(todo[a]).op \in AppendOps
    BY <1>5 DEF Publish, PublishEvent, Does, At, AppendOps
  <2>2. EventOf(a) \in Event /\ EventOf(a).seq = held[a]
    <3>1. a[2] \in Tasks /\ a \in Writers(a[2])
      BY WritersAreActors
    <3>2. EventOf(a) \in Event
      BY <1>0, <2>1, <3>1, EventsAreTyped DEF TaskInv
    <3>. QED
      BY <3>2 DEF EventOf
  <2>3. /\ NumbersIn(inbox[c]) \subseteq NumbersIn(Append(inbox[c], EventOf(a)))
        /\ held[a] \in NumbersIn(Append(inbox[c], EventOf(a)))
    BY <1>4, <2>2, NumbersMove
  <2>4. inbox'[c] = IF Subscribed(c, a[2]) THEN Append(inbox[c], EventOf(a)) ELSE inbox[c]
    BY <2>1
  <2>5. r.phase = "listening" /\ a[2] = t => Subscribed(c, a[2])
    BY DEF Subscribed
  <2>. QED
    BY <2>3, <2>4, <2>5
<1>6. NumbersIn(inbox[c]) \subseteq NumbersIn(inbox'[c])
  BY <1>1, <1>5
<1>7. ASSUME r.phase = "listening", faults' = 0, NEW n \in Logged(t)', n > r.from
      PROVE  Accounted(c, n)'
  <2>0. t \in Tasks
    BY <1>3, <1>7
  <2>1. faults = 0 /\ faults' # faults + 1
    <3>1. faults \in Nat /\ faults' >= faults
      BY <1>0, <2>0, FaultsGrow
    <3>. QED
      BY <1>7, <3>1
  <2>2. ASSUME n \in Unpublished(t)
        PROVE  n \in Unpublished(t)' \/ n \in NumbersIn(inbox'[c])
    <3>1. PICK a \in Actors : a[2] = t /\ At(a, "publish") /\ held[a] = n
      BY <2>2 DEF Unpublished
    <3>2. CASE Publish(a)
      BY <1>5, <1>7, <3>1, <3>2
    <3>3. CASE todo'[a] = todo[a] /\ held'[a] = held[a]
      <4>1. At(a, "publish")'
        BY <3>1, <3>3 DEF At
      <4>2. n \in {held'[b] : b \in {x \in Actors : x[2] = t /\ At(x, "publish")'}}
        BY <3>1, <3>3, <4>1
      <4>3. n \in Unpublished(t)'
        BY <1>1, <4>2 DEF Unpublished
      <4>. QED
        BY <4>3
    <3>. QED
      BY <1>1, <2>1, <3>1, <3>2, <3>3
  <2>3. CASE n \in Logged(t)
    <3>1. Accounted(c, n)
      BY <1>3, <1>7, <2>1, <2>3
    <3>2. n \in NumbersIn(r.sent) \cup r.missed \cup Unpublished(t) \/ n \in NumbersIn(inbox[c])
      BY <3>1, AccountOf
    <3>3. n \in NumbersIn(conn'[c].sent) \cup conn'[c].missed \cup Unpublished(t)' \/ n \in NumbersIn(inbox'[c])
      BY <1>1, <1>6, <2>2, <3>2
    <3>. QED
      BY <3>3, AccountOf
  <2>4. CASE n \notin Logged(t)
    <3>1. \A u \in Tasks : u = t => (n \in Logged(u)' /\ n \notin Logged(u))
      BY <1>1, <1>7, <2>4 DEF Logged
    <3>2. \A u \in Tasks : u = t => n \in Unpublished(u)'
      BY <1>0, <3>1, LoggedBeforePublished
    <3>3. n \in Unpublished(t)'
      BY <1>1, <2>0, <3>2 DEF Unpublished
    <3>. QED
      BY <3>3, AccountOf
  <2>. QED
    BY <2>3, <2>4
<1>8. LossInv(c)'
  <2>1. conn'[c].phase \in {"replaying", "listening"} => conn'[c].task \in Tasks
    BY <1>1, <1>3
  <2>2. CASE r.phase # "listening"
    BY <1>1, <2>1, <2>2, LossOfOthers
  <2>3. CASE r.phase = "listening"
    <3>1. ASSUME faults' = 0, NEW n \in Logged(conn[c].task)', n > conn'[c].from
          PROVE  Accounted(c, n)'
      BY <1>1, <1>7, <2>3, <3>1
    <3>2. conn'[c].phase = "listening"
      BY <1>1, <2>3
    <3>. QED
      BY <2>1, <3>1, <3>2, LossAfter
  <2>. QED
    BY <2>2, <2>3
<1>. QED
  BY <1>2, <1>8

-----------------------------------------------------------------------------
(***************************************************************************)
(* The theorems.                                                           *)
(***************************************************************************)

\* Nobody is connected at first.
LEMMA FeedInvHoldsAtFirst ==
  ASSUME ServerInit
  PROVE  FeedInv
<1>1. RedisInv
  BY RedisInvHoldsAtFirst
<1>2. \A c \in Clients : conn[c] = NoConn
  BY DEF ServerInit, StoreInit
<1>3. ASSUME NEW c \in Clients
      PROVE  SentInv(c) /\ LossInv(c)
  <2>1. conn[c].phase = "idle" /\ conn[c].sent = <<>> /\ conn[c].live = 0
    BY <1>2 DEF NoConn
  <2>2. DOMAIN conn[c].sent = {} /\ Len(conn[c].sent) = 0
    BY <2>1
  <2>. QED
    BY <2>1, <2>2 DEF SentInv, LossInv, Grow
<1>. QED
  BY <1>1, <1>3 DEF FeedInv

\* What does not change stays accounted for.
LEMMA StaysAccounted ==
  ASSUME UNCHANGED serverVars, NEW c, SentInv(c), LossInv(c)
  PROVE  SentInv(c)' /\ LossInv(c)'
<1>1. conn' = conn /\ inbox' = inbox /\ log' = log /\ todo' = todo /\ held' = held /\ faults' = faults
  BY DEF serverVars, storeVars, liveVars, actorVars, runVars
<1>2. \A t : Logged(t)' = Logged(t) /\ Unpublished(t)' = Unpublished(t)
  BY <1>1 DEF Logged, Unpublished, At
<1>3. \A n : Accounted(c, n)' <=> Accounted(c, n)
  BY <1>1, <1>2 DEF Accounted, SentNumbers
<1>. QED
  BY <1>1, <1>2, <1>3 DEF SentInv, LossInv, Grow

\* Every step keeps the invariant.
LEMMA FeedKeepsFeedInv ==
  ASSUME FeedInv, [FeedNext]_serverVars
  PROVE  FeedInv'
<1>0. RedisInv /\ \A c \in Clients : SentInv(c) /\ LossInv(c)
  BY DEF FeedInv
<1>1. CASE ServerNext
  <2>1. RedisInv'
    BY <1>0, <1>1, ServerKeepsRedisInv
  <2>2. \A c \in Clients : SentInv(c)' /\ LossInv(c)'
    BY <1>0, <1>1, ServerKeepsFeed
  <2>. QED
    BY <2>1, <2>2 DEF FeedInv
<1>2. ASSUME NEW c \in Clients, HandlerStep(c) \/ ConnectionStep(c)
      PROVE  FeedInv'
  <2>0. conn[c].phase = "replaying" => conn[c].task \in Tasks
    BY <1>0 DEF LossInv
  <2>1. /\ Only(c) /\ FeedMove(c)
        /\ conn' \in [Clients -> Conns] /\ inbox' \in [Clients -> Seq(Event)]
    BY <1>0, <1>2, <2>0, FeedMoves DEF RedisInv
  <2>2. RedisInv'
    <3>1. UNCHANGED <<metaVars, seq, log, queueVars, memory, actorVars, runVars>>
      BY <2>1 DEF Only
    <3>. QED
      BY <1>0, <2>1, <3>1, ReadersKeepRedisInv
  <2>3. SentInv(c)' /\ LossInv(c)'
    BY <1>0, <2>1, HandlersKeepSent, HandlersKeepLoss
  <2>4. \A d \in Clients : d # c => SentInv(d)' /\ LossInv(d)'
    BY <1>0, <2>1, HandlersLeaveOthers
  <2>. QED
    BY <2>2, <2>3, <2>4 DEF FeedInv
<1>3. CASE UNCHANGED serverVars
  <2>1. UNCHANGED <<metaVars, seq, log, queueVars, memory, actorVars, runVars>>
    BY <1>3 DEF serverVars, storeVars
  <2>2. inbox' \in [Clients -> Seq(Event)] /\ conn' \in [Clients -> Conns]
    BY <1>0, <1>3 DEF serverVars, storeVars, liveVars, RedisInv, RedisTypeOK, StoreTypeOK
  <2>3. RedisInv'
    BY <1>0, <2>1, <2>2, ReadersKeepRedisInv
  <2>4. \A c \in Clients : SentInv(c)' /\ LossInv(c)'
    BY <1>0, <1>3, StaysAccounted
  <2>. QED
    BY <2>3, <2>4 DEF FeedInv
<1>. QED
  BY <1>1, <1>2, <1>3 DEF FeedNext

\* The inductive invariant of the API process, the workers and the streams.
THEOREM FeedInvariant == FeedSpec => []FeedInv
<1>1. ServerInit => FeedInv
  BY FeedInvHoldsAtFirst
<1>2. FeedInv /\ [FeedNext]_serverVars => FeedInv'
  BY FeedKeepsFeedInv
<1>. QED
  BY <1>1, <1>2, PTL DEF FeedSpec

\* The keys of Redis, the scripts and the connections have their types.
THEOREM RedisTypesHold == FeedSpec => []RedisTypeOK
<1>1. FeedInv => RedisTypeOK
  BY DEF FeedInv, RedisInv
<1>. QED
  BY <1>1, FeedInvariant, PTL

\* NumbersAccounted: INCR and XADD of any number of writers give every event a
\* number of its own, and only a fault leaves a gap that stays.
THEOREM NumbersAreAccounted == FeedSpec => []NumbersAccounted
<1>1. FeedInv => NumbersAccounted
  BY NumbersFollow DEF FeedInv
<1>. QED
  BY <1>1, FeedInvariant, PTL

\* StatusFollowsLog: append_event comes before update_meta of each verdict.
THEOREM StatusesFollowTheLog == FeedSpec => []StatusFollowsLog
<1>1. FeedInv => StatusFollowsLog
  BY StatusesFollow DEF FeedInv
<1>. QED
  BY <1>1, FeedInvariant, PTL

\* SilentAfterVerdict: a run logs nothing after its verdict but the error of a
\* save that raised.
THEOREM VerdictsAreLast == FeedSpec => []SilentAfterVerdict
<1>1. FeedInv => SilentAfterVerdict
  BY SilenceFollows DEF FeedInv
<1>. QED
  BY <1>1, FeedInvariant, PTL

\* DeliveredOnce: the consumer group gives a task to one worker, once.
THEOREM TasksAreDeliveredOnce == FeedSpec => []DeliveredOnce
<1>1. FeedInv => DeliveredOnce
  BY DeliveriesFollow DEF FeedInv
<1>. QED
  BY <1>1, FeedInvariant, PTL

\* IsolatedOnOneWorker: session_lock of one worker isolates the runs of a session.
THEOREM SessionsAreIsolatedOnOneWorker == FeedSpec => []IsolatedOnOneWorker
<1>1. FeedInv => IsolatedOnOneWorker
  BY DEF FeedInv, RedisInv
<1>. QED
  BY <1>1, FeedInvariant, PTL

\* SentInTwoOrders: _sse_stream and task_ws send the snapshot in order, then
\* the live events in order.
THEOREM EventsAreSentInTwoOrders == FeedSpec => []SentInTwoOrders
<1>1. FeedInv => SentInTwoOrders
  BY OrdersFollow DEF FeedInv, RedisInv
<1>. QED
  BY <1>1, FeedInvariant, PTL

\* LossAccounted: a subscriber misses an event only between its XRANGE and its
\* SUBSCRIBE, or when a higher number overtakes it.
THEOREM LossesAreAccounted == FeedSpec => []LossAccounted
<1>1. FeedInv => LossAccounted
  BY DEF FeedInv, LossInv, LossAccounted, Accounted
<1>. QED
  BY <1>1, FeedInvariant, PTL

\* VerdictRevisedOnce: no verdict is set anew but a success by the error of the
\* agent's save.
THEOREM VerdictsAreRevisedOnce == FeedSpec => VerdictRevisedOnce
<1>. DEFINE Revised == \A t \in Tasks :
              status[t] \in Verdicts /\ status'[t] # status[t] =>
                status[t] = "succeeded" /\ status'[t] = "failed" /\ mode[t] = "agent" /\ faults > 0
<1>1. FeedInv /\ [FeedNext]_serverVars => [Revised]_serverVars
  <2>. SUFFICES ASSUME FeedInv, FeedNext
                PROVE  Revised
    OBVIOUS
  <2>0. RedisInv /\ \A c \in Clients : LossInv(c)
    BY DEF FeedInv
  <2>1. CASE ServerNext
    <3>1. \A t \in Tasks : Move(t)
      BY <2>0, <2>1, StepMoves DEF RedisInv
    <3>. QED
      BY <2>0, <3>1, RevisionsFollow
  <2>2. ASSUME NEW c \in Clients, HandlerStep(c) \/ ConnectionStep(c)
        PROVE  status' = status
    <3>0. conn[c].phase = "replaying" => conn[c].task \in Tasks
      BY <2>0 DEF LossInv
    <3>1. Only(c)
      BY <2>0, <2>2, <3>0, FeedMoves DEF RedisInv
    <3>. QED
      BY <3>1 DEF Only, metaVars
  <2>. QED
    BY <2>1, <2>2 DEF FeedNext
<1>2. FeedSpec => [][Revised]_serverVars
  BY <1>1, FeedInvariant, PTL DEF FeedSpec
<1>. QED
  BY <1>2 DEF VerdictRevisedOnce

\* Delivery: over Redis, with the streams beside them, the API process and the
\* workers implement TaskDelivery.  Whatever way a run takes, its XACK comes when
\* its verdict is in the log and in the status, or a fault took the run.
THEOREM ImplementsDelivery == FeedSpec => Delivery
<1>1. ServerInit => Way!DeliveryInit
  BY WayInitial
<1>2. FeedInv /\ [FeedNext]_serverVars => [Way!DeliveryNext]_(Way!deliveryVars)
  <2>. SUFFICES ASSUME FeedInv, [FeedNext]_serverVars
                PROVE  [Way!DeliveryNext]_(Way!deliveryVars)
    OBVIOUS
  <2>0. RedisInv /\ \A c \in Clients : LossInv(c)
    BY DEF FeedInv
  <2>1. CASE ServerNext
    BY <2>0, <2>1, WayStep
  <2>2. ASSUME UNCHANGED <<metaVars, log, queueVars, runVars>>
        PROVE  UNCHANGED Way!deliveryVars
    <3>1. UNCHANGED <<status, log, stream, pel, home, cut>>
      BY <2>2 DEF metaVars, queueVars, runVars
    <3>2. \A t \in Tasks : ToldOf(t)' = ToldOf(t) /\ DeliveryOf(t)' = DeliveryOf(t)
      BY <3>1 DEF ToldOf, LogHas, DeliveryOf, InQueue
    <3>. QED
      BY <3>1, <3>2 DEF Way!deliveryVars
  <2>3. ASSUME NEW c \in Clients, HandlerStep(c) \/ ConnectionStep(c)
        PROVE  UNCHANGED Way!deliveryVars
    <3>0. conn[c].phase = "replaying" => conn[c].task \in Tasks
      BY <2>0 DEF LossInv
    <3>1. Only(c)
      BY <2>0, <2>3, <3>0, FeedMoves DEF RedisInv
    <3>. QED
      BY <2>2, <3>1 DEF Only
  <2>4. CASE UNCHANGED serverVars
    BY <2>2, <2>4 DEF serverVars, storeVars
  <2>. QED
    BY <2>1, <2>3, <2>4 DEF FeedNext
<1>. QED
  BY <1>1, <1>2, FeedInvariant, PTL DEF FeedSpec, Delivery, Way!DeliverySpec

=============================================================================
