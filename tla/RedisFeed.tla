----------------------------- MODULE RedisFeed ------------------------------
(***************************************************************************)
(* The event streams of the routes over Redis: _sse_stream and task_ws,    *)
(* which read the log (XRANGE), send it, subscribe (SUBSCRIBE) and forward *)
(* what is published.  Each of these commands suspends the handler, so     *)
(* every writer of the task may be anywhere between its INCR, XADD and     *)
(* PUBLISH when the handler reads or subscribes.                           *)
(*                                                                         *)
(* A connection is used once: a client that comes back is another one,     *)
(* with the last number it has as from_seq.                                *)
(***************************************************************************)
EXTENDS RedisServer

CONSTANT MaxFrom  \* bound: the from_seq a client may ask for

ASSUME MaxFromAssumption == MaxFrom \in Nat

IsVerdict(e) == e.kind \in VerdictKinds

Send(r, e) == [r EXCEPT !.sent = Append(@, e)]

Becomes(c, r) ==
  /\ conn' = [conn EXCEPT ![c] = r]
  /\ UNCHANGED <<metaVars, seq, log, queueVars, memory, actorVars, runVars>>

\* GET /tasks/{id}/events or the WebSocket: get_meta, then replay_events.
Connect(c, t, f) ==
  /\ conn[c].phase = "idle"
  /\ t \in answered
  /\ Becomes(c, [NoConn EXCEPT !.phase = "replaying", !.task = t, !.from = f,
                               !.replay = ReplayEvents(t, f), !.last = f])
  /\ UNCHANGED inbox

\* One iteration of the replay loop, in the order of the numbers.
SendReplay(c) ==
  LET r == conn[c] IN
  /\ r.phase = "replaying"
  /\ \E e \in r.replay :
       /\ \A o \in r.replay : e.seq <= o.seq
       /\ Becomes(c, [Send(r, e) EXCEPT !.replay = @ \ {e}, !.live = @ + 1,
                                        !.phase = IF IsVerdict(e) THEN "over" ELSE @])
  /\ UNCHANGED inbox

SentNumbers(c) == {conn[c].sent[i].seq : i \in DOMAIN conn[c].sent}

\* In the log, and its PUBLISH still to come.
Unpublished(t) == {held[a] : a \in {b \in Actors : b[2] = t /\ At(b, "publish")}}

\* SUBSCRIBE.  Whatever was published before it and is not in the snapshot is
\* lost to this connection.  "last" still is from_seq.
Subscribe(c) ==
  LET r == conn[c] IN
  /\ r.phase = "replaying"
  /\ r.replay = {}
  /\ Becomes(c, [r EXCEPT !.phase = "listening",
                          !.missed = {n \in Logged(r.task) : n > r.from}
                                       \ (SentNumbers(c) \cup Unpublished(r.task))])
  /\ UNCHANGED inbox

\* Mutant: every message is sent.
ForwardAny(c) ==
  LET r == conn[c] IN
  /\ r.phase = "listening"
  /\ inbox[c] # <<>>
  /\ LET e == Head(inbox[c]) IN
       Becomes(c, [Send(r, e) EXCEPT !.last = e.seq,
                                     !.phase = IF IsVerdict(e) THEN "over" ELSE @])
  /\ inbox' = [inbox EXCEPT ![c] = IF IsVerdict(Head(@)) THEN <<>> ELSE Tail(@)]

\* Mutant: a verdict does not end the handler.
ForwardPastVerdict(c) ==
  LET r == conn[c] IN
  /\ r.phase = "listening"
  /\ inbox[c] # <<>>
  /\ Head(inbox[c]).seq > r.last
  /\ Becomes(c, [Send(r, Head(inbox[c])) EXCEPT !.last = Head(inbox[c]).seq])
  /\ inbox' = [inbox EXCEPT ![c] = Tail(@)]

\* get_message returns an event beyond "last": it is sent, and a verdict ends
\* the handler and its subscription.
Forward(c) ==
  LET r == conn[c] IN
  /\ r.phase = "listening"
  /\ inbox[c] # <<>>
  /\ LET e == Head(inbox[c]) IN
       /\ e.seq > r.last
       /\ Becomes(c, [Send(r, e) EXCEPT !.last = e.seq,
                                        !.phase = IF IsVerdict(e) THEN "over" ELSE @])
  /\ inbox' = [inbox EXCEPT ![c] = IF IsVerdict(Head(@)) THEN <<>> ELSE Tail(@)]

\* ... or one that another event has overtaken: it is dropped.
Skip(c) ==
  LET r == conn[c] IN
  /\ r.phase = "listening"
  /\ inbox[c] # <<>>
  /\ LET n == Head(inbox[c]).seq IN
       /\ n <= r.last
       /\ Becomes(c, [r EXCEPT !.missed = @ \cup ({n} \ (SentNumbers(c) \cup 0 .. r.from))])
  /\ inbox' = [inbox EXCEPT ![c] = Tail(@)]

\* The client leaves.
Disconnect(c) ==
  /\ conn[c].phase \in {"replaying", "listening"}
  /\ Becomes(c, [conn[c] EXCEPT !.phase = "gone", !.replay = {}])
  /\ inbox' = [inbox EXCEPT ![c] = <<>>]

HandlerStep(c) == SendReplay(c) \/ Subscribe(c) \/ Forward(c) \/ Skip(c)

ConnectionStep(c) == Disconnect(c) \/ \E t \in Tasks, f \in 0..MaxFrom : Connect(c, t, f)

FeedNext == ServerNext \/ \E c \in Clients : HandlerStep(c) \/ ConnectionStep(c)

\* RedisServer's fairness, and a handler that is ready runs.
FeedSpec ==
  /\ ServerInit
  /\ [][FeedNext]_serverVars
  /\ ServerFairness
  /\ \A c \in Clients : WF_serverVars(HandlerStep(c))

-----------------------------------------------------------------------------
(***************************************************************************)
(* Properties.                                                             *)
(***************************************************************************)

\* What a client is sent from the snapshot is in order, and so is what it is
\* sent live: an event is sent at most once in each part.  It may be sent in
\* both: SentInOrder does not hold.
SentInTwoOrders ==
  \A c \in Clients :
    LET r == conn[c] IN
    \A i, j \in DOMAIN r.sent :
      i < j /\ r.sent[i].seq >= r.sent[j].seq => i <= r.live /\ r.live < j

\* Without a fault an event of the log reaches a subscribed client, is on its way
\* to it, or was lost in one of two ways: published between the client's XRANGE
\* and its SUBSCRIBE, or overtaken by an event with a higher number.
LossAccounted ==
  \A c \in Clients :
    LET r == conn[c] IN
    r.phase = "listening" /\ faults = 0 =>
      \A n \in Logged(r.task) :
        n > r.from => \/ n \in SentNumbers(c) \cup r.missed \cup Unpublished(r.task)
                      \/ \E i \in DOMAIN inbox[c] : inbox[c][i].seq = n

\* The status that goes with an event.
StatusOf(k) ==
  CASE k = "ok" -> "succeeded" [] k = "error" -> "failed" [] OTHER -> k

\* A client that was sent a verdict may still read "running", but not for
\* ever: the status follows, or the error of a run that raised after it.
VerdictBecomesStatus ==
  \A c \in Clients, t \in Tasks : \A k \in VerdictKinds :
    (conn[c].phase = "over" /\ conn[c].task = t /\ conn[c].sent[Len(conn[c].sent)].kind = k)
      ~> status[t] = StatusOf(k) \/ t \in cut \/ (k = "ok" /\ status[t] = "failed")

\* End to end, over API process, Redis and workers: a client that follows a task
\* from the beginning is sent its verdict, unless it leaves, an event was lost in
\* one of the two ways, or a fault intervened.
WatcherInformed ==
  \A c \in Clients :
    conn[c].phase \in {"replaying", "listening"} /\ conn[c].from = 0
      ~> conn[c].phase \in {"over", "gone"} \/ conn[c].missed # {} \/ faults > 0

-----------------------------------------------------------------------------
(***************************************************************************)
(* What the documents say and the code does not do.                        *)
(***************************************************************************)

\* Design document, section 4: a subscriber is sent events of increasing number.
\* "last" is still from_seq after the snapshot, so what is published after the
\* SUBSCRIBE is sent although it was in the snapshot, or has a number below one
\* that was.
SentInOrder ==
  \A c \in Clients : \A i, j \in DOMAIN conn[c].sent :
    i < j => conn[c].sent[i].seq < conn[c].sent[j].seq

=============================================================================
