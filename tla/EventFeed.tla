----------------------------- MODULE EventFeed ------------------------------
(***************************************************************************)
(* The event streams of the routes over the in-memory store: _sse_stream   *)
(* and task_ws, which replay a snapshot of the log, then register a        *)
(* listener queue and forward what is put into it until a verdict.         *)
(*                                                                         *)
(* A handler suspends only in a send, whose client may be slow, and in     *)
(* get_message on an empty queue.  The module has no next-state relation   *)
(* of its own: MemoryServer puts it beside the routes, worker and runs     *)
(* that write the log.                                                     *)
(***************************************************************************)
EXTENDS MemoryStore

CONSTANTS NoTask,  \* what an idle connection watches
          MaxFrom  \* bound: the from_seq a client may ask for

ASSUME NoTaskAssumption == NoTask \notin Tasks

ASSUME MaxFromAssumption == MaxFrom \in Nat

VARIABLES phase,     \* what each connection is doing
          watching,  \* its task
          from,      \* its from_seq
          replay,    \* the events of its snapshot it has still to send
          snapped,   \* how long the log was when the snapshot was taken
          last,      \* the handler's "last"
          seen       \* history: the seqs sent to the client, over all its
                     \* connections, less those lost in flight

handlerVars == <<phase, watching, from, replay, snapped, last>>
feedVars == <<handlerVars, seen>>

(* idle: not connected yet      replaying: sending the snapshot             *)
(* listening: registered        broken: the client left before a verdict    *)
(* over: the handler returned                                               *)
FeedPhases == {"idle", "replaying", "listening", "broken", "over"}

HandlerInit ==
  /\ phase = [c \in Clients |-> "idle"]
  /\ watching = [c \in Clients |-> NoTask]
  /\ from = [c \in Clients |-> 0]
  /\ replay = [c \in Clients |-> {}]
  /\ snapped = [c \in Clients |-> 0]
  /\ last = [c \in Clients |-> 0]
  /\ seen = [c \in Clients |-> <<>>]

Goto(c, p) == phase' = [phase EXCEPT ![c] = p]

Deliver(c, e) == seen' = [seen EXCEPT ![c] = Append(@, e.seq)]

\* The events of t that c was never handed because they were logged after the
\* snapshot and before the listener was registered.
Window(c, t) == {log[t][i].seq : i \in snapped[c] + 1 .. Len(log[t])}

-----------------------------------------------------------------------------
\* get_meta and replay_events, in one step; with nothing to replay the handler
\* goes on to subscribe_live without suspending.
Open(c, t, f) ==
  /\ watching' = [watching EXCEPT ![c] = t]
  /\ from' = [from EXCEPT ![c] = f]
  /\ snapped' = [snapped EXCEPT ![c] = Len(log[t])]
  /\ replay' = [replay EXCEPT ![c] = ReplayEvents(t, f)]
  /\ last' = [last EXCEPT ![c] = f]
  /\ IF ReplayEvents(t, f) = {}
     THEN Goto(c, "listening") /\ SubscribeLive(c, t)
     ELSE Goto(c, "replaying") /\ UNCHANGED <<listeners, inbox>>
  /\ UNCHANGED <<status, log, seq, pending, cancelled, memory, missed, seen>>

\* GET /tasks/{id}/events, or the WebSocket with its subscribe message.
Connect(c, t, f) ==
  /\ phase[c] = "idle"
  /\ status[t] # "absent"
  /\ Open(c, t, f)

\* A client that lost its connection comes back with the last seq it has.
Reconnect(c) ==
  /\ phase[c] = "broken"
  /\ Open(c, watching[c],
          IF seen[c] = <<>> THEN from[c] ELSE seen[c][Len(seen[c])])

\* The id has no metadata: an error object, and the end.
NotFound(c, t) ==
  /\ phase[c] = "idle"
  /\ status[t] = "absent"
  /\ Goto(c, "over")
  /\ UNCHANGED <<storeVars, watching, from, replay, snapped, last, seen>>

\* Mutant: the replay is not sorted.
SendReplayUnsorted(c) ==
  /\ phase[c] = "replaying"
  /\ \E e \in replay[c] :
       /\ Deliver(c, e)
       /\ replay' = [replay EXCEPT ![c] = @ \ {e}]
       /\ Goto(c, IF e.kind \in VerdictKinds THEN "over" ELSE "replaying")
  /\ UNCHANGED <<storeVars, watching, from, snapped, last>>

\* One iteration of the replay loop, in the order of the seqs.
SendReplay(c) ==
  /\ phase[c] = "replaying"
  /\ \E e \in replay[c] :
       /\ \A o \in replay[c] : e.seq <= o.seq
       /\ Deliver(c, e)
       /\ replay' = [replay EXCEPT ![c] = @ \ {e}]
       /\ Goto(c, IF e.kind \in VerdictKinds THEN "over" ELSE "replaying")
  /\ UNCHANGED <<storeVars, watching, from, snapped, last>>

\* The last send of the replay is over.  "last" still is from_seq.
Subscribe(c) ==
  /\ phase[c] = "replaying"
  /\ replay[c] = {}
  /\ Goto(c, "listening")
  /\ SubscribeLive(c, watching[c])
  /\ missed' = [missed EXCEPT ![c] = @ \cup Window(c, watching[c])]
  /\ UNCHANGED <<status, log, seq, pending, cancelled, memory,
                 watching, from, replay, snapped, last, seen>>

\* Mutant: "last" is one too far.
ForwardOffByOne(c) ==
  /\ phase[c] = "listening"
  /\ inbox[c] # <<>>
  /\ LET e == Head(inbox[c]) IN
       /\ e.seq > last[c]
       /\ last' = [last EXCEPT ![c] = e.seq + 1]
       /\ Deliver(c, e)
       /\ IF e.kind \in VerdictKinds
          THEN Goto(c, "over") /\ Unsubscribe(c, watching[c])
          ELSE /\ inbox' = [inbox EXCEPT ![c] = Tail(@)]
               /\ UNCHANGED <<phase, listeners>>
  /\ UNCHANGED <<status, log, seq, pending, cancelled, memory, missed,
                 watching, from, replay, snapped>>

\* Mutant: a verdict does not end the loop.
ForwardPastVerdict(c) ==
  /\ phase[c] = "listening"
  /\ inbox[c] # <<>>
  /\ Head(inbox[c]).seq > last[c]
  /\ last' = [last EXCEPT ![c] = Head(inbox[c]).seq]
  /\ Deliver(c, Head(inbox[c]))
  /\ inbox' = [inbox EXCEPT ![c] = Tail(@)]
  /\ UNCHANGED <<status, log, seq, pending, cancelled, memory, missed,
                 phase, listeners, watching, from, replay, snapped>>

\* get_message returns an event the handler has not passed: it is sent.
Forward(c) ==
  /\ phase[c] = "listening"
  /\ inbox[c] # <<>>
  /\ LET e == Head(inbox[c]) IN
       /\ e.seq > last[c]
       /\ last' = [last EXCEPT ![c] = e.seq]
       /\ Deliver(c, e)
       /\ IF e.kind \in VerdictKinds
          THEN Goto(c, "over") /\ Unsubscribe(c, watching[c])
          ELSE /\ inbox' = [inbox EXCEPT ![c] = Tail(@)]
               /\ UNCHANGED <<phase, listeners>>
  /\ UNCHANGED <<status, log, seq, pending, cancelled, memory, missed,
                 watching, from, replay, snapped>>

\* ... or one whose seq is not beyond "last": it is dropped.
Skip(c) ==
  /\ phase[c] = "listening"
  /\ inbox[c] # <<>>
  /\ Head(inbox[c]).seq <= last[c]
  /\ inbox' = [inbox EXCEPT ![c] = Tail(@)]
  /\ UNCHANGED <<status, log, seq, pending, cancelled, memory, missed,
                 listeners, feedVars>>

\* What was sent on the broken connection and still in flight is lost with it.
LoseInFlight(c) ==
  \E n \in 0..Len(seen[c]) :
    /\ \A i \in n + 1 .. Len(seen[c]) : seen[c][i] > from[c]
    /\ seen' = [seen EXCEPT ![c] = SubSeq(@, 1, n)]

\* Mutant: the queue stays registered.
DisconnectLeaks(c) ==
  /\ phase[c] \in {"replaying", "listening"}
  /\ Goto(c, "broken")
  /\ replay' = [replay EXCEPT ![c] = {}]
  /\ LoseInFlight(c)
  /\ UNCHANGED <<storeVars, watching, from, snapped, last>>

\* The client goes away: the generator is cancelled, or a send raises.
Disconnect(c) ==
  /\ phase[c] \in {"replaying", "listening"}
  /\ Goto(c, "broken")
  /\ replay' = [replay EXCEPT ![c] = {}]
  /\ IF phase[c] = "listening"
     THEN Unsubscribe(c, watching[c])
     ELSE UNCHANGED <<listeners, inbox>>
  /\ LoseInFlight(c)
  /\ UNCHANGED <<status, log, seq, pending, cancelled, memory, missed,
                 watching, from, snapped, last>>

-----------------------------------------------------------------------------
HandlerStep(c) == SendReplay(c) \/ Subscribe(c) \/ Forward(c) \/ Skip(c)

-----------------------------------------------------------------------------
(***************************************************************************)
(* Properties.                                                             *)
(***************************************************************************)

FeedTypeOK ==
  /\ StoreTypeOK
  /\ phase \in [Clients -> FeedPhases]
  /\ watching \in [Clients -> Tasks \cup {NoTask}]
  /\ from \in [Clients -> Nat]
  /\ replay \in [Clients -> SUBSET Event]
  /\ snapped \in [Clients -> Nat]
  /\ last \in [Clients -> Nat]
  /\ seen \in [Clients -> Seq(Nat)]

\* A listener queue is registered exactly while its handler forwards from it,
\* whichever way the handler ends, so no queue fills up behind a client that
\* has gone.
ListenersExact ==
  \A c \in Clients :
    /\ \A t \in Tasks : c \in listeners[t] <=> phase[c] = "listening" /\ watching[c] = t
    /\ phase[c] # "listening" => inbox[c] = <<>>

\* No event is sent twice to a client and none out of order, from the replay
\* to the live events and over its reconnections.
SeenInOrder ==
  \A c \in Clients : \A i, j \in DOMAIN seen[c] : i < j => seen[c][i] < seen[c][j]

\* The seqs a client has, or has on the way to it.
Covered(c) ==
  {seen[c][i] : i \in DOMAIN seen[c]} \cup missed[c] \cup
  {e.seq : e \in replay[c]} \cup {inbox[c][i].seq : i \in DOMAIN inbox[c]}

\* Whatever a client of task t does not get was logged while its handler was
\* sending the snapshot, or found its queue full: nothing is lost once the
\* listener is registered and its client keeps up.
LossAccounted ==
  \A c \in Clients :
    /\ phase[c] = "listening" =>
         \A n \in from[c] + 1 .. Len(log[watching[c]]) : n \in Covered(c)
    /\ phase[c] = "replaying" =>
         \A n \in from[c] + 1 .. snapped[c] : n \in Covered(c)

\* The verdict of t that c will meet: beyond its from_seq and not missed.
VerdictAhead(c) ==
  /\ watching[c] # NoTask
  /\ \E i \in DOMAIN log[watching[c]] :
       /\ log[watching[c]][i].kind \in VerdictKinds
       /\ i > from[c]
       /\ i \notin missed[c]

\* A stream whose verdict is logged, and was not missed, ends or is broken off.
StreamEnds ==
  \A c \in Clients :
    phase[c] \in {"replaying", "listening"} /\ VerdictAhead(c)
      ~> phase[c] \in {"over", "broken"} \/ ~VerdictAhead(c)

\* README, "client.py": without --stream the client collects all the events of
\* the task, then prints them.  The stream of a task whose verdict is logged
\* while the snapshot is sent never ends.
StreamOfVerdictEnds ==
  \A c \in Clients :
    (/\ phase[c] = "listening"
     /\ \E i \in DOMAIN log[watching[c]] :
          i > from[c] /\ log[watching[c]][i].kind \in VerdictKinds)
      ~> phase[c] \in {"over", "broken"}

=============================================================================
