---------------------------- MODULE MemoryStore -----------------------------
(***************************************************************************)
(* InMemoryTaskStore: the task queue, the metadata, the event logs, the    *)
(* cancel flags, the session snapshots and the listener queues of one      *)
(* process, with one operator per operation of the store.                  *)
(*                                                                         *)
(* No body under the store's asyncio.Lock awaits anything, so the lock is  *)
(* never found taken, no operation of this store ever suspends its caller, *)
(* and each operation is atomic together with the code around it.  The     *)
(* operators below are therefore conjuncts of the actions of the server    *)
(* (TaskServer) and of the streams (EventFeed), not actions of their own.  *)
(***************************************************************************)
EXTENDS TaskEvents, Integers, FiniteSets

CONSTANTS Tasks,      \* the task ids (uuid4: one id is used for one task)
          Clients,    \* the stream connections, SSE or WebSocket
          Keys,       \* the session storage keys
          QueueMax    \* maxsize of a listener queue (4096)

ASSUME QueueAssumption == QueueMax \in Nat \ {0}

VARIABLES status,     \* _meta[t]["status"]
          log,        \* _logs[t]
          seq,        \* _seq[t]
          pending,    \* _pending
          cancelled,  \* _cancel
          memory,     \* _session_json[k], as the tasks whose turns it holds
          listeners,  \* _listeners[t], as the connections that own the queues
          inbox,      \* the listener queue of each connection
          missed      \* history: the seqs each connection was never handed

logVars   == <<log, seq, inbox, missed>>
storeVars == <<status, pending, cancelled, memory, listeners, log, seq, inbox, missed>>

StoreInit ==
  /\ status = [t \in Tasks |-> "absent"]
  /\ log = [t \in Tasks |-> <<>>]
  /\ seq = [t \in Tasks |-> 0]
  /\ pending = <<>>
  /\ cancelled = {}
  /\ memory = [k \in Keys |-> <<>>]
  /\ listeners = [t \in Tasks |-> {}]
  /\ inbox = [c \in Clients |-> <<>>]
  /\ missed = [c \in Clients |-> {}]

LogTypeOK ==
  /\ log \in [Tasks -> Seq(Event)]
  /\ seq \in [Tasks -> Nat]
  /\ inbox \in [Clients -> Seq(Event)]
  /\ \A c \in Clients : Len(inbox[c]) <= QueueMax
  /\ missed \in [Clients -> SUBSET Nat]

\* The events of t are numbered 1, 2, 3, ... in the order they are kept.
Numbered(t) ==
  /\ seq[t] = Len(log[t])
  /\ \A i \in DOMAIN log[t] : log[t][i].seq = i

StoreTypeOK ==
  /\ LogTypeOK
  /\ status \in [Tasks -> Statuses]
  /\ pending \in Seq(Tasks)
  /\ cancelled \in SUBSET Tasks
  /\ memory \in [Keys -> Seq(Tasks)]
  /\ listeners \in [Tasks -> SUBSET Clients]

-----------------------------------------------------------------------------
\* Mutant: the queue has no maxsize.
RoomUnbounded(q, n) == n

\* How many of n events fit behind queue q: put_nowait raises QueueFull for
\* the rest, and _fanout swallows it.
Room(q, n) == IF Len(q) + n <= QueueMax THEN n ELSE QueueMax - Len(q)

Offer(q, evs) == q \o SubSeq(evs, 1, Room(q, Len(evs)))

\* append_event, once per event: log, count, and fan out to the connections
\* registered now.
LogAndFanOut(t, evs) ==
  /\ log' = [log EXCEPT ![t] = @ \o evs]
  /\ seq' = [seq EXCEPT ![t] = @ + Len(evs)]
  /\ inbox' = [c \in Clients |->
                 IF c \in listeners[t] THEN Offer(inbox[c], evs) ELSE inbox[c]]
  /\ missed' = [c \in Clients |->
                  IF c \in listeners[t]
                  THEN missed[c] \cup
                         {evs[i].seq : i \in Room(inbox[c], Len(evs)) + 1 .. Len(evs)}
                  ELSE missed[c]]

\* Mutant: the number is read before the counter is incremented.
AppendNumbersLate(t, ks) == LogAndFanOut(t, Stamp(seq[t] - 1, ks))

AppendEvents(t, ks) == LogAndFanOut(t, Stamp(seq[t], ks))

UpdateMeta(t, s) == status' = [status EXCEPT ![t] = s]

\* The id is fresh, so "_seq[tid] = 0" finds the 0 of Init.
EnqueueTask(t) ==
  /\ UpdateMeta(t, "queued")
  /\ pending' = Append(pending, t)
  /\ AppendEvents(t, <<"queued">>)

RequestCancel(t) ==
  /\ cancelled' = cancelled \cup {t}
  /\ AppendEvents(t, <<"cancel_requested">>)

IsCancelled(t) == t \in cancelled

\* replay_events: the events after from_seq.  The caller walks them in the
\* order of their seq (EventFeed!SendReplay), which is what the sort is for.
ReplayEvents(t, from) ==
  {log[t][i] : i \in {j \in DOMAIN log[t] : log[t][j].seq > from}}

\* subscribe_live: a new, empty queue is registered.
SubscribeLive(c, t) ==
  /\ listeners' = [listeners EXCEPT ![t] = @ \cup {c}]
  /\ inbox' = [inbox EXCEPT ![c] = <<>>]

\* MemoryPubSub.aclose: the queue is unregistered and dropped with its content.
Unsubscribe(c, t) ==
  /\ listeners' = [listeners EXCEPT ![t] = @ \ {c}]
  /\ inbox' = [inbox EXCEPT ![c] = <<>>]

=============================================================================
