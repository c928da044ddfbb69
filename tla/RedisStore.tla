----------------------------- MODULE RedisStore -----------------------------
(***************************************************************************)
(* RedisTaskStore: the keys, streams and channels in Redis, with one       *)
(* operator per command that changes them.                                 *)
(*                                                                         *)
(* Redis runs one command, or one MULTI/EXEC transaction, at a time, and   *)
(* every command suspends its caller.  An operation that issues several    *)
(* commands is therefore several steps of whoever calls it (RedisServer);  *)
(* what MemoryStore does in one step can be interleaved here.              *)
(***************************************************************************)
EXTENDS TaskEvents, Integers, FiniteSets

CONSTANTS Tasks,     \* the task ids
          Sessions,  \* the session storage keys
          Clients,   \* the stream connections
          NoTask     \* what a connection without a subscription listens to

ASSUME NoTaskAssumption == NoTask \notin Tasks

VARIABLES status,     \* task:{t}:meta, field "status"
          seq,        \* task:{t}:seq
          log,        \* task:{t}:log, in the order of XADD
          cancelled,  \* the tasks whose task:{t}:cancel is "1"
          stream,     \* agent:tasks:pending, what the group was not yet given
          pel,        \* the group's pending entries: given and not acknowledged
          memory,     \* session snapshots, as the tasks whose turns they hold
          inbox,      \* what the subscription of each connection has received
          conn        \* the connections and their handlers (RedisFeed)

metaVars == <<status, cancelled>>
queueVars == <<stream, pel>>
liveVars == <<inbox, conn>>
storeVars == <<metaVars, seq, log, queueVars, memory, liveVars>>

(* idle: not connected yet        replaying: sending the snapshot           *)
(* listening: subscribed          gone: the client left                     *)
(* over: the handler returned                                               *)
ConnPhases == {"idle", "replaying", "listening", "gone", "over"}

Conns == [phase  : ConnPhases,
          task   : Tasks \cup {NoTask},
          from   : Nat,           \* its from_seq
          replay : SUBSET Event,  \* the events of its snapshot still to send
          last   : Nat,           \* the handler's "last"
          sent   : Seq(Event),    \* history: what was sent to the client
          live   : Nat,           \* history: how much of it was the snapshot
          missed : SUBSET Nat]    \* history: the numbers it will not be sent

NoConn == [phase |-> "idle", task |-> NoTask, from |-> 0, replay |-> {},
           last |-> 0, sent |-> <<>>, live |-> 0, missed |-> {}]

StoreInit ==
  /\ status = [t \in Tasks |-> "absent"]
  /\ seq = [t \in Tasks |-> 0]
  /\ log = [t \in Tasks |-> <<>>]
  /\ cancelled = {}
  /\ stream = <<>>
  /\ pel = {}
  /\ memory = [s \in Sessions |-> <<>>]
  /\ inbox = [c \in Clients |-> <<>>]
  /\ conn = [c \in Clients |-> NoConn]

StoreTypeOK ==
  /\ status \in [Tasks -> Statuses]
  /\ seq \in [Tasks -> Nat]
  /\ log \in [Tasks -> Seq({e \in Event : e.seq > 0})]  \* INCR begins with 1
  /\ cancelled \in SUBSET Tasks
  /\ stream \in Seq(Tasks)
  /\ pel \in SUBSET Tasks
  /\ memory \in [Sessions -> Seq(Tasks)]
  /\ inbox \in [Clients -> Seq(Event)]
  /\ conn \in [Clients -> Conns]

-----------------------------------------------------------------------------
\* HSET meta, SET seq 0 and XADD to the queue, in one transaction.
QueueTask(t) ==
  /\ status' = [status EXCEPT ![t] = "queued"]
  /\ seq' = [seq EXCEPT ![t] = 0]
  /\ stream' = Append(stream, t)
  /\ UNCHANGED <<cancelled, log, pel, memory, liveVars>>

\* HSET of a status.
HsetStatus(t, s) ==
  /\ status' = [status EXCEPT ![t] = s]
  /\ UNCHANGED <<cancelled, seq, log, queueVars, memory, liveVars>>

\* Mutant: the number is taken from the length of the log.
IncrFromLength(t) ==
  /\ seq' = [seq EXCEPT ![t] = Len(log[t]) + 1]
  /\ UNCHANGED <<metaVars, log, queueVars, memory, liveVars>>

\* INCR seq, whose reply is the new value.
IncrSeq(t) ==
  /\ seq' = [seq EXCEPT ![t] = @ + 1]
  /\ UNCHANGED <<metaVars, log, queueVars, memory, liveVars>>

\* XADD of an event to the log.
XaddEvent(t, e) ==
  /\ log' = [log EXCEPT ![t] = Append(@, e)]
  /\ UNCHANGED <<metaVars, seq, queueVars, memory, liveVars>>

Subscribed(c, t) == conn[c].phase = "listening" /\ conn[c].task = t

\* PUBLISH: to whoever is subscribed at this moment.
PublishEvent(t, e) ==
  /\ inbox' = [c \in Clients |->
                 IF Subscribed(c, t) THEN Append(inbox[c], e) ELSE inbox[c]]
  /\ UNCHANGED <<metaVars, seq, log, queueVars, memory, conn>>

\* SET cancel 1.
SetCancel(t) ==
  /\ cancelled' = cancelled \cup {t}
  /\ UNCHANGED <<status, seq, log, queueVars, memory, liveVars>>

\* Mutant: entries are delivered again to a worker that asks again.
ReadGroupKeeps(t) ==
  /\ stream # <<>>
  /\ t = Head(stream)
  /\ pel' = pel \cup {t}
  /\ UNCHANGED <<metaVars, seq, log, stream, memory, liveVars>>

\* XREADGROUP with ">" and count 1: the oldest entry the group was never given
\* is given to one consumer and becomes pending.
ReadGroup(t) ==
  /\ stream # <<>>
  /\ t = Head(stream)
  /\ stream' = Tail(stream)
  /\ pel' = pel \cup {t}
  /\ UNCHANGED <<metaVars, seq, log, memory, liveVars>>

\* XACK.
AckDelivery(t) ==
  /\ pel' = pel \ {t}
  /\ UNCHANGED <<metaVars, seq, log, stream, memory, liveVars>>

\* SET of a session snapshot.
SessionSet(s, turns) ==
  /\ memory' = [memory EXCEPT ![s] = turns]
  /\ UNCHANGED <<metaVars, seq, log, queueVars, liveVars>>

\* XRANGE of the whole log, what is beyond from_seq, sorted by seq
\* (RedisFeed walks the set in that order).
ReplayEvents(t, from) ==
  {log[t][i] : i \in {j \in DOMAIN log[t] : log[t][j].seq > from}}

=============================================================================
