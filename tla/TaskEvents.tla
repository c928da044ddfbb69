----------------------------- MODULE TaskEvents -----------------------------
(***************************************************************************)
(* The vocabulary every other module shares: the values of the "status"    *)
(* field of a task's metadata, and the events of a task's log.             *)
(*                                                                         *)
(* An event of the program is {seq, type, chunk, meta}.  The properties    *)
(* tell apart its sequence number and what it announces, so an event is a  *)
(* record of the two, and "kind" stands for type, chunk and meta together: *)
(*   queued, running, cancel_requested, tool     type = "status"           *)
(*   agent, stdout, stderr                       the type of that name     *)
(*   ok, cancelled        type = "result", meta = {ok: ..}, {cancelled: ..}*)
(*   error                                       type = "error"            *)
(***************************************************************************)
EXTENDS Naturals, Sequences

Verdicts == {"succeeded", "failed", "cancelled"}

\* "absent" is a task whose id has no metadata yet.
Statuses == {"absent", "queued", "running"} \cup Verdicts

ResultKinds == {"ok", "cancelled"}

\* The events after which the routes end a stream: type in ("result", "error").
VerdictKinds == ResultKinds \cup {"error"}

\* What an agent run logs while it works: streamed text and its tools' output.
StreamKinds == {"agent", "stdout", "stderr", "tool"}

Kinds == {"queued", "running", "cancel_requested"} \cup StreamKinds \cup VerdictKinds

Event == [seq : Nat, kind : Kinds]

\* The events that kinds ks become when n events have been logged before them.
Stamp(n, ks) == [i \in 1..Len(ks) |-> [seq |-> n + i, kind |-> ks[i]]]

=============================================================================
