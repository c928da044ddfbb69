----------------------------- MODULE CliRunner ------------------------------
(***************************************************************************)
(* run_cli_streaming: a child process that writes to two pipes, and the    *)
(* two readers that log and capture what it writes, line by line, until    *)
(* both pipes are at their end.                                            *)
(*                                                                         *)
(* The child is any program that ends when somebody takes its output; it   *)
(* blocks on a full pipe.  Each line is logged, which may suspend the      *)
(* reader, and captured after that, so the readers interleave.             *)
(***************************************************************************)
EXTENDS Integers, Sequences

CONSTANTS Capacity,     \* how many lines a pipe and its StreamReader hold
          MaxToolLines, \* max_tool_chars, in lines
          MaxLines,     \* bound: lines a child writes
          LogMayFail    \* append_event may raise

ASSUME RunnerAssumption ==
  /\ Capacity \in Nat \ {0}
  /\ MaxToolLines \in Nat
  /\ MaxLines \in Nat
  /\ LogMayFail \in BOOLEAN

VARIABLES call,      \* the call of run_cli_streaming
          child,     \* Ready, Exited, or the line it is about to write
          output,    \* history: what the child has written to each stream
          pipe,      \* what of it was not read yet
          reader,    \* what the reader of each stream is doing
          hand,      \* the line each reader works on
          logged,    \* the events of the tool call
          captured   \* the list both readers append to

cliVars == <<call, child, output, pipe, reader, hand, logged, captured>>

Streams == {"stdout", "stderr"}

(* page: the object of a fetched page    error: an object that is no page    *)
(* value: JSON that is no object         text: any other text                *)
(* long: beyond the reader's limit                                           *)
Lines == {"page", "error", "value", "text", "blank", "long"}

Write == [to : Streams, line : Lines]

Line(s, l) == [to |-> s, line |-> l]

Ready == Line("any", "blank")
Exited == Line("none", "blank")

CliInit ==
  /\ call = "idle"
  /\ child = Exited
  /\ output = [s \in Streams |-> <<>>]
  /\ pipe = [s \in Streams |-> <<>>]
  /\ reader = [s \in Streams |-> "done"]
  /\ hand = [s \in Streams |-> "blank"]
  /\ logged = <<>>
  /\ captured = <<>>

\* create_subprocess_exec, and a reader for each pipe.
StartCli ==
  /\ call' = "open"
  /\ child' = Ready
  /\ output' = [s \in Streams |-> <<>>]
  /\ pipe' = [s \in Streams |-> <<>>]
  /\ reader' = [s \in Streams |-> "reading"]
  /\ hand' = [s \in Streams |-> "blank"]
  /\ captured' = <<>>

-----------------------------------------------------------------------------
\* The child decides what it does next, and then cannot do otherwise.
ChildDecides ==
  /\ child = Ready
  /\ child' \in {Exited} \cup
       (IF Len(output["stdout"]) + Len(output["stderr"]) < MaxLines THEN Write ELSE {})
  /\ UNCHANGED <<call, output, pipe, reader, hand, logged, captured>>

\* A write returns when the pipe has room.
ChildWrites ==
  /\ child \in Write
  /\ Len(pipe[child.to]) < Capacity
  /\ output' = [output EXCEPT ![child.to] = Append(@, child.line)]
  /\ pipe' = [pipe EXCEPT ![child.to] = Append(@, child.line)]
  /\ child' = Ready
  /\ UNCHANGED <<call, reader, hand, logged, captured>>

Moves(s, p) == reader' = [reader EXCEPT ![s] = p]

\* Mutant: stderr is read when stdout is at its end.
ReadLineInTurn(s) ==
  /\ reader[s] = "reading"
  /\ s = "stderr" => reader["stdout"] = "done"
  /\ pipe[s] # <<>>
  /\ pipe' = [pipe EXCEPT ![s] = Tail(@)]
  /\ hand' = [hand EXCEPT ![s] = Head(pipe[s])]
  /\ Moves(s, CASE Head(pipe[s]) = "blank" -> "reading"
                [] Head(pipe[s]) = "long" -> "raised"
                [] OTHER -> "logging")
  /\ UNCHANGED <<call, child, output, logged, captured>>

\* readline: a blank line is passed over, a long one raises.
ReadLine(s) ==
  /\ reader[s] = "reading"
  /\ pipe[s] # <<>>
  /\ pipe' = [pipe EXCEPT ![s] = Tail(@)]
  /\ hand' = [hand EXCEPT ![s] = Head(pipe[s])]
  /\ Moves(s, CASE Head(pipe[s]) = "blank" -> "reading"
                [] Head(pipe[s]) = "long" -> "raised"
                [] OTHER -> "logging")
  /\ UNCHANGED <<call, child, output, logged, captured>>

\* readline at the end of the pipe.
ReadEnd(s) ==
  /\ reader[s] = "reading"
  /\ pipe[s] = <<>>
  /\ child = Exited
  /\ Moves(s, "done")
  /\ UNCHANGED <<call, child, output, pipe, hand, logged, captured>>

\* append_event: the line is in the task's log.
LogLine(s) ==
  /\ reader[s] = "logging"
  /\ logged' = Append(logged, Line(s, hand[s]))
  /\ Moves(s, "capturing")
  /\ UNCHANGED <<call, child, output, pipe, hand, captured>>

\* append_event raises: at its INCR or XADD, and the line is not in the log, or
\* at its PUBLISH, and it is.
LogRaises(s) ==
  /\ LogMayFail
  /\ reader[s] = "logging"
  /\ logged' \in {logged, Append(logged, Line(s, hand[s]))}
  /\ Moves(s, "raised")
  /\ UNCHANGED <<call, child, output, pipe, hand, captured>>

\* Mutant: the line is captured under the other stream's name.
CaptureLineUnnamed(s) ==
  /\ reader[s] = "capturing"
  /\ captured' = Append(captured, Line("stdout", hand[s]))
  /\ Moves(s, "reading")
  /\ UNCHANGED <<call, child, output, pipe, hand, logged>>

\* append_event has returned.
CaptureLine(s) ==
  /\ reader[s] = "capturing"
  /\ captured' = Append(captured, Line(s, hand[s]))
  /\ Moves(s, "reading")
  /\ UNCHANGED <<call, child, output, pipe, hand, logged>>

\* Mutant: the process is awaited, the readers are not.
ReturnsOnExit ==
  /\ call = "open"
  /\ child = Exited
  /\ call' = "returned"
  /\ UNCHANGED <<child, output, pipe, reader, hand, logged, captured>>

\* gather, then wait.
Returns ==
  /\ call = "open"
  /\ \A s \in Streams : reader[s] = "done"
  /\ child = Exited
  /\ call' = "returned"
  /\ UNCHANGED <<child, output, pipe, reader, hand, logged, captured>>

\* gather passes on the first exception: the other reader is not stopped, the
\* child neither ended nor awaited.
Raises ==
  /\ call = "open"
  /\ \E s \in Streams : reader[s] = "raised"
  /\ call' = "raised"
  /\ UNCHANGED <<child, output, pipe, reader, hand, logged, captured>>

ChildStep == ChildDecides \/ ChildWrites

ReaderStep(s) == ReadLine(s) \/ ReadEnd(s) \/ LogLine(s) \/ LogRaises(s) \/ CaptureLine(s)

CallStep == Returns \/ Raises

-----------------------------------------------------------------------------
\* What a tool is given: the captured lines, cut at the limit.  What is left of
\* a line that is cut is text.
Merged ==
  IF Len(captured) <= MaxToolLines
  THEN captured
  ELSE Append(SubSeq(captured, 1, MaxToolLines), Line(captured[MaxToolLines + 1].to, "text"))

\* text[: max_chars - 32]: Python counts a negative bound from the end.
Kept(n, max) ==
  IF max >= 32 THEN max - 32 ELSE IF n + max >= 32 THEN n + max - 32 ELSE 0

\* The length _truncate_for_tool makes of n characters: the marker has 34.
TruncatedLength(n, max) == IF n <= max THEN n ELSE Kept(n, max) + 34

=============================================================================
