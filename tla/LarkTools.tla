----------------------------- MODULE LarkTools ------------------------------
(***************************************************************************)
(* The tools an agent reviews a document with: feishu_fetch_doc and its    *)
(* pagination footer, feishu_doc_comment, and the two that run any         *)
(* command; and scripts/lark_doc_comment.py, which builds the same comment *)
(* command for a person.                                                   *)
(*                                                                         *)
(* The agent calls one tool at a time and does what a footer tells it.     *)
(***************************************************************************)
EXTENDS CliRunner

CONSTANTS Blocks,  \* how many blocks the document has
          Limit    \* LARK_DOC_FETCH_DEFAULT_LIMIT

ASSUME PageAssumption == Blocks \in Nat \ {0} /\ Limit \in Nat \ {0}

VARIABLES tool,     \* the tool that runs, or the script
          offset,   \* the page that is, or will be, asked for
          limit,
          read,     \* how often the agent was given each block
          over,     \* a footer told it that there are no further pages
          misled,   \* history: the footer of an object that is no page did
          request,  \* what the comment under way was asked to be
          anchor    \* what its command attaches it to

reviewVars == <<offset, limit, read, over, misled>>
commentVars == <<request, anchor>>
toolVars == <<tool, reviewVars, commentVars>>
vars == <<cliVars, toolVars>>

-----------------------------------------------------------------------------
(* Comments.  An argument is "" when it was not given, "blank" when it is   *)
(* white space only.                                                        *)
CommentModes == {"full", "selection", "block_id"}

Rejected == [mode |-> "none", at |-> ""]

Strip(text) == IF text = "blank" THEN "" ELSE text

\* Mutant: the arguments are taken for each other.
BuildSwapped(mode, selection, block) ==
  LET at == [full |-> "document", selection |-> Strip(block), block_id |-> Strip(selection)]
  IN  IF at[mode] = "" THEN Rejected ELSE [mode |-> mode, at |-> at[mode]]

\* build_add_comment_argv: the flag of the mode and its argument, or ValueError.
BuildAddComment(mode, selection, block) ==
  LET at == [full |-> "document", selection |-> Strip(selection), block_id |-> Strip(block)]
  IN  IF at[mode] = "" THEN Rejected ELSE [mode |-> mode, at |-> at[mode]]

Requests == [type : CommentModes \cup {"", "other"},
             selection : {"", "blank", "phrase"},
             block : {"", "blank", "block"}]

NoRequest == [type |-> "", selection |-> "", block |-> ""]

\* What feishu_doc_comment lets through: selection is its default.
ToolMode(r) == IF r.type = "" THEN "selection" ELSE r.type

ToolAccepts(r) ==
  /\ ToolMode(r) \in CommentModes
  /\ ToolMode(r) = "selection" => Strip(r.selection) # ""
  /\ ToolMode(r) = "block_id" => Strip(r.block) # ""

ToolComment(r) ==
  IF ToolAccepts(r) THEN BuildAddComment(ToolMode(r), r.selection, r.block) ELSE Rejected

\* The script's options: type "full" is --full-comment, --selection and
\* --block-id exclude each other, and a blank one counts as given.
MainAccepts(r) ==
  /\ r.type \in {"", "full"}
  /\ ~(r.selection # "" /\ r.block # "")
  /\ r.type = "full" <=> r.selection = "" /\ r.block = ""

MainMode(r) ==
  IF r.type = "full" THEN "full" ELSE IF r.block # "" THEN "block_id" ELSE "selection"

MainComment(r) ==
  IF MainAccepts(r) THEN BuildAddComment(MainMode(r), r.selection, r.block) ELSE Rejected

\* The script's questions: one text, which locates a phrase or names a block.
InteractiveComment(r) ==
  CASE r.type = "full" -> BuildAddComment("full", "", "")
    [] r.type # "full" /\ r.selection # "" -> BuildAddComment("selection", r.selection, "")
    [] OTHER -> BuildAddComment("block_id", "", r.block)

-----------------------------------------------------------------------------
(* Pages.                                                                   *)

\* parse_docs_fetch_json: standard output when all of it is JSON, or else its
\* first object.
Parsed ==
  LET stdout == SelectSeq(Merged, LAMBDA w : w.to = "stdout")
      objects == SelectSeq(stdout, LAMBDA w : w.line \in {"page", "error"})
  IN  IF stdout = <<Line("stdout", "value")>> THEN "value"
      ELSE IF objects = <<>> THEN "none" ELSE Head(objects).line

\* What lark-cli answers.
HasMore == offset + limit < Blocks

Page == {b \in 0 .. Blocks - 1 : offset <= b /\ b < offset + limit}

\* Mutant: a page that cannot be parsed is taken for the last one.
FooterGivesUp(p) == IF p = "page" /\ HasMore THEN "next" ELSE "done"

\* format_fetch_pagination_footer: has_more counts when it is True; an object
\* without it, say of an error, is the last page.
Footer(p) ==
  IF p = "none" THEN "retry" ELSE IF p = "page" /\ HasMore THEN "next" ELSE "done"

NextOffset == offset + limit

-----------------------------------------------------------------------------
Init ==
  /\ CliInit
  /\ tool = "none"
  /\ offset = 0
  /\ limit = Limit
  /\ read = [b \in 0 .. Blocks - 1 |-> 0]
  /\ over = FALSE
  /\ misled = FALSE
  /\ request = NoRequest
  /\ anchor = Rejected

Begin(name) ==
  /\ tool = "none"
  /\ call = "idle"
  /\ tool' = name

\* The status event of the start, and the command.
Launch ==
  /\ logged' = <<Line("status", "start")>>
  /\ StartCli

\* cli_exec and lark_cli_exec.
Exec ==
  /\ Begin("exec")
  /\ Launch
  /\ UNCHANGED <<reviewVars, commentVars>>

\* feishu_fetch_doc.
Fetch ==
  /\ Begin("fetch")
  /\ ~over
  /\ Launch
  /\ UNCHANGED <<reviewVars, commentVars>>

\* feishu_doc_comment; a rejected one logs nothing and starts nothing.
Comment(r) ==
  /\ Begin("comment")
  /\ request' = r
  /\ anchor' = ToolComment(r)
  /\ IF ToolComment(r) = Rejected
     THEN call' = "returned" /\ UNCHANGED <<child, output, pipe, reader, hand, logged, captured>>
     ELSE Launch
  /\ UNCHANGED reviewVars

\* The script, which waits for its command without pipes.
Script(r) ==
  /\ Begin("script")
  /\ request' = r
  /\ anchor' \in {MainComment(r), InteractiveComment(r)}
  /\ call' = "returned"
  /\ UNCHANGED <<child, output, pipe, reader, hand, logged, captured, reviewVars>>

\* The footer of a page is followed.
Follow(p) ==
  /\ read' = IF p = "page"
             THEN [b \in DOMAIN read |-> IF b \in Page THEN read[b] + 1 ELSE read[b]]
             ELSE read
  /\ offset' = IF Footer(p) = "next" THEN NextOffset ELSE offset
  /\ limit' \in IF Footer(p) = "retry" THEN 1 .. limit ELSE {limit}
  /\ over' = (Footer(p) = "done")
  /\ misled' = (misled \/ (Footer(p) = "done" /\ p \notin {"page", "none"}))

\* The footer asks a list, a string or a number for "markdown": the tool raises,
\* before its last status event.
FooterRaises ==
  /\ call = "returned"
  /\ tool = "fetch" /\ Parsed = "value"
  /\ call' = "raised"
  /\ UNCHANGED <<child, output, pipe, reader, hand, logged, captured, toolVars>>

\* The tool answers: the status event of the end, and the state of a new call.
Answer ==
  /\ call = "returned"
  /\ ~(tool = "fetch" /\ Parsed = "value")
  /\ call' = "idle"
  /\ tool' = "none"
  /\ request' = NoRequest
  /\ anchor' = Rejected
  /\ logged' = <<>>
  /\ captured' = <<>>
  /\ output' = [s \in Streams |-> <<>>]
  /\ hand' = [s \in Streams |-> "blank"]
  /\ IF tool = "fetch" THEN Follow(Parsed) ELSE UNCHANGED reviewVars
  /\ UNCHANGED <<child, pipe, reader>>

ToolStep ==
  \/ ChildDecides /\ UNCHANGED toolVars
  \/ ChildWrites /\ UNCHANGED toolVars
  \/ \E s \in Streams :
       \/ ReadLine(s) /\ UNCHANGED toolVars
       \/ ReadEnd(s) /\ UNCHANGED toolVars
       \/ LogLine(s) /\ UNCHANGED toolVars
       \/ LogRaises(s) /\ UNCHANGED toolVars
       \/ CaptureLine(s) /\ UNCHANGED toolVars
  \/ Returns /\ UNCHANGED toolVars
  \/ Raises /\ UNCHANGED toolVars
  \/ FooterRaises
  \/ Answer

AgentStep == Exec \/ Fetch \/ \E r \in Requests : Comment(r) \/ Script(r)

\* A call that raised: what it left behind may be stuck on a full pipe.
Left == call = "raised" /\ UNCHANGED vars

Next == ToolStep \/ AgentStep \/ Left

\* The child goes on when its output is taken, the readers when there is some.
Fairness ==
  /\ WF_vars(ChildStep /\ UNCHANGED toolVars)
  /\ \A s \in Streams : WF_vars(ReaderStep(s) /\ UNCHANGED toolVars)
  /\ WF_vars(CallStep /\ UNCHANGED toolVars)

Spec == Init /\ [][Next]_vars /\ Fairness

-----------------------------------------------------------------------------
(***************************************************************************)
(* Properties.                                                             *)
(***************************************************************************)

\* The elements of w that are in A, in their order: SelectSeq as a function,
\* which can be reasoned about.
Within(w, A) ==
  LET kept[i \in 0 .. Len(w)] ==
        IF i = 0 THEN <<>>
        ELSE IF w[i] \in A THEN Append(kept[i - 1], w[i]) ELSE kept[i - 1]
  IN  kept[Len(w)]

\* The lines of w that came from s.
From(s, w) == Within(w, [to : {s}, line : Lines])

\* The tool that runs has started a command of its own.
HasCommand == tool \in {"exec", "fetch"} \/ (tool = "comment" /\ anchor # Rejected)

Text(s) == Within(output[s], Lines \ {"blank"})

\* A call returns to the tool only with everything its command wrote, on both
\* streams, each line under its stream and in its order, and leaves neither a
\* process nor a reader behind.
AnswerComplete ==
  call = "returned" /\ HasCommand =>
    /\ child = Exited
    /\ \A s \in Streams :
         /\ reader[s] = "done"
         /\ From(s, captured) = [i \in DOMAIN Text(s) |-> Line(s, Text(s)[i])]

\* The reader of s raised with its line in the log or not: append_event did.
\* (A line beyond the limit raises before it is logged.)
InDoubt(s) == reader[s] = "raised" /\ hand[s] # "long"

\* What the model will be shown of a stream is what its log has, line by line.
\* The log is ahead by one line while a reader is between logging and capturing
\* it; by at most one, for good, when append_event raised, which ends the call.
ModelSeesWhatClientsSee ==
  \A s \in Streams :
    call # "idle" =>
      \/ /\ reader[s] # "capturing"
         /\ From(s, logged) = From(s, captured)
      \/ /\ reader[s] = "capturing" \/ InDoubt(s)
         /\ From(s, logged) = Append(From(s, captured), Line(s, hand[s]))

\* Whatever a command writes to its two pipes, in any order and at any length,
\* its call returns or raises: the readers cannot leave it blocked on one pipe
\* while they wait for the other.
CallEnds == call = "open" ~> call # "open"

\* The pages an agent is told to ask for adjoin: it is given every block before
\* the offset, once; and it stops only at the end of the document, unless a
\* fetch failed and printed an object.
PagesAdjoin ==
  /\ ~over => \A b \in DOMAIN read : read[b] = IF b < offset THEN 1 ELSE 0
  /\ over /\ ~misled => \A b \in DOMAIN read : read[b] = 1

\* A comment command, the tool's or the script's, names one place, which its
\* caller gave for that kind of comment and which is not blank; it is about the
\* whole document only when that was asked for.  The two are not compared: given
\* both arguments the tool goes by the type, and the script refuses or asks.
CommentAnchored ==
  anchor # Rejected =>
    /\ anchor.mode = "full" <=> request.type = "full"
    /\ anchor.mode = "selection" => anchor.at = "phrase"
    /\ anchor.mode = "block_id" => anchor.at = "block"

=============================================================================
