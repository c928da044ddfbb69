-------------------------- MODULE LarkToolsProofs ---------------------------
(***************************************************************************)
(* What LarkTools promises of pages, comments and the answers of commands, *)
(* proved for documents and pages of any size, pipes of any capacity, and  *)
(* any output of a command; and two facts about the conversions the tools  *)
(* use.                                                                    *)
(***************************************************************************)
EXTENDS LarkTools, SequenceTheorems, WellFoundedInduction, TLAPS

\* A page answer moves on by what it covered: every step but the answer to a
\* fetch leaves the review alone.
PageInv ==
  /\ offset \in Nat
  /\ limit \in Nat \ {0}
  /\ read \in [0 .. Blocks - 1 -> Nat]
  /\ over \in BOOLEAN
  /\ misled \in BOOLEAN
  /\ tool = "fetch" => ~over
  /\ PagesAdjoin

\* Following the footer of any answer p keeps the pages adjoining.
LEMMA FollowAdjoins ==
  ASSUME PageInv, ~over, NEW p, Follow(p), tool' = "none"
  PROVE  PageInv'
<1>0. over = FALSE /\ misled \in BOOLEAN
  BY DEF PageInv
<1>1. /\ offset \in Nat /\ limit \in Nat /\ limit > 0 /\ Blocks \in Nat /\ Blocks > 0
      /\ read \in [0 .. Blocks - 1 -> Nat]
      /\ \A b \in 0 .. Blocks - 1 : read[b] = IF b < offset THEN 1 ELSE 0
  BY PageAssumption DEF PageInv, PagesAdjoin
<1>2. CASE p = "none"
  <2>1. Footer(p) = "retry"
    BY <1>2 DEF Footer
  <2>2. read' = read /\ offset' = offset /\ limit' \in 1 .. limit
    BY <1>2, <2>1 DEF Follow
  <2>3. over' = FALSE /\ misled' = misled
    BY <1>0, <2>1 DEF Follow
  <2>4. PagesAdjoin'
    BY <1>1, <2>2, <2>3 DEF PagesAdjoin
  <2>5. limit' \in Nat \ {0}
    BY <1>1, <2>2
  <2>. QED
    BY <1>0, <1>1, <2>2, <2>3, <2>4, <2>5 DEF PageInv
<1>3. CASE p = "page" /\ HasMore
  <2>1. Footer(p) = "next"
    BY <1>3 DEF Footer
  <2>2. /\ offset' = offset + limit /\ limit' = limit
        /\ read' = [b \in DOMAIN read |-> IF b \in Page THEN read[b] + 1 ELSE read[b]]
    BY <1>3, <2>1 DEF Follow, NextOffset
  <2>3. over' = FALSE /\ misled' = misled
    BY <1>0, <2>1 DEF Follow
  <2>4. read' \in [0 .. Blocks - 1 -> Nat]
    BY <1>1, <2>2
  <2>5. ASSUME NEW b \in 0 .. Blocks - 1
        PROVE  read'[b] = IF b < offset' THEN 1 ELSE 0
    BY <1>1, <2>2 DEF Page
  <2>6. PagesAdjoin'
    BY <2>3, <2>4, <2>5 DEF PagesAdjoin
  <2>7. offset' \in Nat /\ limit' \in Nat \ {0}
    BY <1>1, <2>2
  <2>. QED
    BY <1>0, <2>3, <2>4, <2>6, <2>7 DEF PageInv
<1>4. CASE p = "page" /\ ~HasMore
  <2>1. Footer(p) = "done"
    BY <1>4 DEF Footer
  <2>2. /\ offset' = offset /\ limit' = limit
        /\ read' = [b \in DOMAIN read |-> IF b \in Page THEN read[b] + 1 ELSE read[b]]
    BY <1>4, <2>1 DEF Follow
  <2>3. read' \in [0 .. Blocks - 1 -> Nat]
    BY <1>1, <2>2
  <2>4. ASSUME NEW b \in 0 .. Blocks - 1
        PROVE  read'[b] = 1
    BY <1>1, <1>4, <2>2 DEF Page, HasMore
  <2>5. over' \in BOOLEAN /\ misled' \in BOOLEAN /\ over' = TRUE
    BY <1>0, <2>1 DEF Follow
  <2>. QED
    BY <1>1, <2>2, <2>3, <2>4, <2>5 DEF PageInv, PagesAdjoin
<1>5. CASE p # "none" /\ p # "page"
  <2>1. Footer(p) = "done"
    BY <1>5 DEF Footer
  <2>2. offset' = offset /\ limit' = limit /\ read' = read
    BY <1>5, <2>1 DEF Follow
  <2>3. over' = TRUE /\ misled' = TRUE
    BY <1>5, <2>1 DEF Follow
  <2>. QED
    BY <1>1, <2>2, <2>3 DEF PageInv, PagesAdjoin
<1>. QED
  BY <1>2, <1>3, <1>4, <1>5

\* The agent starts on the first page.
LEMMA PageInit == Init => PageInv
<1>. SUFFICES ASSUME Init PROVE PageInv
  OBVIOUS
<1>1. over = FALSE /\ misled = FALSE /\ tool = "none"
  BY DEF Init
<1>2. offset = 0 /\ limit = Limit /\ read = [b \in 0 .. Blocks - 1 |-> 0]
  BY DEF Init
<1>3. \A b \in DOMAIN read : read[b] = IF b < offset THEN 1 ELSE 0
  BY <1>2, PageAssumption
<1>. QED
  BY <1>1, <1>2, <1>3, PageAssumption DEF PageInv, PagesAdjoin

\* Only the answer to a fetch touches the review.
LEMMA PageStep == PageInv /\ [Next]_vars => PageInv'
<1>. SUFFICES ASSUME PageInv, [Next]_vars
              PROVE  PageInv'
  OBVIOUS
<1>1. ASSUME UNCHANGED reviewVars, tool' # "fetch" \/ tool' = tool \/ ~over
      PROVE  PageInv'
  BY <1>1 DEF PageInv, PagesAdjoin, reviewVars
<1>2. CASE UNCHANGED toolVars
  BY <1>1, <1>2 DEF toolVars
<1>3. CASE Answer \/ FooterRaises
  <2>0. CASE FooterRaises
    BY <1>2, <2>0 DEF FooterRaises
  <2>. SUFFICES ASSUME Answer PROVE PageInv'
    BY <1>3, <2>0
  <2>1. CASE tool = "fetch"
    BY <1>3, <2>1, FollowAdjoins DEF Answer, PageInv
  <2>2. CASE tool # "fetch"
    BY <1>1, <1>3, <2>2 DEF Answer
  <2>. QED
    BY <2>1, <2>2
<1>4. CASE AgentStep
  BY <1>1, <1>4 DEF AgentStep, Exec, Fetch, Comment, Script, Begin
<1>5. CASE UNCHANGED vars
  BY <1>2, <1>5 DEF vars
<1>. QED
  BY <1>2, <1>3, <1>4, <1>5 DEF Next, ToolStep, Left

\* An agent that follows the footers is given every block once, in pages that
\* adjoin, and stops at the end of the document unless an error misled it.
THEOREM PagesAlwaysAdjoin == Spec => []PagesAdjoin
<1>1. PageInv => PagesAdjoin
  BY DEF PageInv
<1>. QED
  BY <1>1, PageInit, PageStep, PTL DEF Spec

-----------------------------------------------------------------------------
\* What is anchored is what one of the three builders made of the request.
CommentInv ==
  /\ request \in Requests
  /\ anchor \in {Rejected, ToolComment(request), MainComment(request),
                 InteractiveComment(request)}

\* The two fields of a comment.
LEMMA Fields ==
  ASSUME NEW a, NEW x, NEW y, a = [mode |-> x, at |-> y]
  PROVE  a.mode = x /\ a.at = y
OBVIOUS

\* The builder refuses a blank argument of the mode, and nothing else.
LEMMA Refused ==
  ASSUME NEW s, NEW b
  PROVE  /\ BuildAddComment("full", s, b) # Rejected
         /\ Strip(s) # "" => BuildAddComment("selection", s, b) # Rejected
         /\ Strip(b) # "" => BuildAddComment("block_id", s, b) # Rejected
BY DEF BuildAddComment, Rejected

\* What it builds has the mode that was asked for, and the argument of that
\* mode, stripped.
LEMMA Built ==
  ASSUME NEW s, NEW b
  PROVE  /\ BuildAddComment("full", s, b).mode = "full"
         /\ BuildAddComment("selection", s, b) # Rejected =>
              /\ BuildAddComment("selection", s, b).mode = "selection"
              /\ BuildAddComment("selection", s, b).at = Strip(s)
              /\ Strip(s) # ""
         /\ BuildAddComment("block_id", s, b) # Rejected =>
              /\ BuildAddComment("block_id", s, b).mode = "block_id"
              /\ BuildAddComment("block_id", s, b).at = Strip(b)
              /\ Strip(b) # ""
<1>1. BuildAddComment("full", s, b) = [mode |-> "full", at |-> "document"]
  BY DEF BuildAddComment
<1>2. BuildAddComment("selection", s, b) =
        IF Strip(s) = "" THEN Rejected ELSE [mode |-> "selection", at |-> Strip(s)]
  BY DEF BuildAddComment
<1>3. BuildAddComment("block_id", s, b) =
        IF Strip(b) = "" THEN Rejected ELSE [mode |-> "block_id", at |-> Strip(b)]
  BY DEF BuildAddComment
<1>. QED
  BY <1>1, <1>2, <1>3, Fields

\* What the arguments of a request can be, stripped.
LEMMA RequestArguments ==
  ASSUME NEW r \in Requests
  PROVE  /\ Strip(r.selection) # "" => Strip(r.selection) = "phrase"
         /\ Strip(r.block) # "" => Strip(r.block) = "block"
BY DEF Requests, Strip

\* a is where r asks for: CommentAnchored of any anchor and request.
AnchoredAs(a, r) ==
  /\ a.mode = "full" <=> r.type = "full"
  /\ a.mode = "selection" => a.at = "phrase"
  /\ a.mode = "block_id" => a.at = "block"

\* A comment that is built from a request is anchored as it asks, if its mode
\* is "full" when, and only when, the request is.
LEMMA BuiltFromRequest ==
  ASSUME NEW r \in Requests, NEW m \in CommentModes, NEW s, NEW b,
         BuildAddComment(m, s, b) # Rejected,
         m = "full" <=> r.type = "full",
         s \in {"", r.selection}, b \in {"", r.block}
  PROVE  AnchoredAs(BuildAddComment(m, s, b), r)
<1>1. Strip("") = ""
  BY DEF Strip
<1>2. /\ Strip(s) # "" => Strip(s) = "phrase"
      /\ Strip(b) # "" => Strip(b) = "block"
  BY <1>1, RequestArguments, Zenon
<1>3. CASE m = "full"
  BY <1>3, Built, Zenon DEF AnchoredAs
<1>4. CASE m = "selection"
  BY <1>2, <1>4, Built, Zenon DEF AnchoredAs
<1>5. CASE m = "block_id"
  BY <1>2, <1>5, Built, Zenon DEF AnchoredAs
<1>. QED
  BY <1>3, <1>4, <1>5 DEF CommentModes

\* What feishu_doc_comment builds is anchored where its caller said.
LEMMA ToolCommentAnchored ==
  ASSUME NEW r \in Requests, ToolComment(r) # Rejected
  PROVE  AnchoredAs(ToolComment(r), r)
<1>1. /\ ToolMode(r) \in CommentModes
      /\ ToolComment(r) = BuildAddComment(ToolMode(r), r.selection, r.block)
  BY DEF ToolComment, ToolAccepts
<1>2. ToolMode(r) = "full" <=> r.type = "full"
  BY DEF ToolMode
<1>. QED
  BY <1>1, <1>2, BuiltFromRequest, Zenon

\* So is what the script builds from its options ...
LEMMA MainCommentAnchored ==
  ASSUME NEW r \in Requests, MainComment(r) # Rejected
  PROVE  AnchoredAs(MainComment(r), r)
<1>1. MainComment(r) = BuildAddComment(MainMode(r), r.selection, r.block)
  BY DEF MainComment
<1>2. MainMode(r) \in CommentModes /\ (MainMode(r) = "full" <=> r.type = "full")
  BY DEF MainMode, CommentModes
<1>. QED
  BY <1>1, <1>2, BuiltFromRequest, Zenon

\* ... and from its questions.
LEMMA InteractiveCommentAnchored ==
  ASSUME NEW r \in Requests, InteractiveComment(r) # Rejected
  PROVE  AnchoredAs(InteractiveComment(r), r)
<1>1. \A m \in {"full", "selection", "block_id"} : m \in CommentModes
  BY DEF CommentModes
<1>2. CASE r.type = "full"
  <2>1. InteractiveComment(r) = BuildAddComment("full", "", "")
    BY <1>2 DEF InteractiveComment
  <2>. QED
    BY <1>1, <1>2, <2>1, BuiltFromRequest, Zenon
<1>3. CASE r.type # "full" /\ r.selection # ""
  <2>1. InteractiveComment(r) = BuildAddComment("selection", r.selection, "")
    BY <1>3 DEF InteractiveComment
  <2>. QED
    BY <1>1, <1>3, <2>1, BuiltFromRequest, Zenon
<1>4. CASE r.type # "full" /\ r.selection = ""
  <2>1. InteractiveComment(r) = BuildAddComment("block_id", "", r.block)
    BY <1>4 DEF InteractiveComment
  <2>. QED
    BY <1>1, <1>4, <2>1, BuiltFromRequest, Zenon
<1>. QED
  BY <1>2, <1>3, <1>4

\* A request and its anchor come and go together.
LEMMA CommentStep == CommentInv /\ [Next]_vars => CommentInv'
<1>. SUFFICES ASSUME CommentInv, [Next]_vars
              PROVE  CommentInv'
  OBVIOUS
<1>1. CASE UNCHANGED commentVars
  BY <1>1 DEF CommentInv, commentVars
<1>2. CASE Answer
  <2>1. NoRequest \in Requests
    BY DEF NoRequest, Requests
  <2>. QED
    BY <1>2, <2>1 DEF Answer, CommentInv
<1>3. ASSUME NEW r \in Requests, Comment(r) \/ Script(r)
      PROVE  CommentInv'
  BY <1>3 DEF Comment, Script, CommentInv
<1>4. CASE UNCHANGED vars
  BY <1>1, <1>4 DEF vars, toolVars
<1>5. CASE FooterRaises
  BY <1>1, <1>5 DEF FooterRaises, toolVars
<1>. QED
  BY <1>1, <1>2, <1>3, <1>4, <1>5 DEF Next, ToolStep, Left, AgentStep, Exec, Fetch, toolVars

\* Whoever builds the command of a comment, it names one place that its caller
\* gave for that kind of comment.
THEOREM CommentsAreAnchored == Spec => []CommentAnchored
<1>1. Init => CommentInv
  <2>1. NoRequest \in Requests
    BY DEF NoRequest, Requests
  <2>. QED
    BY <2>1 DEF Init, CommentInv
<1>2. CommentInv => CommentAnchored
  BY ToolCommentAnchored, MainCommentAnchored, InteractiveCommentAnchored
     DEF CommentInv, CommentAnchored, AnchoredAs
<1>. QED
  BY <1>1, <1>2, CommentStep, PTL DEF Spec

-----------------------------------------------------------------------------
\* The checks of the tool feishu_doc_comment are as strict as the builder's,
\* which raises: what the tool lets through never raises in the agent's run.
\* And a request that the script's command line takes as well becomes the same
\* comment there.  (The command line alone is less strict: it lets a blank
\* --selection through, and the builder raises.)
THEOREM AcceptedIsBuilt ==
  \A r \in Requests :
    ToolAccepts(r) =>
      /\ BuildAddComment(ToolMode(r), r.selection, r.block) # Rejected
      /\ MainAccepts(r) => MainComment(r) = ToolComment(r)
<1>. SUFFICES ASSUME NEW r \in Requests, ToolAccepts(r)
              PROVE  /\ BuildAddComment(ToolMode(r), r.selection, r.block) # Rejected
                     /\ MainAccepts(r) => MainComment(r) = ToolComment(r)
  OBVIOUS
<1>1. ToolMode(r) \in CommentModes
  BY DEF ToolAccepts
<1>2. BuildAddComment(ToolMode(r), r.selection, r.block) # Rejected
  <2>1. CASE ToolMode(r) = "full"
    BY <2>1, Refused
  <2>2. CASE ToolMode(r) = "selection"
    BY <2>2, Refused DEF ToolAccepts
  <2>3. CASE ToolMode(r) = "block_id"
    BY <2>3, Refused DEF ToolAccepts
  <2>. QED
    BY <1>1, <2>1, <2>2, <2>3 DEF CommentModes
<1>3. ASSUME MainAccepts(r) PROVE MainMode(r) = ToolMode(r)
  <2>1. CASE r.type = "full"
    BY <2>1 DEF MainMode, ToolMode
  <2>2. CASE r.type = ""
    <3>1. ToolMode(r) = "selection" /\ r.selection # ""
      BY <2>2 DEF ToolMode, ToolAccepts, Strip
    <3>2. r.block = ""
      BY <1>3, <3>1 DEF MainAccepts
    <3>. QED
      BY <2>2, <3>1, <3>2 DEF MainMode
  <2>. QED
    BY <1>3, <2>1, <2>2 DEF MainAccepts
<1>. QED
  BY <1>2, <1>3 DEF MainComment, ToolComment

\* Every answer that is cut is two characters longer than the limit: the room
\* kept for the marker is shorter than the marker.
THEOREM CutExceedsLimit ==
  ASSUME NEW n \in Nat, NEW max \in Nat, max >= 32, n > max
  PROVE  TruncatedLength(n, max) = max + 2
BY DEF TruncatedLength, Kept

-----------------------------------------------------------------------------
(***************************************************************************)
(* Sequences of which a part is looked at.                                 *)
(***************************************************************************)

\* Induction over the numbers, for a set: the least number outside would have a
\* predecessor inside.
LEMMA NatInSet ==
  ASSUME NEW S, 0 \in S, \A n \in Nat : n \in S => n + 1 \in S
  PROVE  \A n \in Nat : n \in S
<1>. DEFINE T == Nat \ S
<1>. SUFFICES ASSUME T # {}
              PROVE  FALSE
  OBVIOUS
<1>1. PICK x \in T : \A y \in T : ~(<<y, x>> \in OpToRel(<, Nat))
  BY NatLessThanWellFounded, WFMin, T \subseteq Nat
<1>2. \A y \in Nat : y < x => <<y, x>> \in OpToRel(<, Nat)
  BY DEF OpToRel
<1>3. x # 0 /\ x \in Nat
  OBVIOUS
<1>4. x - 1 \in Nat /\ x - 1 < x /\ (x - 1) + 1 = x
  BY <1>3
<1>5. x - 1 \in S
  BY <1>1, <1>2, <1>4
<1>. QED
  BY <1>4, <1>5

\* f[i] is what A leaves of the first i elements of w.
Keeps(w, A, n, f) ==
  f = [i \in 0 .. n |-> IF i = 0 THEN <<>>
                        ELSE IF w[i] \in A THEN Append(f[i - 1], w[i]) ELSE f[i - 1]]

\* One equation of it at a time.
Recurs(w, A, n, f) ==
  /\ f[0] = <<>>
  /\ \A i \in 1 .. n : f[i] = IF w[i] \in A THEN Append(f[i - 1], w[i]) ELSE f[i - 1]

LEMMA KeepsAt ==
  ASSUME NEW w, NEW A, NEW n \in Nat, NEW f, Keeps(w, A, n, f)
  PROVE  Recurs(w, A, n, f)
<1>. DEFINE g == [i \in 0 .. n |-> IF i = 0 THEN <<>>
                        ELSE IF w[i] \in A THEN Append(f[i - 1], w[i]) ELSE f[i - 1]]
<1>1. f = g
  BY Zenon DEF Keeps
<1>3. \A i \in 0 .. n : f[i] = IF i = 0 THEN <<>>
                        ELSE IF w[i] \in A THEN Append(f[i - 1], w[i]) ELSE f[i - 1]
  BY <1>1, Zenon
<1>. HIDE DEF g
<1>4. 0 \in 0 .. n /\ \A i \in 1 .. n : i \in 0 .. n /\ i # 0
  OBVIOUS
<1>. QED
  BY <1>3, <1>4, Zenon DEF Recurs

\* The function that Within evaluates exists for sequences of every length.
LEMMA KeepsExist ==
  ASSUME NEW w, NEW A
  PROVE  \A n \in Nat : \E f : Keeps(w, A, n, f)
<1>. DEFINE S == {n \in Nat : \E f : Keeps(w, A, n, f)}
<1>1. 0 \in S
  <2>. DEFINE f == [i \in 0 .. 0 |-> <<>>]
              g == [i \in 0 .. 0 |-> IF i = 0 THEN <<>>
                      ELSE IF w[i] \in A THEN Append(f[i - 1], w[i]) ELSE f[i - 1]]
  <2>1. f = g
    OBVIOUS
  <2>. QED
    BY <2>1 DEF Keeps
<1>2. ASSUME NEW n \in Nat, n \in S
      PROVE  n + 1 \in S
  <2>1. PICK f : Keeps(w, A, n, f)
    BY <1>2
  <2>. DEFINE g == [i \in 0 .. n + 1 |-> IF i = n + 1
                      THEN IF w[i] \in A THEN Append(f[n], w[i]) ELSE f[n]
                      ELSE f[i]]
              h == [i \in 0 .. n + 1 |-> IF i = 0 THEN <<>>
                      ELSE IF w[i] \in A THEN Append(g[i - 1], w[i]) ELSE g[i - 1]]
  <2>0. Recurs(w, A, n, f)
    BY <2>1, KeepsAt
  <2>2. /\ f[0] = <<>>
        /\ \A i \in 1 .. n : f[i] = IF w[i] \in A THEN Append(f[i - 1], w[i]) ELSE f[i - 1]
    BY <2>0 DEF Recurs
  <2>3. ASSUME NEW i \in 0 .. n + 1
        PROVE  g[i] = h[i]
    <3>1. CASE i = 0
      BY <2>2, <3>1
    <3>2. CASE i = n + 1
      <4>1. i - 1 = n /\ n \in 0 .. n + 1 /\ n # n + 1 /\ i # 0
        BY <3>2
      <4>2. g[i - 1] = f[n]
        BY <4>1
      <4>. QED
        BY <3>2, <4>1, <4>2
    <3>3. CASE i # 0 /\ i # n + 1
      <4>1. i \in 1 .. n /\ i - 1 \in 0 .. n + 1 /\ i - 1 # n + 1
        BY <3>3
      <4>2. g[i] = f[i] /\ g[i - 1] = f[i - 1]
        BY <4>1
      <4>. QED
        BY <2>2, <3>3, <4>1, <4>2
    <3>. QED
      BY <3>1, <3>2, <3>3
  <2>4. g = h
    BY <2>3
  <2>5. Keeps(w, A, n + 1, g)
    BY <2>4 DEF Keeps
  <2>. QED
    BY <2>5
<1>. HIDE DEF S
<1>3. \A n \in Nat : n \in S
  BY <1>1, <1>2, NatInSet
<1>. QED
  BY <1>3 DEF S

\* Within is well defined.
LEMMA WithinKeeps ==
  ASSUME NEW w, NEW A, Len(w) \in Nat
  PROVE  \E f : Keeps(w, A, Len(w), f) /\ Within(w, A) = f[Len(w)]
<1>. DEFINE kept[i \in 0 .. Len(w)] ==
              IF i = 0 THEN <<>>
              ELSE IF w[i] \in A THEN Append(kept[i - 1], w[i]) ELSE kept[i - 1]
<1>1. kept = CHOOSE f : Keeps(w, A, Len(w), f)
  BY DEF Keeps
<1>2. \E f : Keeps(w, A, Len(w), f)
  BY KeepsExist
<1>3. Keeps(w, A, Len(w), kept)
  BY <1>1, <1>2
<1>4. Within(w, A) = kept[Len(w)]
  BY DEF Within
<1>. QED
  BY <1>3, <1>4

\* What is kept of equal beginnings is equal.
LEMMA KeepsAgree ==
  ASSUME NEW w, NEW v, NEW A, NEW m \in Nat, NEW n \in Nat, m <= n,
         \A i \in 1 .. m : w[i] = v[i],
         NEW f, Keeps(w, A, m, f), NEW g, Keeps(v, A, n, g)
  PROVE  f[m] = g[m]
<1>. DEFINE S == {k \in Nat : k <= m => f[k] = g[k]}
<1>1. Recurs(w, A, m, f) /\ Recurs(v, A, n, g)
  BY KeepsAt
<1>2. 0 \in S
  BY <1>1 DEF Recurs
<1>3. ASSUME NEW k \in Nat, k \in S
      PROVE  k + 1 \in S
  <2>. SUFFICES ASSUME k + 1 <= m
                PROVE  f[k + 1] = g[k + 1]
    OBVIOUS
  <2>1. f[k] = g[k] /\ k + 1 \in 1 .. m /\ k + 1 \in 1 .. n /\ (k + 1) - 1 = k
    BY <1>3
  <2>. QED
    BY <1>1, <2>1 DEF Recurs
<1>. HIDE DEF S
<1>4. \A k \in Nat : k \in S
  BY <1>2, <1>3, NatInSet
<1>. QED
  BY <1>4 DEF S

\* Of nothing, nothing is kept.
LEMMA WithinEmpty ==
  ASSUME NEW A
  PROVE  Within(<<>>, A) = <<>>
<1>1. Len(<<>>) = 0
  OBVIOUS
<1>2. PICK f : Keeps(<<>>, A, 0, f) /\ Within(<<>>, A) = f[0]
  BY <1>1, WithinKeeps, Zenon
<1>3. 0 \in Nat
  OBVIOUS
<1>4. Recurs(<<>>, A, 0, f)
  BY <1>2, <1>3, KeepsAt
<1>. QED
  BY <1>2, <1>4 DEF Recurs

\* An element is kept behind what was kept before it, or is not kept.
LEMMA WithinAppend ==
  ASSUME NEW S, NEW w \in Seq(S), NEW x \in S, NEW A
  PROVE  Within(Append(w, x), A) = IF x \in A THEN Append(Within(w, A), x) ELSE Within(w, A)
<1>. DEFINE v == Append(w, x)
            n == Len(w)
<1>1. /\ n \in Nat /\ Len(v) = n + 1 /\ Len(v) \in Nat
      /\ \A i \in 1 .. n : w[i] = v[i]
      /\ v[n + 1] = x
  BY AppendProperties, LenProperties
<1>. HIDE DEF v, n
<1>2. PICK f : Keeps(w, A, n, f) /\ Within(w, A) = f[n]
  BY <1>1, WithinKeeps DEF n
<1>3. PICK g : Keeps(v, A, n + 1, g) /\ Within(v, A) = g[n + 1]
  BY <1>1, WithinKeeps
<1>4. f[n] = g[n]
  BY <1>1, <1>2, <1>3, KeepsAgree
<1>5. n + 1 \in 1 .. n + 1 /\ (n + 1) - 1 = n /\ n + 1 \in Nat
  BY <1>1
<1>6. Recurs(v, A, n + 1, g)
  BY <1>3, <1>5, KeepsAt
<1>7. g[n + 1] = IF v[n + 1] \in A THEN Append(g[n], v[n + 1]) ELSE g[n]
  BY <1>5, <1>6 DEF Recurs
<1>. QED
  BY <1>1, <1>2, <1>3, <1>4, <1>7 DEF v

\* What is kept is a sequence of the same elements.
LEMMA WithinIsSeq ==
  ASSUME NEW S, NEW w \in Seq(S), NEW A
  PROVE  Within(w, A) \in Seq(S)
<1>0. Len(w) \in Nat /\ \A i \in 1 .. Len(w) : w[i] \in S
  BY LenProperties, ElementOfSeq
<1>1. PICK f : Keeps(w, A, Len(w), f) /\ Within(w, A) = f[Len(w)]
  BY <1>0, WithinKeeps
<1>2. Recurs(w, A, Len(w), f)
  BY <1>0, <1>1, KeepsAt
<1>. DEFINE T == {k \in Nat : k <= Len(w) => f[k] \in Seq(S)}
<1>3. <<>> \in Seq(S)
  OBVIOUS
<1>4. 0 \in T
  BY <1>2, <1>3 DEF Recurs
<1>5. ASSUME NEW k \in Nat, k \in T
      PROVE  k + 1 \in T
  <2>. SUFFICES ASSUME k + 1 <= Len(w)
                PROVE  f[k + 1] \in Seq(S)
    OBVIOUS
  <2>1. f[k] \in Seq(S) /\ k + 1 \in 1 .. Len(w) /\ (k + 1) - 1 = k
    BY <1>0, <1>5
  <2>2. w[k + 1] \in S
    BY <1>0, <2>1
  <2>3. Append(f[k], w[k + 1]) \in Seq(S)
    BY <2>1, <2>2, AppendProperties
  <2>. QED
    BY <1>2, <2>1, <2>3 DEF Recurs
<1>. HIDE DEF T
<1>6. \A k \in Nat : k \in T
  BY <1>4, <1>5, NatInSet
<1>. QED
  BY <1>0, <1>1, <1>6 DEF T

-----------------------------------------------------------------------------
(***************************************************************************)
(* What a command writes, its readers log and capture, and its tool is     *)
(* given.  What was taken from a pipe is the output but for what is left   *)
(* in the pipe; what of it is not blank was captured, but for the line in  *)
(* the reader's hand; and what was captured was logged before.             *)
(***************************************************************************)

\* What a tool call logs: its start, and lines.
Entry == [to : Streams \cup {"status"}, line : Lines \cup {"start"}]

CallTypeOK ==
  /\ call \in {"idle", "open", "returned", "raised"}
  /\ child \in Write \cup {Ready, Exited}
  /\ output \in [Streams -> Seq(Lines)]
  /\ pipe \in [Streams -> Seq(Lines)]
  /\ reader \in [Streams -> {"reading", "logging", "capturing", "done", "raised"}]
  /\ hand \in [Streams -> Lines]
  /\ logged \in Seq(Entry)
  /\ captured \in Seq(Write)

NonBlank == Lines \ {"blank"}

\* A sequence of lines, each under its stream.
Shown(s, w) == [i \in DOMAIN w |-> Line(s, w[i])]

\* What the readers have taken of the output.
Taken(s) == SubSeq(output[s], 1, Len(output[s]) - Len(pipe[s]))

\* The pipe holds the end of the output.
PipeHoldsRest(s) ==
  /\ Len(pipe[s]) <= Len(output[s])
  /\ \A i \in 1 .. Len(pipe[s]) :
       pipe[s][i] = output[s][Len(output[s]) - Len(pipe[s]) + i]

\* What was taken is captured, or in the reader's hand on its way there.
TakenIsCaptured(s) ==
  reader[s] # "raised" =>
    Shown(s, Within(Taken(s), NonBlank)) =
      IF reader[s] \in {"logging", "capturing"}
      THEN Append(From(s, captured), Line(s, hand[s]))
      ELSE From(s, captured)

\* What is captured was logged, and one line more may be.
CapturedIsLogged(s) ==
  \/ /\ reader[s] # "capturing"
     /\ From(s, logged) = From(s, captured)
  \/ /\ reader[s] = "capturing" \/ InDoubt(s)
     /\ From(s, logged) = Append(From(s, captured), Line(s, hand[s]))

\* A reader is done when nothing can come any more.
DoneAtEnd(s) == reader[s] = "done" => pipe[s] = <<>> /\ child = Exited

\* What a reader logs and captures is a line that is shown.
HandIsShown(s) == reader[s] \in {"logging", "capturing"} => hand[s] \notin {"blank", "long"}

\* Between two calls no reader is left at work.
Rested == call \in {"idle", "returned"} => \A s \in Streams : reader[s] = "done"

StreamInv(s) ==
  PipeHoldsRest(s) /\ TakenIsCaptured(s) /\ CapturedIsLogged(s) /\ DoneAtEnd(s) /\ HandIsShown(s)

CallInv == CallTypeOK /\ Rested /\ \A s \in Streams : StreamInv(s)

-----------------------------------------------------------------------------
\* A line of a stream joins what came from that stream, and from no other.
LEMMA FromAppend ==
  ASSUME NEW s \in Streams, NEW z \in Streams, NEW l \in Lines,
         NEW S, NEW w \in Seq(S), Line(z, l) \in S
  PROVE  From(s, Append(w, Line(z, l))) =
           IF z = s THEN Append(From(s, w), Line(z, l)) ELSE From(s, w)
<1>. DEFINE x == Line(z, l)
            A == [to : {s}, line : Lines]
<1>1. x \in A <=> z = s
  BY DEF Line
<1>2. From(s, Append(w, x)) = Within(Append(w, x), A) /\ From(s, w) = Within(w, A)
  BY DEF From
<1>. HIDE DEF x, A
<1>3. Within(Append(w, x), A) = IF x \in A THEN Append(Within(w, A), x) ELSE Within(w, A)
  BY WithinAppend DEF x
<1>. QED
  BY <1>1, <1>2, <1>3 DEF x

\* The lines that are shown come one by one.
LEMMA ShownAppend ==
  ASSUME NEW s, NEW w \in Seq(Lines), NEW l \in Lines
  PROVE  Shown(s, Append(w, l)) = Append(Shown(s, w), Line(s, l))
<1>. DEFINE S == {Line(s, x) : x \in Lines}
<1>1. /\ Len(w) \in Nat /\ DOMAIN w = 1 .. Len(w)
      /\ \A i \in 1 .. Len(w) : w[i] \in Lines
  BY LenProperties, ElementOfSeq
<1>2. /\ Append(w, l) \in Seq(Lines) /\ Len(Append(w, l)) = Len(w) + 1
      /\ \A i \in 1 .. Len(w) : Append(w, l)[i] = w[i]
      /\ Append(w, l)[Len(w) + 1] = l
  BY AppendProperties
<1>3. DOMAIN Append(w, l) = 1 .. Len(w) + 1
  BY <1>2, LenProperties
<1>4. Shown(s, w) = [i \in 1 .. Len(w) |-> Line(s, w[i])]
  BY <1>1 DEF Shown
<1>5. Shown(s, w) \in [1 .. Len(w) -> S]
  BY <1>1, <1>4
<1>6. Shown(s, w) \in Seq(S) /\ Len(Shown(s, w)) = Len(w)
  BY <1>1, <1>5, SeqDef, LenProperties
<1>7. Line(s, l) \in S
  OBVIOUS
<1>. HIDE DEF S
<1>8. /\ Append(Shown(s, w), Line(s, l)) \in Seq(S)
      /\ Len(Append(Shown(s, w), Line(s, l))) = Len(w) + 1
      /\ \A i \in 1 .. Len(w) : Append(Shown(s, w), Line(s, l))[i] = Shown(s, w)[i]
      /\ Append(Shown(s, w), Line(s, l))[Len(w) + 1] = Line(s, l)
  BY <1>6, <1>7, AppendProperties
<1>9. Append(Shown(s, w), Line(s, l)) =
        [i \in 1 .. Len(w) + 1 |-> Append(Shown(s, w), Line(s, l))[i]]
  BY <1>8, LenProperties
<1>10. \A i \in 1 .. Len(w) + 1 :
         Append(Shown(s, w), Line(s, l))[i] = Line(s, Append(w, l)[i])
  <2>. SUFFICES ASSUME NEW i \in 1 .. Len(w) + 1
                PROVE  Append(Shown(s, w), Line(s, l))[i] = Line(s, Append(w, l)[i])
    OBVIOUS
  <2>1. CASE i = Len(w) + 1
    BY <1>2, <1>8, <2>1
  <2>2. CASE i # Len(w) + 1
    <3>1. i \in 1 .. Len(w)
      BY <1>1, <2>2
    <3>. QED
      BY <1>2, <1>4, <1>8, <3>1
  <2>. QED
    BY <2>1, <2>2
<1>11. Shown(s, Append(w, l)) = [i \in 1 .. Len(w) + 1 |-> Line(s, Append(w, l)[i])]
  BY <1>3 DEF Shown
<1>. QED
  BY <1>9, <1>10, <1>11

\* What is written behind a beginning does not change it.
LEMMA BeginningStays ==
  ASSUME NEW w \in Seq(Lines), NEW l \in Lines, NEW n \in Nat, n <= Len(w)
  PROVE  SubSeq(Append(w, l), 1, n) = SubSeq(w, 1, n)
<1>1. /\ Len(w) \in Nat /\ Append(w, l) \in Seq(Lines)
      /\ Len(Append(w, l)) = Len(w) + 1
      /\ \A i \in 1 .. Len(w) : Append(w, l)[i] = w[i]
  BY AppendProperties, LenProperties
<1>. DEFINE v == Append(w, l)
<1>. HIDE DEF v
<1>2. SubSeq(w, 1, n) = [i \in 1 .. n |-> w[i]] /\ SubSeq(v, 1, n) = [i \in 1 .. n |-> v[i]]
  OBVIOUS
<1>. QED
  BY <1>1, <1>2 DEF v

\* The next element joins a beginning.
LEMMA BeginningGrows ==
  ASSUME NEW w \in Seq(Lines), NEW n \in Nat, n + 1 <= Len(w)
  PROVE  SubSeq(w, 1, n + 1) = Append(SubSeq(w, 1, n), w[n + 1])
<1>1. Len(w) \in Nat /\ \A i \in 1 .. Len(w) : w[i] \in Lines
  BY LenProperties, ElementOfSeq
<1>. QED
  BY <1>1

\* A beginning of the output is lines.
LEMMA BeginningIsSeq ==
  ASSUME NEW w \in Seq(Lines), NEW n \in Nat, n <= Len(w)
  PROVE  SubSeq(w, 1, n) \in Seq(Lines)
<1>1. Len(w) \in Nat /\ \A i \in 1 .. Len(w) : w[i] \in Lines
  BY LenProperties, ElementOfSeq
<1>. QED
  BY <1>1, SubSeqProperties

-----------------------------------------------------------------------------
\* Constants of the model that are lines, or are none.
LEMMA LineFacts ==
  /\ "blank" \in Lines /\ "start" \notin Lines
  /\ Ready # Exited /\ Exited \notin Write /\ Ready \notin Write
  /\ \A s \in Streams, l \in Lines : Line(s, l) \in Write /\ Line(s, l) \in Entry
  /\ \A x \in Write : x.to \in Streams /\ x.line \in Lines
BY DEF Lines, Ready, Exited, Line, Write, Streams, Entry

\* The types of one stream.
LEMMA StreamTypes ==
  ASSUME CallTypeOK, NEW s \in Streams
  PROVE  /\ output[s] \in Seq(Lines) /\ Len(output[s]) \in Nat
         /\ pipe[s] \in Seq(Lines) /\ Len(pipe[s]) \in Nat
         /\ reader[s] \in {"reading", "logging", "capturing", "done", "raised"}
         /\ hand[s] \in Lines
BY LenProperties DEF CallTypeOK

\* A stream nothing happens to keeps its account; lines of the other one may
\* be logged and captured.
LEMMA OtherStream ==
  ASSUME NEW s \in Streams, StreamInv(s),
         output'[s] = output[s], pipe'[s] = pipe[s],
         reader'[s] = reader[s], hand'[s] = hand[s],
         From(s, logged') = From(s, logged), From(s, captured') = From(s, captured),
         reader[s] = "done" => child' = child
  PROVE  StreamInv(s)'
<1>1. PipeHoldsRest(s)'
  BY DEF StreamInv, PipeHoldsRest
<1>2. TakenIsCaptured(s)'
  BY DEF StreamInv, TakenIsCaptured, Taken
<1>3. CapturedIsLogged(s)'
  BY DEF StreamInv, CapturedIsLogged, InDoubt
<1>4. DoneAtEnd(s)' /\ HandIsShown(s)'
  BY DEF StreamInv, DoneAtEnd, HandIsShown
<1>. QED
  BY <1>1, <1>2, <1>3, <1>4 DEF StreamInv

\* The child decides.
LEMMA DecideKeeps == CallInv /\ ChildDecides => CallInv'
<1>. SUFFICES ASSUME CallInv, ChildDecides
              PROVE  CallInv'
  OBVIOUS
<1>1. /\ child = Ready /\ child' \in Write \cup {Ready, Exited}
      /\ UNCHANGED <<call, output, pipe, reader, hand, logged, captured>>
  BY DEF ChildDecides
<1>2. CallTypeOK' /\ Rested'
  BY <1>1 DEF CallInv, CallTypeOK, Rested
<1>3. ASSUME NEW s \in Streams
      PROVE  StreamInv(s)'
  <2>1. StreamInv(s) /\ reader[s] # "done"
    BY <1>1, LineFacts DEF CallInv, StreamInv, DoneAtEnd, HandIsShown
  <2>. QED
    BY <1>1, <2>1, OtherStream
<1>. QED
  BY <1>2, <1>3 DEF CallInv

\* The end of a sequence stays its end when both are added to.
LEMMA RestAppend ==
  ASSUME NEW w \in Seq(Lines), NEW p \in Seq(Lines), NEW l \in Lines,
         Len(p) <= Len(w),
         \A i \in 1 .. Len(p) : p[i] = w[Len(w) - Len(p) + i]
  PROVE  /\ Len(Append(p, l)) <= Len(Append(w, l))
         /\ \A i \in 1 .. Len(Append(p, l)) :
              Append(p, l)[i] = Append(w, l)[Len(Append(w, l)) - Len(Append(p, l)) + i]
<1>. DEFINE v == Append(w, l)
            q == Append(p, l)
<1>1. /\ Len(v) = Len(w) + 1 /\ Len(w) \in Nat
      /\ \A i \in 1 .. Len(w) : v[i] = w[i]
      /\ v[Len(w) + 1] = l
  BY AppendProperties, LenProperties
<1>2. /\ Len(q) = Len(p) + 1 /\ Len(p) \in Nat
      /\ \A i \in 1 .. Len(p) : q[i] = p[i]
      /\ q[Len(p) + 1] = l
  BY AppendProperties, LenProperties
<1>. HIDE DEF v, q
<1>3. ASSUME NEW i \in 1 .. Len(q)
      PROVE  q[i] = v[Len(v) - Len(q) + i]
  <2>1. Len(v) - Len(q) + i = Len(w) - Len(p) + i
    BY <1>1, <1>2
  <2>2. CASE i = Len(p) + 1
    <3>1. Len(v) - Len(q) + i = Len(w) + 1
      BY <1>1, <1>2, <2>2
    <3>. QED
      BY <1>1, <1>2, <2>2, <3>1
  <2>3. CASE i # Len(p) + 1
    <3>1. i \in 1 .. Len(p)
      BY <1>2, <2>3
    <3>2. Len(w) - Len(p) + i \in 1 .. Len(w)
      BY <1>1, <1>2, <3>1
    <3>. QED
      BY <1>1, <1>2, <2>1, <3>1, <3>2
  <2>. QED
    BY <2>2, <2>3
<1>4. Len(q) <= Len(v)
  BY <1>1, <1>2
<1>. QED
  BY <1>3, <1>4 DEF v, q

\* A line joins the output and the pipe alike.
LEMMA WriteKeeps == CallInv /\ ChildWrites => CallInv'
<1>. SUFFICES ASSUME CallInv, ChildWrites
              PROVE  CallInv'
  OBVIOUS
<1>0. PICK z \in Streams, l \in Lines : z = child.to /\ l = child.line
  BY LineFacts DEF ChildWrites
<1>1. /\ child \in Write /\ child' = Ready
      /\ output' = [output EXCEPT ![z] = Append(@, l)]
      /\ pipe' = [pipe EXCEPT ![z] = Append(@, l)]
      /\ UNCHANGED <<call, reader, hand, logged, captured>>
  BY <1>0 DEF ChildWrites
<1>2. child # Exited
  BY <1>1, LineFacts
<1>3. /\ output \in [Streams -> Seq(Lines)] /\ pipe \in [Streams -> Seq(Lines)]
      /\ output[z] \in Seq(Lines) /\ Len(output[z]) \in Nat
      /\ pipe[z] \in Seq(Lines) /\ Len(pipe[z]) \in Nat
  BY <1>2, StreamTypes DEF CallInv, CallTypeOK
<1>4. output'[z] = Append(output[z], l) /\ pipe'[z] = Append(pipe[z], l)
  BY <1>1, <1>2, <1>3
<1>5. /\ Append(output[z], l) \in Seq(Lines) /\ Append(pipe[z], l) \in Seq(Lines)
      /\ Len(Append(output[z], l)) = Len(output[z]) + 1
      /\ Len(Append(pipe[z], l)) = Len(pipe[z]) + 1
      /\ \A i \in 1 .. Len(output[z]) : Append(output[z], l)[i] = output[z][i]
      /\ \A i \in 1 .. Len(pipe[z]) : Append(pipe[z], l)[i] = pipe[z][i]
      /\ Append(output[z], l)[Len(output[z]) + 1] = l
      /\ Append(pipe[z], l)[Len(pipe[z]) + 1] = l
  BY <1>2, <1>3, AppendProperties
<1>6. CallTypeOK'
  <2>1. output' \in [Streams -> Seq(Lines)] /\ pipe' \in [Streams -> Seq(Lines)]
    BY <1>1, <1>3, <1>5
  <2>. QED
    BY <1>1, <2>1 DEF CallInv, CallTypeOK
<1>7. Rested'
  BY <1>1 DEF CallInv, Rested
<1>8. ASSUME NEW s \in Streams, s # z
      PROVE  StreamInv(s)'
  <2>1. StreamInv(s) /\ reader[s] # "done"
    BY <1>2 DEF CallInv, StreamInv, DoneAtEnd, HandIsShown
  <2>2. output'[s] = output[s] /\ pipe'[s] = pipe[s]
    BY <1>1, <1>3, <1>8
  <2>. QED
    BY <1>1, <2>1, <2>2, OtherStream
<1>9. StreamInv(z)'
  <2>1. /\ PipeHoldsRest(z) /\ TakenIsCaptured(z) /\ CapturedIsLogged(z) /\ HandIsShown(z) /\ reader[z] # "done"
    BY <1>2 DEF CallInv, StreamInv, DoneAtEnd, HandIsShown
  <2>2. Len(pipe[z]) <= Len(output[z])
    BY <2>1 DEF PipeHoldsRest
  <2>3. PipeHoldsRest(z)'
    <3>1. /\ Len(Append(pipe[z], l)) <= Len(Append(output[z], l))
          /\ \A i \in 1 .. Len(Append(pipe[z], l)) :
               Append(pipe[z], l)[i] =
                 Append(output[z], l)[Len(Append(output[z], l)) - Len(Append(pipe[z], l)) + i]
      BY <1>3, <2>1, RestAppend DEF PipeHoldsRest
    <3>. QED
      BY <1>4, <3>1 DEF PipeHoldsRest
  <2>4. Taken(z)' = Taken(z)
    <3>1. Len(output[z]) - Len(pipe[z]) \in Nat
          /\ Len(output[z]) - Len(pipe[z]) <= Len(output[z])
      BY <1>3, <2>2
    <3>2. Len(output'[z]) - Len(pipe'[z]) = Len(output[z]) - Len(pipe[z])
      BY <1>3, <1>4, <1>5
    <3>. QED
      BY <1>2, <1>3, <1>4, <3>1, <3>2, BeginningStays DEF Taken
  <2>5. TakenIsCaptured(z)'
    BY <1>1, <2>1, <2>4 DEF TakenIsCaptured
  <2>6. CapturedIsLogged(z)' /\ DoneAtEnd(z)' /\ HandIsShown(z)'
    BY <1>1, <2>1 DEF CapturedIsLogged, InDoubt, DoneAtEnd, HandIsShown
  <2>. QED
    BY <2>3, <2>5, <2>6 DEF StreamInv
<1>. QED
  BY <1>6, <1>7, <1>8, <1>9 DEF CallInv

\* The first line of a pipe is the next one of the output; the rest stays its end.
LEMMA RestTail ==
  ASSUME NEW w \in Seq(Lines), NEW p \in Seq(Lines), p # <<>>,
         Len(p) <= Len(w),
         \A i \in 1 .. Len(p) : p[i] = w[Len(w) - Len(p) + i]
  PROVE  /\ Tail(p) \in Seq(Lines) /\ Head(p) \in Lines
         /\ Len(Tail(p)) <= Len(w)
         /\ \A i \in 1 .. Len(Tail(p)) : Tail(p)[i] = w[Len(w) - Len(Tail(p)) + i]
         /\ Len(w) - Len(p) \in Nat /\ Len(w) - Len(p) <= Len(w)
         /\ SubSeq(w, 1, Len(w) - Len(Tail(p))) =
              Append(SubSeq(w, 1, Len(w) - Len(p)), Head(p))
<1>. DEFINE q == Tail(p)
            n == Len(w) - Len(p)
<1>1. /\ q \in Seq(Lines) /\ Head(p) \in Lines
      /\ Len(q) = Len(p) - 1 /\ \A i \in 1 .. Len(q) : q[i] = p[i + 1]
  BY HeadTailProperties
<1>2. /\ Len(w) \in Nat /\ Len(p) \in Nat /\ Len(p) # 0 /\ Len(q) \in Nat
  BY <1>1, LenProperties, EmptySeq
<1>3. Head(p) = p[1]
  BY <1>2
<1>. HIDE DEF q
<1>4. Head(p) = w[n + 1]
  <2>1. 1 \in 1 .. Len(p)
    BY <1>2
  <2>. QED
    BY <1>3, <2>1
<1>5. n \in Nat /\ n <= Len(w) /\ n + 1 <= Len(w) /\ Len(w) - Len(q) = n + 1
  BY <1>1, <1>2
<1>6. ASSUME NEW i \in 1 .. Len(q)
      PROVE  q[i] = w[Len(w) - Len(q) + i]
  <2>1. i + 1 \in 1 .. Len(p) /\ Len(w) - Len(q) + i = Len(w) - Len(p) + (i + 1)
    BY <1>1, <1>2
  <2>. QED
    BY <1>1, <2>1
<1>7. Len(q) <= Len(w)
  BY <1>1, <1>2
<1>. HIDE DEF n
<1>8. SubSeq(w, 1, n + 1) = Append(SubSeq(w, 1, n), w[n + 1])
  BY <1>5, BeginningGrows
<1>9. SubSeq(w, 1, Len(w) - Len(q)) = Append(SubSeq(w, 1, n), Head(p))
  BY <1>4, <1>5, <1>8
<1>. QED
  BY <1>1, <1>5, <1>6, <1>7, <1>9 DEF q, n

\* A reader at work is no reader of a call that is over; a step of one of them
\* changes nothing but its own stream, and the lists both append to.
Only(s) ==
  /\ call' = call /\ child' = child /\ output' = output
  /\ \A z \in Streams \ {s} :
       /\ pipe'[z] = pipe[z] /\ reader'[z] = reader[z] /\ hand'[z] = hand[z]
       /\ From(z, logged') = From(z, logged) /\ From(z, captured') = From(z, captured)

LEMMA OneReader ==
  ASSUME CallInv, NEW s \in Streams, Only(s), reader[s] # "done",
         CallTypeOK', StreamInv(s)'
  PROVE  CallInv'
<1>1. ASSUME NEW z \in Streams, z # s
      PROVE  StreamInv(z)'
  <2>1. /\ StreamInv(z) /\ child' = child /\ output'[z] = output[z]
        /\ pipe'[z] = pipe[z] /\ reader'[z] = reader[z] /\ hand'[z] = hand[z]
        /\ From(z, logged') = From(z, logged) /\ From(z, captured') = From(z, captured)
    BY <1>1 DEF CallInv, Only
  <2>. QED
    BY <2>1, OtherStream
<1>2. Rested'
  BY DEF CallInv, Rested, Only
<1>. QED
  BY <1>1, <1>2 DEF CallInv

\* A line is taken from the pipe.
LEMMA ReadKeeps ==
  ASSUME CallInv, NEW s \in Streams, ReadLine(s)
  PROVE  CallInv'
<1>1. /\ reader[s] = "reading" /\ pipe[s] # <<>>
      /\ pipe' = [pipe EXCEPT ![s] = Tail(@)]
      /\ hand' = [hand EXCEPT ![s] = Head(pipe[s])]
      /\ reader' = [reader EXCEPT ![s] =
                      CASE Head(pipe[s]) = "blank" -> "reading"
                        [] Head(pipe[s]) = "long" -> "raised"
                        [] OTHER -> "logging"]
      /\ UNCHANGED <<call, child, output, logged, captured>>
  BY DEF ReadLine, Moves
<1>2. /\ output[s] \in Seq(Lines) /\ pipe[s] \in Seq(Lines)
      /\ pipe \in [Streams -> Seq(Lines)] /\ hand \in [Streams -> Lines]
      /\ reader \in [Streams -> {"reading", "logging", "capturing", "done", "raised"}]
      /\ PipeHoldsRest(s) /\ TakenIsCaptured(s) /\ CapturedIsLogged(s)
  BY DEF CallInv, CallTypeOK, StreamInv
<1>3. PICK l \in Lines : l = Head(pipe[s])
  BY <1>1, <1>2, HeadTailProperties
<1>4. PICK m \in {"reading", "raised", "logging"} :
        /\ m = CASE l = "blank" -> "reading" [] l = "long" -> "raised" [] OTHER -> "logging"
        /\ m = "reading" <=> l = "blank"
        /\ reader' = [reader EXCEPT ![s] = m]
  BY <1>1, <1>3
<1>5. pipe'[s] = Tail(pipe[s]) /\ hand'[s] = l /\ reader'[s] = m
  BY <1>1, <1>2, <1>3, <1>4
<1>6. /\ Tail(pipe[s]) \in Seq(Lines)
      /\ Len(Tail(pipe[s])) <= Len(output[s])
      /\ \A i \in 1 .. Len(Tail(pipe[s])) :
           Tail(pipe[s])[i] = output[s][Len(output[s]) - Len(Tail(pipe[s])) + i]
      /\ Len(output[s]) - Len(pipe[s]) \in Nat
      /\ Len(output[s]) - Len(pipe[s]) <= Len(output[s])
      /\ SubSeq(output[s], 1, Len(output[s]) - Len(Tail(pipe[s]))) =
           Append(SubSeq(output[s], 1, Len(output[s]) - Len(pipe[s])), l)
  <2>1. /\ Len(pipe[s]) <= Len(output[s])
        /\ \A i \in 1 .. Len(pipe[s]) :
             pipe[s][i] = output[s][Len(output[s]) - Len(pipe[s]) + i]
    BY <1>2 DEF PipeHoldsRest
  <2>2. output[s] \in Seq(Lines) /\ pipe[s] \in Seq(Lines) /\ pipe[s] # <<>>
    BY <1>1, <1>2
  <2>3. /\ Tail(pipe[s]) \in Seq(Lines)
        /\ Len(Tail(pipe[s])) <= Len(output[s])
        /\ \A i \in 1 .. Len(Tail(pipe[s])) :
             Tail(pipe[s])[i] = output[s][Len(output[s]) - Len(Tail(pipe[s])) + i]
        /\ Len(output[s]) - Len(pipe[s]) \in Nat
        /\ Len(output[s]) - Len(pipe[s]) <= Len(output[s])
        /\ SubSeq(output[s], 1, Len(output[s]) - Len(Tail(pipe[s]))) =
             Append(SubSeq(output[s], 1, Len(output[s]) - Len(pipe[s])), Head(pipe[s]))
    BY <2>1, <2>2, RestTail
  <2>. QED
    BY <1>3, <2>3
<1>7. CallTypeOK'
  BY <1>1, <1>2, <1>3, <1>4, <1>6 DEF CallInv, CallTypeOK
<1>8. Only(s)
  BY <1>1, <1>2, <1>4 DEF Only
<1>9. PipeHoldsRest(s)'
  BY <1>1, <1>5, <1>6 DEF PipeHoldsRest
<1>10. Shown(s, Within(Taken(s), NonBlank)) = From(s, captured)
  BY <1>1, <1>2 DEF TakenIsCaptured
<1>11. Taken(s) \in Seq(Lines) /\ Taken(s)' = Append(Taken(s), l)
  BY <1>1, <1>2, <1>5, <1>6, BeginningIsSeq DEF Taken
<1>12. Within(Taken(s), NonBlank) \in Seq(Lines)
       /\ Within(Append(Taken(s), l), NonBlank) =
            IF l \in NonBlank THEN Append(Within(Taken(s), NonBlank), l)
                              ELSE Within(Taken(s), NonBlank)
  BY <1>11, WithinAppend, WithinIsSeq
<1>13. TakenIsCaptured(s)'
  <2>1. CASE l = "blank"
    <3>1. Within(Append(Taken(s), l), NonBlank) = Within(Taken(s), NonBlank)
      BY <1>12, <2>1 DEF NonBlank
    <3>2. m = "reading"
      BY <1>4, <2>1
    <3>. QED
      BY <1>1, <1>5, <1>10, <1>11, <3>1, <3>2 DEF TakenIsCaptured
  <2>2. CASE l # "blank"
    <3>1. Within(Append(Taken(s), l), NonBlank) = Append(Within(Taken(s), NonBlank), l)
      BY <1>12, <2>2 DEF NonBlank
    <3>2. Shown(s, Append(Within(Taken(s), NonBlank), l)) = Append(From(s, captured), Line(s, l))
      BY <1>10, <1>12, ShownAppend
    <3>3. m # "reading" /\ m \in {"raised", "logging"}
      BY <1>4, <2>2
    <3>. QED
      BY <1>1, <1>5, <1>11, <3>1, <3>2, <3>3 DEF TakenIsCaptured
  <2>. QED
    BY <2>1, <2>2
<1>14. CapturedIsLogged(s)' /\ DoneAtEnd(s)' /\ HandIsShown(s)'
  BY <1>1, <1>2, <1>5 DEF CapturedIsLogged, InDoubt, DoneAtEnd, HandIsShown
<1>15. StreamInv(s)'
  BY <1>9, <1>13, <1>14 DEF StreamInv
<1>. QED
  BY <1>1, <1>7, <1>8, <1>15, OneReader

\* The reader moves on to phase m with its line, and nothing is logged or captured.
LEMMA MoveKeeps ==
  ASSUME CallInv, NEW s \in Streams, reader[s] # "done",
         NEW m \in {"done", "raised"}, Moves(s, m),
         UNCHANGED <<call, child, output, pipe, hand, logged, captured>>,
         reader[s] # "capturing",
         m = "done" => reader[s] = "reading" /\ pipe[s] = <<>> /\ child = Exited
  PROVE  CallInv'
<1>1. /\ reader \in [Streams -> {"reading", "logging", "capturing", "done", "raised"}]
      /\ StreamInv(s)
  BY DEF CallInv, CallTypeOK
<1>2. reader' = [reader EXCEPT ![s] = m] /\ reader'[s] = m
  BY <1>1 DEF Moves
<1>3. CallTypeOK'
  BY <1>1, <1>2 DEF CallInv, CallTypeOK
<1>4. Only(s)
  BY <1>1, <1>2 DEF Only
<1>5. PipeHoldsRest(s)' /\ CapturedIsLogged(s)' /\ DoneAtEnd(s)' /\ HandIsShown(s)'
  BY <1>1, <1>2 DEF StreamInv, PipeHoldsRest, CapturedIsLogged, InDoubt, DoneAtEnd, HandIsShown
<1>6. TakenIsCaptured(s)'
  BY <1>1, <1>2 DEF StreamInv, TakenIsCaptured, Taken
<1>. QED
  BY <1>3, <1>4, <1>5, <1>6, OneReader DEF StreamInv

\* The line is logged ...
LEMMA LogKeeps ==
  ASSUME CallInv, NEW s \in Streams, LogLine(s)
  PROVE  CallInv'
<1>1. /\ reader[s] = "logging" /\ logged' = Append(logged, Line(s, hand[s]))
      /\ reader' = [reader EXCEPT ![s] = "capturing"]
      /\ UNCHANGED <<call, child, output, pipe, hand, captured>>
  BY DEF LogLine, Moves
<1>2. /\ reader \in [Streams -> {"reading", "logging", "capturing", "done", "raised"}]
      /\ logged \in Seq(Entry) /\ hand[s] \in Lines /\ Line(s, hand[s]) \in Entry
      /\ StreamInv(s)
  BY LineFacts DEF CallInv, CallTypeOK
<1>3. reader'[s] = "capturing"
  BY <1>1, <1>2
<1>4. Append(logged, Line(s, hand[s])) \in Seq(Entry)
  BY <1>2, AppendProperties
<1>5. CallTypeOK'
  BY <1>1, <1>2, <1>4 DEF CallInv, CallTypeOK
<1>6. \A z \in Streams : From(z, Append(logged, Line(s, hand[s]))) =
        IF s = z THEN Append(From(z, logged), Line(s, hand[s])) ELSE From(z, logged)
  <2>. SUFFICES ASSUME NEW z \in Streams
                PROVE  From(z, Append(logged, Line(s, hand[s]))) =
                         IF s = z THEN Append(From(z, logged), Line(s, hand[s])) ELSE From(z, logged)
    OBVIOUS
  <2>1. PICK l \in Lines : l = hand[s]
    BY <1>2
  <2>2. logged \in Seq(Entry) /\ Line(s, l) \in Entry
    BY <1>2, <2>1
  <2>3. From(z, Append(logged, Line(s, l))) =
          IF s = z THEN Append(From(z, logged), Line(s, l)) ELSE From(z, logged)
    BY <2>2, FromAppend
  <2>. QED
    BY <2>1, <2>3
<1>7. Only(s)
  BY <1>1, <1>2, <1>6 DEF Only
<1>8. PipeHoldsRest(s)' /\ DoneAtEnd(s)' /\ HandIsShown(s)'
  BY <1>1, <1>2, <1>3 DEF StreamInv, PipeHoldsRest, DoneAtEnd, HandIsShown
<1>9. TakenIsCaptured(s)'
  BY <1>1, <1>2, <1>3 DEF StreamInv, TakenIsCaptured, Taken
<1>10. CapturedIsLogged(s)'
  BY <1>1, <1>2, <1>3, <1>6 DEF StreamInv, CapturedIsLogged, InDoubt
<1>. QED
  BY <1>1, <1>5, <1>7, <1>8, <1>9, <1>10, OneReader DEF StreamInv

\* ... or its append_event raises, before or after the line is in the log ...
LEMMA RaiseKeeps ==
  ASSUME CallInv, NEW s \in Streams, LogRaises(s)
  PROVE  CallInv'
<1>1. /\ reader[s] = "logging"
      /\ reader' = [reader EXCEPT ![s] = "raised"]
      /\ UNCHANGED <<call, child, output, pipe, hand, captured>>
  BY DEF LogRaises, Moves
<1>2. /\ reader \in [Streams -> {"reading", "logging", "capturing", "done", "raised"}]
      /\ logged \in Seq(Entry) /\ hand[s] \in Lines /\ Line(s, hand[s]) \in Entry
      /\ StreamInv(s)
  BY LineFacts DEF CallInv, CallTypeOK
<1>3. reader'[s] = "raised" /\ Moves(s, "raised")
  BY <1>1, <1>2 DEF Moves
<1>4. CASE logged' = logged
  BY <1>1, <1>3, <1>4, MoveKeeps
<1>5. CASE logged' = Append(logged, Line(s, hand[s]))
  <2>1. Append(logged, Line(s, hand[s])) \in Seq(Entry)
    BY <1>2, AppendProperties
  <2>2. CallTypeOK'
    BY <1>1, <1>2, <1>5, <2>1 DEF CallInv, CallTypeOK
  <2>3. \A z \in Streams : From(z, Append(logged, Line(s, hand[s]))) =
          IF s = z THEN Append(From(z, logged), Line(s, hand[s])) ELSE From(z, logged)
    <3>. SUFFICES ASSUME NEW z \in Streams
                  PROVE  From(z, Append(logged, Line(s, hand[s]))) =
                           IF s = z THEN Append(From(z, logged), Line(s, hand[s])) ELSE From(z, logged)
      OBVIOUS
    <3>1. PICK l \in Lines : l = hand[s]
      BY <1>2
    <3>2. logged \in Seq(Entry) /\ Line(s, l) \in Entry
      BY <1>2, <3>1
    <3>3. From(z, Append(logged, Line(s, l))) =
            IF s = z THEN Append(From(z, logged), Line(s, l)) ELSE From(z, logged)
      BY <3>2, FromAppend
    <3>. QED
      BY <3>1, <3>3
  <2>4. Only(s)
    BY <1>1, <1>2, <1>5, <2>3 DEF Only
  <2>5. hand[s] # "long"
    BY <1>1, <1>2 DEF StreamInv, HandIsShown
  <2>6. PipeHoldsRest(s)' /\ TakenIsCaptured(s)' /\ DoneAtEnd(s)' /\ HandIsShown(s)'
    BY <1>1, <1>2, <1>3 DEF StreamInv, PipeHoldsRest, TakenIsCaptured, DoneAtEnd, HandIsShown
  <2>7. CapturedIsLogged(s)'
    BY <1>1, <1>2, <1>3, <1>5, <2>3, <2>5 DEF StreamInv, CapturedIsLogged, InDoubt
  <2>. QED
    BY <1>1, <2>2, <2>4, <2>6, <2>7, OneReader DEF StreamInv
<1>. QED
  BY <1>4, <1>5 DEF LogRaises

\* ... and captured.
LEMMA CaptureKeeps ==
  ASSUME CallInv, NEW s \in Streams, CaptureLine(s)
  PROVE  CallInv'
<1>1. /\ reader[s] = "capturing" /\ captured' = Append(captured, Line(s, hand[s]))
      /\ reader' = [reader EXCEPT ![s] = "reading"]
      /\ UNCHANGED <<call, child, output, pipe, hand, logged>>
  BY DEF CaptureLine, Moves
<1>2. /\ reader \in [Streams -> {"reading", "logging", "capturing", "done", "raised"}]
      /\ captured \in Seq(Write) /\ hand[s] \in Lines /\ Line(s, hand[s]) \in Write
      /\ StreamInv(s)
  BY LineFacts DEF CallInv, CallTypeOK
<1>3. reader'[s] = "reading"
  BY <1>1, <1>2
<1>4. Append(captured, Line(s, hand[s])) \in Seq(Write)
  BY <1>2, AppendProperties
<1>5. CallTypeOK'
  BY <1>1, <1>2, <1>4 DEF CallInv, CallTypeOK
<1>6. \A z \in Streams : From(z, Append(captured, Line(s, hand[s]))) =
        IF s = z THEN Append(From(z, captured), Line(s, hand[s])) ELSE From(z, captured)
  <2>. SUFFICES ASSUME NEW z \in Streams
                PROVE  From(z, Append(captured, Line(s, hand[s]))) =
                         IF s = z THEN Append(From(z, captured), Line(s, hand[s])) ELSE From(z, captured)
    OBVIOUS
  <2>1. PICK l \in Lines : l = hand[s]
    BY <1>2
  <2>2. captured \in Seq(Write) /\ Line(s, l) \in Write
    BY <1>2, <2>1
  <2>3. From(z, Append(captured, Line(s, l))) =
          IF s = z THEN Append(From(z, captured), Line(s, l)) ELSE From(z, captured)
    BY <2>2, FromAppend
  <2>. QED
    BY <2>1, <2>3
<1>7. Only(s)
  BY <1>1, <1>2, <1>6 DEF Only
<1>8. PipeHoldsRest(s)' /\ DoneAtEnd(s)' /\ HandIsShown(s)'
  BY <1>1, <1>2, <1>3 DEF StreamInv, PipeHoldsRest, DoneAtEnd, HandIsShown
<1>9. TakenIsCaptured(s)'
  BY <1>1, <1>2, <1>3, <1>6 DEF StreamInv, TakenIsCaptured, Taken
<1>10. CapturedIsLogged(s)'
  BY <1>1, <1>2, <1>3, <1>6 DEF StreamInv, CapturedIsLogged, InDoubt
<1>. QED
  BY <1>1, <1>5, <1>7, <1>8, <1>9, <1>10, OneReader DEF StreamInv

-----------------------------------------------------------------------------
\* The sequences a call starts with.
LEMMA EmptyTypes ==
  /\ <<>> \in Seq(Lines) /\ <<>> \in Seq(Entry) /\ <<>> \in Seq(Write)
  /\ \A s : From(s, <<>>) = <<>>
<1>1. <<>> \in Seq(Lines) /\ <<>> \in Seq(Entry) /\ <<>> \in Seq(Write)
  OBVIOUS
<1>. QED
  BY <1>1, WithinEmpty DEF From

\* No command has run at the beginning.
LEMMA CallInit == Init => CallInv
<1>. SUFFICES ASSUME Init
              PROVE  CallInv
  OBVIOUS
<1>1. /\ call = "idle" /\ child = Exited /\ logged = <<>> /\ captured = <<>>
      /\ output = [s \in Streams |-> <<>>] /\ pipe = [s \in Streams |-> <<>>]
      /\ reader = [s \in Streams |-> "done"] /\ hand = [s \in Streams |-> "blank"]
  BY DEF Init, CliInit
<1>2. CallTypeOK
  BY <1>1, EmptyTypes, LineFacts DEF CallTypeOK
<1>3. Rested
  BY <1>1 DEF Rested
<1>4. ASSUME NEW s \in Streams
      PROVE  StreamInv(s)
  <2>1. /\ output[s] = <<>> /\ pipe[s] = <<>> /\ reader[s] = "done"
        /\ From(s, logged) = <<>> /\ From(s, captured) = <<>>
    BY <1>1, EmptyTypes
  <2>2. PipeHoldsRest(s) /\ CapturedIsLogged(s) /\ DoneAtEnd(s) /\ HandIsShown(s)
    BY <1>1, <2>1 DEF PipeHoldsRest, CapturedIsLogged, InDoubt, DoneAtEnd, HandIsShown
  <2>3. Taken(s) = <<>>
    BY <2>1 DEF Taken
  <2>4. Shown(s, Within(<<>>, NonBlank)) = <<>>
    BY WithinEmpty DEF Shown
  <2>5. TakenIsCaptured(s)
    BY <2>1, <2>3, <2>4 DEF TakenIsCaptured
  <2>. QED
    BY <2>2, <2>5 DEF StreamInv
<1>. QED
  BY <1>2, <1>3, <1>4 DEF CallInv

\* A command starts with empty pipes, and readers at them.
LEMMA LaunchKeeps == Launch => CallInv'
<1>. SUFFICES ASSUME Launch
              PROVE  CallInv'
  OBVIOUS
<1>1. /\ call' = "open" /\ child' = Ready /\ captured' = <<>>
      /\ logged' = <<Line("status", "start")>>
      /\ output' = [s \in Streams |-> <<>>] /\ pipe' = [s \in Streams |-> <<>>]
      /\ reader' = [s \in Streams |-> "reading"] /\ hand' = [s \in Streams |-> "blank"]
  BY DEF Launch, StartCli
<1>2. Line("status", "start") \in Entry
  BY DEF Line, Entry
<1>3. <<Line("status", "start")>> \in Seq(Entry)
       /\ <<Line("status", "start")>> = Append(<<>>, Line("status", "start"))
  BY <1>2
<1>4. CallTypeOK'
  BY <1>1, <1>3, EmptyTypes, LineFacts DEF CallTypeOK
<1>5. Rested'
  BY <1>1 DEF Rested
<1>6. ASSUME NEW s \in Streams
      PROVE  From(s, <<Line("status", "start")>>) = <<>>
  <2>. DEFINE x == Line("status", "start")
              A == [to : {s}, line : Lines]
  <2>1. x \notin A
    BY LineFacts DEF Line
  <2>2. <<>> \in Seq(Entry) /\ Within(<<>>, A) = <<>>
    BY EmptyTypes, WithinEmpty
  <2>3. From(s, <<x>>) = Within(<<x>>, A)
    BY DEF From
  <2>. HIDE DEF x, A
  <2>4. Within(Append(<<>>, x), A) = <<>>
    BY <1>2, <2>1, <2>2, WithinAppend DEF x
  <2>. QED
    BY <1>3, <2>3, <2>4 DEF x
<1>7. ASSUME NEW s \in Streams
      PROVE  StreamInv(s)'
  <2>1. output'[s] = <<>> /\ pipe'[s] = <<>> /\ reader'[s] = "reading"
        /\ From(s, logged') = <<>> /\ From(s, captured') = <<>>
    BY <1>1, <1>6, EmptyTypes
  <2>2. PipeHoldsRest(s)' /\ CapturedIsLogged(s)' /\ DoneAtEnd(s)' /\ HandIsShown(s)'
    BY <2>1 DEF PipeHoldsRest, CapturedIsLogged, InDoubt, DoneAtEnd, HandIsShown
  <2>3. Taken(s)' = <<>>
    BY <2>1 DEF Taken
  <2>4. Shown(s, Within(<<>>, NonBlank)) = <<>>
    BY WithinEmpty DEF Shown
  <2>5. TakenIsCaptured(s)'
    BY <2>1, <2>3, <2>4 DEF TakenIsCaptured
  <2>. QED
    BY <2>2, <2>5 DEF StreamInv
<1>. QED
  BY <1>4, <1>5, <1>7 DEF CallInv

\* The tool has answered: no reader is at work, and nothing is left in a pipe.
LEMMA AnswerKeeps == CallInv /\ Answer => CallInv'
<1>. SUFFICES ASSUME CallInv, Answer
              PROVE  CallInv'
  OBVIOUS
<1>1. /\ call = "returned" /\ call' = "idle" /\ logged' = <<>> /\ captured' = <<>>
      /\ output' = [s \in Streams |-> <<>>] /\ hand' = [s \in Streams |-> "blank"]
      /\ UNCHANGED <<child, pipe, reader>>
  BY DEF Answer
<1>2. \A s \in Streams : reader[s] = "done" /\ pipe[s] = <<>> /\ child = Exited
  BY <1>1 DEF CallInv, Rested, StreamInv, DoneAtEnd, HandIsShown
<1>3. CallTypeOK'
  BY <1>1, EmptyTypes, LineFacts DEF CallInv, CallTypeOK
<1>4. Rested'
  BY <1>1, <1>2 DEF Rested
<1>5. ASSUME NEW s \in Streams
      PROVE  StreamInv(s)'
  <2>1. output'[s] = <<>> /\ pipe'[s] = <<>> /\ reader'[s] = "done" /\ child' = Exited
        /\ From(s, logged') = <<>> /\ From(s, captured') = <<>>
    BY <1>1, <1>2, EmptyTypes
  <2>2. PipeHoldsRest(s)' /\ CapturedIsLogged(s)' /\ DoneAtEnd(s)' /\ HandIsShown(s)'
    BY <1>1, <2>1 DEF PipeHoldsRest, CapturedIsLogged, InDoubt, DoneAtEnd, HandIsShown
  <2>3. Taken(s)' = <<>>
    BY <2>1 DEF Taken
  <2>4. Shown(s, Within(<<>>, NonBlank)) = <<>>
    BY WithinEmpty DEF Shown
  <2>5. TakenIsCaptured(s)'
    BY <1>1, <2>1, <2>3, <2>4 DEF TakenIsCaptured
  <2>. QED
    BY <2>2, <2>5 DEF StreamInv
<1>. QED
  BY <1>3, <1>4, <1>5 DEF CallInv

\* A step that leaves the command, its readers and their lists alone; a call
\* may be over only when its readers are done.
LEMMA QuietKeeps ==
  ASSUME CallInv, UNCHANGED <<child, output, pipe, reader, hand, logged, captured>>,
         call' \in {"idle", "open", "returned", "raised"},
         call' \in {"idle", "returned"} => \A s \in Streams : reader[s] = "done"
  PROVE  CallInv'
<1>1. CallTypeOK' /\ Rested'
  BY DEF CallInv, CallTypeOK, Rested
<1>2. ASSUME NEW s \in Streams
      PROVE  StreamInv(s)'
  BY OtherStream DEF CallInv
<1>. QED
  BY <1>1, <1>2 DEF CallInv

\* Every step keeps the invariant of a call.
LEMMA CallKeeps == CallInv /\ [Next]_vars => CallInv'
<1>. SUFFICES ASSUME CallInv, [Next]_vars
              PROVE  CallInv'
  OBVIOUS
<1>0. /\ call \in {"idle", "open", "returned", "raised"}
      /\ call \in {"idle", "returned"} => \A s \in Streams : reader[s] = "done"
  BY DEF CallInv, CallTypeOK, Rested
<1>1. CASE ChildDecides \/ ChildWrites
  BY <1>1, DecideKeeps, WriteKeeps
<1>2. ASSUME NEW s \in Streams, ReadLine(s) \/ LogLine(s) \/ CaptureLine(s)
      PROVE  CallInv'
  BY <1>2, ReadKeeps, LogKeeps, CaptureKeeps
<1>3. ASSUME NEW s \in Streams, ReadEnd(s)
      PROVE  CallInv'
  BY <1>3, MoveKeeps DEF ReadEnd
<1>4. ASSUME NEW s \in Streams, LogRaises(s)
      PROVE  CallInv'
  BY <1>4, RaiseKeeps
<1>5. CASE Returns
  BY <1>5, QuietKeeps DEF Returns
<1>6. CASE Raises
  BY <1>6, QuietKeeps DEF Raises
<1>7. CASE Answer \/ FooterRaises
  BY <1>7, AnswerKeeps, QuietKeeps DEF FooterRaises
<1>8. CASE Exec \/ Fetch
  BY <1>8, LaunchKeeps DEF Exec, Fetch
<1>9. ASSUME NEW r \in Requests, Comment(r)
      PROVE  CallInv'
  <2>1. CASE Launch
    BY <2>1, LaunchKeeps
  <2>2. CASE ~Launch
    <3>1. call = "idle" /\ call' = "returned"
          /\ UNCHANGED <<child, output, pipe, reader, hand, logged, captured>>
      BY <1>9, <2>2 DEF Comment, Begin
    <3>. QED
      BY <1>0, <3>1, QuietKeeps
  <2>. QED
    BY <2>1, <2>2
<1>10. ASSUME NEW r \in Requests, Script(r)
       PROVE  CallInv'
  <2>1. call = "idle" /\ call' = "returned"
        /\ UNCHANGED <<child, output, pipe, reader, hand, logged, captured>>
    BY <1>10 DEF Script, Begin
  <2>. QED
    BY <1>0, <2>1, QuietKeeps
<1>11. CASE UNCHANGED vars
  <2>1. UNCHANGED <<call, child, output, pipe, reader, hand, logged, captured>>
    BY <1>11 DEF vars, cliVars
  <2>. QED
    BY <1>0, <2>1, QuietKeeps
<1>. QED
  BY <1>1, <1>2, <1>3, <1>4, <1>5, <1>6, <1>7, <1>8, <1>9, <1>10, <1>11
     DEF Next, ToolStep, AgentStep, Left

\* Whatever a command writes to its two pipes, however the readers interleave
\* and whichever of them raises, the account of its lines holds.
THEOREM CallInvariance == Spec => []CallInv
BY CallInit, CallKeeps, PTL DEF Spec

\* A call that returns hands over every line that is not blank, of both
\* streams, in order and under its stream.
THEOREM AnswersAreComplete == Spec => []AnswerComplete
<1>1. CallInv => AnswerComplete
  <2>. SUFFICES ASSUME CallInv, call = "returned", NEW s \in Streams
                PROVE  /\ child = Exited
                       /\ reader[s] = "done"
                       /\ From(s, captured) = [i \in DOMAIN Text(s) |-> Line(s, Text(s)[i])]
    <3>1. "stdout" \in Streams
      BY DEF Streams
    <3>. QED
      BY <3>1 DEF AnswerComplete
  <2>1. /\ reader[s] = "done" /\ pipe[s] = <<>> /\ child = Exited
        /\ Shown(s, Within(Taken(s), NonBlank)) = From(s, captured)
    BY DEF CallInv, Rested, StreamInv, DoneAtEnd, HandIsShown, TakenIsCaptured
  <2>2. output[s] \in Seq(Lines)
    BY DEF CallInv, CallTypeOK
  <2>3. Taken(s) = output[s]
    <3>1. Len(output[s]) - Len(pipe[s]) = Len(output[s])
      BY <2>1, <2>2, LenProperties
    <3>. QED
      BY <2>2, <3>1, SubSeqFull DEF Taken
  <2>. QED
    BY <2>1, <2>3 DEF Shown, Text, NonBlank
<1>. QED
  BY <1>1, CallInvariance, PTL

\* What the model is shown of a stream was logged for its clients before, line
\* by line; the log is ahead by one line at most, the one a reader is capturing
\* or whose append_event raised.
THEOREM ModelAndClientsSeeTheSame == Spec => []ModelSeesWhatClientsSee
<1>1. CallInv => ModelSeesWhatClientsSee
  BY DEF CallInv, StreamInv, CapturedIsLogged, InDoubt, ModelSeesWhatClientsSee
<1>. QED
  BY <1>1, CallInvariance, PTL

=============================================================================
