------------------------- MODULE RedisScriptProofs --------------------------
(***************************************************************************)
(* The scripts of RedisServer: how they are put together, what is left of  *)
(* one after its first command, and what a step of the API process or of a *)
(* worker does to one task and its three scripts.                          *)
(*                                                                         *)
(* Move lists the shapes of a step as one task sees it; every action has   *)
(* one of them for every task (StepMoves), so that the invariant of a task *)
(* is proved shape by shape in RedisServerProofs and not action by action. *)
(***************************************************************************)
EXTENDS RedisInvariant, FiniteSetTheorems, WellFoundedInduction, TLAPS

-----------------------------------------------------------------------------
(***************************************************************************)
(* Repetition.                                                             *)
(***************************************************************************)

\* Induction over the numbers, for a set: the least number outside would have a
\* predecessor inside.
LEMMA NatInSet ==
  ASSUME NEW S, 0 \in S, \A n \in Nat : n \in S => n + 1 \in S
  PROVE  \A n \in Nat : n \in S
<1>. DEFINE T == Nat \ S
<1>. SUFFICES ASSUME T # {}
              PROVE  FALSE
  OBVIOUS
<1>1. PICK x \in T : \A y \in T : ~(<<y, x>> \in OpToRel(<, Nat))
  BY NatLessThanWellFounded, WFMin, T \subseteq Nat
<1>2. \A y \in Nat : y < x => <<y, x>> \in OpToRel(<, Nat)
  BY DEF OpToRel
<1>3. x # 0 /\ x \in Nat
  OBVIOUS
<1>4. x - 1 \in Nat /\ x - 1 < x /\ (x - 1) + 1 = x
  BY <1>3
<1>5. x - 1 \in S
  BY <1>1, <1>2, <1>4
<1>. QED
  BY <1>4, <1>5

\* f[i] is i times the same commands.
Times(script, n, f) == f = [i \in 0..n |-> IF i = 0 THEN <<>> ELSE f[i - 1] \o script]

\* The function that Repeat evaluates exists for every length of a run.
LEMMA TimesExist ==
  ASSUME NEW script
  PROVE  \A n \in Nat : \E f : Times(script, n, f)
<1>. DEFINE S == {n \in Nat : \E f : Times(script, n, f)}
<1>1. 0 \in S
  <2>. DEFINE f == [i \in 0..0 |-> <<>>]
  <2>1. f = [i \in 0..0 |-> IF i = 0 THEN <<>> ELSE f[i - 1] \o script]
    OBVIOUS
  <2>. QED
    BY <2>1 DEF Times
<1>2. ASSUME NEW n \in Nat, n \in S
      PROVE  n + 1 \in S
  <2>1. PICK f : Times(script, n, f)
    BY <1>2
  <2>. DEFINE g == [i \in 0..(n + 1) |-> IF i = n + 1 THEN f[n] \o script ELSE f[i]]
              h == [i \in 0..(n + 1) |-> IF i = 0 THEN <<>> ELSE g[i - 1] \o script]
  <2>2. \A i \in 0..n : f[i] = IF i = 0 THEN <<>> ELSE f[i - 1] \o script
    BY <2>1 DEF Times
  <2>3. ASSUME NEW i \in 0..(n + 1)
        PROVE  g[i] = IF i = 0 THEN <<>> ELSE g[i - 1] \o script
    <3>1. CASE i = 0
      BY <2>2, <3>1
    <3>2. CASE i = n + 1
      <4>1. i - 1 = n /\ n \in 0..(n + 1) /\ n # n + 1 /\ i # 0
        BY <3>2
      <4>2. g[i - 1] = f[n]
        BY <4>1
      <4>3. g[i] = f[n] \o script
        BY <3>2
      <4>. QED
        BY <4>1, <4>2, <4>3
    <3>3. CASE i # 0 /\ i # n + 1
      <4>1. i \in 0..n /\ i - 1 \in 0..(n + 1) /\ i - 1 # n + 1
        BY <3>3
      <4>2. g[i] = f[i] /\ g[i - 1] = f[i - 1]
        BY <4>1
      <4>3. f[i] = f[i - 1] \o script
        BY <2>2, <3>3, <4>1
      <4>. QED
        BY <3>3, <4>2, <4>3
    <3>. QED
      BY <3>1, <3>2, <3>3
  <2>4. g = h
    <3>1. \A i \in 0..(n + 1) : g[i] = h[i]
      BY <2>3
    <3>2. DOMAIN g = 0..(n + 1) /\ DOMAIN h = 0..(n + 1)
      OBVIOUS
    <3>. QED
      BY <3>1
  <2>5. Times(script, n + 1, g)
    BY <2>4 DEF Times
  <2>. QED
    BY <2>5
<1>. HIDE DEF S
<1>3. \A n \in Nat : n \in S
  BY <1>1, <1>2, NatInSet
<1>. QED
  BY <1>3 DEF S

\* Repeat is well defined.
LEMMA RepeatTimes ==
  ASSUME NEW script, NEW n \in Nat
  PROVE  \E f : Times(script, n, f) /\ Repeat(script, n) = f[n]
<1>1. PICK f : Times(script, n, f)
  BY TimesExist
<1>. DEFINE times[i \in 0..n] == IF i = 0 THEN <<>> ELSE times[i - 1] \o script
<1>2. times = CHOOSE g : g = [i \in 0..n |-> IF i = 0 THEN <<>> ELSE g[i - 1] \o script]
  OBVIOUS
<1>3. \E g : g = [i \in 0..n |-> IF i = 0 THEN <<>> ELSE g[i - 1] \o script]
  BY <1>1 DEF Times
<1>4. Times(script, n, times)
  BY <1>2, <1>3 DEF Times
<1>5. Repeat(script, n) = times[n]
  BY DEF Repeat
<1>. QED
  BY <1>4, <1>5

-----------------------------------------------------------------------------
(***************************************************************************)
(* How scripts are put together.                                           *)
(***************************************************************************)

AllLater(C, D) == \A c \in C, d \in D : Later(c, d)
AllFollow(C, D) == \A c \in C, d \in D : Follows(c, d)

\* s is a script of commands of C that begins with one of F and ends with one of L.
Script(s, F, L, C) ==
  /\ Orderly(s) /\ s # <<>>
  /\ s[1] \in F /\ s[Len(s)] \in L
  /\ \A i \in DOMAIN s : s[i] \in C

\* The sets of commands scripts are made of.
Incrs(k) == {Do("incr", k)}
Publishes(k) == {Do("publish", k)}
Emits(k) == {Do("incr", k), Do("xadd", k), Do("publish", k)}
Sets(s) == {Do("hset", s)}
Onlys(op) == {Do(op, "")}

\* The positions of a script.
LEMMA Positions ==
  ASSUME NEW s, Orderly(s), s # <<>>
  PROVE  /\ s \in Seq(Sound) /\ Len(s) \in Nat \ {0} /\ DOMAIN s = 1..Len(s)
         /\ \A i \in 1..Len(s) : s[i] \in Sound
         /\ Head(s) = s[1]
<1>1. s \in Seq(Sound)
  BY DEF Orderly
<1>2. Len(s) \in Nat \ {0} /\ DOMAIN s = 1..Len(s)
  BY <1>1, EmptySeq, LenProperties
<1>3. \A i \in 1..Len(s) : s[i] \in Sound
  BY <1>1, ElementOfSeq
<1>. QED
  BY <1>1, <1>2, <1>3

\* Two scripts in sequence are a script, when the one may follow the other.
LEMMA JoinedScript ==
  ASSUME NEW s, NEW r, NEW F, NEW L, NEW C, NEW G, NEW M, NEW D,
         Script(s, F, L, C), Script(r, G, M, D), AllLater(C, D), AllFollow(L, G)
  PROVE  Script(s \o r, F, M, C \cup D)
<1>. DEFINE q == s \o r
            m == Len(s)
            n == Len(r)
<1>1. /\ s \in Seq(Sound) /\ m \in Nat \ {0} /\ DOMAIN s = 1..m
      /\ r \in Seq(Sound) /\ n \in Nat \ {0} /\ DOMAIN r = 1..n
  BY Positions DEF Script
<1>2. q \in Seq(Sound) /\ Len(q) = m + n
      /\ \A i \in 1..(m + n) : q[i] = IF i <= m THEN s[i] ELSE r[i - m]
  BY <1>1, ConcatProperties
<1>3. DOMAIN q = 1..(m + n) /\ q # <<>>
  BY <1>1, <1>2, LenProperties, EmptySeq
<1>4. /\ \A i \in 1..m : s[i] \in C
      /\ \A i \in 1..n : r[i] \in D
      /\ s[1] \in F /\ s[m] \in L /\ r[1] \in G /\ r[n] \in M
      /\ \A i, j \in 1..m : i < j => Later(s[i], s[j])
      /\ \A i, j \in 1..n : i < j => Later(r[i], r[j])
      /\ \A i \in 1..m : i + 1 \in 1..m => Follows(s[i], s[i + 1])
      /\ \A i \in 1..n : i + 1 \in 1..n => Follows(r[i], r[i + 1])
  BY <1>1 DEF Script, Orderly
<1>. HIDE DEF q, m, n
<1>5. /\ \A i \in 1..(m + n) : i <= m => i \in 1..m /\ q[i] = s[i]
      /\ \A i \in 1..(m + n) : ~(i <= m) => i - m \in 1..n /\ q[i] = r[i - m]
  BY <1>1, <1>2
<1>6. ASSUME NEW i \in 1..(m + n), NEW j \in 1..(m + n), i < j
      PROVE  Later(q[i], q[j])
  <2>1. CASE j <= m
    <3>1. i <= m
      BY <1>1, <1>6, <2>1
    <3>. QED
      BY <1>4, <1>5, <1>6, <2>1, <3>1
  <2>2. CASE i <= m /\ ~(j <= m)
    BY <1>4, <1>5, <2>2 DEF AllLater
  <2>3. CASE ~(i <= m) /\ ~(j <= m)
    <3>1. i - m < j - m
      BY <1>1, <1>6
    <3>. QED
      BY <1>4, <1>5, <2>3, <3>1
  <2>. QED
    BY <1>1, <1>6, <2>1, <2>2, <2>3
<1>7. ASSUME NEW i \in 1..(m + n), i + 1 \in 1..(m + n)
      PROVE  Follows(q[i], q[i + 1])
  <2>1. CASE i + 1 <= m
    <3>1. i <= m
      BY <1>1, <2>1
    <3>. QED
      BY <1>4, <1>5, <1>7, <2>1, <3>1
  <2>2. CASE i = m
    <3>1. i <= m /\ ~(i + 1 <= m) /\ (i + 1) - m = 1
      BY <1>1, <2>2
    <3>2. q[i] = s[m] /\ q[i + 1] = r[1]
      BY <1>5, <1>7, <2>2, <3>1
    <3>. QED
      BY <1>4, <3>2 DEF AllFollow
  <2>3. CASE ~(i <= m)
    <3>1. ~(i + 1 <= m) /\ (i + 1) - m = (i - m) + 1
      BY <1>1, <2>3
    <3>2. i - m \in 1..n /\ (i - m) + 1 \in 1..n /\ q[i] = r[i - m] /\ q[i + 1] = r[(i - m) + 1]
      BY <1>5, <1>7, <2>3, <3>1
    <3>. QED
      BY <1>4, <3>2
  <2>4. i + 1 <= m \/ i = m \/ ~(i <= m)
    BY <1>1
  <2>. QED
    BY <2>1, <2>2, <2>3, <2>4
<1>8. Orderly(q)
  BY <1>2, <1>3, <1>6, <1>7 DEF Orderly
<1>9. q[1] \in F /\ q[m + n] \in M
  <2>1. 1 <= m /\ 1 \in 1..(m + n) /\ m + n \in 1..(m + n) /\ ~(m + n <= m) /\ (m + n) - m = n
    BY <1>1
  <2>. QED
    BY <1>4, <1>5, <2>1
<1>10. \A i \in DOMAIN q : q[i] \in C \cup D
  BY <1>3, <1>4, <1>5
<1>11. Script(q, F, M, C \cup D)
  BY <1>2, <1>3, <1>8, <1>9, <1>10 DEF Script
<1>. QED
  BY <1>11 DEF q

\* The last command of a script is one of those it may end with.
LEMMA LastInRange ==
  ASSUME NEW s, NEW F, NEW L, NEW C, Script(s, F, L, C)
  PROVE  \E c \in L : c \in Range(s)
<1>1. Orderly(s) /\ s # <<>> /\ s[Len(s)] \in L
  BY DEF Script
<1>2. Len(s) \in DOMAIN s
  BY <1>1, Positions
<1>. QED
  BY <1>1, <1>2 DEF Range

\* Two scripts in sequence have the commands of both.
LEMMA JoinedRange ==
  ASSUME NEW s, NEW r, s \in Seq(Sound), r \in Seq(Sound)
  PROVE  Range(s \o r) = Range(s) \cup Range(r) /\ s \o r \in Seq(Sound)
BY RangeConcatenation, ConcatProperties

\* The same commands several times are none, or a script.
LEMMA RepeatedScript ==
  ASSUME NEW s, NEW F, NEW L, NEW C, Script(s, F, L, C), AllLater(C, C), AllFollow(L, F),
         NEW n \in Nat
  PROVE  /\ n = 0 => Repeat(s, n) = <<>>
         /\ n # 0 => Script(Repeat(s, n), F, L, C)
<1>1. PICK f : Times(s, n, f) /\ Repeat(s, n) = f[n]
  BY RepeatTimes
<1>2. f[0] = <<>> /\ \A i \in 1..n : f[i] = f[i - 1] \o s
  <2>1. \A i \in 0..n : f[i] = IF i = 0 THEN <<>> ELSE f[i - 1] \o s
    BY <1>1 DEF Times
  <2>2. 0 \in 0..n /\ \A i \in 1..n : i \in 0..n /\ i # 0
    OBVIOUS
  <2>. QED
    BY <2>1, <2>2
<1>. DEFINE S == {i \in Nat : i \in 1..n => Script(f[i], F, L, C)}
<1>3. 0 \in S
  OBVIOUS
<1>4. ASSUME NEW i \in Nat, i \in S
      PROVE  i + 1 \in S
  <2>. SUFFICES ASSUME i + 1 \in 1..n
                PROVE  Script(f[i + 1], F, L, C)
    OBVIOUS
  <2>1. f[i + 1] = f[i] \o s
    <3>1. (i + 1) - 1 = i
      OBVIOUS
    <3>. QED
      BY <1>2, <3>1
  <2>2. CASE i = 0
    <3>1. s \in Seq(Sound)
      BY DEF Script, Orderly
    <3>2. f[i + 1] = s
      BY <1>2, <2>1, <2>2, <3>1, ConcatEmptySeq
    <3>. QED
      BY <3>2
  <2>3. CASE i # 0
    <3>1. i \in 1..n
      BY <2>3
    <3>2. Script(f[i], F, L, C)
      BY <1>4, <3>1
    <3>3. Script(f[i] \o s, F, L, C \cup C)
      BY <3>2, JoinedScript
    <3>4. C \cup C = C
      OBVIOUS
    <3>. QED
      BY <2>1, <3>3, <3>4
  <2>. QED
    BY <2>2, <2>3
<1>. HIDE DEF S
<1>5. n \in S
  BY <1>3, <1>4, NatInSet
<1>. QED
  BY <1>1, <1>2, <1>5 DEF S

\* A single command is a script.
LEMMA SingleScript ==
  ASSUME NEW c \in Sound
  PROVE  Script(<<c>>, {c}, {c}, {c})
<1>1. <<c>> \in Seq(Sound) /\ Len(<<c>>) = 1 /\ DOMAIN <<c>> = {1} /\ <<c>> # <<>> /\ <<c>>[1] = c
  OBVIOUS
<1>2. Orderly(<<c>>)
  <2>1. 1 + 1 \notin {1} /\ ~(1 < 1)
    OBVIOUS
  <2>. QED
    BY <1>1, <2>1 DEF Orderly
<1>. QED
  BY <1>1, <1>2 DEF Script

\* append_event is a script.
LEMMA EmitScript ==
  ASSUME NEW k \in Kinds
  PROVE  Script(Emit(k), Incrs(k), Publishes(k), Emits(k))
<1>. DEFINE a == Do("incr", k)
            b == Do("xadd", k)
            c == Do("publish", k)
<1>1. a \in Sound /\ b \in Sound /\ c \in Sound
  BY DEF Do, Sound, Commands, Ops, AppendOps
<1>2. Follows(a, b) /\ Follows(b, c) /\ Later(a, b) /\ Later(a, c) /\ Later(b, c)
  BY DEF Do, Follows, Later
<1>3. /\ Emit(k) = <<a, b, c>> /\ Incrs(k) = {a} /\ Publishes(k) = {c} /\ Emits(k) = {a, b, c}
  BY DEF Emit, Incrs, Publishes, Emits
<1>. HIDE DEF a, b, c
<1>. DEFINE s == <<a, b, c>>
<1>4. s \in Seq(Sound) /\ Len(s) = 3 /\ DOMAIN s = 1..3 /\ s # <<>>
      /\ s[1] = a /\ s[2] = b /\ s[3] = c
  BY <1>1
<1>. HIDE DEF s
<1>5. \A i \in 1..3 : i = 1 \/ i = 2 \/ i = 3
  OBVIOUS
<1>6. \A i, j \in DOMAIN s : i < j => Later(s[i], s[j])
  BY <1>2, <1>4, <1>5
<1>7. \A i \in DOMAIN s : i + 1 \in DOMAIN s => Follows(s[i], s[i + 1])
  BY <1>2, <1>4, <1>5
<1>8. Orderly(s)
  BY <1>4, <1>6, <1>7 DEF Orderly
<1>9. Script(s, {a}, {c}, {a, b, c})
  BY <1>4, <1>5, <1>8 DEF Script
<1>. QED
  BY <1>3, <1>9 DEF s

\* A status is set by a script, ...
LEMMA SetScript ==
  ASSUME NEW s \in {"running"} \cup Verdicts
  PROVE  Script(SetStatus(s), Sets(s), Sets(s), Sets(s))
<1>1. Do("hset", s) \in Sound
  BY DEF Do, Sound, Commands, Ops, AppendOps, Statuses, Verdicts
<1>. QED
  BY <1>1, SingleScript DEF SetStatus, Sets

\* ... and so is done what has no argument.
LEMMA JustScript ==
  ASSUME NEW op \in Ops \ (AppendOps \cup {"hset"})
  PROVE  Script(Just(op), Onlys(op), Onlys(op), Onlys(op))
<1>1. Do(op, "") \in Sound
  BY DEF Do, Sound, Commands, AppendOps
<1>. QED
  BY <1>1, SingleScript DEF Just, Onlys

\* A verdict announces a status that is one.
LEMMA VerdictsAnnounced ==
  /\ \A k \in VerdictKinds : Announces(k) \in Verdicts /\ k \in Kinds
  /\ Announces("ok") = "succeeded" /\ Announces("error") = "failed" /\ Announces("cancelled") = "cancelled"
BY DEF Announces, Verdicts, VerdictKinds, ResultKinds, Kinds

\* A verdict and its status are a script.
LEMMA ConcludeScript ==
  ASSUME NEW k \in VerdictKinds
  PROVE  Script(Conclude(k, Announces(k)), Incrs(k), Sets(Announces(k)), Emits(k) \cup Sets(Announces(k)))
<1>1. Script(Emit(k), Incrs(k), Publishes(k), Emits(k))
  BY EmitScript, VerdictsAnnounced
<1>2. Script(SetStatus(Announces(k)), Sets(Announces(k)), Sets(Announces(k)), Sets(Announces(k)))
  BY SetScript, VerdictsAnnounced
<1>3. AllLater(Emits(k), Sets(Announces(k)))
  BY DEF AllLater, Emits, Sets, Later, Do
<1>4. AllFollow(Publishes(k), Sets(Announces(k)))
  BY VerdictsAnnounced DEF AllFollow, Publishes, Sets, Follows, Do
<1>. QED
  BY <1>1, <1>2, <1>3, <1>4, JoinedScript DEF Conclude

\* Whoever has more commands to do concludes all the same.
LEMMA MoreConclude == \A C, D : Concluding(C) /\ C \subseteq D => Concluding(D)
BY DEF Concluding

\* A verdict concludes.
LEMMA VerdictConcludes ==
  ASSUME NEW k \in VerdictKinds
  PROVE  Concluding(Range(Conclude(k, Announces(k)))) /\ Conclude(k, Announces(k)) \in Seq(Sound)
<1>. DEFINE s == Conclude(k, Announces(k))
            v == Announces(k)
<1>1. Script(s, Incrs(k), Sets(v), Emits(k) \cup Sets(v))
  BY ConcludeScript
<1>2. v \in Verdicts
  BY VerdictsAnnounced
<1>. HIDE DEF s, v
<1>3. PICK c \in Sets(v) : c \in Range(s)
  BY <1>1, LastInRange
<1>4. c.op = "hset" /\ c.arg = v
  BY <1>3 DEF Sets, Do
<1>5. Concluding(Range(s))
  BY <1>2, <1>3, <1>4 DEF Concluding
<1>6. s \in Seq(Sound)
  BY <1>1 DEF Script, Orderly
<1>. QED
  BY <1>5, <1>6 DEF s, v

-----------------------------------------------------------------------------
(***************************************************************************)
(* What is left of a script.                                               *)
(***************************************************************************)

\* r is what s leaves after its first command.
Rest(s, r) ==
  /\ Head(s) \in Sound /\ Head(s) \in Range(s) /\ Range(r) \subseteq Range(s)
  /\ \A c \in Range(s) : c = Head(s) \/ c \in Range(r)
  /\ \A d \in Range(r) : Later(Head(s), d)
  /\ r # <<>> => Head(r) \in Range(r) /\ Follows(Head(s), Head(r))
  /\ r = <<>> => Range(r) = {}

\* The rest of a script is orderly.
LEMMA TailOfScript ==
  ASSUME NEW s, Orderly(s), s # <<>>
  PROVE  /\ Orderly(Tail(s)) /\ Rest(s, Tail(s))
         /\ s[Len(s)] = IF Tail(s) = <<>> THEN Head(s) ELSE Tail(s)[Len(Tail(s))]
<1>. DEFINE r == Tail(s)
            n == Len(s)
<1>1. /\ s \in Seq(Sound) /\ n \in Nat \ {0} /\ DOMAIN s = 1..n
      /\ \A i \in 1..n : s[i] \in Sound
      /\ Head(s) = s[1]
  BY Positions
<1>2. /\ r \in Seq(Sound) /\ Len(r) = n - 1 /\ \A i \in 1..(n - 1) : r[i] = s[i + 1]
  BY <1>1, HeadTailProperties
<1>3. DOMAIN r = 1..(n - 1)
  BY <1>2, LenProperties
<1>4. /\ \A i, j \in 1..n : i < j => Later(s[i], s[j])
      /\ \A i \in 1..n : i + 1 \in 1..n => Follows(s[i], s[i + 1])
  BY <1>1 DEF Orderly
<1>5. r = <<>> <=> n = 1
  BY <1>1, <1>2, EmptySeq, LenProperties
<1>6. r # <<>> => Head(r) = r[1] /\ 1 \in 1..(n - 1)
  BY <1>1, <1>2, <1>5, HeadTailProperties
<1>. HIDE DEF r, n
<1>7. \A i \in 1..(n - 1) : i \in 1..n /\ i + 1 \in 1..n /\ 1 < i + 1
  BY <1>1
<1>8. Orderly(r)
  <2>1. ASSUME NEW i \in 1..(n - 1), NEW j \in 1..(n - 1), i < j
        PROVE  Later(r[i], r[j])
    <3>1. i + 1 < j + 1
      BY <1>1, <2>1
    <3>. QED
      BY <1>2, <1>4, <1>7, <3>1
  <2>2. ASSUME NEW i \in 1..(n - 1), i + 1 \in 1..(n - 1)
        PROVE  Follows(r[i], r[i + 1])
    BY <1>2, <1>4, <1>7, <2>2
  <2>. QED
    BY <1>2, <1>3, <2>1, <2>2 DEF Orderly
<1>9. Range(s) = {s[i] : i \in 1..n} /\ Range(r) = {r[i] : i \in 1..(n - 1)}
  BY <1>1, <1>3 DEF Range
<1>10. 1 \in 1..n /\ \A i \in 1..n : i = 1 \/ (i - 1 \in 1..(n - 1) /\ (i - 1) + 1 = i)
  BY <1>1
<1>11. Rest(s, r)
  <2>1. Head(s) \in Sound /\ Head(s) \in Range(s)
    BY <1>1, <1>9, <1>10
  <2>2. \A i \in 1..(n - 1) : r[i] \in Range(s) /\ Later(Head(s), r[i])
    BY <1>1, <1>2, <1>4, <1>7, <1>9, <1>10
  <2>3. \A i \in 1..n : s[i] = Head(s) \/ s[i] \in Range(r)
    BY <1>1, <1>2, <1>9, <1>10
  <2>4. r # <<>> => Head(r) \in Range(r) /\ Follows(Head(s), Head(r))
    <3>1. 1 \in 1..(n - 1) => r[1] = s[2] /\ Follows(s[1], s[2])
      <4>1. 1 + 1 = 2
        OBVIOUS
      <4>. QED
        BY <1>2, <1>4, <1>7, <4>1
    <3>. QED
      BY <1>1, <1>6, <1>9, <3>1
  <2>5. r = <<>> => Range(r) = {}
    BY <1>5, <1>9
  <2>. QED
    BY <1>9, <2>1, <2>2, <2>3, <2>4, <2>5 DEF Rest
<1>12. s[n] = IF r = <<>> THEN Head(s) ELSE r[Len(r)]
  <2>1. CASE n = 1
    BY <1>1, <1>5, <2>1
  <2>2. CASE n # 1
    <3>1. n - 1 \in 1..(n - 1) /\ (n - 1) + 1 = n
      BY <1>1, <2>2
    <3>. QED
      BY <1>2, <1>5, <2>2, <3>1
  <2>. QED
    BY <2>1, <2>2
<1>. QED
  BY <1>8, <1>11, <1>12 DEF r, n

\* The rest of a run still ends with the acknowledgement, and only with it.
LEMMA TailOfRun ==
  ASSUME NEW s, RestOfRun(s), s # <<>>
  PROVE  /\ RestOfRun(Tail(s)) /\ Rest(s, Tail(s))
         /\ Tail(s) = <<>> <=> Head(s).op = "ack"
         /\ Head(s).op = "xadd" /\ Head(s).arg \in VerdictKinds =>
              Do("hset", Announces(Head(s).arg)) \in Range(Tail(s))
<1>. DEFINE r == Tail(s)
<1>1. /\ Orderly(s) /\ Orderly(r) /\ Rest(s, r)
      /\ s[Len(s)] = IF r = <<>> THEN Head(s) ELSE r[Len(r)]
      /\ s[Len(s)].op = "ack"
  BY TailOfScript DEF RestOfRun
<1>. HIDE DEF r
<1>2. r # <<>> => r[Len(r)].op = "ack"
  BY <1>1
<1>3. RestOfRun(r)
  BY <1>1, <1>2 DEF RestOfRun
<1>4. r = <<>> <=> Head(s).op = "ack"
  <2>1. r = <<>> => Head(s).op = "ack"
    BY <1>1
  <2>2. r # <<>> => Later(Head(s), Head(r))
    BY <1>1 DEF Rest
  <2>. QED
    BY <2>1, <2>2 DEF Later
<1>5. ASSUME Head(s).op = "xadd", Head(s).arg \in VerdictKinds
      PROVE  Do("hset", Announces(Head(s).arg)) \in Range(r)
  <2>1. r # <<>> /\ Follows(Head(s), Head(r)) /\ Head(r) \in Range(r)
    BY <1>1, <1>4, <1>5 DEF Rest
  <2>2. Head(r).op = "publish" /\ Head(r).arg = Head(s).arg
    BY <1>5, <2>1 DEF Follows
  <2>. DEFINE q == Tail(r)
  <2>3. Orderly(r) /\ r # <<>> /\ Rest(r, q) /\ r[Len(r)] = IF q = <<>> THEN Head(r) ELSE q[Len(q)]
    BY <1>1, <2>1, TailOfScript
  <2>. HIDE DEF q
  <2>4. q # <<>>
    BY <1>2, <2>2, <2>3
  <2>5. Head(q) \in Range(q) /\ Follows(Head(r), Head(q)) /\ Range(q) \subseteq Range(r) /\ Range(r) \subseteq Range(s)
    BY <1>1, <2>3, <2>4 DEF Rest
  <2>6. Head(q).op = "hset" /\ Head(q).arg = Announces(Head(s).arg)
    BY <1>5, <2>2, <2>5 DEF Follows
  <2>7. Head(q) \in Commands
    <3>1. \A c \in Range(s) : c \in Sound
      <4>1. s \in Seq(Sound) /\ DOMAIN s = 1..Len(s)
        BY <1>1, Positions
      <4>. QED
        BY <4>1, ElementOfSeq DEF Range
    <3>. QED
      BY <2>5, <3>1 DEF Sound
  <2>8. Head(q) = Do("hset", Announces(Head(s).arg))
    BY <2>6, <2>7 DEF Commands, Do
  <2>. QED
    BY <2>5, <2>8
<1>. QED
  BY <1>1, <1>3, <1>4, <1>5 DEF r

\* The rest of a request is that of a request.
LEMMA TailOfRequest ==
  ASSUME NEW s, NEW K, RestOfRequest(s, K), s # <<>>
  PROVE  /\ RestOfRequest(Tail(s), K) /\ Rest(s, Tail(s))
         /\ Head(s).op \in AppendOps /\ Head(s).arg \in K
         /\ Tail(s) = <<>> => Head(s).op = "publish"
<1>. DEFINE r == Tail(s)
<1>1. /\ Orderly(s) /\ Orderly(r) /\ Rest(s, r)
      /\ s[Len(s)] = IF r = <<>> THEN Head(s) ELSE r[Len(r)]
      /\ s[Len(s)].op = "publish"
      /\ \A c \in Range(s) : c.op \in AppendOps /\ c.arg \in K
  BY TailOfScript DEF RestOfRequest
<1>. HIDE DEF r
<1>2. RestOfRequest(r, K)
  <2>1. \A c \in Range(r) : c \in Range(s)
    BY <1>1 DEF Rest
  <2>. QED
    BY <1>1, <2>1 DEF RestOfRequest
<1>3. Head(s) \in Range(s)
  BY <1>1 DEF Rest
<1>. QED
  BY <1>1, <1>2, <1>3 DEF r

\* A script that ends with the acknowledgement is a run's.
LEMMA ScriptOfRun ==
  ASSUME NEW s, NEW F, NEW L, NEW C, Script(s, F, L, C), \A c \in L : c.op = "ack"
  PROVE  RestOfRun(s) /\ s # <<>> /\ Head(s) \in F /\ Range(s) \subseteq C /\ Head(s) \in Range(s)
<1>1. Orderly(s) /\ s # <<>> /\ s[1] \in F /\ s[Len(s)] \in L /\ \A i \in DOMAIN s : s[i] \in C
  BY DEF Script
<1>2. Head(s) = s[1] /\ Head(s) \in Range(s)
  BY <1>1, Positions, TailOfScript DEF Rest
<1>3. Range(s) \subseteq C
  BY <1>1 DEF Range
<1>4. s[Len(s)].op = "ack"
  BY <1>1
<1>. QED
  BY <1>1, <1>2, <1>3, <1>4 DEF RestOfRun

\* append_event is a request's.
LEMMA ScriptOfRequest ==
  ASSUME NEW k \in Kinds, NEW K, k \in K
  PROVE  RestOfRequest(Emit(k), K) /\ Emit(k) # <<>> /\ Head(Emit(k)).op = "incr"
<1>. DEFINE s == Emit(k)
<1>1. Script(s, Incrs(k), Publishes(k), Emits(k))
  BY EmitScript
<1>2. \A c \in Emits(k) : c.op \in AppendOps /\ c.arg = k
  BY DEF Emits, Do, AppendOps
<1>3. (\A c \in Incrs(k) : c.op = "incr") /\ \A c \in Publishes(k) : c.op = "publish"
  BY DEF Incrs, Publishes, Do
<1>. HIDE DEF s
<1>4. Orderly(s) /\ s # <<>> /\ s[1] \in Incrs(k) /\ s[Len(s)] \in Publishes(k) /\ \A i \in DOMAIN s : s[i] \in Emits(k)
  BY <1>1 DEF Script
<1>5. Head(s) = s[1]
  BY <1>4, Positions
<1>6. \A c \in Range(s) : c \in Emits(k)
  BY <1>4 DEF Range
<1>7. RestOfRequest(s, K)
  BY <1>2, <1>3, <1>4, <1>6 DEF RestOfRequest
<1>. QED
  BY <1>3, <1>4, <1>5, <1>7 DEF s

-----------------------------------------------------------------------------
(***************************************************************************)
(* What a step may do to one task.                                         *)
(***************************************************************************)

KeepsMeta(t) == status'[t] = status[t] /\ mode'[t] = mode[t]
KeepsLog(t) == seq'[t] = seq[t] /\ log'[t] = log[t]
KeepsHome(t) == home'[t] = home[t]
KeepsPending(t) == t \in pel' <=> t \in pel
KeepsAnswer(t) == t \in answered' <=> t \in answered
KeepsFlag(t) == t \in cancelled' <=> t \in cancelled
KeepsReaders(t) == \A r \in Readers : reader'[Reader(r, t)] = reader[Reader(r, t)]
KeepsCut(t) == t \in cut' <=> t \in cut
KeepsFate(t) == KeepsCut(t) /\ KeepsReaders(t)
KeepsScript(a) == todo'[a] = todo[a] /\ held'[a] = held[a]

\* Nothing of t changes but what the caller names.
KeepsRecord(t) == KeepsMeta(t) /\ KeepsHome(t) /\ KeepsPending(t) /\ KeepsAnswer(t) /\ KeepsFlag(t)

Untouched(t) ==
  /\ KeepsRecord(t) /\ KeepsLog(t) /\ KeepsFate(t) /\ faults' \in Nat /\ faults' >= faults
  /\ \A a \in Writers(t) : KeepsScript(a)

\* A script may begin like this.
NewScript(t, s) ==
  /\ RestOfRun(s) /\ s # <<>>
  /\ Head(s).op \notin {"xadd", "publish", "hset"}
  /\ \A c \in Range(s) : c.op \in {"setup", "enter", "join", "leave"} => mode[t] = "agent"
  /\ (\E c \in Range(s) : c.op = "join") => \E c \in Range(s) : c.op = "leave"
  /\ Concluding(Range(s))

OthersKeep(t, a) == \A b \in Writers(t) : b # a => KeepsScript(b)

Submitted(t) ==
  /\ status[t] = "absent" /\ status'[t] = "queued"
  /\ seq'[t] = 0 /\ log'[t] = log[t]
  /\ KeepsHome(t) /\ KeepsPending(t) /\ KeepsAnswer(t) /\ KeepsFlag(t) /\ KeepsFate(t) /\ faults' = faults
  /\ held' = held
  /\ RestOfRequest(todo'[Create(t)], {"queued"})
  /\ todo'[Create(t)] # <<>> /\ Head(todo'[Create(t)]).op = "incr"
  /\ OthersKeep(t, Create(t))

Asked(t) ==
  /\ t \in answered \ cancelled /\ t \in cancelled'
  /\ KeepsMeta(t) /\ KeepsHome(t) /\ KeepsPending(t) /\ KeepsAnswer(t) /\ KeepsLog(t) /\ KeepsFate(t) /\ faults' = faults
  /\ held' = held
  /\ RestOfRequest(todo'[Cancel(t)], {"cancel_requested"})
  /\ todo'[Cancel(t)] # <<>> /\ Head(todo'[Cancel(t)]).op = "incr"
  /\ OthersKeep(t, Cancel(t))

\* A reader has read a line.
BegunLine(t, r) ==
  /\ r \in Readers /\ todo[Reader(r, t)] = <<>>
  /\ reader[Reader(r, t)] = "left" \/ (reader[Reader(r, t)] = "awaited" /\ AtWork(t))
  /\ KeepsRecord(t) /\ KeepsLog(t) /\ KeepsFate(t) /\ faults' = faults
  /\ held' = held
  /\ RestOfRequest(todo'[Reader(r, t)], ToolKinds)
  /\ todo'[Reader(r, t)] # <<>> /\ Head(todo'[Reader(r, t)]).op = "incr"
  /\ OthersKeep(t, Reader(r, t))

\* Readers are left behind.
LeftAlone(t) ==
  /\ AtWork(t)
  /\ KeepsRecord(t) /\ KeepsLog(t) /\ KeepsCut(t) /\ faults' = faults
  /\ held' = held
  /\ \A r \in Readers : reader'[Reader(r, t)] \in {reader[Reader(r, t)], "left"}
  /\ \A a \in Writers(t) : KeepsScript(a)

Consumed(t) ==
  /\ status[t] = "queued" /\ home[t] = NoWorker
  /\ home'[t] # NoWorker /\ t \in pel'
  /\ KeepsMeta(t) /\ KeepsAnswer(t) /\ KeepsFlag(t) /\ KeepsLog(t) /\ KeepsFate(t) /\ faults' = faults
  /\ held' = held
  /\ NewScript(t, todo'[Run(t)])
  /\ \A c \in Range(todo'[Run(t)]) : c.op # "leave"
  /\ OthersKeep(t, Run(t))

\* a does its first command.
Passes(t, a) ==
  /\ a \in Writers(t) /\ todo[a] # <<>>
  /\ Rest(todo[a], todo'[a])
  /\ a = Run(t) =>
       /\ RestOfRun(todo'[a])
       /\ todo'[a] = <<>> <=> Head(todo[a]).op = "ack"
       /\ Head(todo[a]).op = "xadd" /\ Head(todo[a]).arg \in VerdictKinds =>
            Do("hset", Announces(Head(todo[a]).arg)) \in Range(todo'[a])
  /\ a = Create(t) => RestOfRequest(todo'[a], {"queued"})
  /\ a = Cancel(t) => RestOfRequest(todo'[a], {"cancel_requested"})
  /\ \A r \in Readers : a = Reader(r, t) => RestOfRequest(todo'[a], ToolKinds)
  /\ a # Run(t) =>
       /\ Head(todo[a]).op \in AppendOps
       /\ \/ Head(todo[a]).arg \in {"queued", "cancel_requested"}
          \/ Head(todo[a]).arg \in ToolKinds /\ \E r \in Readers : a = Reader(r, t)
       /\ todo'[a] = <<>> => Head(todo[a]).op = "publish"
  /\ OthersKeep(t, a)

Drew(t, a) ==
  /\ Passes(t, a) /\ Head(todo[a]).op = "incr"
  /\ KeepsRecord(t) /\ KeepsFate(t) /\ faults' = faults
  /\ log'[t] = log[t] /\ seq'[t] = seq[t] + 1 /\ held'[a] = seq[t] + 1

Wrote(t, a) ==
  /\ Passes(t, a) /\ Head(todo[a]).op = "xadd"
  /\ KeepsRecord(t) /\ KeepsFate(t) /\ faults' = faults /\ held' = held
  /\ log'[t] = Append(log[t], EventOf(a)) /\ seq'[t] = seq[t]

Published(t, a) ==
  /\ Passes(t, a) /\ Head(todo[a]).op = "publish"
  /\ KeepsMeta(t) /\ KeepsHome(t) /\ KeepsPending(t) /\ KeepsFlag(t) /\ KeepsFate(t) /\ KeepsLog(t)
  /\ t \in answered' <=> t \in answered \/ a = Create(t)
  /\ faults' = faults /\ held' = held

Set(t) ==
  /\ Passes(t, Run(t)) /\ Head(todo[Run(t)]).op = "hset"
  /\ status'[t] = Head(todo[Run(t)]).arg /\ mode'[t] = mode[t]
  /\ KeepsHome(t) /\ KeepsPending(t) /\ KeepsAnswer(t) /\ KeepsFlag(t) /\ KeepsFate(t) /\ KeepsLog(t)
  /\ faults' = faults /\ held' = held

WentOn(t) ==
  /\ Passes(t, Run(t)) /\ Head(todo[Run(t)]).op \in {"start", "test", "join", "save", "leave"}
  /\ Head(todo[Run(t)]).op = "join" =>
       \A r \in Readers : reader[Reader(r, t)] = "awaited" => todo[Reader(r, t)] = <<>>
  /\ KeepsRecord(t) /\ KeepsLog(t) /\ KeepsFate(t)
  /\ faults' = faults /\ held' = held

Acked(t) ==
  /\ Passes(t, Run(t)) /\ Head(todo[Run(t)]).op = "ack"
  /\ t \notin pel'
  /\ KeepsMeta(t) /\ KeepsHome(t) /\ KeepsAnswer(t) /\ KeepsFlag(t) /\ KeepsLog(t) /\ KeepsFate(t)
  /\ faults' = faults /\ held' = held

\* The run decides how it goes on, ...
Decided(t) ==
  /\ Head(todo[Run(t)]).op \in {"test", "setup", "enter"} /\ todo[Run(t)] # <<>>
  /\ NewScript(t, todo'[Run(t)])
  /\ \A c \in Range(todo'[Run(t)]) : ~(c.op = "xadd" /\ c.arg = "running")
  /\ Head(todo[Run(t)]).op # "enter" => \A c \in Range(todo'[Run(t)]) : c.op # "leave"
  /\ KeepsRecord(t) /\ KeepsLog(t) /\ KeepsFate(t)
  /\ faults' = faults /\ held' = held
  /\ OthersKeep(t, Run(t))

\* ... or a fault decides, in the session ...
Raised(t) ==
  /\ InSession(t)
  /\ NewScript(t, todo'[Run(t)])
  /\ \A c \in Range(todo'[Run(t)]) :
       /\ c.op \in AppendOps \cup {"hset", "ack"}
       /\ c.op \in AppendOps => c.arg = "error"
       /\ c.op = "hset" => c.arg = "failed"
  /\ Do("hset", "failed") \in Range(todo'[Run(t)])
  /\ KeepsRecord(t) /\ KeepsLog(t) /\ KeepsCut(t)
  /\ \A r \in Readers :
       reader'[Reader(r, t)] = IF AtWork(t) THEN "left" ELSE reader[Reader(r, t)]
  /\ faults' = faults + 1 /\ held' = held
  /\ OthersKeep(t, Run(t))

\* ... or outside, ...
CutShort(t) ==
  /\ todo[Run(t)] # <<>> /\ ~InSession(t)
  /\ todo'[Run(t)] \in {<<>>, <<Do("ack", "")>>}
  /\ t \in cut' /\ KeepsReaders(t)
  /\ KeepsRecord(t) /\ KeepsLog(t)
  /\ faults' = faults + 1 /\ held' = held
  /\ OthersKeep(t, Run(t))

\* ... or the worker ends, and with it the run and its readers.
Stopped(t) ==
  /\ home[t] # NoWorker
  /\ todo'[Run(t)] = <<>> /\ \A r \in Readers : todo'[Reader(r, t)] = <<>>
  /\ KeepsScript(Create(t)) /\ KeepsScript(Cancel(t)) /\ held' = held
  /\ \A r \in Readers : reader'[Reader(r, t)] =
       IF reader[Reader(r, t)] = "left" THEN "stopped" ELSE reader[Reader(r, t)]
  /\ t \in cut' <=> t \in cut \/ Live(t)
  /\ KeepsRecord(t) /\ KeepsLog(t)
  /\ faults' = faults + 1

Abandoned(t, a) ==
  /\ a \in Writers(t) /\ a # Run(t)
  /\ todo[a] # <<>> /\ todo'[a] = <<>>
  /\ KeepsRecord(t) /\ KeepsLog(t) /\ KeepsFate(t)
  /\ faults' = faults + 1 /\ held' = held
  /\ OthersKeep(t, a)

AppendMove(t, a) == Drew(t, a) \/ Wrote(t, a) \/ Published(t, a)

RunMove(t) == Set(t) \/ WentOn(t) \/ Acked(t) \/ Decided(t)

ReadMove(t) == LeftAlone(t) \/ \E r \in Readers : BegunLine(t, r)

FaultMove(t) == Raised(t) \/ CutShort(t) \/ Stopped(t) \/ \E a \in Writers(t) : Abandoned(t, a)

Move(t) ==
  \/ Untouched(t)
  \/ Submitted(t) \/ Asked(t) \/ Consumed(t)
  \/ \E a \in Writers(t) : AppendMove(t, a)
  \/ RunMove(t)
  \/ ReadMove(t)
  \/ FaultMove(t)

OthersUntouched(t) == \A u \in Tasks : u # t => Untouched(u)

-----------------------------------------------------------------------------
\* The actors of a task are the two requests about it, its run and the readers.
LEMMA WritersAreActors ==
  /\ \A t \in Tasks : Writers(t) \subseteq Actors
  /\ \A t \in Tasks : \A a \in Actors : a[2] = t => a \in Writers(t)
  /\ \A t \in Tasks : \A a \in Writers(t) : a[2] = t
  /\ \A t \in Tasks : \A a \in Writers(t) :
       a = Run(t) \/ a = Create(t) \/ a = Cancel(t) \/ \E r \in Readers : a = Reader(r, t)
  /\ \A t \in Tasks : \A r \in Readers :
       /\ Reader(r, t) \in Writers(t) \ {Run(t), Create(t), Cancel(t)}
       /\ \A q \in Readers : Reader(q, t) = Reader(r, t) => q = r
  /\ \A t \in Tasks : {Run(t), Create(t), Cancel(t)} \subseteq Writers(t)
  /\ \A t, u \in Tasks : t # u => Writers(t) \cap Writers(u) = {}
  /\ \A t \in Tasks : Run(t) # Create(t) /\ Run(t) # Cancel(t) /\ Create(t) # Cancel(t)
  /\ \A a \in Actors : a[2] \in Tasks /\ a \in Writers(a[2])
BY ReaderAssumption DEF Actors, Writers, Run, Create, Cancel, Reader

\* An actor that goes on with a script leaves every other actor its own.
LEMMA GoesOnlyOne ==
  ASSUME RedisTypeOK, NEW t \in Tasks, NEW a \in Writers(t), NEW s, Goes(a, s)
  PROVE  /\ todo'[a] = s
         /\ \A b \in Writers(t) : b # a => todo'[b] = todo[b]
         /\ \A u \in Tasks : u # t => \A b \in Writers(u) : todo'[b] = todo[b]
<1>1. a \in Actors /\ DOMAIN todo = Actors
  BY WritersAreActors DEF RedisTypeOK
<1>2. \A b \in Actors : todo'[b] = IF b = a THEN s ELSE todo[b]
  BY <1>1 DEF Goes
<1>. QED
  BY <1>1, <1>2, WritersAreActors

\* What a first command leaves.
LEMMA PassesOn ==
  ASSUME RedisTypeOK, NEW t \in Tasks, Scripted(t), NEW a \in Writers(t),
         todo[a] # <<>>, Goes(a, Tail(todo[a])),
         \A b \in Writers(t) : b # a => held'[b] = held[b]
  PROVE  Passes(t, a)
<1>1. /\ todo'[a] = Tail(todo[a])
      /\ \A b \in Writers(t) : b # a => todo'[b] = todo[b]
  BY GoesOnlyOne
<1>2. OthersKeep(t, a)
  BY <1>1 DEF OthersKeep, KeepsScript
<1>3. CASE a = Run(t)
  <2>1. a # Create(t) /\ a # Cancel(t) /\ \A r \in Readers : a # Reader(r, t)
    BY <1>3, WritersAreActors
  <2>2. RestOfRun(todo[a])
    BY <1>3 DEF Scripted
  <2>. QED
    BY <1>1, <1>2, <1>3, <2>1, <2>2, TailOfRun DEF Passes
<1>4. CASE a = Create(t)
  <2>1. a # Run(t) /\ a # Cancel(t) /\ \A r \in Readers : a # Reader(r, t)
    BY <1>4, WritersAreActors
  <2>2. RestOfRequest(todo[a], {"queued"})
    BY <1>4 DEF Scripted
  <2>3. /\ RestOfRequest(todo'[a], {"queued"}) /\ Rest(todo[a], todo'[a])
        /\ Head(todo[a]).op \in AppendOps /\ Head(todo[a]).arg = "queued"
        /\ todo'[a] = <<>> => Head(todo[a]).op = "publish"
    BY <1>1, <2>2, TailOfRequest
  <2>. QED
    BY <1>2, <1>4, <2>1, <2>3 DEF Passes
<1>5. CASE a = Cancel(t)
  <2>1. a # Run(t) /\ a # Create(t) /\ \A r \in Readers : a # Reader(r, t)
    BY <1>5, WritersAreActors
  <2>2. RestOfRequest(todo[a], {"cancel_requested"})
    BY <1>5 DEF Scripted
  <2>3. /\ RestOfRequest(todo'[a], {"cancel_requested"}) /\ Rest(todo[a], todo'[a])
        /\ Head(todo[a]).op \in AppendOps /\ Head(todo[a]).arg = "cancel_requested"
        /\ todo'[a] = <<>> => Head(todo[a]).op = "publish"
    BY <1>1, <2>2, TailOfRequest
  <2>. QED
    BY <1>2, <1>5, <2>1, <2>3 DEF Passes
<1>6. ASSUME NEW r \in Readers, a = Reader(r, t)
      PROVE  Passes(t, a)
  <2>1. a # Run(t) /\ a # Create(t) /\ a # Cancel(t)
    BY <1>6, WritersAreActors
  <2>2. RestOfRequest(todo[a], ToolKinds)
    BY <1>6 DEF Scripted
  <2>3. /\ RestOfRequest(todo'[a], ToolKinds) /\ Rest(todo[a], todo'[a])
        /\ Head(todo[a]).op \in AppendOps /\ Head(todo[a]).arg \in ToolKinds
        /\ todo'[a] = <<>> => Head(todo[a]).op = "publish"
    BY <1>1, <2>2, TailOfRequest
  <2>. QED
    BY <1>2, <1>6, <2>1, <2>3 DEF Passes
<1>. QED
  BY <1>3, <1>4, <1>5, <1>6, WritersAreActors

\* A step of append_event, by whichever writer of the task.
LEMMA AppendMoves ==
  ASSUME RedisTypeOK, NEW t \in Tasks, Scripted(t), NEW a \in Writers(t), AppendStep(a)
  PROVE  AppendMove(t, a) /\ OthersUntouched(t)
<1>0. a \in Actors /\ a[2] = t /\ faults \in Nat
  BY WritersAreActors, BoundAssumption DEF RedisTypeOK
<1>1. todo[a] # <<>> /\ Goes(a, Tail(todo[a]))
  BY DEF AppendStep, Incr, Xadd, Publish, Does, At
<1>2. /\ \A b \in Writers(t) : b # a => todo'[b] = todo[b]
      /\ \A u \in Tasks : u # t => \A b \in Writers(u) : todo'[b] = todo[b]
  BY <1>1, GoesOnlyOne
<1>3. CASE Incr(a)
  <2>1. /\ Head(todo[a]).op = "incr"
        /\ seq' = [seq EXCEPT ![t] = @ + 1]
        /\ held' = [held EXCEPT ![a] = seq'[t]]
        /\ UNCHANGED <<status, cancelled, log, stream, pel, memory, inbox, conn>>
        /\ UNCHANGED <<mode, home, reader, loaded, answered, faults, cut>>
    BY <1>0, <1>3 DEF Incr, Does, At, IncrSeq, metaVars, queueVars, liveVars, runVars
  <2>2. /\ seq'[t] = seq[t] + 1 /\ \A u \in Tasks : u # t => seq'[u] = seq[u]
    BY <2>1 DEF RedisTypeOK, StoreTypeOK
  <2>3. held'[a] = seq[t] + 1 /\ \A b \in Actors : b # a => held'[b] = held[b]
    BY <1>0, <2>1, <2>2 DEF RedisTypeOK
  <2>4. Passes(t, a)
    BY <1>1, <2>3, WritersAreActors, PassesOn
  <2>5. Drew(t, a)
    BY <2>1, <2>2, <2>3, <2>4 DEF Drew, KeepsRecord, KeepsMeta, KeepsHome, KeepsPending, KeepsAnswer, KeepsFlag, KeepsFate, KeepsCut, KeepsReaders
  <2>6. OthersUntouched(t)
    BY <1>0, <1>2, <2>1, <2>2, <2>3, WritersAreActors
    DEF OthersUntouched, Untouched, KeepsRecord, KeepsMeta, KeepsHome, KeepsPending, KeepsAnswer,
        KeepsFlag, KeepsFate, KeepsCut, KeepsReaders, KeepsLog, KeepsScript
  <2>. QED
    BY <2>5, <2>6 DEF AppendMove
<1>4. CASE Xadd(a)
  <2>1. /\ Head(todo[a]).op = "xadd"
        /\ log' = [log EXCEPT ![t] = Append(@, EventOf(a))]
        /\ UNCHANGED <<status, cancelled, seq, stream, pel, memory, inbox, conn>>
        /\ UNCHANGED <<held, mode, home, reader, loaded, answered, faults, cut>>
    BY <1>0, <1>4 DEF Xadd, Does, At, XaddEvent, metaVars, queueVars, liveVars, runVars
  <2>2. /\ log'[t] = Append(log[t], EventOf(a)) /\ \A u \in Tasks : u # t => log'[u] = log[u]
    BY <2>1 DEF RedisTypeOK, StoreTypeOK
  <2>4. Passes(t, a)
    BY <1>1, <2>1, PassesOn
  <2>5. Wrote(t, a)
    BY <2>1, <2>2, <2>4 DEF Wrote, KeepsRecord, KeepsMeta, KeepsHome, KeepsPending, KeepsAnswer, KeepsFlag, KeepsFate, KeepsCut, KeepsReaders
  <2>6. OthersUntouched(t)
    BY <1>0, <1>2, <2>1, <2>2
    DEF OthersUntouched, Untouched, KeepsRecord, KeepsMeta, KeepsHome, KeepsPending, KeepsAnswer,
        KeepsFlag, KeepsFate, KeepsCut, KeepsReaders, KeepsLog, KeepsScript
  <2>. QED
    BY <2>5, <2>6 DEF AppendMove
<1>5. CASE Publish(a)
  <2>1. /\ Head(todo[a]).op = "publish"
        /\ answered' = answered \cup {u \in Tasks : a = Create(u)}
        /\ UNCHANGED <<status, cancelled, seq, log, stream, pel, memory, conn>>
        /\ UNCHANGED <<held, mode, home, reader, loaded, faults, cut>>
    BY <1>5 DEF Publish, Does, At, PublishEvent, metaVars, queueVars, liveVars, runVars
  <2>2. \A u \in Tasks : u # t => a # Create(u)
    BY WritersAreActors
  <2>4. Passes(t, a)
    BY <1>1, <2>1, PassesOn
  <2>5. Published(t, a)
    BY <2>1, <2>4 DEF Published, KeepsMeta, KeepsHome, KeepsPending, KeepsFlag, KeepsFate, KeepsCut, KeepsReaders, KeepsLog
  <2>6. OthersUntouched(t)
    BY <1>0, <1>2, <2>1, <2>2
    DEF OthersUntouched, Untouched, KeepsRecord, KeepsMeta, KeepsHome, KeepsPending, KeepsAnswer,
        KeepsFlag, KeepsFate, KeepsCut, KeepsReaders, KeepsLog, KeepsScript
  <2>. QED
    BY <2>5, <2>6 DEF AppendMove
<1>. QED
  BY <1>3, <1>4, <1>5 DEF AppendStep

-----------------------------------------------------------------------------
(***************************************************************************)
(* The scripts of the program.                                             *)
(***************************************************************************)

\* What the commands of these sets have in common.
LEMMA CommandsOfSets ==
  /\ \A op : \A c \in Onlys(op) : c.op = op /\ c.arg = ""
  /\ \A k : \A c \in Incrs(k) : c.op = "incr" /\ c.arg = k
  /\ \A k : \A c \in Publishes(k) : c.op = "publish" /\ c.arg = k
  /\ \A k : \A c \in Emits(k) : c.op \in AppendOps /\ c.arg = k
  /\ \A s : \A c \in Sets(s) : c.op = "hset" /\ c.arg = s
<1>1. ASSUME NEW op, NEW c \in Onlys(op)
      PROVE  c.op = op /\ c.arg = ""
  <2>1. c = Do(op, "")
    BY DEF Onlys
  <2>2. Do(op, "").op = op /\ Do(op, "").arg = ""
    BY DEF Do
  <2>. QED
    BY <2>1, <2>2
<1>2. ASSUME NEW k, NEW c \in Incrs(k)
      PROVE  c.op = "incr" /\ c.arg = k
  BY DEF Incrs, Do
<1>3. ASSUME NEW k, NEW c \in Publishes(k)
      PROVE  c.op = "publish" /\ c.arg = k
  BY DEF Publishes, Do
<1>4. ASSUME NEW k, NEW c \in Emits(k)
      PROVE  c.op \in AppendOps /\ c.arg = k
  BY DEF Emits, Do, AppendOps
<1>5. ASSUME NEW s, NEW c \in Sets(s)
      PROVE  c.op = "hset" /\ c.arg = s
  BY DEF Sets, Do
<1>. QED
  BY <1>1, <1>2, <1>3, <1>4, <1>5

\* "ack" is the last command of a run.
LEMMA AckScript ==
  /\ Script(Just("ack"), Onlys("ack"), Onlys("ack"), Onlys("ack"))
  /\ \A c \in Onlys("ack") : c.op = "ack"
<1>1. "ack" \in Ops \ (AppendOps \cup {"hset"})
  BY DEF Ops, AppendOps
<1>. QED
  BY <1>1, JustScript, CommandsOfSets

\* What a verdict and the acknowledgement are as a script.
LEMMA VerdictScripts ==
  ASSUME NEW t, NEW k \in VerdictKinds
  PROVE  LET s == Conclude(k, Announces(k)) \o Just("ack") IN
         /\ NewScript(t, s)
         /\ \A c \in Range(s) :
              /\ c.op \in AppendOps \cup {"hset", "ack"}
              /\ c.op \in AppendOps => c.arg = k
              /\ c.op = "hset" => c.arg = Announces(k)
         /\ Do("hset", Announces(k)) \in Range(s)
<1>. DEFINE s == Conclude(k, Announces(k)) \o Just("ack")
            C == Emits(k) \cup Sets(Announces(k)) \cup Onlys("ack")
            D == Emits(k) \cup Sets(Announces(k))
<1>1. Script(Conclude(k, Announces(k)), Incrs(k), Sets(Announces(k)), D)
  BY ConcludeScript
<1>2. AllLater(D, Onlys("ack"))
  BY CommandsOfSets DEF AllLater, Later, AppendOps
<1>3. AllFollow(Sets(Announces(k)), Onlys("ack"))
  BY CommandsOfSets DEF AllFollow, Follows
<1>. HIDE DEF D
<1>4. Script(s, Incrs(k), Onlys("ack"), D \cup Onlys("ack"))
  BY <1>1, <1>2, <1>3, AckScript, JoinedScript
<1>5. D \cup Onlys("ack") = C
  BY DEF D
<1>. HIDE DEF s, C
<1>6. RestOfRun(s) /\ s # <<>> /\ Head(s) \in Incrs(k) /\ Range(s) \subseteq C
  BY <1>4, <1>5, AckScript, ScriptOfRun
<1>7. /\ \A c \in C :
           /\ c.op \in AppendOps \cup {"hset", "ack"}
           /\ c.op \in AppendOps => c.arg = k
           /\ c.op = "hset" => c.arg = Announces(k)
      /\ \A c \in Incrs(k) : c.op = "incr"
  <2>1. \A c \in C : c \in Emits(k) \/ c \in Sets(Announces(k)) \/ c \in Onlys("ack")
    BY DEF C
  <2>2. \A c \in Emits(k) : c.op \in AppendOps /\ c.arg = k
    BY CommandsOfSets
  <2>3. \A c \in Sets(Announces(k)) : c.op = "hset" /\ c.arg = Announces(k)
    BY CommandsOfSets
  <2>4. (\A c \in Onlys("ack") : c.op = "ack") /\ \A c \in Incrs(k) : c.op = "incr"
    BY CommandsOfSets
  <2>. QED
    BY <2>1, <2>2, <2>3, <2>4 DEF AppendOps
<1>8. \A c \in Range(s) :
        /\ c.op \in AppendOps \cup {"hset", "ack"}
        /\ c.op \in AppendOps => c.arg = k
        /\ c.op = "hset" => c.arg = Announces(k)
  BY <1>6, <1>7
<1>10. Do("hset", Announces(k)) \in Range(s)
  <2>. DEFINE q == Conclude(k, Announces(k))
              n == Len(q)
  <2>1. q \in Seq(Sound) /\ q # <<>> /\ Orderly(q) /\ q[n] \in Sets(Announces(k))
    BY <1>1 DEF Script, Orderly
  <2>2. Just("ack") \in Seq(Sound)
    BY AckScript DEF Script, Orderly
  <2>3. n \in Nat \ {0}
    BY <2>1, Positions
  <2>4. s = q \o Just("ack")
    BY DEF s
  <2>. HIDE DEF q
  <2>5. /\ Len(s) = n + Len(Just("ack")) /\ Len(Just("ack")) \in Nat /\ s \in Seq(Sound)
        /\ \A i \in 1..(n + Len(Just("ack"))) : i <= n => s[i] = q[i]
    BY <2>1, <2>2, <2>4, ConcatProperties, LenProperties
  <2>6. n \in DOMAIN s /\ s[n] = q[n]
    BY <2>3, <2>5, LenProperties
  <2>7. Sets(Announces(k)) = {Do("hset", Announces(k))}
    BY DEF Sets
  <2>. QED
    BY <2>1, <2>6, <2>7 DEF Range
<1>11. Concluding(Range(s))
  <2>1. Do("hset", Announces(k)).op = "hset" /\ Do("hset", Announces(k)).arg = Announces(k)
    BY DEF Do
  <2>. QED
    BY <1>10, <2>1, VerdictsAnnounced DEF Concluding
<1>12. NewScript(t, s)
  BY <1>6, <1>7, <1>8, <1>11 DEF NewScript, AppendOps
<1>. QED
  BY <1>8, <1>10, <1>12 DEF s

\* A mock run, from its status "running" to its verdict.
LEMMA MockIsScript ==
  \E C : /\ Script(MockScript, Sets("running"), Sets("succeeded"), C)
         /\ \A c \in C : c.op \in AppendOps \cup {"hset", "test"}
<1>1. {"running", "agent", "ok"} \subseteq Kinds /\ "ok" \in VerdictKinds /\ Announces("ok") = "succeeded"
  BY DEF Kinds, StreamKinds, VerdictKinds, ResultKinds, Announces
<1>. DEFINE A == Sets("running") \cup Emits("running")
            B == Onlys("test") \cup Emits("agent")
            D == Emits("ok") \cup Sets("succeeded")
            one == SetStatus("running") \o Emit("running")
            turn == Just("test") \o Emit("agent")
            turns == Repeat(turn, Steps)
            last == Conclude("ok", "succeeded")
<1>2. Script(one, Sets("running"), Publishes("running"), A)
  <2>1. Script(SetStatus("running"), Sets("running"), Sets("running"), Sets("running"))
    BY SetScript
  <2>2. Script(Emit("running"), Incrs("running"), Publishes("running"), Emits("running"))
    BY <1>1, EmitScript
  <2>3. AllLater(Sets("running"), Emits("running")) /\ AllFollow(Sets("running"), Incrs("running"))
    BY DEF AllLater, AllFollow, Sets, Emits, Incrs, Later, Follows, Do, Verdicts
  <2>. QED
    BY <2>1, <2>2, <2>3, JoinedScript
<1>3. Script(turn, Onlys("test"), Publishes("agent"), B)
  <2>1. Script(Just("test"), Onlys("test"), Onlys("test"), Onlys("test"))
    BY JustScript DEF Ops, AppendOps
  <2>2. Script(Emit("agent"), Incrs("agent"), Publishes("agent"), Emits("agent"))
    BY <1>1, EmitScript
  <2>3. AllLater(Onlys("test"), Emits("agent")) /\ AllFollow(Onlys("test"), Incrs("agent"))
    BY DEF AllLater, AllFollow, Onlys, Emits, Incrs, Later, Follows, Do
  <2>. QED
    BY <2>1, <2>2, <2>3, JoinedScript
<1>4. Script(last, Incrs("ok"), Sets("succeeded"), D)
  BY <1>1, ConcludeScript
<1>5. AllLater(B, B) /\ AllFollow(Publishes("agent"), Onlys("test"))
  BY DEF AllLater, AllFollow, Onlys, Emits, Publishes, Later, Follows, Do, VerdictKinds, ResultKinds
<1>6. AllLater(A, B) /\ AllFollow(Publishes("running"), Onlys("test"))
  BY DEF AllLater, AllFollow, Onlys, Emits, Sets, Publishes, Later, Follows, Do, VerdictKinds, ResultKinds
<1>7. AllLater(A, D) /\ AllLater(B, D) /\ AllFollow(Publishes("agent"), Incrs("ok"))
  BY DEF AllLater, AllFollow, Onlys, Emits, Sets, Publishes, Incrs, Later, Follows, Do, VerdictKinds, ResultKinds
<1>8. \A c \in A \cup B \cup D : c.op \in AppendOps \cup {"hset", "test"}
  BY CommandsOfSets
<1>9. MockScript = ((one \o turns) \o last)
  BY DEF MockScript
<1>10. AllLater(A \cup B, D)
  BY <1>7 DEF AllLater
<1>. HIDE DEF A, B, D, one, turn, last
<1>11. Script(turns, Onlys("test"), Publishes("agent"), B)
  BY <1>3, <1>5, RepeatedScript, BoundAssumption
<1>. HIDE DEF turns
<1>12. Script(one \o turns, Sets("running"), Publishes("agent"), A \cup B)
  BY <1>2, <1>6, <1>11, JoinedScript
<1>13. Script((one \o turns) \o last, Sets("running"), Sets("succeeded"), (A \cup B) \cup D)
  BY <1>4, <1>7, <1>10, <1>12, JoinedScript
<1>. QED
  BY <1>8, <1>9, <1>13

\* What a worker that was given a task begins.
LEMMA ConsumedScripts ==
  ASSUME NEW t \in Tasks, mode[t] \in {"mock", "agent", "other"}
  PROVE  LET s == Just("start") \o RunScript[mode[t]] \o Just("ack") IN
         NewScript(t, s) /\ \A c \in Range(s) : c.op # "leave"
<1>. DEFINE m == RunScript[mode[t]]
            s == Just("start") \o m \o Just("ack")
            O == AppendOps \cup {"hset", "test"} \cup (IF mode[t] = "agent" THEN {"setup"} ELSE {})
<1>1. \E F, L, C :
        /\ Script(m, F, L, C)
        /\ \A c \in F : c.op \notin {"xadd", "publish"} /\ (c.op = "hset" => c.arg \notin Verdicts)
        /\ \A c \in L : c.op = "setup" \/ (c.op = "hset" /\ c.arg \in Verdicts)
        /\ \A c \in C : c.op \in O
  <2>1. CASE mode[t] = "mock"
    <3>1. m = MockScript
      BY <2>1 DEF RunScript
    <3>2. \A c \in Sets("running") : c.op \notin {"xadd", "publish"} /\ (c.op = "hset" => c.arg \notin Verdicts)
      BY DEF Sets, Do, Verdicts
    <3>3. \A c \in Sets("succeeded") : c.op = "setup" \/ (c.op = "hset" /\ c.arg \in Verdicts)
      BY DEF Sets, Do, Verdicts
    <3>. QED
      BY <3>1, <3>2, <3>3, MockIsScript
  <2>2. CASE mode[t] = "agent"
    <3>1. m = SetStatus("running") \o Just("setup")
      BY <2>2 DEF RunScript, AgentScript
    <3>2. Script(SetStatus("running"), Sets("running"), Sets("running"), Sets("running"))
      BY SetScript
    <3>3. Script(Just("setup"), Onlys("setup"), Onlys("setup"), Onlys("setup"))
      BY JustScript DEF Ops, AppendOps
    <3>4. AllLater(Sets("running"), Onlys("setup")) /\ AllFollow(Sets("running"), Onlys("setup"))
      BY DEF AllLater, AllFollow, Sets, Onlys, Later, Follows, Do, Verdicts
    <3>5. Script(m, Sets("running"), Onlys("setup"), Sets("running") \cup Onlys("setup"))
      BY <3>1, <3>2, <3>3, <3>4, JoinedScript
    <3>6. /\ \A c \in Sets("running") : c.op \notin {"xadd", "publish"} /\ (c.op = "hset" => c.arg \notin Verdicts)
          /\ \A c \in Onlys("setup") : c.op = "setup" \/ (c.op = "hset" /\ c.arg \in Verdicts)
          /\ \A c \in Sets("running") \cup Onlys("setup") : c.op \in O
      BY <2>2 DEF Sets, Onlys, Do, Verdicts
    <3>. QED
      BY <3>5, <3>6
  <2>3. CASE mode[t] = "other"
    <3>1. m = Conclude("error", "failed")
      BY <2>3 DEF RunScript
    <3>2. "error" \in VerdictKinds /\ Announces("error") = "failed"
      BY DEF VerdictKinds, ResultKinds, Announces
    <3>3. Script(m, Incrs("error"), Sets("failed"), Emits("error") \cup Sets("failed"))
      BY <3>1, <3>2, ConcludeScript
    <3>4. /\ \A c \in Incrs("error") : c.op \notin {"xadd", "publish"} /\ (c.op = "hset" => c.arg \notin Verdicts)
          /\ \A c \in Sets("failed") : c.op = "setup" \/ (c.op = "hset" /\ c.arg \in Verdicts)
          /\ \A c \in Emits("error") \cup Sets("failed") : c.op \in O
      BY DEF Incrs, Sets, Emits, Do, AppendOps, Verdicts
    <3>. QED
      BY <3>3, <3>4
  <2>. QED
    BY <2>1, <2>2, <2>3
<1>2. PICK F, L, C :
        /\ Script(m, F, L, C)
        /\ \A c \in F : c.op \notin {"xadd", "publish"} /\ (c.op = "hset" => c.arg \notin Verdicts)
        /\ \A c \in L : c.op = "setup" \/ (c.op = "hset" /\ c.arg \in Verdicts)
        /\ \A c \in C : c.op \in O
  BY <1>1
<1>. HIDE DEF m
<1>3. Script(Just("start"), Onlys("start"), Onlys("start"), Onlys("start"))
  BY JustScript DEF Ops, AppendOps
<1>4. AllLater(Onlys("start"), C) /\ AllFollow(Onlys("start"), F)
  <2>1. \A c \in Onlys("start") : c.op = "start"
    BY CommandsOfSets
  <2>. QED
    BY <1>2, <2>1 DEF AllLater, AllFollow, Later, Follows
<1>5. Script(Just("start") \o m, Onlys("start"), L, Onlys("start") \cup C)
  BY <1>2, <1>3, <1>4, JoinedScript
<1>6. AllLater(Onlys("start") \cup C, Onlys("ack"))
  <2>1. \A c \in Onlys("start") \cup C : c.op # "ack"
    BY <1>2, CommandsOfSets DEF AppendOps
  <2>2. \A d \in Onlys("ack") : d.op = "ack"
    BY AckScript
  <2>. QED
    BY <2>1, <2>2 DEF AllLater, Later
<1>7. AllFollow(L, Onlys("ack"))
  <2>1. \A d \in Onlys("ack") : d.op = "ack"
    BY AckScript
  <2>. QED
    BY <1>2, <2>1 DEF AllFollow, Follows
<1>8. Script(s, Onlys("start"), Onlys("ack"), (Onlys("start") \cup C) \cup Onlys("ack"))
  BY <1>5, <1>6, <1>7, AckScript, JoinedScript
<1>. HIDE DEF s
<1>9. /\ RestOfRun(s) /\ s # <<>> /\ Head(s) \in Onlys("start")
      /\ Range(s) \subseteq (Onlys("start") \cup C) \cup Onlys("ack")
  BY <1>8, AckScript, ScriptOfRun
<1>10. /\ \A c \in Onlys("start") : c.op = "start"
       /\ \A c \in Onlys("ack") : c.op = "ack"
  BY DEF Onlys, Do
<1>11. \A c \in Range(s) : c.op \in O \cup {"start", "ack"}
  BY <1>2, <1>9, <1>10
<1>12. Concluding(Range(s))
  <2>1. PICK c \in L : c \in Range(m)
    BY <1>2, LastInRange
  <2>2. Concluding(Range(m))
    BY <1>2, <2>1 DEF Concluding
  <2>3. m \in Seq(Sound) /\ Just("start") \in Seq(Sound) /\ Just("ack") \in Seq(Sound)
    BY <1>2, <1>3, AckScript DEF Script, Orderly
  <2>. DEFINE q == Just("start") \o m
  <2>4. q \in Seq(Sound) /\ Range(m) \subseteq Range(q)
    BY <2>3, JoinedRange
  <2>5. s = q \o Just("ack")
    BY DEF s
  <2>. HIDE DEF q
  <2>6. Range(q) \subseteq Range(s)
    BY <2>3, <2>4, <2>5, JoinedRange
  <2>. QED
    BY <2>2, <2>4, <2>6, MoreConclude
<1>14. NewScript(t, s)
  BY <1>9, <1>10, <1>11, <1>12 DEF NewScript, AppendOps
<1>13. \A c \in Range(s) : c.op # "leave"
  BY <1>11 DEF AppendOps
<1>. QED
  BY <1>13, <1>14 DEF s, m

\* What follows the setup of an agent.
LEMMA SetUpScript ==
  ASSUME NEW t, mode[t] = "agent"
  PROVE  LET s == Just("enter") \o Just("ack") IN
         NewScript(t, s) /\ \A c \in Range(s) : c.op \in {"enter", "ack"}
<1>. DEFINE s == Just("enter") \o Just("ack")
<1>1. Script(Just("enter"), Onlys("enter"), Onlys("enter"), Onlys("enter"))
  BY JustScript DEF Ops, AppendOps
<1>2. AllLater(Onlys("enter"), Onlys("ack")) /\ AllFollow(Onlys("enter"), Onlys("ack"))
  BY DEF AllLater, AllFollow, Onlys, Later, Follows, Do
<1>3. Script(s, Onlys("enter"), Onlys("ack"), Onlys("enter") \cup Onlys("ack"))
  BY <1>1, <1>2, AckScript, JoinedScript
<1>. HIDE DEF s
<1>4. RestOfRun(s) /\ s # <<>> /\ Head(s) \in Onlys("enter") /\ Range(s) \subseteq Onlys("enter") \cup Onlys("ack")
  BY <1>3, AckScript, ScriptOfRun
<1>5. (\A c \in Onlys("enter") : c.op = "enter") /\ \A c \in Onlys("ack") : c.op = "ack"
  BY DEF Onlys, Do
<1>6. \A c \in Range(s) : c.op \in {"enter", "ack"}
  BY <1>4, <1>5
<1>7. NewScript(t, s)
  <2>1. Concluding(Range(s))
    BY <1>3, <1>5, AckScript, ScriptOfRun DEF Concluding
  <2>. QED
    BY <1>4, <1>5, <2>1 DEF NewScript
<1>. QED
  BY <1>6, <1>7 DEF s

\* The text of the agent, whatever its length, is a sequence of commands.
LEMMA StreamedSeq ==
  ASSUME NEW n \in Nat
  PROVE  Repeat(Emit("agent"), n) \in Seq(Sound)
<1>. DEFINE r == Repeat(Emit("agent"), n)
<1>1. Script(Emit("agent"), Incrs("agent"), Publishes("agent"), Emits("agent"))
  BY EmitScript DEF Kinds, StreamKinds
<1>2. AllLater(Emits("agent"), Emits("agent")) /\ AllFollow(Publishes("agent"), Incrs("agent"))
  BY DEF AllLater, AllFollow, Emits, Publishes, Incrs, Later, Follows, Do, VerdictKinds, ResultKinds
<1>. HIDE DEF r
<1>3. /\ n = 0 => r = <<>>
      /\ n # 0 => Script(r, Incrs("agent"), Publishes("agent"), Emits("agent"))
  BY <1>1, <1>2, RepeatedScript DEF r
<1>4. r \in Seq(Sound)
  <2>1. <<>> \in Seq(Sound)
    OBVIOUS
  <2>2. CASE n = 0
    BY <1>3, <2>1, <2>2
  <2>3. CASE n # 0
    BY <1>3, <2>3 DEF Script, Orderly
  <2>. QED
    BY <2>2, <2>3
<1>. QED
  BY <1>4 DEF r

\* Some text of the agent, then what it ends with: a script that begins like a
\* request or with what it ends with.
LEMMA StreamedScript ==
  ASSUME NEW n \in Nat, NEW s, NEW F, NEW L, NEW C, Script(s, F, L, C),
         AllLater(Emits("agent"), C), AllFollow(Publishes("agent"), F)
  PROVE  Script(Repeat(Emit("agent"), n) \o s, Incrs("agent") \cup F, L, Emits("agent") \cup C)
<1>. DEFINE r == Repeat(Emit("agent"), n)
            E == Emits("agent")
<1>1. Script(Emit("agent"), Incrs("agent"), Publishes("agent"), E)
  BY EmitScript DEF Kinds, StreamKinds
<1>2. AllLater(E, E) /\ AllFollow(Publishes("agent"), Incrs("agent"))
  BY DEF AllLater, AllFollow, Emits, Publishes, Incrs, Later, Follows, Do, VerdictKinds, ResultKinds
<1>. HIDE DEF E
<1>3. /\ n = 0 => r = <<>>
      /\ n # 0 => Script(r, Incrs("agent"), Publishes("agent"), E)
  BY <1>1, <1>2, RepeatedScript
<1>. HIDE DEF r
<1>4. ASSUME NEW q, NEW G, NEW D, Script(q, G, L, D), G \subseteq Incrs("agent") \cup F, D \subseteq E \cup C
      PROVE  Script(q, Incrs("agent") \cup F, L, E \cup C)
  BY <1>4 DEF Script
<1>5. CASE n = 0
  <2>1. s \in Seq(Sound)
    BY DEF Script, Orderly
  <2>2. r \o s = s
    BY <1>3, <1>5, <2>1, ConcatEmptySeq
  <2>. QED
    BY <1>4, <2>2 DEF r, E
<1>6. CASE n # 0
  <2>1. Script(r \o s, Incrs("agent"), L, E \cup C)
    BY <1>3, <1>6, JoinedScript DEF E
  <2>. QED
    BY <1>4, <2>1 DEF r, E
<1>. QED
  BY <1>5, <1>6

\* What an agent does once it holds the session.
LEMMA EnterScripts ==
  ASSUME NEW t, mode[t] = "agent", NEW script \in AgentRuns
  PROVE  LET s == script \o Just("ack") IN
         NewScript(t, s) /\ \A c \in Range(s) : ~(c.op = "xadd" /\ c.arg = "running")
<1>. DEFINE s == script \o Just("ack")
            Good(F, L, C) ==
              /\ Script(script, F, L, C)
              /\ \A c \in F : c.op \notin {"xadd", "publish", "hset"}
              /\ \A c \in L : c.op \in {"leave", "hset"}
              /\ \A c \in C : c.op # "ack" /\ ~(c.op = "xadd" /\ c.arg = "running")
              /\ Concluding(Range(script))
              /\ \E c \in Range(script) : c.op = "leave"
<1>0. /\ "ok" \in VerdictKinds /\ Announces("ok") = "succeeded"
      /\ "error" \in VerdictKinds /\ Announces("error") = "failed"
      /\ "agent" \notin VerdictKinds
  BY DEF VerdictKinds, ResultKinds, Announces
<1>c. /\ \A c \in Onlys("join") : c.op = "join"
      /\ \A c \in Onlys("save") : c.op = "save"
      /\ \A c \in Onlys("leave") : c.op = "leave"
      /\ \A c \in Onlys("ack") : c.op = "ack"
      /\ \A c \in Emits("agent") : c.op \in AppendOps /\ c.arg = "agent"
      /\ \A c \in Publishes("agent") : c.op = "publish" /\ c.arg = "agent"
      /\ \A c \in Emits("ok") : c.op \in AppendOps /\ c.arg = "ok"
      /\ \A c \in Emits("error") : c.op \in AppendOps /\ c.arg = "error"
      /\ \A c \in Sets("succeeded") : c.op = "hset" /\ c.arg = "succeeded"
      /\ \A c \in Sets("failed") : c.op = "hset" /\ c.arg = "failed"
      /\ \A c \in Incrs("agent") \cup Incrs("ok") \cup Incrs("error") : c.op = "incr"
  BY CommandsOfSets
<1>1. /\ Script(Just("join"), Onlys("join"), Onlys("join"), Onlys("join"))
      /\ Script(Just("save"), Onlys("save"), Onlys("save"), Onlys("save"))
      /\ Script(Just("leave"), Onlys("leave"), Onlys("leave"), Onlys("leave"))
  <2>1. {"join", "save", "leave"} \subseteq Ops \ (AppendOps \cup {"hset"})
    BY DEF Ops, AppendOps
  <2>. QED
    BY <2>1, JustScript
<1>. DEFINE streamed(n) == Repeat(Emit("agent"), n) \o Just("join")
            F == Incrs("agent") \cup Onlys("join")
            B == Emits("agent") \cup Onlys("join")
<1>b. /\ \A c \in B : (c.op \in AppendOps /\ c.arg = "agent") \/ c.op = "join"
      /\ \A c \in F : c.op \notin {"xadd", "publish", "hset"}
  BY <1>c
<1>s. ASSUME NEW n \in 0..MaxChunks
      PROVE  Script(streamed(n), F, Onlys("join"), B)
  <2>1. n \in Nat
    BY BoundAssumption
  <2>2. AllLater(Emits("agent"), Onlys("join"))
    BY <1>0, <1>c DEF AllLater, Later, AppendOps
  <2>3. AllFollow(Publishes("agent"), Onlys("join"))
    BY <1>0, <1>c DEF AllFollow, Follows
  <2>. QED
    BY <1>1, <2>1, <2>2, <2>3, StreamedScript
<1>. HIDE DEF F, B, streamed
<1>2. ASSUME NEW n \in 0..MaxChunks,
             script = Repeat(Emit("agent"), n) \o Just("join")
                        \o Conclude("ok", "succeeded") \o Just("save") \o Just("leave")
      PROVE  \E G, L, C : Good(G, L, C)
  <2>. DEFINE r == streamed(n)
              q == Conclude("ok", "succeeded")
              D == Emits("ok") \cup Sets("succeeded")
              A == B \cup D
  <2>2. Script(q, Incrs("ok"), Sets("succeeded"), D)
    BY <1>0, ConcludeScript
  <2>5. /\ \A c \in D : (c.op \in AppendOps /\ c.arg = "ok") \/ c.op = "hset"
        /\ \A c \in A : \/ c.op \in AppendOps /\ c.arg \in {"agent", "ok"}
                       \/ c.op \in {"hset", "join"}
    BY <1>b, <1>c
  <2>11. script = (((r \o q) \o Just("save")) \o Just("leave"))
    BY <1>2 DEF streamed
  <2>. HIDE DEF D, r, q
  <2>16. Script(r, F, Onlys("join"), B) /\ r \in Seq(Sound)
    BY <1>s DEF r, Script, Orderly
  <2>3. AllLater(B, D) /\ AllFollow(Onlys("join"), Incrs("ok"))
    BY <1>0, <1>b, <1>c, <2>5 DEF AllLater, Later, AllFollow, Follows, AppendOps
  <2>6. Script(r \o q, F, Sets("succeeded"), A)
    BY <2>2, <2>3, <2>16, JoinedScript
  <2>. HIDE DEF A
  <2>7. AllLater(A, Onlys("save")) /\ AllFollow(Sets("succeeded"), Onlys("save"))
    BY <1>0, <2>5, <1>c DEF AllLater, Later, AllFollow, Follows, AppendOps
  <2>8. Script((r \o q) \o Just("save"), F, Onlys("save"), A \cup Onlys("save"))
    BY <1>1, <2>6, <2>7, JoinedScript
  <2>9. AllLater(A \cup Onlys("save"), Onlys("leave")) /\ AllFollow(Onlys("save"), Onlys("leave"))
    BY <1>0, <2>5, <1>c DEF AllLater, Later, AllFollow, Follows, AppendOps
  <2>10. Script(((r \o q) \o Just("save")) \o Just("leave"), F, Onlys("leave"),
                (A \cup Onlys("save")) \cup Onlys("leave"))
    BY <1>1, <2>8, <2>9, JoinedScript
  <2>13. \A c \in Onlys("leave") : c.op \in {"leave", "hset"}
    BY <1>c
  <2>14. \A c \in (A \cup Onlys("save")) \cup Onlys("leave") :
            c.op # "ack" /\ ~(c.op = "xadd" /\ c.arg = "running")
    BY <2>5, <1>c DEF AppendOps
  <2>15. Concluding(Range(script))
    <3>1. Concluding(Range(q)) /\ q \in Seq(Sound)
      BY <1>0, VerdictConcludes DEF q
    <3>2. r \o q \in Seq(Sound) /\ Just("save") \in Seq(Sound) /\ Just("leave") \in Seq(Sound)
      BY <1>1, <2>6 DEF Script, Orderly
    <3>3. Range(q) \subseteq Range(r \o q)
      BY <3>1, <2>16, JoinedRange
    <3>4. Range(r \o q) \subseteq Range(((r \o q) \o Just("save")) \o Just("leave"))
      BY <3>2, JoinedRange
    <3>. QED
      BY <2>11, <3>1, <3>3, <3>4, MoreConclude
  <2>17. \E c \in Range(script) : c.op = "leave"
    BY <1>c, <2>10, <2>11, LastInRange
  <2>. QED
    BY <1>b, <2>10, <2>11, <2>13, <2>14, <2>15, <2>17
<1>3. ASSUME NEW n \in 0..MaxChunks,
             script = Repeat(Emit("agent"), n) \o Just("join")
                        \o Just("leave") \o Conclude("error", "failed")
      PROVE  \E G, L, C : Good(G, L, C)
  <2>. DEFINE r == streamed(n)
              q == Conclude("error", "failed")
              D == Emits("error") \cup Sets("failed")
              A == B \cup Onlys("leave")
  <2>2. Script(q, Incrs("error"), Sets("failed"), D)
    BY <1>0, ConcludeScript
  <2>5. /\ \A c \in D : (c.op \in AppendOps /\ c.arg = "error") \/ (c.op = "hset" /\ c.arg = "failed")
        /\ \A c \in A : (c.op \in AppendOps /\ c.arg = "agent") \/ c.op \in {"join", "leave"}
    BY <1>b, <1>c
  <2>11. script = ((r \o Just("leave")) \o q)
    BY <1>3 DEF streamed
  <2>. HIDE DEF D, r, q
  <2>3. Script(r, F, Onlys("join"), B)
    BY <1>s DEF r
  <2>4. AllLater(B, Onlys("leave")) /\ AllFollow(Onlys("join"), Onlys("leave"))
    BY <1>0, <1>b, <1>c DEF AllLater, Later, AllFollow, Follows, AppendOps
  <2>6. Script(r \o Just("leave"), F, Onlys("leave"), A)
    BY <1>1, <2>3, <2>4, JoinedScript
  <2>. HIDE DEF A
  <2>7. AllLater(A, D) /\ AllFollow(Onlys("leave"), Incrs("error"))
    BY <1>0, <2>5, <1>c DEF AllLater, Later, AllFollow, Follows, AppendOps
  <2>8. Script((r \o Just("leave")) \o q, F, Sets("failed"), A \cup D)
    BY <2>2, <2>6, <2>7, JoinedScript
  <2>13. \A c \in Sets("failed") : c.op \in {"leave", "hset"}
    BY <1>c
  <2>14. \A c \in A \cup D : c.op # "ack" /\ ~(c.op = "xadd" /\ c.arg = "running")
    BY <2>5 DEF AppendOps
  <2>15. Concluding(Range(script))
    <3>1. Concluding(Range(q)) /\ q \in Seq(Sound)
      BY <1>0, VerdictConcludes DEF q
    <3>2. r \o Just("leave") \in Seq(Sound)
      BY <2>6 DEF Script, Orderly
    <3>3. Range(q) \subseteq Range((r \o Just("leave")) \o q)
      BY <3>1, <3>2, JoinedRange
    <3>. QED
      BY <2>11, <3>1, <3>3, MoreConclude
  <2>17. \E c \in Range(script) : c.op = "leave"
    <3>1. \E c \in Range(r \o Just("leave")) : c.op = "leave"
      BY <1>c, <2>6, LastInRange
    <3>2. q \in Seq(Sound) /\ r \o Just("leave") \in Seq(Sound)
      BY <2>2, <2>6 DEF Script, Orderly
    <3>. QED
      BY <2>11, <3>1, <3>2, JoinedRange
  <2>. QED
    BY <1>b, <2>8, <2>11, <2>13, <2>14, <2>15, <2>17
<1>4. PICK G, L, C : Good(G, L, C)
  BY <1>2, <1>3 DEF AgentRuns
<1>5. AllLater(C, Onlys("ack")) /\ AllFollow(L, Onlys("ack"))
  BY <1>4, <1>c DEF AllLater, Later, AllFollow, Follows
<1>6. Script(s, G, Onlys("ack"), C \cup Onlys("ack"))
  BY <1>4, <1>5, AckScript, JoinedScript
<1>. HIDE DEF s
<1>7. RestOfRun(s) /\ s # <<>> /\ Head(s) \in G /\ Range(s) \subseteq C \cup Onlys("ack")
  BY <1>6, AckScript, ScriptOfRun
<1>8. NewScript(t, s)
  <2>1. script \in Seq(Sound) /\ Just("ack") \in Seq(Sound)
    BY <1>4, AckScript DEF Script, Orderly
  <2>2. Range(script) \subseteq Range(s)
    BY <2>1, JoinedRange DEF s
  <2>3. Concluding(Range(s))
    BY <1>4, <2>2, MoreConclude
  <2>4. \E c \in Range(s) : c.op = "leave"
    BY <1>4, <2>2
  <2>. QED
    BY <1>4, <1>7, <2>3, <2>4 DEF NewScript
<1>9. \A c \in Range(s) : ~(c.op = "xadd" /\ c.arg = "running")
  BY <1>4, <1>7, <1>c
<1>. QED
  BY <1>8, <1>9 DEF s

-----------------------------------------------------------------------------
(***************************************************************************)
(* What every action does to each task.                                    *)
(***************************************************************************)

\* A step of one actor that keeps the records of the other tasks leaves those as
\* they are.
LEMMA OthersStay ==
  ASSUME RedisTypeOK, NEW t \in Tasks, NEW a \in Writers(t), NEW s, Goes(a, s), held' = held,
         \A u \in Tasks : u # t => KeepsRecord(u) /\ KeepsLog(u) /\ KeepsFate(u),
         faults' \in Nat, faults' >= faults
  PROVE  OthersUntouched(t) /\ OthersKeep(t, a) /\ todo'[a] = s
<1>1. /\ todo'[a] = s
      /\ \A b \in Writers(t) : b # a => todo'[b] = todo[b]
      /\ \A u \in Tasks : u # t => \A b \in Writers(u) : todo'[b] = todo[b]
  BY GoesOnlyOne
<1>2. OthersKeep(t, a)
  BY <1>1 DEF OthersKeep, KeepsScript
<1>3. OthersUntouched(t)
  BY <1>1 DEF OthersUntouched, Untouched, KeepsScript
<1>. QED
  BY <1>1, <1>2, <1>3

\* A command is ahead when it is in the script.
LEMMA AheadInRange ==
  \A a, op : Ahead(a, op) <=> \E c \in Range(todo[a]) : c.op = op
BY DEF Ahead, Range

\* The first command of a script is in it.
LEMMA HeadAhead ==
  ASSUME RedisTypeOK, NEW a \in Actors, todo[a] # <<>>
  PROVE  Head(todo[a]) \in Range(todo[a])
<1>1. todo[a] \in Seq(Commands)
  BY DEF RedisTypeOK
<1>2. Head(todo[a]) = todo[a][1] /\ 1 \in DOMAIN todo[a]
  <2>1. Len(todo[a]) \in Nat \ {0} /\ DOMAIN todo[a] = 1..Len(todo[a])
    BY <1>1, EmptySeq, LenProperties
  <2>. QED
    BY <1>1, <2>1
<1>. QED
  BY <1>2 DEF Range

\* A step of a run, but for those of append_event.
LEMMA RunMoves ==
  ASSUME RedisTypeOK, NEW t \in Tasks, Scripted(t), VerdictInv(t),
         Start(t) \/ Hset(t) \/ Test(t) \/ Refuse(t) \/ SetUp(t)
           \/ Enter(t) \/ Join(t) \/ Save(t) \/ Leave(t) \/ Ack(t)
  PROVE  RunMove(t) /\ OthersUntouched(t)
<1>. DEFINE a == Run(t)
<1>0. a \in Writers(t) /\ a \in Actors /\ faults \in Nat
  BY WritersAreActors, BoundAssumption DEF RedisTypeOK
<1>1. ASSUME faults' = faults, held' = held, NEW s, Goes(a, s),
             \A u \in Tasks : u # t => KeepsRecord(u) /\ KeepsLog(u) /\ KeepsFate(u)
      PROVE  OthersUntouched(t) /\ OthersKeep(t, a) /\ todo'[a] = s
  BY <1>0, <1>1, OthersStay
<1>2. ASSUME Does(a, "start") \/ Does(a, "join") \/ Does(a, "save") \/ Does(a, "leave"), held' = held,
             At(a, "join") =>
               \A r \in Readers : reader[Reader(r, t)] = "awaited" => todo[Reader(r, t)] = <<>>,
             UNCHANGED <<status, cancelled, seq, log, stream, pel, mode, home, reader, answered, faults, cut>>
      PROVE  WentOn(t) /\ OthersUntouched(t)
  <2>1. /\ Goes(a, Tail(todo[a])) /\ todo[a] # <<>>
        /\ Head(todo[a]).op \in {"start", "test", "join", "save", "leave"}
        /\ Head(todo[a]).op = "join" =>
             \A r \in Readers : reader[Reader(r, t)] = "awaited" => todo[Reader(r, t)] = <<>>
    BY <1>2 DEF Does, At
  <2>2. \A u \in Tasks : KeepsRecord(u) /\ KeepsLog(u) /\ KeepsFate(u)
    BY <1>2 DEF KeepsRecord, KeepsMeta, KeepsHome, KeepsPending, KeepsAnswer, KeepsFlag, KeepsFate, KeepsCut, KeepsReaders, KeepsLog
  <2>3. Passes(t, a)
    BY <1>0, <1>2, <2>1, PassesOn
  <2>4. OthersUntouched(t)
    BY <1>1, <1>2, <2>1, <2>2
  <2>. QED
    BY <1>2, <2>1, <2>2, <2>3, <2>4 DEF WentOn
<1>3. ASSUME NEW s, Goes(a, s), NewScript(t, s), held' = held,
             UNCHANGED <<status, cancelled, seq, log, stream, pel, mode, home, reader, answered, faults, cut>>,
             At(a, "test") \/ At(a, "setup") \/ At(a, "enter"),
             \A c \in Range(s) : ~(c.op = "xadd" /\ c.arg = "running"),
             At(a, "enter") \/ \A c \in Range(s) : c.op # "leave"
      PROVE  Decided(t) /\ OthersUntouched(t)
  <2>1. todo[a] # <<>> /\ Head(todo[a]).op \in {"test", "setup", "enter"}
    BY <1>3 DEF At
  <2>2. \A u \in Tasks : KeepsRecord(u) /\ KeepsLog(u) /\ KeepsFate(u)
    BY <1>3 DEF KeepsRecord, KeepsMeta, KeepsHome, KeepsPending, KeepsAnswer, KeepsFlag, KeepsFate, KeepsCut, KeepsReaders, KeepsLog
  <2>3. OthersUntouched(t) /\ OthersKeep(t, a) /\ todo'[a] = s
    BY <1>1, <1>3, <2>2
  <2>4. Head(todo[a]).op # "enter" => \A c \in Range(s) : c.op # "leave"
    BY <1>3 DEF At
  <2>. QED
    BY <1>3, <2>1, <2>2, <2>3, <2>4 DEF Decided
<1>4. ASSUME NEW k \in VerdictKinds, At(a, "test") \/ At(a, "setup"), held' = held,
             Goes(a, Conclude(k, Announces(k)) \o Just("ack")),
             UNCHANGED <<status, cancelled, seq, log, stream, pel, mode, home, reader, answered, faults, cut>>
      PROVE  Decided(t) /\ OthersUntouched(t)
  <2>. DEFINE s == Conclude(k, Announces(k)) \o Just("ack")
  <2>1. /\ NewScript(t, s)
        /\ \A c \in Range(s) :
              /\ c.op \in AppendOps \cup {"hset", "ack"}
              /\ c.op \in AppendOps => c.arg = k
    BY VerdictScripts
  <2>2. k # "running"
    BY DEF VerdictKinds, ResultKinds
  <2>3. Goes(a, s)
    BY <1>4
  <2>. HIDE DEF s
  <2>4. \A c \in Range(s) : ~(c.op = "xadd" /\ c.arg = "running") /\ c.op # "leave"
    BY <2>1, <2>2 DEF AppendOps
  <2>. QED
    BY <1>3, <1>4, <2>1, <2>3, <2>4
<1>5. ASSUME At(a, "setup") \/ At(a, "enter")
      PROVE  mode[t] = "agent"
  <2>1. todo[a] # <<>> /\ Head(todo[a]).op \in {"setup", "enter"}
    BY <1>5 DEF At
  <2>2. \E op \in {"setup", "enter", "join", "leave"} : Ahead(a, op)
    BY <1>0, <2>1, HeadAhead, AheadInRange
  <2>. QED
    BY <2>2 DEF VerdictInv
<1>6. CASE Start(t)
  <2>1. Does(a, "start") /\ held' = held
        /\ UNCHANGED <<status, cancelled, seq, log, stream, pel, mode, home, reader, answered, faults, cut>>
    BY <1>6 DEF Start, storeVars, metaVars, queueVars, runVars
  <2>2. ~At(a, "join")
    BY <2>1 DEF Does, At
  <2>. QED
    BY <1>2, <2>1, <2>2 DEF RunMove
<1>15. CASE Join(t)
  <2>1. /\ Does(a, "join") /\ held' = held
        /\ \A r \in Readers : reader[Reader(r, t)] = "awaited" => todo[Reader(r, t)] = <<>>
        /\ UNCHANGED <<status, cancelled, seq, log, stream, pel, mode, home, reader, answered, faults, cut>>
    BY <1>15 DEF Join, storeVars, metaVars, queueVars, runVars
  <2>. QED
    BY <1>2, <2>1 DEF RunMove
<1>7. CASE Save(t)
  <2>1. Does(a, "save") /\ held' = held
        /\ UNCHANGED <<status, cancelled, seq, log, stream, pel, mode, home, reader, answered, faults, cut>>
    BY <1>7 DEF Save, SessionSet, metaVars, queueVars, runVars
  <2>2. ~At(a, "join")
    BY <2>1 DEF Does, At
  <2>. QED
    BY <1>2, <2>1, <2>2 DEF RunMove
<1>8. CASE Leave(t)
  <2>1. Does(a, "leave") /\ held' = held
        /\ UNCHANGED <<status, cancelled, seq, log, stream, pel, mode, home, reader, answered, faults, cut>>
    BY <1>8 DEF Leave, storeVars, metaVars, queueVars
  <2>2. ~At(a, "join")
    BY <2>1 DEF Does, At
  <2>. QED
    BY <1>2, <2>1, <2>2 DEF RunMove
<1>9. CASE Hset(t)
  <2>1. /\ Does(a, "hset") /\ held' = held
        /\ status' = [status EXCEPT ![t] = Arg(a)]
        /\ UNCHANGED <<cancelled, seq, log, stream, pel, mode, home, reader, answered, faults, cut>>
    BY <1>9 DEF Hset, HsetStatus, queueVars, runVars
  <2>2. status'[t] = Arg(a) /\ \A u \in Tasks : u # t => status'[u] = status[u]
    BY <2>1 DEF RedisTypeOK, StoreTypeOK
  <2>3. /\ Goes(a, Tail(todo[a])) /\ todo[a] # <<>> /\ Head(todo[a]).op = "hset"
    BY <2>1 DEF Does, At
  <2>4. Passes(t, a)
    BY <1>0, <2>1, <2>3, PassesOn
  <2>5. \A u \in Tasks : u # t => KeepsRecord(u) /\ KeepsLog(u) /\ KeepsFate(u)
    BY <2>1, <2>2 DEF KeepsRecord, KeepsMeta, KeepsHome, KeepsPending, KeepsAnswer, KeepsFlag, KeepsFate, KeepsCut, KeepsReaders, KeepsLog
  <2>6. OthersUntouched(t)
    BY <1>1, <2>1, <2>3, <2>5
  <2>7. Set(t)
    BY <2>1, <2>2, <2>3, <2>4
    DEF Set, KeepsHome, KeepsPending, KeepsAnswer, KeepsFlag, KeepsFate, KeepsCut, KeepsReaders, KeepsLog, Arg
  <2>. QED
    BY <2>6, <2>7 DEF RunMove
<1>10. CASE Ack(t)
  <2>1. /\ Does(a, "ack") /\ held' = held
        /\ pel' = pel \ {t}
        /\ UNCHANGED <<status, cancelled, seq, log, stream, mode, home, reader, answered, faults, cut>>
    BY <1>10 DEF Ack, AckDelivery, metaVars, runVars
  <2>3. /\ Goes(a, Tail(todo[a])) /\ todo[a] # <<>> /\ Head(todo[a]).op = "ack"
    BY <2>1 DEF Does, At
  <2>4. Passes(t, a)
    BY <1>0, <2>1, <2>3, PassesOn
  <2>5. \A u \in Tasks : u # t => KeepsRecord(u) /\ KeepsLog(u) /\ KeepsFate(u)
    BY <2>1 DEF KeepsRecord, KeepsMeta, KeepsHome, KeepsPending, KeepsAnswer, KeepsFlag, KeepsFate, KeepsCut, KeepsReaders, KeepsLog
  <2>6. OthersUntouched(t)
    BY <1>1, <2>1, <2>3, <2>5
  <2>7. Acked(t)
    BY <2>1, <2>3, <2>4 DEF Acked, KeepsMeta, KeepsHome, KeepsAnswer, KeepsFlag, KeepsFate, KeepsCut, KeepsReaders, KeepsLog
  <2>. QED
    BY <2>6, <2>7 DEF RunMove
<1>11. CASE Test(t)
  <2>1. /\ At(a, "test") /\ held' = held
        /\ Goes(a, IF t \in cancelled THEN Conclude("cancelled", "cancelled") \o Just("ack")
                                      ELSE Tail(todo[a]))
        /\ UNCHANGED <<status, cancelled, seq, log, stream, pel, mode, home, reader, answered, faults, cut>>
    BY <1>11 DEF Test, storeVars, metaVars, queueVars, runVars
  <2>2. CASE t \in cancelled
    <3>1. "cancelled" \in VerdictKinds /\ Announces("cancelled") = "cancelled"
      BY VerdictsAnnounced DEF VerdictKinds, ResultKinds
    <3>. QED
      BY <1>4, <2>1, <2>2, <3>1 DEF RunMove
  <2>3. CASE t \notin cancelled
    <3>1. Goes(a, Tail(todo[a])) /\ todo[a] # <<>> /\ Head(todo[a]).op = "test"
      BY <2>1, <2>3 DEF At
    <3>2. \A u \in Tasks : KeepsRecord(u) /\ KeepsLog(u) /\ KeepsFate(u)
      BY <2>1 DEF KeepsRecord, KeepsMeta, KeepsHome, KeepsPending, KeepsAnswer, KeepsFlag, KeepsFate, KeepsCut, KeepsReaders, KeepsLog
    <3>3. Passes(t, a)
      BY <1>0, <2>1, <3>1, PassesOn
    <3>4. OthersUntouched(t)
      BY <1>1, <2>1, <3>1, <3>2
    <3>5. WentOn(t)
      BY <2>1, <3>1, <3>2, <3>3 DEF WentOn
    <3>. QED
      BY <3>4, <3>5 DEF RunMove
  <2>. QED
    BY <2>2, <2>3
<1>12. CASE Refuse(t)
  <2>1. /\ At(a, "setup") /\ held' = held
        /\ Goes(a, Conclude("error", "failed") \o Just("ack"))
        /\ UNCHANGED <<status, cancelled, seq, log, stream, pel, mode, home, reader, answered, faults, cut>>
    BY <1>12 DEF Refuse, storeVars, metaVars, queueVars, runVars
  <2>2. "error" \in VerdictKinds /\ Announces("error") = "failed"
    BY VerdictsAnnounced DEF VerdictKinds, ResultKinds
  <2>. QED
    BY <1>4, <2>1, <2>2 DEF RunMove
<1>13. CASE SetUp(t)
  <2>. DEFINE s == Just("enter") \o Just("ack")
  <2>1. /\ At(a, "setup") /\ held' = held /\ Goes(a, s)
        /\ UNCHANGED <<status, cancelled, seq, log, stream, pel, mode, home, reader, answered, faults, cut>>
    BY <1>13 DEF SetUp, storeVars, metaVars, queueVars, runVars
  <2>2. NewScript(t, s) /\ \A c \in Range(s) : c.op \in {"enter", "ack"}
    BY <1>5, <2>1, SetUpScript
  <2>. HIDE DEF s
  <2>3. \A c \in Range(s) : ~(c.op = "xadd" /\ c.arg = "running") /\ c.op # "leave"
    BY <2>2
  <2>. QED
    BY <1>3, <2>1, <2>2, <2>3 DEF RunMove
<1>14. CASE Enter(t)
  <2>1. /\ At(a, "enter") /\ held' = held
        /\ \E script \in AgentRuns : Goes(a, script \o Just("ack"))
        /\ UNCHANGED <<status, cancelled, seq, log, stream, pel, mode, home, reader, answered, faults, cut>>
    BY <1>14 DEF Enter, storeVars, metaVars, queueVars
  <2>2. PICK script \in AgentRuns : Goes(a, script \o Just("ack"))
    BY <2>1
  <2>. DEFINE s == script \o Just("ack")
  <2>3. Goes(a, s)
    BY <2>2
  <2>4. NewScript(t, s) /\ \A c \in Range(s) : ~(c.op = "xadd" /\ c.arg = "running")
    BY <1>5, <2>1, EnterScripts
  <2>. HIDE DEF s
  <2>. QED
    BY <1>3, <2>1, <2>3, <2>4 DEF RunMove
<1>. QED
  BY <1>6, <1>7, <1>8, <1>9, <1>10, <1>11, <1>12, <1>13, <1>14, <1>15

\* The two requests begin a script, and change what they are about.
LEMMA ClientMoves ==
  ASSUME RedisTypeOK, NEW t \in Tasks, FreshInv(t), SubmitTask(t) \/ CancelTask(t)
  PROVE  (Submitted(t) \/ Asked(t)) /\ OthersUntouched(t)
<1>0. /\ Create(t) \in Writers(t) /\ Cancel(t) \in Writers(t) /\ faults \in Nat
      /\ {"queued", "cancel_requested"} \subseteq Kinds
  BY WritersAreActors, BoundAssumption DEF RedisTypeOK, Kinds
<1>1. CASE SubmitTask(t)
  <2>1. /\ status[t] = "absent"
        /\ status' = [status EXCEPT ![t] = "queued"]
        /\ seq' = [seq EXCEPT ![t] = 0]
        /\ \E m \in Modes[t] : mode' = [mode EXCEPT ![t] = m]
        /\ Goes(Create(t), Emit("queued"))
        /\ UNCHANGED <<cancelled, log, pel, inbox, conn, held, home, reader, answered, faults, cut>>
    BY <1>1 DEF SubmitTask, QueueTask, liveVars
  <2>2. /\ status'[t] = "queued" /\ seq'[t] = 0
        /\ \A u \in Tasks : u # t => status'[u] = status[u] /\ seq'[u] = seq[u] /\ mode'[u] = mode[u]
    BY <2>1 DEF RedisTypeOK, StoreTypeOK
  <2>3. \A u \in Tasks : u # t => KeepsRecord(u) /\ KeepsLog(u) /\ KeepsFate(u)
    BY <2>1, <2>2 DEF KeepsRecord, KeepsMeta, KeepsHome, KeepsPending, KeepsAnswer, KeepsFlag, KeepsFate, KeepsCut, KeepsReaders, KeepsLog
  <2>4. OthersUntouched(t) /\ OthersKeep(t, Create(t)) /\ todo'[Create(t)] = Emit("queued")
    BY <1>0, <2>1, <2>3, OthersStay
  <2>5. RestOfRequest(Emit("queued"), {"queued"}) /\ Emit("queued") # <<>> /\ Head(Emit("queued")).op = "incr"
    BY <1>0, ScriptOfRequest
  <2>6. Submitted(t)
    BY <2>1, <2>2, <2>4, <2>5 DEF Submitted, KeepsHome, KeepsPending, KeepsAnswer, KeepsFlag, KeepsFate, KeepsCut, KeepsReaders
  <2>. QED
    BY <2>4, <2>6
<1>2. CASE CancelTask(t)
  <2>1. /\ t \in answered \ cancelled
        /\ cancelled' = cancelled \cup {t}
        /\ Goes(Cancel(t), Emit("cancel_requested"))
        /\ UNCHANGED <<status, seq, log, stream, pel, inbox, conn, mode, held, home, reader, answered, faults, cut>>
    BY <1>2 DEF CancelTask, SetCancel, queueVars, liveVars, runVars
  <2>3. \A u \in Tasks : u # t => KeepsRecord(u) /\ KeepsLog(u) /\ KeepsFate(u)
    BY <2>1 DEF KeepsRecord, KeepsMeta, KeepsHome, KeepsPending, KeepsAnswer, KeepsFlag, KeepsFate, KeepsCut, KeepsReaders, KeepsLog
  <2>4. OthersUntouched(t) /\ OthersKeep(t, Cancel(t)) /\ todo'[Cancel(t)] = Emit("cancel_requested")
    BY <1>0, <2>1, <2>3, OthersStay
  <2>5. /\ RestOfRequest(Emit("cancel_requested"), {"cancel_requested"})
        /\ Emit("cancel_requested") # <<>> /\ Head(Emit("cancel_requested")).op = "incr"
    BY <1>0, ScriptOfRequest
  <2>6. Asked(t)
    BY <2>1, <2>4, <2>5 DEF Asked, KeepsMeta, KeepsHome, KeepsPending, KeepsAnswer, KeepsLog, KeepsFate, KeepsCut, KeepsReaders
  <2>. QED
    BY <2>4, <2>6
<1>. QED
  BY <1>1, <1>2

\* A worker that is given a task begins its run.
LEMMA ConsumeMoves ==
  ASSUME RedisTypeOK, QueueInv, NEW w \in Workers, NEW t \in Tasks, ConsumeTask(w, t)
  PROVE  Consumed(t) /\ OthersUntouched(t)
<1>0. Run(t) \in Writers(t) /\ faults \in Nat /\ mode[t] \in {"mock", "agent", "other"} /\ w # NoWorker
  BY WritersAreActors, BoundAssumption, WorkerAssumption DEF RedisTypeOK
<1>. DEFINE s == Just("start") \o RunScript[mode[t]] \o Just("ack")
<1>1. /\ stream # <<>> /\ t = Head(stream)
      /\ pel' = pel \cup {t}
      /\ home' = [home EXCEPT ![t] = w]
      /\ Goes(Run(t), s)
      /\ UNCHANGED <<status, cancelled, seq, log, inbox, conn, mode, held, reader, answered, faults, cut>>
  BY DEF ConsumeTask, ReadGroup, metaVars, liveVars
<1>2. status[t] = "queued" /\ home[t] = NoWorker
  <2>1. stream \in Seq(Tasks)
    BY DEF RedisTypeOK, StoreTypeOK
  <2>2. Len(stream) \in Nat \ {0} /\ DOMAIN stream = 1..Len(stream)
    BY <1>1, <2>1, LenProperties, EmptySeq
  <2>3. 1 \in DOMAIN stream /\ stream[1] = t
    BY <1>1, <2>1, <2>2
  <2>. QED
    BY <2>3 DEF QueueInv
<1>3. home'[t] = w /\ \A u \in Tasks : u # t => home'[u] = home[u]
  BY <1>1 DEF RedisTypeOK
<1>4. \A u \in Tasks : u # t => KeepsRecord(u) /\ KeepsLog(u) /\ KeepsFate(u)
  BY <1>1, <1>3 DEF KeepsRecord, KeepsMeta, KeepsHome, KeepsPending, KeepsAnswer, KeepsFlag, KeepsFate, KeepsCut, KeepsReaders, KeepsLog
<1>5. NewScript(t, s) /\ \A c \in Range(s) : c.op # "leave"
  BY <1>0, ConsumedScripts
<1>6. Goes(Run(t), s) /\ held' = held /\ faults' = faults /\ t \in pel'
  BY <1>1
<1>7. KeepsMeta(t) /\ KeepsAnswer(t) /\ KeepsFlag(t) /\ KeepsLog(t) /\ KeepsFate(t)
  BY <1>1 DEF KeepsMeta, KeepsAnswer, KeepsFlag, KeepsLog, KeepsFate, KeepsCut, KeepsReaders
<1>. HIDE DEF s
<1>8. OthersUntouched(t) /\ OthersKeep(t, Run(t)) /\ todo'[Run(t)] = s
  BY <1>0, <1>4, <1>6, OthersStay
<1>. QED
  BY <1>0, <1>2, <1>3, <1>5, <1>6, <1>7, <1>8 DEF Consumed

\* A command of a run raises, in the agent's try block or elsewhere.
LEMMA RaiseMoves ==
  ASSUME RedisTypeOK, NEW t \in Tasks, RaiseInTry(t) \/ RaiseOutside(t)
  PROVE  FaultMove(t) /\ OthersUntouched(t)
<1>0. Run(t) \in Writers(t) /\ faults \in Nat
  BY WritersAreActors, BoundAssumption DEF RedisTypeOK
<1>1. CASE RaiseInTry(t)
  <2>. DEFINE s == Conclude("error", "failed") \o Just("ack")
  <2>1. /\ faults' = faults + 1 /\ InSession(t) /\ Goes(Run(t), s)
        /\ reader' = [a \in DOMAIN reader |-> IF a[2] = t /\ AtWork(t) THEN "left" ELSE reader[a]]
        /\ UNCHANGED <<status, cancelled, seq, log, stream, pel, inbox, conn, held, mode, home, answered, cut>>
    BY <1>1 DEF RaiseInTry, Fault, storeVars, metaVars, queueVars, liveVars
  <2>2. \A u \in Tasks : KeepsRecord(u) /\ KeepsLog(u) /\ KeepsCut(u)
    BY <2>1 DEF KeepsRecord, KeepsMeta, KeepsHome, KeepsPending, KeepsAnswer, KeepsFlag, KeepsCut, KeepsLog
  <2>3. "error" \in VerdictKinds /\ Announces("error") = "failed"
    BY DEF VerdictKinds, ResultKinds, Announces
  <2>4. /\ NewScript(t, s)
        /\ \A c \in Range(s) :
              /\ c.op \in AppendOps \cup {"hset", "ack"}
              /\ c.op \in AppendOps => c.arg = "error"
              /\ c.op = "hset" => c.arg = "failed"
        /\ Do("hset", "failed") \in Range(s)
    BY <2>3, VerdictScripts
  <2>5. faults' \in Nat /\ faults' >= faults
    BY <1>0, <2>1
  <2>. HIDE DEF s
  <2>8. /\ \A r \in Readers :
              reader'[Reader(r, t)] = IF AtWork(t) THEN "left" ELSE reader[Reader(r, t)]
        /\ \A u \in Tasks : u # t => KeepsReaders(u)
    <3>1. \A u \in Tasks, r \in Readers : Reader(r, u) \in Readers \X Tasks /\ Reader(r, u)[2] = u
      BY DEF Reader
    <3>. QED
      BY <2>1, <3>1 DEF KeepsReaders, RedisTypeOK
  <2>6. OthersUntouched(t) /\ OthersKeep(t, Run(t)) /\ todo'[Run(t)] = s
    BY <1>0, <2>1, <2>2, <2>5, <2>8, OthersStay DEF KeepsFate
  <2>7. Raised(t)
    BY <2>1, <2>2, <2>4, <2>6, <2>8 DEF Raised
  <2>. QED
    BY <2>6, <2>7 DEF FaultMove
<1>2. CASE RaiseOutside(t)
  <2>. DEFINE s == IF At(Run(t), "ack") THEN <<>> ELSE Just("ack")
  <2>1. /\ faults' = faults + 1 /\ Live(t) /\ ~InSession(t) /\ Goes(Run(t), s)
        /\ cut' = cut \cup {t}
        /\ UNCHANGED <<status, cancelled, seq, log, stream, pel, inbox, conn, held, mode, home, reader, answered>>
    BY <1>2 DEF RaiseOutside, Fault, storeVars, metaVars, queueVars, liveVars
  <2>2. /\ \A u \in Tasks : u # t => KeepsRecord(u) /\ KeepsLog(u) /\ KeepsFate(u)
        /\ KeepsRecord(t) /\ KeepsLog(t) /\ KeepsReaders(t)
    BY <2>1 DEF KeepsRecord, KeepsMeta, KeepsHome, KeepsPending, KeepsAnswer, KeepsFlag, KeepsFate, KeepsCut, KeepsReaders, KeepsLog
  <2>3. faults' \in Nat /\ faults' >= faults
    BY <1>0, <2>1
  <2>4. s \in {<<>>, <<Do("ack", "")>>}
    BY DEF Just
  <2>. HIDE DEF s
  <2>5. OthersUntouched(t) /\ OthersKeep(t, Run(t)) /\ todo'[Run(t)] = s
    BY <1>0, <2>1, <2>2, <2>3, OthersStay
  <2>6. CutShort(t)
    BY <2>1, <2>2, <2>4, <2>5 DEF CutShort, Live
  <2>. QED
    BY <2>5, <2>6 DEF FaultMove
<1>. QED
  BY <1>1, <1>2

\* A reader has a line, or is left behind.
LEMMA ReadMoves ==
  ASSUME RedisTypeOK, NEW t \in Tasks, NEW r \in Readers, ReadLine(r, t) \/ LeaveReader(r, t)
  PROVE  ReadMove(t) /\ OthersUntouched(t)
<1>. DEFINE a == Reader(r, t)
<1>0. a \in Writers(t) /\ faults \in Nat
  BY WritersAreActors, BoundAssumption DEF RedisTypeOK
<1>1. CASE ReadLine(r, t)
  <2>1. /\ todo[a] = <<>> /\ (reader[a] = "left" \/ (reader[a] = "awaited" /\ AtWork(t)))
        /\ held' = held
        /\ UNCHANGED <<status, cancelled, seq, log, stream, pel, mode, home, reader, answered, faults, cut>>
    BY <1>1 DEF ReadLine, storeVars, metaVars, queueVars, runVars
  <2>2. PICK k \in ToolKinds : Goes(a, Emit(k))
    BY <1>1 DEF ReadLine
  <2>3. \A u \in Tasks : KeepsRecord(u) /\ KeepsLog(u) /\ KeepsFate(u)
    BY <2>1 DEF KeepsRecord, KeepsMeta, KeepsHome, KeepsPending, KeepsAnswer, KeepsFlag, KeepsFate, KeepsCut, KeepsReaders, KeepsLog
  <2>4. OthersUntouched(t) /\ OthersKeep(t, a) /\ todo'[a] = Emit(k)
    BY <1>0, <2>1, <2>2, <2>3, OthersStay
  <2>5. k \in Kinds
    BY ReaderAssumption DEF Kinds, StreamKinds
  <2>6. RestOfRequest(Emit(k), ToolKinds) /\ Emit(k) # <<>> /\ Head(Emit(k)).op = "incr"
    BY <2>5, ScriptOfRequest
  <2>7. BegunLine(t, r)
    BY <2>1, <2>3, <2>4, <2>6 DEF BegunLine
  <2>. QED
    BY <2>4, <2>7 DEF ReadMove
<1>2. CASE LeaveReader(r, t)
  <2>1. /\ AtWork(t) /\ reader' = [reader EXCEPT ![a] = "left"] /\ held' = held /\ todo' = todo
        /\ UNCHANGED <<status, cancelled, seq, log, stream, pel, mode, home, answered, faults, cut>>
    BY <1>2 DEF LeaveReader, storeVars, metaVars, queueVars, actorVars
  <2>2. \A u \in Tasks : KeepsRecord(u) /\ KeepsLog(u) /\ KeepsCut(u) /\ \A b \in Writers(u) : KeepsScript(b)
    BY <2>1 DEF KeepsRecord, KeepsMeta, KeepsHome, KeepsPending, KeepsAnswer, KeepsFlag, KeepsCut, KeepsLog, KeepsScript
  <2>3. /\ \A q \in Readers : reader'[Reader(q, t)] \in {reader[Reader(q, t)], "left"}
        /\ \A u \in Tasks : u # t => KeepsReaders(u)
    BY <2>1 DEF KeepsReaders, RedisTypeOK, Reader
  <2>4. LeftAlone(t)
    BY <2>1, <2>2, <2>3 DEF LeftAlone
  <2>5. OthersUntouched(t)
    BY <1>0, <2>1, <2>2, <2>3 DEF OthersUntouched, Untouched, KeepsFate
  <2>. QED
    BY <2>4, <2>5 DEF ReadMove
<1>. QED
  BY <1>1, <1>2

\* A worker process ends, and stops all its runs and their readers.
LEMMA RestartMoves ==
  ASSUME RedisTypeOK, NEW w \in Workers, Restart(w)
  PROVE  \A t \in Tasks : Stopped(t) \/ Untouched(t)
<1>. DEFINE mine == {t \in Tasks : home[t] = w}
            lost == {t \in mine : Live(t)}
<1>0. faults \in Nat /\ DOMAIN todo = Actors /\ w # NoWorker /\ reader \in [Readers \X Tasks -> {"awaited", "left", "stopped"}]
  BY BoundAssumption, WorkerAssumption DEF RedisTypeOK
<1>1. /\ faults' = faults + 1
      /\ todo' = [a \in Actors |->
                    IF a[1] \notin {"create", "cancel"} /\ a[2] \in mine THEN <<>> ELSE todo[a]]
      /\ reader' = [a \in DOMAIN reader |->
                      IF reader[a] = "left" /\ a[2] \in mine THEN "stopped" ELSE reader[a]]
      /\ cut' = cut \cup lost
      /\ UNCHANGED <<status, cancelled, seq, log, stream, pel, inbox, conn, held, mode, home, answered>>
  BY DEF Restart, Fault, storeVars, metaVars, queueVars, liveVars
<1>2. \A t \in Tasks : (t \in mine <=> home[t] = w) /\ (t \in lost <=> home[t] = w /\ Live(t))
  OBVIOUS
<1>. HIDE DEF mine, lost
<1>. SUFFICES ASSUME NEW t \in Tasks
              PROVE  Stopped(t) \/ Untouched(t)
  OBVIOUS
<1>3. KeepsRecord(t) /\ KeepsLog(t) /\ held' = held
  BY <1>1 DEF KeepsRecord, KeepsMeta, KeepsHome, KeepsPending, KeepsAnswer, KeepsFlag, KeepsLog
<1>4. /\ \A a \in Writers(t) : a \in Actors /\ a[2] = t
      /\ Create(t)[1] = "create" /\ Cancel(t)[1] = "cancel" /\ Run(t)[1] = "run"
      /\ \A r \in Readers : Reader(r, t)[1] = r /\ Reader(r, t) \in Readers \X Tasks /\ Reader(r, t)[2] = t
      /\ Readers \cap {"create", "cancel", "run"} = {}
  BY WritersAreActors, ReaderAssumption DEF Run, Create, Cancel, Reader
<1>5. /\ {Create(t), Cancel(t), Run(t)} \subseteq Writers(t)
      /\ \A r \in Readers : Reader(r, t) \in Writers(t)
  BY WritersAreActors
<1>6. CASE t \in mine
  <2>1. /\ todo'[Run(t)] = <<>> /\ \A r \in Readers : todo'[Reader(r, t)] = <<>>
        /\ todo'[Create(t)] = todo[Create(t)] /\ todo'[Cancel(t)] = todo[Cancel(t)]
    BY <1>1, <1>4, <1>5, <1>6
  <2>2. \A r \in Readers : reader'[Reader(r, t)] =
          IF reader[Reader(r, t)] = "left" THEN "stopped" ELSE reader[Reader(r, t)]
    BY <1>0, <1>1, <1>4, <1>6
  <2>3. t \in cut' <=> t \in cut \/ Live(t)
    BY <1>1, <1>2, <1>6
  <2>. QED
    BY <1>0, <1>1, <1>2, <1>3, <1>6, <2>1, <2>2, <2>3 DEF Stopped, KeepsScript
<1>7. CASE t \notin mine
  <2>1. \A a \in Writers(t) : KeepsScript(a)
    BY <1>1, <1>3, <1>4, <1>7 DEF KeepsScript
  <2>2. KeepsCut(t) /\ KeepsReaders(t)
    BY <1>0, <1>1, <1>2, <1>4, <1>7 DEF KeepsCut, KeepsReaders
  <2>3. faults' \in Nat /\ faults' >= faults
    BY <1>0, <1>1
  <2>. QED
    BY <1>3, <2>1, <2>2, <2>3 DEF Untouched, KeepsFate
<1>. QED
  BY <1>6, <1>7

\* A request that gets no response appends nothing more.
LEMMA AbandonMoves ==
  ASSUME RedisTypeOK, NEW a \in Actors, Abandon(a)
  PROVE  Abandoned(a[2], a) /\ OthersUntouched(a[2])
<1>. DEFINE t == a[2]
<1>0. t \in Tasks /\ a \in Writers(t) /\ faults \in Nat
  BY WritersAreActors, BoundAssumption DEF RedisTypeOK
<1>1. /\ faults' = faults + 1 /\ a[1] # "run" /\ todo[a] # <<>> /\ Goes(a, <<>>)
      /\ UNCHANGED <<status, cancelled, seq, log, stream, pel, inbox, conn, held, mode, home, reader, answered, cut>>
  BY DEF Abandon, At, Fault, storeVars, metaVars, queueVars, liveVars
<1>2. a # Run(t)
  BY <1>1 DEF Run
<1>3. \A u \in Tasks : KeepsRecord(u) /\ KeepsLog(u) /\ KeepsFate(u)
  BY <1>1 DEF KeepsRecord, KeepsMeta, KeepsHome, KeepsPending, KeepsAnswer, KeepsFlag, KeepsFate, KeepsCut, KeepsReaders, KeepsLog
<1>4. faults' \in Nat /\ faults' >= faults
  BY <1>0, <1>1
<1>. HIDE DEF t
<1>5. OthersUntouched(t) /\ OthersKeep(t, a) /\ todo'[a] = <<>>
  BY <1>0, <1>1, <1>3, <1>4, OthersStay
<1>6. Abandoned(t, a)
  BY <1>0, <1>1, <1>2, <1>3, <1>5 DEF Abandoned
<1>. QED
  BY <1>5, <1>6 DEF t

\* Who only reads touches no task.
LEMMA NothingMoves ==
  ASSUME RedisTypeOK,
         UNCHANGED <<metaVars, seq, log, queueVars, memory, actorVars, runVars>>
  PROVE  \A t \in Tasks : Untouched(t)
<1>1. faults \in Nat
  BY BoundAssumption DEF RedisTypeOK
<1>. QED
  BY <1>1 DEF KeepsRecord, KeepsMeta, KeepsHome, KeepsPending, KeepsAnswer, KeepsFlag, KeepsFate, KeepsCut, KeepsReaders, KeepsLog, Untouched, KeepsScript,
      metaVars, queueVars, actorVars, runVars

\* A step that neither submits nor consumes a task, as the task sees it.
OwnMove(t) ==
  \/ Untouched(t) \/ Asked(t)
  \/ \E a \in Writers(t) : AppendMove(t, a)
  \/ RunMove(t)
  \/ ReadMove(t)
  \/ FaultMove(t)

\* Every step is about one task, but the end of a worker.
LEMMA OneTaskMoves ==
  ASSUME RedisTypeOK, QueueInv, \A t \in Tasks : TaskInv(t), ServerNext
  PROVE  \/ \E t \in Tasks : SubmitTask(t) /\ Submitted(t) /\ OthersUntouched(t)
         \/ \E w \in Workers, t \in Tasks : ConsumeTask(w, t) /\ Consumed(t) /\ OthersUntouched(t)
         \/ \E t \in Tasks : OwnMove(t) /\ OthersUntouched(t)
         \/ \A t \in Tasks : Stopped(t) \/ Untouched(t)
<1>. DEFINE Goal == \/ \E t \in Tasks : SubmitTask(t) /\ Submitted(t) /\ OthersUntouched(t)
                    \/ \E w \in Workers, t \in Tasks : ConsumeTask(w, t) /\ Consumed(t) /\ OthersUntouched(t)
                    \/ \E t \in Tasks : OwnMove(t) /\ OthersUntouched(t)
                    \/ \A t \in Tasks : Stopped(t) \/ Untouched(t)
<1>0. \A t \in Tasks : Scripted(t) /\ VerdictInv(t) /\ FreshInv(t)
  BY DEF TaskInv
<1>1. ASSUME NEW w \in Workers, NEW t \in Tasks, ConsumeTask(w, t)
      PROVE  Goal
  BY <1>1, ConsumeMoves
<1>2. ASSUME NEW t \in Tasks, ClientStep(t)
      PROVE  Goal
  <2>1. (Submitted(t) \/ Asked(t)) /\ OthersUntouched(t)
    BY <1>0, <1>2, ClientMoves DEF ClientStep
  <2>2. CASE Asked(t)
    BY <2>1, <2>2 DEF OwnMove
  <2>3. CASE Submitted(t)
    <3>1. status'[t] # status[t]
      BY <2>3 DEF Submitted
    <3>2. ~CancelTask(t)
      BY <3>1 DEF CancelTask, SetCancel
    <3>. QED
      BY <1>2, <2>1, <2>3, <3>2 DEF ClientStep
  <2>. QED
    BY <2>1, <2>2, <2>3
<1>3. ASSUME NEW t \in Tasks, NEW a \in Writers(t), AppendStep(a)
      PROVE  Goal
  <2>1. AppendMove(t, a) /\ OthersUntouched(t)
    BY <1>0, <1>3, AppendMoves
  <2>. QED
    BY <2>1 DEF OwnMove
<1>4. ASSUME NEW t \in Tasks,
             Start(t) \/ Hset(t) \/ Test(t) \/ Refuse(t) \/ SetUp(t)
               \/ Enter(t) \/ Join(t) \/ Save(t) \/ Leave(t) \/ Ack(t)
      PROVE  Goal
  <2>1. RunMove(t) /\ OthersUntouched(t)
    BY <1>0, <1>4, RunMoves
  <2>. QED
    BY <2>1 DEF OwnMove
<1>5. ASSUME NEW t \in Tasks, RaiseInTry(t) \/ RaiseOutside(t)
      PROVE  Goal
  <2>1. FaultMove(t) /\ OthersUntouched(t)
    BY <1>5, RaiseMoves
  <2>. QED
    BY <2>1 DEF OwnMove
<1>6. ASSUME NEW w \in Workers, Restart(w)
      PROVE  Goal
  BY <1>6, RestartMoves
<1>7. ASSUME NEW a \in Actors, Abandon(a)
      PROVE  Goal
  <2>1. a[2] \in Tasks /\ a \in Writers(a[2])
    BY WritersAreActors
  <2>2. Abandoned(a[2], a) /\ OthersUntouched(a[2])
    BY <1>7, AbandonMoves
  <2>. QED
    BY <2>1, <2>2 DEF OwnMove, FaultMove
<1>9. ASSUME NEW r \in Readers, NEW t \in Tasks, ReadLine(r, t) \/ LeaveReader(r, t)
      PROVE  Goal
  <2>1. ReadMove(t) /\ OthersUntouched(t)
    BY <1>9, ReadMoves
  <2>. QED
    BY <2>1 DEF OwnMove
<1>8. ASSUME Idle
      PROVE  Goal
  <2>1. \A u \in Tasks : Untouched(u)
    BY <1>8, NothingMoves DEF Idle, serverVars, storeVars
  <2>. QED
    BY <2>1
<1>. QED
  BY <1>1, <1>2, <1>3, <1>4, <1>5, <1>6, <1>7, <1>8, <1>9, WritersAreActors
  DEF ServerNext, ServerStep, FaultStep, RequestStep, RunStep, ReaderStep

\* Every step, as what it does to each task.
LEMMA StepMoves ==
  ASSUME RedisTypeOK, QueueInv, \A t \in Tasks : TaskInv(t), ServerNext
  PROVE  \A t \in Tasks : Move(t)
<1>. SUFFICES ASSUME NEW u \in Tasks
              PROVE  Move(u)
  OBVIOUS
<1>1. ASSUME NEW t \in Tasks, Submitted(t) \/ Consumed(t) \/ OwnMove(t), OthersUntouched(t)
      PROVE  Move(u)
  BY <1>1 DEF OwnMove, Move, OthersUntouched
<1>2. ASSUME Stopped(u) \/ Untouched(u)
      PROVE  Move(u)
  BY <1>2 DEF Move, FaultMove
<1>. QED
  BY <1>1, <1>2, OneTaskMoves

=============================================================================
