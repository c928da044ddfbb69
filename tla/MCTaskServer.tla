---------------------------- MODULE MCTaskServer ----------------------------
(***************************************************************************)
(* Instances of TaskServer: mock tasks, two agent tasks of one session and *)
(* user, one of the same session id and another user, one without a        *)
(* session, one that finds no API key, one of an unknown mode; a run picks *)
(* some of them.                                                           *)
(***************************************************************************)
EXTENDS TaskServer

CONSTANTS m1, a1, a2, a3, b1, n1, x1, s1, k1, k2

MCMode == [t \in Tasks |->
             IF t = m1 THEN "mock" ELSE IF t = x1 THEN "other" ELSE "agent"]

\* The mock task carries a session id too: the code ignores it.
MCSession == [t \in Tasks |-> IF t \in {a1, a2, a3, n1, m1} THEN s1 ELSE NoSession]

\* a3 is another user's task in a session of the same id.
MCKey == [t \in Tasks |-> IF t = a3 THEN k2 ELSE k1]

=============================================================================
