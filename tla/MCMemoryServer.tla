--------------------------- MODULE MCMemoryServer ---------------------------
(***************************************************************************)
(* An instance of MemoryServer: a mock task, an agent task with a session, *)
(* and the connections that watch them.                                    *)
(***************************************************************************)
EXTENDS MemoryServer

CONSTANTS m1, a1, c1, s1, k1

MCMode == [t \in Tasks |-> IF t = m1 THEN "mock" ELSE "agent"]

MCSession == [t \in Tasks |-> IF t = a1 THEN s1 ELSE NoSession]

MCKey == [t \in Tasks |-> k1]

=============================================================================
