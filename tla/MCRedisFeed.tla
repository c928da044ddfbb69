---------------------------- MODULE MCRedisFeed -----------------------------
(***************************************************************************)
(* Instances of RedisFeed: one task of any mode and a client, or agent     *)
(* tasks of one session.                                                   *)
(***************************************************************************)
EXTENDS RedisFeed

CONSTANTS t1, t2, c1, s1, w1, w2, r1, r2

AnyMode == [t \in Tasks |-> {"mock", "agent", "other"}]
MockMode == [t \in Tasks |-> {"mock"}]
AgentMode == [t \in Tasks |-> {"agent"}]

OneSession == [t \in Tasks |-> s1]

\* w1 has two slots, another worker one.
TwoOrOneSlots == [w \in Workers |-> IF w = w1 THEN 2 ELSE 1]

=============================================================================
