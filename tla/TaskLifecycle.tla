--------------------------- MODULE TaskLifecycle ----------------------------
(***************************************************************************)
(* What the service promises about one task, whatever runs it: the state   *)
(* machine queued -> running -> succeeded | failed | cancelled, a verdict  *)
(* that is reached once and never revised, and an announcement in the log  *)
(* made in the same step as the verdict: "result" for a task that          *)
(* succeeded or was cancelled, "error" for one that failed.                *)
(***************************************************************************)
EXTENDS TaskEvents

CONSTANT Tasks

VARIABLES state,      \* the status a GET of the task shows
          announced   \* the verdict its log announces: none, result or error

lifeVars == <<state, announced>>

LifeInit ==
  /\ state = [t \in Tasks |-> "absent"]
  /\ announced = [t \in Tasks |-> "none"]

Submit(t) ==
  /\ state[t] = "absent"
  /\ state' = [state EXCEPT ![t] = "queued"]
  /\ UNCHANGED announced

Claim(t) ==
  /\ state[t] = "queued"
  /\ state' = [state EXCEPT ![t] = "running"]
  /\ UNCHANGED announced

\* A run that ends before it first waits is never seen "running".
Conclude(t, v) ==
  /\ state[t] \in {"queued", "running"}
  /\ state' = [state EXCEPT ![t] = v]
  /\ announced' = [announced EXCEPT ![t] = IF v = "failed" THEN "error" ELSE "result"]

LifeNext ==
  \E t \in Tasks :
    \/ Submit(t)
    \/ Claim(t)
    \/ \E v \in Verdicts : Conclude(t, v)

LifeSpec == LifeInit /\ [][LifeNext]_lifeVars

=============================================================================
