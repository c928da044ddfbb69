---------------------------- MODULE TaskDelivery ----------------------------
(***************************************************************************)
(* What the service promises about the way of a task when the API process  *)
(* and the workers share nothing but Redis, and any of them may end: a     *)
(* task is given to a worker once, its verdict is announced in the log     *)
(* before its status shows it, and its delivery is acknowledged when the   *)
(* two agree, unless a fault took the run.                                 *)
(*                                                                         *)
(* TaskLifecycle promises more, to one process: there a verdict is         *)
(* announced and shown in one step, and it is never revised.               *)
(***************************************************************************)
EXTENDS TaskEvents

CONSTANT Tasks

VARIABLES state,     \* the status a GET of the task shows
          told,      \* the verdicts its log announces
          delivery,  \* where its delivery is: none, queued, given or acknowledged
          lost       \* the tasks a fault took the rest of a run from

deliveryVars == <<state, told, delivery, lost>>

DeliveryInit ==
  /\ state = [t \in Tasks |-> "absent"]
  /\ told = [t \in Tasks |-> {}]
  /\ delivery = [t \in Tasks |-> "none"]
  /\ lost = {}

Submit(t) ==
  /\ state[t] = "absent" /\ delivery[t] = "none"
  /\ state' = [state EXCEPT ![t] = "queued"]
  /\ delivery' = [delivery EXCEPT ![t] = "queued"]
  /\ UNCHANGED <<told, lost>>

Give(t) ==
  /\ delivery[t] = "queued"
  /\ delivery' = [delivery EXCEPT ![t] = "given"]
  /\ UNCHANGED <<state, told, lost>>

\* A worker has t, and no fault took it.
Held(t) == delivery[t] = "given" /\ t \notin lost

Claim(t) ==
  /\ Held(t)
  /\ state[t] = "queued" /\ told[t] = {}
  /\ state' = [state EXCEPT ![t] = "running"]
  /\ UNCHANGED <<told, delivery, lost>>

\* One verdict; a success may be followed by the error of what came after it.
Announce(t, v) ==
  /\ Held(t)
  /\ told[t] = {} \/ (told[t] = {"succeeded"} /\ v = "failed")
  /\ told' = [told EXCEPT ![t] = @ \cup {v}]
  /\ UNCHANGED <<state, delivery, lost>>

\* v is the last verdict that the log announces.
Latest(t, v) == v \in told[t] /\ ("failed" \in told[t] => v = "failed")

Show(t, v) ==
  /\ Held(t)
  /\ Latest(t, v)
  /\ state' = [state EXCEPT ![t] = v]
  /\ UNCHANGED <<told, delivery, lost>>

\* Nothing is acknowledged that could not be forgotten.
Acknowledge(t) ==
  /\ delivery[t] = "given"
  /\ t \in lost \/ Latest(t, state[t])
  /\ delivery' = [delivery EXCEPT ![t] = "acknowledged"]
  /\ UNCHANGED <<state, told, lost>>

\* A fault takes the runs of some tasks: one, or all those of a worker.
Lose(T) ==
  /\ T # {} /\ \A t \in T : Held(t)
  /\ lost' = lost \cup T
  /\ UNCHANGED <<state, told, delivery>>

DeliveryNext ==
  \/ \E t \in Tasks :
       \/ Submit(t) \/ Give(t) \/ Claim(t) \/ Acknowledge(t)
       \/ \E v \in Verdicts : Announce(t, v) \/ Show(t, v)
  \/ \E T \in SUBSET Tasks : Lose(T)

DeliverySpec == DeliveryInit /\ [][DeliveryNext]_deliveryVars

=============================================================================
