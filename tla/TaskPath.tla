------------------------------ MODULE TaskPath ------------------------------
(***************************************************************************)
(* What an ingestion queue promises about its tasks, whatever holds them:  *)
(* a task passes the stages one after the other and none of them twice, so *)
(* that it is ingested at most once and its outcome is recorded once; and  *)
(* a task that leaves this path is lost for good and was hit by a fault.   *)
(***************************************************************************)
CONSTANT Tasks

VARIABLES
  stage,    \* how far each task is
  faulted   \* the tasks a fault has hit

pathVars == <<stage, faulted>>

\* The stage that follows each stage a task may leave.
After ==
  [unsubmitted |-> "submitted", submitted |-> "waiting", waiting |-> "taken",
   taken |-> "working", working |-> "judged", judged |-> "ended"]

PathInit == stage = [t \in Tasks |-> "unsubmitted"] /\ faulted = {}

\* A fault may hit the task and leave it on its path.
Pass(t) ==
  /\ stage[t] \in DOMAIN After
  /\ stage' = [stage EXCEPT ![t] = After[stage[t]]]
  /\ faulted' \in {faulted, faulted \cup {t}}

Lose(t) ==
  /\ stage[t] \in DOMAIN After
  /\ stage' = [stage EXCEPT ![t] = "lost"]
  /\ faulted' = faulted \cup {t}

PathNext == \E t \in Tasks : Pass(t) \/ Lose(t)

PathSpec == PathInit /\ [][PathNext]_pathVars
=============================================================================
