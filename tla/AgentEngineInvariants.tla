----------------------- MODULE AgentEngineInvariants -----------------------
(***************************************************************************)
(* The inductive strengthening behind the safety properties of             *)
(* AgentEngine: what the engine's local variables, the run's status and    *)
(* the four copies of the plan have to do with each other between any two  *)
(* awaits.                                                                 *)
(***************************************************************************)
EXTENDS AgentEngine, FiniteSets

Driving == pc \notin {"new", "idle"}

Completed(p) == StepsIn(p, "completed")

(* The status follows the position of the generator.  In a batch the run   *)
(* is EXECUTING until a step raises a gate.                                *)
StatusInv ==
  /\ pc = "new"     => status = "created"
  /\ pc = "planned" => status = "ready"
  /\ pc = "top"     => status = "executing"
  /\ pc = "verify"  => status = "verifying"
  /\ pc = "replan"  => status = "replanning"
  /\ pc = "batch"   => \/ status = "executing"
                       \/ /\ status = "waiting_approval"
                          /\ \E s \in Steps : phase[s] = "gated"

(* Outside a batch no step is in progress.  In a batch every unfinished    *)
(* coroutine and every raised gate still has a result to be processed; the *)
(* steps to be processed are pending, or waiting at the gate they raised.  *)
BatchInv ==
  /\ pc # "batch" => batch = {} /\ phase = NoPhase
  /\ \A s \in Steps :
       phase[s] \in {"selecting", "selected", "calling", "gated"} => s \in batch
  /\ \A s \in batch :
       plan[s].st = IF phase[s] = "gated" THEN "waiting_approval" ELSE "pending"

(* A plan that is stored or driven has no FAILED step, and its waiting     *)
(* steps have a gate.                                                      *)
Sane(p) ==
  \A s \in Steps : /\ p[s].st # "failed"
                   /\ p[s].st = "waiting_approval" => p[s].gate # 0

(* Outside a batch the dump is up to date; the verifier is reached only    *)
(* with every step completed.                                              *)
PlanInv ==
  /\ pc \in {"new", "planned", "top", "verify", "replan"} => dumped = plan
  /\ pc \in {"verify", "replan"} => IsComplete(plan)
  /\ pc # "idle" => Sane(plan)
  /\ Sane(dumped) /\ Sane(memory.plan) /\ Sane(redis.plan)

(* Every gate a plan copy mentions exists and was raised for that step;    *)
(* whatever unlocks a step without asking again rests on a grant.          *)
Owns(p, table) ==
  \A s \in Steps : p[s].gate # 0 => /\ p[s].gate \in DOMAIN table
                                    /\ table[p[s].gate].step = s

GateInv ==
  /\ \A p \in PlanCopies : Owns(p, approvals)
  /\ \A g \in DOMAIN approvals :
       approvals[g].status = "APPROVED" => grants[approvals[g].step] > 0
  /\ \A s \in preApproved : grants[s] > 0

(* Completed steps accumulate from the durable checkpoint over the one a   *)
(* resumption would load, the last dump and the live plan.                 *)
ProgressInv ==
  /\ Completed(redis.plan) \subseteq Completed(Loaded.plan)
  /\ pc # "idle" => /\ Completed(Loaded.plan) \subseteq Completed(dumped)
                    /\ Completed(dumped) \subseteq Completed(plan)

(* A terminal status is durable only when nothing drives the run any more  *)
(* and a resumption would load it.                                         *)
TerminalInv ==
  redis.status \in TerminalStatuses =>
    pc = "idle" /\ memory.status \in TerminalStatuses \cup {"absent"}

(* A call of a step spends a retry or a switch of the step, or is still to *)
(* be judged, or completed it.  A generator starts with the budgets its    *)
(* checkpoint has left, and spends an allowance at the most.               *)
Allowance == (MaxRetries + 1) * (MaxSwitches + 1)

Thrifty(p) ==
  \A s \in Steps : p[s].retries <= MaxRetries /\ p[s].switches <= MaxSwitches

Spent(st) == st.switches * (MaxRetries + 1) + st.retries

Unjudged(s) == s \in batch /\ phase[s] \in {"calling", "ok", "error", "fatal"}

Latest(s) == IF Unjudged(s) \/ plan[s].st = "completed" THEN 1 ELSE 0

ThriftInv == \A p \in PlanCopies : Thrifty(p)

EffortInv ==
  \A s \in Steps :
    calls[s] <= IF pc = "idle" THEN resumes * Allowance + Allowance
                ELSE resumes * Allowance + Spent(plan[s]) + Latest(s)

-----------------------------------------------------------------------------
(* What a driven run has still to do.                                      *)

(* The calls a step has left, with the one it needs to complete.           *)
CallsLeft(st) == IF st.st = "completed" THEN 0 ELSE Allowance - Spent(st)

(* How far the coroutine of a gathered step is.                            *)
Passed(ph) ==
  CASE ph = "selecting" -> 1 [] ph = "selected" -> 2 [] ph = "calling" -> 3 [] OTHER -> 4

(* The moves of a step: each call it has left is gathered, selected,       *)
(* started and awaited, its result is processed, and the batch of it is    *)
(* finished.                                                               *)
Moves(s) ==
  IF s \in batch THEN 6 * CallsLeft(plan[s]) - Passed(phase[s])
  ELSE IF phase[s] = "none" THEN 6 * CallsLeft(plan[s])
  ELSE 6 * CallsLeft(plan[s]) + 1

(* A set with one unit for each move of each step.                         *)
MostMoves == 6 * Allowance + 1
Units(moves) == {u \in Steps \X (1..MostMoves) : u[2] <= moves[u[1]]}

RevisionLimit ==
  IF VerifierRevisions < MaxRevisions THEN VerifierRevisions ELSE MaxRevisions

(* The moves of the generator itself; a revision goes around once.         *)
PlaceOf(place, revisions) ==
  CASE place = "new"    -> 3 * revisions + 5
    [] place = "planned" -> 3 * revisions + 4
    [] place \in {"top", "batch"} -> 3 * revisions + 3
    [] place = "verify" -> 3 * revisions + 2
    [] OTHER -> 3 * revisions + 1

ToDo ==
  IF pc = "idle" THEN 0
  ELSE Cardinality(Units([s \in Steps |-> Moves(s)])) + PlaceOf(pc, RevisionLimit - revision)

(* Every step of the engine lowers a bound on the steps it has left, and   *)
(* neither operator nor client raises it: a generator that is scheduled    *)
(* runs out of steps, whatever fails and whatever the verdicts are.  Only  *)
(* a resumption, which starts another generator, grants it more.           *)
EngineAdvances ==
  [][/\ pc # "idle" => ToDo' <= ToDo
     /\ (\E s \in Steps : StepAction(s)) \/ RunAction => ToDo' < ToDo]_vars

(* In a batch a step has been gathered; the revisions are within both      *)
(* limits, and one is left when the engine replans.                        *)
Gathered == pc = "batch" => \E s \in Steps : phase[s] # "none"

RevisionsLeft ==
  revision \in 0..RevisionLimit /\ (pc = "replan" => revision < RevisionLimit)
=============================================================================
