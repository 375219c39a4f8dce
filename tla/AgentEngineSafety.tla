------------------------- MODULE AgentEngineSafety -------------------------
(***************************************************************************)
(* The safety properties of AgentEngine, for every plan, approval policy   *)
(* and budget, and any number of crashes, interruptions, lost writes and   *)
(* resumptions.                                                            *)
(***************************************************************************)
EXTENDS AgentEngineTypes

(* A step in progress belongs to the batch, and a batch to pc = "batch".   *)
LEMMA InBatch ==
  ASSUME TypeOK, BatchInv, NEW s \in Steps,
         phase[s] \in {"selecting", "selected", "calling", "gated"}
  PROVE  s \in batch /\ pc = "batch" /\ plan \in Plans
BY DEF BatchInv, TypeOK

LEMMA NextInBatch ==
  ASSUME TypeOK, BatchInv, NEW s \in Steps, NextResult(s)
  PROVE  s \in batch /\ pc = "batch" /\ plan \in Plans
BY DEF BatchInv, TypeOK, NextResult

LEMMA LeaveBatch == Leave => BatchInv'
BY DEF Leave, BatchInv, NoPhase

(* Taking a result off the batch concerns no other step.                   *)
LEMMA ProcessBatch ==
  ASSUME TypeOK, BatchInv, NEW s \in Steps, NEW state \in StepState,
         NextResult(s), phase[s] # "gated", Process(s, state)
  PROVE  BatchInv'
<1>1. s \in batch /\ pc = "batch"
  BY NextInBatch
<1>2. \A t \in Steps \ {s} : plan'[t] = plan[t]
  BY DEF Process, TypeOK, Plans
<1> QED BY <1>1, <1>2 DEF Process, BatchInv, TypeOK, NextResult, Finished

LEMMA BatchStepAction ==
  ASSUME TypeOK, BatchInv, NEW s \in Steps, StepAction(s)
  PROVE  BatchInv'
<1>0. plan[s] \in StepState
  BY DEF TypeOK, Plans
<1>1. CASE SelectAgent(s)
  <2>1. \A t \in Steps : plan'[t].st = plan[t].st
    BY <1>1 DEF SelectAgent, TypeOK, Plans, StepState
  <2> QED BY <1>1, <2>1, InBatch DEF SelectAgent, BatchInv, TypeOK
<1>2. CASE CallUngated(s)
  BY <1>2, InBatch DEF CallUngated, StartCall, BatchInv, TypeOK
<1>3. CASE CallApproved(s)
  <2>1. \A t \in Steps : plan'[t].st = plan[t].st
    BY <1>3 DEF CallApproved, TypeOK, Plans, StepState
  <2> QED BY <1>3, <2>1, InBatch DEF CallApproved, StartCall, BatchInv, TypeOK
<1>4. CASE RaiseGate(s)
  <2>1. /\ plan'[s].st = "waiting_approval"
        /\ \A t \in Steps \ {s} : plan'[t] = plan[t]
    BY <1>4 DEF RaiseGate, TypeOK, Plans, StepState
  <2> QED BY <1>4, <2>1, InBatch DEF RaiseGate, BatchInv, TypeOK
<1>5. CASE GateUnavailable(s)
  BY <1>5, InBatch DEF GateUnavailable, BatchInv, TypeOK
<1>6. CASE CallReturns(s)
  BY <1>6, InBatch DEF CallReturns, BatchInv, TypeOK
<1>7. CASE ProcessCompleted(s)
  BY <1>0, <1>7, ProcessBatch, StepEdit DEF ProcessCompleted, StepStatuses
<1>8. CASE ProcessPaused(s)
  BY <1>8, LeaveBatch DEF ProcessPaused
<1>9. CASE ProcessRetry(s)
  BY <1>0, <1>9, ProcessBatch, StepEdit DEF ProcessRetry, Failed
<1>10. CASE ProcessSwitch(s)
  <2>1. PICK a \in Agents :
          Process(s, [plan[s] EXCEPT !.st = "pending", !.retries = 0, !.switches = @ + 1,
                                     !.agent = a])
    BY <1>10, AgentsAssumption DEF ProcessSwitch, OtherAgents
  <2> QED BY <1>0, <1>10, <2>1, ProcessBatch, StepEdit DEF ProcessSwitch, Failed
<1>11. CASE ProcessTerminate(s)
  BY <1>11, LeaveBatch DEF ProcessTerminate, Finish
<1> QED
  BY <1>1, <1>2, <1>3, <1>4, <1>5, <1>6, <1>7, <1>8, <1>9, <1>10, <1>11 DEF StepAction

LEMMA BatchOtherAction ==
  ASSUME TypeOK, BatchInv, RunAction \/ ResumeAction \/ EnvironmentAction
  PROVE  BatchInv'
<1>1. ASSUME pc # "batch", pc' # "batch", UNCHANGED <<batch, phase>> PROVE BatchInv'
  BY <1>1 DEF BatchInv, NoPhase
<1>2. CASE StartRun \/ BeginExecution \/ BeginVerification \/ BeginReplan \/ Replan
  BY <1>1, <1>2
  DEF StartRun, BeginExecution, BeginVerification, BeginReplan, Finds, Replan
<1>3. CASE \/ CancelPlanned \/ ObserveCancel \/ ObserveTimeout \/ PauseForGates
           \/ VerdictPass \/ VerdictRejected \/ VerdictFailed \/ Interrupt \/ Crash
  BY <1>3, LeaveBatch
  DEF CancelPlanned, ObserveCancel, ObserveTimeout, PauseForGates, VerdictPass,
      VerdictRejected, VerdictFailed, Finish, Interrupt, Crash
<1>4. CASE Dispatch
  <2>1. \A s \in Runnable(plan) : s \in Steps /\ plan[s].st = "pending"
    BY DEF Runnable, StepsIn
  <2> QED BY <1>4, <2>1 DEF Dispatch, BatchInv
<1>5. CASE FinishBatch
  BY <1>5 DEF FinishBatch, BatchInv, NoPhase
<1>6. CASE ResumeAction
  <2>1. pc = "idle" /\ pc' # "batch" /\ UNCHANGED <<batch, phase>>
    BY <1>6
    DEF ResumeAction, ResumeRefused, ResumeContinue, ResumeRejected, ResumeDecideRaises,
        ResumeStillWaiting, ResumeUnlocked, ResumePaused, Resume, Reenter, NotResumed, driver
  <2> QED BY <1>1, <2>1
<1>7. CASE RequestCancel \/ \E g \in DOMAIN approvals : Decide(g)
  BY <1>7 DEF RequestCancel, Decide, driver, BatchInv, NoPhase
<1> QED BY <1>2, <1>3, <1>4, <1>5, <1>6, <1>7 DEF RunAction, EnvironmentAction

LEMMA BatchCorrect == Spec => []BatchInv
<1>1. Init => BatchInv
  BY DEF Init, BatchInv, NoPhase
<1>2. TypeOK /\ BatchInv /\ UNCHANGED vars => BatchInv'
  BY DEF BatchInv, NoPhase, vars, driver
<1>3. TypeOK /\ BatchInv /\ [Next]_vars => BatchInv'
  BY <1>2, BatchStepAction, BatchOtherAction DEF Next
<1> QED BY <1>1, <1>3, TypeCorrect, PTL DEF Spec

-----------------------------------------------------------------------------
LEMMA StatusStepAction ==
  ASSUME TypeOK, BatchInv, StatusInv, NEW s \in Steps, StepAction(s)
  PROVE  StatusInv'
<1>1. CASE RaiseGate(s)
  BY <1>1, InBatch DEF RaiseGate, StatusInv, TypeOK
<1>2. CASE ProcessPaused(s) \/ ProcessTerminate(s)
  BY <1>2 DEF ProcessPaused, ProcessTerminate, Finish, Leave, StatusInv
<1>3. CASE SelectAgent(s) \/ CallUngated(s) \/ CallApproved(s) \/ GateUnavailable(s)
           \/ CallReturns(s)
  <2>1. /\ pc = "batch" /\ UNCHANGED <<pc, status>>
        /\ \A t \in Steps : phase[t] = "gated" => phase'[t] = "gated"
    BY <1>3, InBatch
    DEF SelectAgent, CallUngated, CallApproved, StartCall, GateUnavailable, CallReturns, TypeOK
  <2> QED BY <2>1 DEF StatusInv
<1>4. CASE ProcessCompleted(s) \/ ProcessRetry(s) \/ ProcessSwitch(s)
  BY <1>4 DEF ProcessCompleted, ProcessRetry, ProcessSwitch, Process, StatusInv
<1> QED BY <1>1, <1>2, <1>3, <1>4 DEF StepAction

LEMMA StatusOtherAction ==
  ASSUME TypeOK, BatchInv, StatusInv, RunAction \/ ResumeAction \/ EnvironmentAction
  PROVE  StatusInv'
<1>1. CASE \/ CancelPlanned \/ ObserveCancel \/ ObserveTimeout \/ PauseForGates
           \/ VerdictPass \/ VerdictRejected \/ VerdictFailed \/ Interrupt \/ Crash
  BY <1>1
  DEF CancelPlanned, ObserveCancel, ObserveTimeout, PauseForGates, VerdictPass,
      VerdictRejected, VerdictFailed, Finish, Interrupt, Crash, Leave, StatusInv
<1>2. CASE StartRun \/ BeginExecution \/ BeginVerification \/ BeginReplan \/ Replan
  BY <1>2
  DEF StartRun, BeginExecution, BeginVerification, BeginReplan, Replan, StatusInv
<1>3. CASE Dispatch
  BY <1>3 DEF Dispatch, AtLoopTop, StatusInv
<1>4. CASE FinishBatch
  <2>1. \A s \in Steps : phase[s] # "gated"
    BY <1>4 DEF FinishBatch, BatchInv
  <2> QED BY <1>4, <2>1 DEF FinishBatch, StatusInv
<1>5. CASE ResumeAction
  <2>1. \/ pc' = "idle"
        \/ pc' = "top" /\ status' = "executing"
    BY <1>5
    DEF ResumeAction, ResumeRefused, ResumeContinue, ResumeRejected, ResumeDecideRaises,
        ResumeStillWaiting, ResumeUnlocked, ResumePaused, Resume, Reenter, NotResumed, driver
  <2> QED BY <2>1 DEF StatusInv
<1>6. CASE RequestCancel \/ \E g \in DOMAIN approvals : Decide(g)
  BY <1>6 DEF RequestCancel, Decide, driver, StatusInv
<1> QED BY <1>1, <1>2, <1>3, <1>4, <1>5, <1>6 DEF RunAction, EnvironmentAction

LEMMA StatusCorrect == Spec => []StatusInv
<1>1. Init => StatusInv
  BY DEF Init, StatusInv
<1>2. StatusInv /\ UNCHANGED vars => StatusInv'
  BY DEF StatusInv, vars, driver
<1>3. TypeOK /\ BatchInv /\ StatusInv /\ [Next]_vars => StatusInv'
  BY <1>2, StatusStepAction, StatusOtherAction DEF Next
<1> QED BY <1>1, <1>3, TypeCorrect, BatchCorrect, PTL DEF Spec

-----------------------------------------------------------------------------
LEMMA SaneFresh == Sane(FreshPlan)
BY DEF Sane, FreshPlan, FreshStep

LEMMA SaneReplanned == \A p \in Plans : Sane(Replanned(p))
<1>1. TAKE p \in Plans
<1>2. \A s \in Steps : Replanned(p)[s].st \in {"completed", "pending"}
  BY DEF Replanned, FreshStep, Plans, StepState
<1> QED BY <1>2 DEF Sane

LEMMA SaneUnlocked ==
  ASSUME TypeOK, Sane(Loaded.plan), NEW approved \in BOOLEAN
  PROVE  Sane(UnlockedPlan(approved))
<1>1. \A s \in Steps : \/ UnlockedPlan(approved)[s].st = "pending"
                       \/ UnlockedPlan(approved)[s] = Loaded.plan[s]
  BY LoadedType DEF UnlockedPlan, Checkpoints, Plans, StepState
<1> QED BY <1>1 DEF Sane

(* Saving a sane plan keeps both stored copies sane.                       *)
LEMMA SaneSave ==
  ASSUME NEW st, NEW p, Sane(p), Sane(memory.plan), Sane(redis.plan), SaveCheckpoint(st, p)
  PROVE  Sane(memory'.plan) /\ Sane(redis'.plan)
BY DEF SaveCheckpoint, Checkpoint

LEMMA PlanFinish ==
  ASSUME PlanInv, NEW st, Finish(st)
  PROVE  PlanInv'
BY SaneSave DEF PlanInv, Finish, Leave

(* Selecting an agent changes nothing else of the plan.                    *)
LEMMA SelectKeeps ==
  ASSUME TypeOK, NEW s \in Steps, SelectAgent(s)
  PROVE  \A t \in Steps : plan'[t].st = plan[t].st /\ plan'[t].gate = plan[t].gate
<1>1. PICK a : plan' = [plan EXCEPT ![s] = [plan[s] EXCEPT !.agent = a]]
  BY DEF SelectAgent
<1>2. /\ [plan[s] EXCEPT !.agent = a].st = plan[s].st
      /\ [plan[s] EXCEPT !.agent = a].gate = plan[s].gate
  BY DEF TypeOK, Plans, StepState
<1> QED BY <1>1, <1>2 DEF TypeOK, Plans

LEMMA PlanStepAction ==
  ASSUME TypeOK, BatchInv, PlanInv, NEW s \in Steps, StepAction(s)
  PROVE  PlanInv'
<1>0. /\ plan[s] \in StepState /\ plan \in Plans
  BY DEF TypeOK, Plans
<1>1. ASSUME pc = "batch", UNCHANGED <<pc, dumped, memory, redis>>, Sane(plan') PROVE PlanInv'
  BY <1>1 DEF PlanInv
<1>2. CASE SelectAgent(s)
  <2>1. \A t \in Steps : plan'[t].st = plan[t].st /\ plan'[t].gate = plan[t].gate
    BY <1>2, SelectKeeps
  <2>2. Sane(plan')
    BY <1>2, <2>1, InBatch DEF PlanInv, Sane, SelectAgent
  <2> QED BY <1>1, <1>2, <2>2, InBatch DEF SelectAgent, store
<1>3. CASE CallUngated(s)
  BY <1>1, <1>3, InBatch DEF CallUngated, StartCall, store, PlanInv
<1>4. CASE CallApproved(s)
  <2>1. /\ plan'[s].st = plan[s].st /\ plan[s].st = "pending"
        /\ \A t \in Steps \ {s} : plan'[t] = plan[t]
    BY <1>4, InBatch DEF CallApproved, TypeOK, Plans, StepState, BatchInv
  <2>2. Sane(plan')
    BY <1>4, <2>1, InBatch DEF PlanInv, Sane, CallApproved
  <2> QED BY <1>1, <1>4, <2>2, InBatch DEF CallApproved, StartCall, store
<1>5. CASE RaiseGate(s)
  <2>1. Len(approvals) + 1 # 0
    BY DEF TypeOK
  <2>2. /\ plan'[s].st = "waiting_approval" /\ plan'[s].gate # 0
        /\ \A t \in Steps \ {s} : plan'[t] = plan[t]
    BY <1>5, <2>1 DEF RaiseGate, TypeOK, Plans, StepState
  <2>3. Sane(plan')
    BY <1>5, <2>2, InBatch DEF PlanInv, Sane, RaiseGate
  <2> QED BY <1>1, <1>5, <2>3, InBatch DEF RaiseGate, store
<1>6. CASE GateUnavailable(s)
  BY <1>1, <1>6, InBatch DEF GateUnavailable, store, PlanInv
<1>7. CASE CallReturns(s)
  BY <1>1, <1>7, InBatch DEF CallReturns, store, PlanInv
<1>8. ASSUME NextResult(s), NEW state \in StepState, Process(s, state),
             state.st \in {"completed", "pending"}
      PROVE  PlanInv'
  <2>1. plan'[s] = state /\ \A t \in Steps \ {s} : plan'[t] = plan[t]
    BY <1>8 DEF Process, TypeOK, Plans
  <2>2. Sane(plan')
    BY <1>8, <2>1, NextInBatch DEF PlanInv, Sane
  <2> QED BY <1>1, <1>8, <2>2, NextInBatch DEF Process, store
<1>9. CASE ProcessCompleted(s)
  <2>1. [plan[s] EXCEPT !.st = "completed"].st = "completed"
    BY <1>0 DEF StepState
  <2> QED BY <1>0, <1>8, <1>9, <2>1, StepEdit DEF ProcessCompleted, StepStatuses
<1>10. CASE ProcessPaused(s)
  <2>1. Sane(plan)
    BY <1>10, NextInBatch DEF ProcessPaused, PlanInv
  <2> QED BY <1>10, <2>1, SaneSave DEF ProcessPaused, PlanInv, Leave
<1>11. CASE ProcessRetry(s)
  <2>1. [plan[s] EXCEPT !.st = "pending", !.retries = @ + 1].st = "pending"
    BY <1>0 DEF StepState
  <2> QED BY <1>0, <1>8, <1>11, <2>1, StepEdit DEF ProcessRetry, Failed
<1>12. CASE ProcessSwitch(s)
  <2>1. PICK a \in Agents :
          Process(s, [plan[s] EXCEPT !.st = "pending", !.retries = 0, !.switches = @ + 1,
                                     !.agent = a])
    BY <1>12, AgentsAssumption DEF ProcessSwitch, OtherAgents
  <2>2. [plan[s] EXCEPT !.st = "pending", !.retries = 0, !.switches = @ + 1,
                        !.agent = a].st = "pending"
    BY <1>0 DEF StepState
  <2> QED BY <1>0, <1>8, <1>12, <2>1, <2>2, StepEdit DEF ProcessSwitch, Failed
<1>13. CASE ProcessTerminate(s)
  BY <1>13, PlanFinish DEF ProcessTerminate
<1> QED
  BY <1>2, <1>3, <1>4, <1>5, <1>6, <1>7, <1>9, <1>10, <1>11, <1>12, <1>13 DEF StepAction

LEMMA PlanRunAction ==
  ASSUME TypeOK, BatchInv, PlanInv, RunAction
  PROVE  PlanInv'
<1>1. CASE StartRun \/ BeginVerification \/ BeginReplan
  BY <1>1 DEF StartRun, BeginVerification, BeginReplan, Finds, store, PlanInv
<1>2. CASE \/ CancelPlanned \/ ObserveCancel \/ ObserveTimeout
           \/ VerdictPass \/ VerdictRejected \/ VerdictFailed
  BY <1>2, PlanFinish
  DEF CancelPlanned, ObserveCancel, ObserveTimeout, VerdictPass, VerdictRejected, VerdictFailed
<1>3. CASE BeginExecution
  BY <1>3, SaneSave DEF BeginExecution, PlanInv
<1>4. CASE PauseForGates
  BY <1>4, SaneSave DEF PauseForGates, AtLoopTop, Leave, PlanInv
<1>5. CASE Dispatch
  BY <1>5 DEF Dispatch, AtLoopTop, store, PlanInv
<1>6. CASE FinishBatch
  BY <1>6, SaneSave DEF FinishBatch, PlanInv
<1>7. CASE Replan
  <2>1. Sane(Replanned(plan))
    BY SaneReplanned DEF TypeOK
  <2> QED BY <1>7, <2>1, SaneSave DEF Replan, PlanInv
<1> QED BY <1>1, <1>2, <1>3, <1>4, <1>5, <1>6, <1>7 DEF RunAction

LEMMA PlanOtherAction ==
  ASSUME TypeOK, BatchInv, PlanInv, ResumeAction \/ EnvironmentAction
  PROVE  PlanInv'
<1>0. Sane(Loaded.plan)
  BY DEF PlanInv, Loaded
<1>1. ASSUME Resume, NotResumed PROVE PlanInv'
  BY <1>0, <1>1 DEF Resume, NotResumed, driver, PlanInv
<1>2. CASE ResumeRefused \/ ResumeDecideRaises
           \/ \E approved \in BOOLEAN : ResumeStillWaiting(approved)
  BY <1>1, <1>2 DEF ResumeRefused, ResumeDecideRaises, ResumeStillWaiting, ResumePaused
<1>3. CASE ResumeContinue
  BY <1>0, <1>3 DEF ResumeContinue, Reenter, PlanInv
<1>4. CASE ResumeRejected
  <2>1. Sane(memory'.plan) /\ Sane(redis'.plan)
    BY <1>0, <1>4, SaneSave DEF ResumeRejected, PlanInv
  <2> QED BY <1>0, <1>4, <2>1 DEF ResumeRejected, ResumePaused, Resume, PlanInv
<1>5. ASSUME NEW approved \in BOOLEAN, ResumeUnlocked(approved) PROVE PlanInv'
  <2>1. Sane(UnlockedPlan(approved))
    BY <1>0, SaneUnlocked
  <2> QED BY <1>5, <2>1, SaneSave DEF ResumeUnlocked, Reenter, PlanInv
<1>6. CASE RequestCancel \/ \E g \in DOMAIN approvals : Decide(g)
  BY <1>6 DEF RequestCancel, Decide, driver, store, PlanInv
<1>7. CASE Interrupt
  BY <1>7 DEF Interrupt, Leave, store, PlanInv
<1>8. CASE Crash
  <2>1. Sane(NoCheckpoint.plan)
    BY SaneFresh DEF NoCheckpoint, Checkpoint
  <2> QED BY <1>8, <2>1 DEF Crash, Leave, PlanInv
<1> QED
  BY <1>2, <1>3, <1>4, <1>5, <1>6, <1>7, <1>8 DEF ResumeAction, EnvironmentAction

LEMMA PlanCorrect == Spec => []PlanInv
<1>1. Init => PlanInv
  BY SaneFresh DEF Init, PlanInv, NoCheckpoint, Checkpoint
<1>2. PlanInv /\ UNCHANGED vars => PlanInv'
  BY DEF PlanInv, vars, driver, store
<1>3. TypeOK /\ BatchInv /\ PlanInv /\ [Next]_vars => PlanInv'
  BY <1>2, PlanStepAction, PlanRunAction, PlanOtherAction DEF Next
<1> QED BY <1>1, <1>3, TypeCorrect, BatchCorrect, PTL DEF Spec

-----------------------------------------------------------------------------
(* Only two actions call a tool or a model, each for its own step.         *)
LEMMA CallsKept ==
  ASSUME Next
  PROVE  UNCHANGED calls \/ \E s \in Steps : CallUngated(s) \/ CallApproved(s)
<1>1. CASE \E s \in Steps : StepAction(s)
  BY <1>1
  DEF StepAction, SelectAgent, RaiseGate, GateUnavailable, CallReturns, ProcessCompleted,
      ProcessPaused, ProcessRetry, ProcessSwitch, ProcessTerminate, Process, Finish
<1>2. CASE RunAction
  BY <1>2
  DEF RunAction, StartRun, CancelPlanned, BeginExecution, ObserveCancel, ObserveTimeout,
      PauseForGates, Dispatch, FinishBatch, BeginVerification, VerdictPass, VerdictRejected,
      VerdictFailed, BeginReplan, Replan, Finish
<1>3. CASE ResumeAction
  BY <1>3
  DEF ResumeAction, ResumeRefused, ResumeContinue, ResumeRejected, ResumeDecideRaises,
      ResumeStillWaiting, ResumeUnlocked, Reenter, NotResumed
<1>4. CASE EnvironmentAction
  BY <1>4 DEF EnvironmentAction, RequestCancel, Decide, Interrupt, Crash
<1> QED BY <1>1, <1>2, <1>3, <1>4 DEF Next

(* What a step's action does to the set of completed steps of the live     *)
(* plan: it only grows, by the step itself.                                *)
LEMMA CompletedGrows ==
  ASSUME TypeOK, BatchInv, NEW s \in Steps, StepAction(s)
  PROVE  /\ Completed(plan) \subseteq Completed(plan')
         /\ Completed(plan') \subseteq Completed(plan) \cup {s}
         /\ ~ProcessCompleted(s) => Completed(plan') = Completed(plan)
<1>0. /\ plan[s] \in StepState /\ plan \in Plans
  BY DEF TypeOK, Plans
<1>1. ASSUME \A t \in Steps : plan'[t].st = plan[t].st
      PROVE  Completed(plan') = Completed(plan)
  BY <1>1 DEF Completed, StepsIn
<1>2. ASSUME NEW state, plan' = [plan EXCEPT ![s] = state]
      PROVE  /\ Completed(plan) \ {s} \subseteq Completed(plan')
             /\ Completed(plan') \subseteq Completed(plan) \cup {s}
             /\ s \notin Completed(plan) /\ state.st # "completed"
                  => Completed(plan') = Completed(plan)
  BY <1>0, <1>2 DEF Completed, StepsIn, Plans
<1>3. CASE SelectAgent(s)
  BY <1>1, <1>3, SelectKeeps
<1>4. CASE CallApproved(s)
  <2>1. s \notin Completed(plan)
    BY <1>4, InBatch DEF CallApproved, BatchInv, Completed, StepsIn
  <2>2. [plan[s] EXCEPT !.gate = 0].st # "completed"
    BY <1>0, <2>1 DEF Completed, StepsIn, StepState
  <2> QED BY <1>2, <1>4, <2>1, <2>2 DEF CallApproved
<1>5. CASE RaiseGate(s)
  <2>1. s \notin Completed(plan)
    BY <1>5, InBatch DEF RaiseGate, BatchInv, Completed, StepsIn
  <2>2. /\ plan'[s].st = "waiting_approval"
        /\ \A t \in Steps \ {s} : plan'[t] = plan[t]
    BY <1>5 DEF RaiseGate, TypeOK, Plans, StepState
  <2> QED BY <1>5, <2>1, <2>2 DEF RaiseGate, ProcessCompleted, Completed, StepsIn, Finished
<1>6. CASE CallUngated(s) \/ GateUnavailable(s) \/ CallReturns(s) \/ ProcessPaused(s)
  BY <1>6 DEF CallUngated, GateUnavailable, CallReturns, ProcessPaused
<1>7. ASSUME NextResult(s) PROVE s \notin Completed(plan)
  BY <1>7, NextInBatch DEF BatchInv, Completed, StepsIn
<1>8. CASE ProcessCompleted(s)
  BY <1>2, <1>7, <1>8 DEF ProcessCompleted, Process
<1>9. CASE ProcessRetry(s)
  <2>1. [plan[s] EXCEPT !.st = "pending", !.retries = @ + 1].st # "completed"
    BY <1>0 DEF StepState
  <2> QED BY <1>2, <1>7, <1>9, <2>1 DEF ProcessRetry, Failed, Process
<1>10. CASE ProcessSwitch(s)
  <2>1. PICK a \in Agents :
          Process(s, [plan[s] EXCEPT !.st = "pending", !.retries = 0, !.switches = @ + 1,
                                     !.agent = a])
    BY <1>10, AgentsAssumption DEF ProcessSwitch, OtherAgents
  <2>2. [plan[s] EXCEPT !.st = "pending", !.retries = 0, !.switches = @ + 1,
                        !.agent = a].st # "completed"
    BY <1>0 DEF StepState
  <2> QED BY <1>2, <1>7, <1>10, <2>1, <2>2 DEF ProcessSwitch, Failed, Process
<1>11. CASE ProcessTerminate(s)
  <2>1. [plan[s] EXCEPT !.st = "failed"].st # "completed"
    BY <1>0 DEF StepState
  <2> QED BY <1>2, <1>7, <1>11, <2>1 DEF ProcessTerminate, Failed
<1> QED
  BY <1>3, <1>4, <1>5, <1>6, <1>8, <1>9, <1>10, <1>11 DEF StepAction

(* Closedness depends on the completed steps only.                         *)
LEMMA ClosedSame ==
  ASSUME NEW p, NEW q, Closed(p), Completed(p) = Completed(q)
  PROVE  Closed(q)
BY DEF Closed, Completed

LEMMA ClosedSave ==
  ASSUME NEW st, NEW p, Closed(p), Closed(memory.plan), Closed(redis.plan),
         SaveCheckpoint(st, p)
  PROVE  Closed(memory'.plan) /\ Closed(redis'.plan)
BY DEF SaveCheckpoint, Checkpoint

LEMMA ClosedFresh == Closed(FreshPlan)
BY DEF Closed, StepsIn, FreshPlan, FreshStep

Started == \A s \in Steps : phase[s] # "none" => Deps[s] \subseteq StepsIn(plan, "completed")

LEMMA DependencyParts ==
  DependenciesRespected <=> /\ Started
                            /\ Closed(plan) /\ Closed(dumped)
                            /\ Closed(memory.plan) /\ Closed(redis.plan)
BY DEF DependenciesRespected, Started, PlanCopies

LEMMA LeaveStarted == Leave => Started'
BY DEF Leave, NoPhase, Started

LEMMA DependencyFinish ==
  ASSUME DependenciesRespected, NEW st, Finish(st), Closed(plan')
  PROVE  DependenciesRespected'
BY DependencyParts, LeaveStarted, ClosedSave DEF Finish, DependenciesRespected, Started, PlanCopies

LEMMA DependencyStepAction ==
  ASSUME TypeOK, BatchInv, DependenciesRespected, NEW s \in Steps, StepAction(s)
  PROVE  DependenciesRespected'
<1>0. /\ Started /\ Closed(plan) /\ Closed(dumped) /\ Closed(memory.plan) /\ Closed(redis.plan)
  BY DependencyParts
<1>1. Closed(plan')
  <2>1. CASE ~ProcessCompleted(s)
    BY <1>0, <2>1, CompletedGrows, ClosedSame
  <2>2. CASE ProcessCompleted(s)
    <3>1. Deps[s] \subseteq Completed(plan)
      BY <1>0, <2>2 DEF ProcessCompleted, Started, Completed
    <3> QED BY <1>0, <3>1, CompletedGrows DEF Closed, Completed
  <2> QED BY <2>1, <2>2
<1>2. CASE ProcessPaused(s)
  <2>1. Started'
    BY <1>2, LeaveStarted DEF ProcessPaused
  <2>2. Closed(memory'.plan) /\ Closed(redis'.plan) /\ Closed(dumped')
    BY <1>0, <1>2, ClosedSave DEF ProcessPaused
  <2> QED BY <1>1, <2>1, <2>2 DEF DependenciesRespected, Started, PlanCopies
<1>3. CASE ProcessTerminate(s)
  BY <1>1, <1>3, DependencyFinish DEF ProcessTerminate
<1>4. CASE ~ProcessPaused(s) /\ ~ProcessTerminate(s)
  <2>1. UNCHANGED <<dumped, memory, redis>>
    BY <1>4
    DEF StepAction, SelectAgent, CallUngated, CallApproved, StartCall, RaiseGate,
        GateUnavailable, CallReturns, ProcessCompleted, ProcessRetry, ProcessSwitch, Process,
        store
  <2>2. \A t \in Steps : phase'[t] # "none" => phase[t] # "none"
    BY <1>4
    DEF StepAction, SelectAgent, CallUngated, CallApproved, StartCall, RaiseGate,
        GateUnavailable, CallReturns, ProcessCompleted, ProcessRetry, ProcessSwitch, Process,
        TypeOK
  <2>3. Started'
    BY <1>0, <2>2, CompletedGrows DEF Started, Completed
  <2> QED BY <1>0, <1>1, <2>1, <2>3 DEF DependenciesRespected, Started, PlanCopies
<1> QED BY <1>2, <1>3, <1>4

LEMMA DependencyRunAction ==
  ASSUME TypeOK, BatchInv, DependenciesRespected, RunAction
  PROVE  DependenciesRespected'
<1>0. /\ Started /\ Closed(plan) /\ Closed(dumped) /\ Closed(memory.plan) /\ Closed(redis.plan)
  BY DependencyParts
<1>1. CASE StartRun \/ BeginVerification \/ BeginReplan
  BY <1>0, <1>1
  DEF StartRun, BeginVerification, BeginReplan, Finds, store, DependenciesRespected, PlanCopies
<1>2. CASE \/ CancelPlanned \/ ObserveCancel \/ ObserveTimeout
           \/ VerdictPass \/ VerdictRejected \/ VerdictFailed
  BY <1>0, <1>2, DependencyFinish
  DEF CancelPlanned, ObserveCancel, ObserveTimeout, VerdictPass, VerdictRejected, VerdictFailed
<1>3. CASE BeginExecution
  <2>1. Closed(memory'.plan) /\ Closed(redis'.plan)
    BY <1>0, <1>3, ClosedSave DEF BeginExecution
  <2> QED BY <1>0, <1>3, <2>1 DEF BeginExecution, DependenciesRespected, Started, PlanCopies
<1>4. CASE PauseForGates
  <2>1. Closed(memory'.plan) /\ Closed(redis'.plan)
    BY <1>0, <1>4, ClosedSave DEF PauseForGates
  <2> QED
    BY <1>0, <1>4, <2>1, LeaveStarted
    DEF PauseForGates, DependenciesRespected, Started, PlanCopies
<1>5. CASE Dispatch
  <2>1. \A s \in Steps : phase'[s] # "none" => Deps[s] \subseteq StepsIn(plan, "completed")
    BY <1>5 DEF Dispatch, Runnable
  <2> QED BY <1>0, <1>5, <2>1 DEF Dispatch, store, DependenciesRespected, PlanCopies
<1>6. CASE FinishBatch
  <2>1. Closed(memory'.plan) /\ Closed(redis'.plan)
    BY <1>0, <1>6, ClosedSave DEF FinishBatch
  <2> QED BY <1>0, <1>6, <2>1 DEF FinishBatch, NoPhase, DependenciesRespected, PlanCopies
<1>7. CASE Replan
  <2>1. Closed(Replanned(plan))
    BY <1>0, ReplannedType, ClosedSame DEF TypeOK
  <2>2. Closed(memory'.plan) /\ Closed(redis'.plan)
    BY <1>0, <1>7, <2>1, ClosedSave DEF Replan
  <2>3. phase' = NoPhase
    BY <1>7 DEF Replan, BatchInv
  <2> QED BY <1>7, <2>1, <2>2, <2>3 DEF Replan, NoPhase, DependenciesRespected, PlanCopies
<1> QED BY <1>1, <1>2, <1>3, <1>4, <1>5, <1>6, <1>7 DEF RunAction

LEMMA DependencyOtherAction ==
  ASSUME TypeOK, BatchInv, DependenciesRespected, ResumeAction \/ EnvironmentAction
  PROVE  DependenciesRespected'
<1>0. /\ Started /\ Closed(plan) /\ Closed(dumped) /\ Closed(memory.plan) /\ Closed(redis.plan)
      /\ Closed(Loaded.plan)
  BY DependencyParts DEF Loaded
<1>1. ASSUME Resume, NotResumed PROVE DependenciesRespected'
  BY <1>0, <1>1 DEF Resume, NotResumed, driver, DependenciesRespected, PlanCopies
<1>2. CASE ResumeRefused \/ ResumeDecideRaises
           \/ \E approved \in BOOLEAN : ResumeStillWaiting(approved)
  BY <1>1, <1>2 DEF ResumeRefused, ResumeDecideRaises, ResumeStillWaiting, ResumePaused
<1>3. ASSUME Resume PROVE phase = NoPhase
  BY <1>3 DEF Resume, BatchInv
<1>4. CASE ResumeContinue
  BY <1>0, <1>3, <1>4
  DEF ResumeContinue, Reenter, NoPhase, DependenciesRespected, PlanCopies
<1>5. CASE ResumeRejected
  <2>1. Closed(memory'.plan) /\ Closed(redis'.plan)
    BY <1>0, <1>5, ClosedSave DEF ResumeRejected
  <2> QED BY <1>0, <1>5, <2>1 DEF ResumeRejected, DependenciesRespected, PlanCopies
<1>6. ASSUME NEW approved \in BOOLEAN, ResumeUnlocked(approved) PROVE DependenciesRespected'
  <2>1. Closed(UnlockedPlan(approved))
    BY <1>0, UnlockedPlanType, ClosedSame
  <2>2. Closed(memory'.plan) /\ Closed(redis'.plan)
    BY <1>0, <1>6, <2>1, ClosedSave DEF ResumeUnlocked
  <2>3. plan' = UnlockedPlan(approved) /\ dumped' = UnlockedPlan(approved) /\ phase' = NoPhase
    BY <1>3, <1>6 DEF ResumeUnlocked, ResumePaused, Reenter
  <2> QED BY <2>1, <2>2, <2>3 DEF NoPhase, DependenciesRespected, PlanCopies
<1>7. CASE RequestCancel \/ \E g \in DOMAIN approvals : Decide(g)
  BY <1>0, <1>7 DEF RequestCancel, Decide, driver, store, DependenciesRespected, PlanCopies
<1>8. CASE Interrupt \/ Crash
  <2>1. Closed(NoCheckpoint.plan)
    BY ClosedFresh DEF NoCheckpoint, Checkpoint
  <2>2. Closed(memory'.plan) /\ UNCHANGED <<plan, dumped, redis>> /\ Started'
    BY <1>0, <1>8, <2>1, LeaveStarted DEF Interrupt, Crash, store
  <2> QED BY <1>0, <2>2 DEF DependenciesRespected, Started, PlanCopies
<1> QED
  BY <1>2, <1>4, <1>5, <1>6, <1>7, <1>8 DEF ResumeAction, EnvironmentAction

(* No step is started before the steps it depends on are completed, and no *)
(* copy of the plan records otherwise, whatever the dependencies, the      *)
(* order in which concurrent steps return, and the faults.                 *)
THEOREM DependenciesRespectedCorrect == Spec => []DependenciesRespected
<1>1. Init => DependenciesRespected
  BY ClosedFresh
  DEF Init, NoPhase, DependenciesRespected, PlanCopies, NoCheckpoint, Checkpoint
<1>2. DependenciesRespected /\ UNCHANGED vars => DependenciesRespected'
  BY DEF DependenciesRespected, PlanCopies, vars, driver, store
<1>3. TypeOK /\ BatchInv /\ DependenciesRespected /\ [Next]_vars => DependenciesRespected'
  BY <1>2, DependencyStepAction, DependencyRunAction, DependencyOtherAction DEF Next
<1> QED BY <1>1, <1>3, TypeCorrect, BatchCorrect, PTL DEF Spec
=============================================================================
