-------------------------- MODULE AgentEngineTypes --------------------------
(***************************************************************************)
(* The type invariant of AgentEngine, for every plan, approval policy and  *)
(* budget, and what its helpers return.                                    *)
(***************************************************************************)
EXTENDS AgentEngineInvariants, SequenceTheorems, TLAPS

(* A step edited to a well-formed state leaves a well-formed plan.         *)
LEMMA PlanEdit ==
  ASSUME NEW p \in Plans, NEW s \in Steps, NEW r \in StepState
  PROVE  /\ [p EXCEPT ![s] = r] \in Plans
         /\ [p EXCEPT ![s] = r][s] = r
         /\ \A t \in Steps \ {s} : [p EXCEPT ![s] = r][t] = p[t]
BY DEF Plans

(* The fields of a step state can be written one by one.                   *)
LEMMA StepEdit ==
  ASSUME NEW r \in StepState
  PROVE  /\ \A st \in StepStatuses : [r EXCEPT !.st = st] \in StepState
         /\ \A n \in Nat : [r EXCEPT !.retries = n] \in StepState
         /\ \A g \in Nat : [r EXCEPT !.gate = g] \in StepState
         /\ \A a \in Agents : [r EXCEPT !.agent = a] \in StepState
         /\ [r EXCEPT !.st = "pending", !.retries = @ + 1] \in StepState
         /\ \A a \in Agents :
              [r EXCEPT !.st = "pending", !.retries = 0, !.switches = @ + 1, !.agent = a]
                \in StepState
<1>1. /\ r.retries + 1 \in Nat /\ r.switches + 1 \in Nat /\ 0 \in Nat
      /\ "pending" \in StepStatuses
  BY DEF StepState, StepStatuses
<1>2. [r EXCEPT !.st = "pending", !.retries = @ + 1] \in StepState
  BY <1>1 DEF StepState
<1>3. \A a \in Agents :
        [r EXCEPT !.st = "pending", !.retries = 0, !.switches = @ + 1, !.agent = a]
          \in StepState
  BY <1>1 DEF StepState
<1> QED BY <1>2, <1>3 DEF StepState

LEMMA StatusNames ==
  /\ TerminalStatuses \cup PausedStatuses \subseteq RunStatuses
  /\ {"ready", "executing", "verifying", "replanning"} \subseteq RunStatuses
BY DEF RunStatuses

LEMMA FreshPlanType == FreshStep \in StepState /\ FreshPlan \in Plans
BY DEF FreshStep, FreshPlan, StepState, StepStatuses, Plans

(* What BoundedPlanner.replan returns is a plan, and has the same steps    *)
(* completed as before and no others.                                      *)
LEMMA ReplannedType ==
  ASSUME NEW p \in Plans
  PROVE  /\ Replanned(p) \in Plans
         /\ Completed(Replanned(p)) = Completed(p)
<1>1. FreshStep \in StepState
  BY FreshPlanType
<1>2. \A s \in Steps : Replanned(p)[s] \in StepState
  <2>1. TAKE s \in Steps
  <2>2. p[s] \in StepState /\ p[s].retries + 1 \in Nat
    BY DEF Plans, StepState
  <2>3. [FreshStep EXCEPT !.retries = p[s].retries + 1] \in StepState
    BY <1>1, <2>2 DEF StepState
  <2>4. [p[s] EXCEPT !.st = "pending"] \in StepState
    BY <2>2 DEF StepState, StepStatuses
  <2> QED BY <2>2, <2>3, <2>4 DEF Replanned
<1>3. \A s \in Steps : (Replanned(p)[s].st = "completed") <=> (p[s].st = "completed")
  BY DEF Replanned, Plans, StepState, FreshStep
<1> QED BY <1>2, <1>3 DEF Replanned, Plans, Completed, StepsIn

LEMMA NoCheckpointType == NoCheckpoint \in Checkpoints
BY FreshPlanType DEF NoCheckpoint, Checkpoint, Checkpoints

LEMMA LoadedType == TypeOK => Loaded \in Checkpoints
BY DEF TypeOK, Loaded

LEMMA SaveType ==
  ASSUME TypeOK, NEW st \in RunStatuses, NEW p \in Plans, SaveCheckpoint(st, p)
  PROVE  memory' \in Checkpoints /\ redis' \in Checkpoints /\ faults' \in Nat
BY DEF TypeOK, SaveCheckpoint, Checkpoint, Checkpoints

LEMMA LeaveType ==
  ASSUME Leave
  PROVE  /\ pc' = "idle" /\ batch' \subseteq Steps /\ preApproved' \subseteq Steps
         /\ cancel' \in BOOLEAN
         /\ phase' \in [Steps -> {"none", "selecting", "selected", "calling"} \cup Finished]
BY DEF Leave, NoPhase

(* Rewriting the status of some records keeps the table well formed.       *)
LEMMA RecordsType ==
  ASSUME NEW table \in Seq(ApprovalRecords), NEW new \in [DOMAIN table -> ApprovalRecords]
  PROVE  new \in Seq(ApprovalRecords) /\ DOMAIN new = DOMAIN table
<1>1. Len(table) \in Nat /\ DOMAIN table = 1..Len(table)
  OBVIOUS
<1>2. new \in [1..Len(table) -> ApprovalRecords]
  BY <1>1
<1>3. new \in UNION {[1..n -> ApprovalRecords] : n \in Nat}
  BY <1>1, <1>2
<1>4. new \in Seq(ApprovalRecords)
  BY <1>3, SeqDef, Zenon
<1>5. DOMAIN new = DOMAIN table
  OBVIOUS
<1> QED BY <1>4, <1>5

LEMMA UnlockedPlanType ==
  ASSUME TypeOK, NEW approved \in BOOLEAN
  PROVE  /\ UnlockedPlan(approved) \in Plans
         /\ Completed(UnlockedPlan(approved)) = Completed(Loaded.plan)
<1>1. Loaded.plan \in Plans
  BY LoadedType DEF Checkpoints
<1>2. Unlocked(approved) \subseteq Waiting(Loaded.plan)
  BY DEF Unlocked, DecidedNow, LostNow, GatesIn
<1>3. \A s \in Steps :
        /\ UnlockedPlan(approved)[s] \in StepState
        /\ (UnlockedPlan(approved)[s].st = "completed") <=> (Loaded.plan[s].st = "completed")
  <2>1. TAKE s \in Steps
  <2>2. Loaded.plan[s] \in StepState
    BY <1>1 DEF Plans
  <2>3. CASE s \notin Unlocked(approved)
    BY <2>2, <2>3 DEF UnlockedPlan
  <2>4. CASE s \in Unlocked(approved)
    <3>1. Loaded.plan[s].st = "waiting_approval"
      BY <2>4, <1>2 DEF Waiting, StepsIn
    <3> DEFINE g == IF s \in LostNow(approved) THEN 0 ELSE Loaded.plan[s].gate
    <3>2. UnlockedPlan(approved)[s] = [Loaded.plan[s] EXCEPT !.st = "pending", !.gate = g]
      BY <2>4 DEF UnlockedPlan
    <3>3. g \in Nat
      BY <2>2 DEF StepState
    <3> HIDE DEF g
    <3>4. UnlockedPlan(approved)[s] \in StepState /\ UnlockedPlan(approved)[s].st = "pending"
      BY <3>2, <3>3, <2>2 DEF StepState, StepStatuses
    <3> QED BY <3>1, <3>4
  <2> QED BY <2>3, <2>4
<1> QED BY <1>3 DEF UnlockedPlan, Plans, Completed, StepsIn

-----------------------------------------------------------------------------
LEMMA TypeInit == Init => TypeOK
<1>1. << >> \in Seq(ApprovalRecords)
  BY EmptySeq, Zenon
<1>2. /\ NoPhase \in [Steps -> {"none", "selecting", "selected", "calling"} \cup Finished]
      /\ [s \in Steps |-> 0] \in [Steps -> Nat]
      /\ "created" \in RunStatuses
  BY DEF NoPhase, RunStatuses
<1> SUFFICES ASSUME Init PROVE TypeOK
  OBVIOUS
<1>3. /\ pc = "new" /\ status \in RunStatuses
      /\ batch \subseteq Steps /\ preApproved \subseteq Steps /\ cancel \in BOOLEAN
      /\ evidence = "unjudged" /\ revision \in Nat /\ faults \in Nat /\ resumes \in Nat
  BY <1>2 DEF Init
<1>4. /\ plan \in Plans /\ dumped \in Plans /\ memory \in Checkpoints /\ redis \in Checkpoints
  BY FreshPlanType, NoCheckpointType DEF Init
<1>5. /\ calls \in [Steps -> Nat] /\ grants \in [Steps -> Nat]
      /\ approvals \in Seq(ApprovalRecords)
      /\ phase \in [Steps -> {"none", "selecting", "selected", "calling"} \cup Finished]
  BY <1>1, <1>2 DEF Init
<1> QED BY <1>3, <1>4, <1>5 DEF TypeOK

LEMMA TypeStepAction ==
  ASSUME TypeOK, NEW s \in Steps, StepAction(s)
  PROVE  TypeOK'
<1> USE DEF driver, store
<1>0. plan[s] \in StepState /\ Loaded \in Checkpoints
  BY LoadedType DEF TypeOK, Plans
<1>1. CASE SelectAgent(s)
  <2>1. PICK a \in Agents : plan' = [plan EXCEPT ![s].agent = a]
    BY <1>1, AgentsAssumption DEF SelectAgent
  <2>2. plan' \in Plans
    BY <1>0, <2>1, PlanEdit, StepEdit DEF TypeOK
  <2> QED BY <1>1, <2>2 DEF SelectAgent, TypeOK, Finished
<1>2. CASE CallUngated(s)
  BY <1>2 DEF CallUngated, StartCall, TypeOK
<1>3. CASE CallApproved(s)
  <2>1. plan' \in Plans
    BY <1>0, <1>3, PlanEdit, StepEdit DEF CallApproved, TypeOK
  <2> QED BY <1>3, <2>1 DEF CallApproved, StartCall, TypeOK
<1>4. CASE RaiseGate(s)
  <2>1. Len(approvals) + 1 \in Nat
    BY DEF TypeOK
  <2>2. plan' \in Plans
    BY <1>0, <1>4, <2>1 DEF RaiseGate, TypeOK, Plans, StepState, StepStatuses
  <2>3. approvals' \in Seq(ApprovalRecords)
    BY <1>4 DEF RaiseGate, TypeOK, ApprovalRecords
  <2> QED
    BY <1>4, <2>2, <2>3 DEF RaiseGate, TypeOK, Finished, RunStatuses, PausedStatuses
<1>5. CASE GateUnavailable(s)
  BY <1>5 DEF GateUnavailable, TypeOK, Finished
<1>6. CASE CallReturns(s)
  BY <1>6 DEF CallReturns, TypeOK, Finished
<1>7. CASE ProcessCompleted(s)
  <2>1. plan' \in Plans
    BY <1>0, <1>7 DEF ProcessCompleted, Process, TypeOK, Plans, StepState, StepStatuses
  <2> QED BY <1>7, <2>1 DEF ProcessCompleted, Process, TypeOK
<1>8. CASE ProcessPaused(s)
  <2>1. "waiting_approval" \in RunStatuses
    BY DEF RunStatuses, PausedStatuses
  <2> QED BY <1>8, <2>1, LeaveType, SaveType DEF ProcessPaused, TypeOK
<1>9. CASE ProcessRetry(s)
  <2>1. plan' \in Plans
    BY <1>0, <1>9, PlanEdit, StepEdit DEF ProcessRetry, Process, TypeOK
  <2> QED BY <1>9, <2>1 DEF ProcessRetry, Process, TypeOK
<1>10. CASE ProcessSwitch(s)
  <2>1. PICK a \in Agents :
          Process(s, [plan[s] EXCEPT !.st = "pending", !.retries = 0, !.switches = @ + 1,
                                     !.agent = a])
    BY <1>10, AgentsAssumption DEF ProcessSwitch, OtherAgents
  <2>2. plan' \in Plans
    BY <1>0, <2>1, PlanEdit, StepEdit DEF Process, TypeOK
  <2> QED BY <1>10, <2>1, <2>2 DEF ProcessSwitch, Process, TypeOK
<1>11. CASE ProcessTerminate(s)
  <2>1. plan' \in Plans
    BY <1>0, <1>11 DEF ProcessTerminate, TypeOK, Plans, StepState, StepStatuses
  <2>2. "failed" \in RunStatuses /\ dumped \in Plans
    BY DEF RunStatuses, TerminalStatuses, TypeOK
  <2> QED BY <1>11, <2>1, <2>2, LeaveType, SaveType DEF ProcessTerminate, Finish, TypeOK
<1> QED
  BY <1>1, <1>2, <1>3, <1>4, <1>5, <1>6, <1>7, <1>8, <1>9, <1>10, <1>11 DEF StepAction

LEMMA FinishType ==
  ASSUME TypeOK, NEW st \in TerminalStatuses, Finish(st), plan' \in Plans,
         evidence' \in {"unjudged", "sound", "flawed", "breach"}
  PROVE  TypeOK'
<1>1. st \in RunStatuses /\ dumped \in Plans
  BY StatusNames DEF TypeOK
<1>2. memory' \in Checkpoints /\ redis' \in Checkpoints /\ faults' \in Nat
  BY <1>1, SaveType DEF Finish
<1> QED BY <1>1, <1>2, LeaveType DEF Finish, TypeOK

LEMMA TypeRunAction ==
  ASSUME TypeOK, RunAction
  PROVE  TypeOK'
<1> USE DEF driver, store
<1>1. CASE StartRun
  BY <1>1, StatusNames DEF StartRun, TypeOK
<1>2. CASE CancelPlanned
  BY <1>2, FinishType DEF CancelPlanned, TypeOK, TerminalStatuses
<1>3. CASE BeginExecution
  BY <1>3, StatusNames, SaveType DEF BeginExecution, TypeOK
<1>4. CASE ObserveCancel
  BY <1>4, FinishType DEF ObserveCancel, TypeOK, TerminalStatuses
<1>5. CASE ObserveTimeout
  BY <1>5, FinishType DEF ObserveTimeout, TypeOK, TerminalStatuses
<1>6. CASE PauseForGates
  <2>1. "waiting_approval" \in RunStatuses
    BY DEF RunStatuses, PausedStatuses
  <2> QED BY <1>6, <2>1, LeaveType, SaveType DEF PauseForGates, TypeOK
<1>7. CASE Dispatch
  BY <1>7 DEF Dispatch, Runnable, StepsIn, TypeOK
<1>8. CASE FinishBatch
  <2>1. memory' \in Checkpoints /\ redis' \in Checkpoints /\ faults' \in Nat
    BY <1>8, SaveType DEF FinishBatch, TypeOK
  <2>2. phase' \in [Steps -> {"none", "selecting", "selected", "calling"} \cup Finished]
    BY <1>8 DEF FinishBatch, NoPhase
  <2> QED BY <1>8, <2>1, <2>2 DEF FinishBatch, TypeOK
<1>9. CASE BeginVerification
  BY <1>9, StatusNames DEF BeginVerification, TypeOK
<1>10. CASE VerdictPass
  BY <1>10, FinishType DEF VerdictPass, Finds, TypeOK, TerminalStatuses
<1>11. CASE VerdictRejected
  BY <1>11, FinishType DEF VerdictRejected, Finds, TypeOK, TerminalStatuses
<1>12. CASE VerdictFailed
  BY <1>12, FinishType DEF VerdictFailed, Finds, TypeOK, TerminalStatuses
<1>13. CASE BeginReplan
  BY <1>13, StatusNames DEF BeginReplan, Finds, TypeOK
<1>14. CASE Replan
  <2>1. Replanned(plan) \in Plans
    BY ReplannedType DEF TypeOK
  <2>2. memory' \in Checkpoints /\ redis' \in Checkpoints /\ faults' \in Nat
    BY <1>14, <2>1, SaveType, StatusNames DEF Replan
  <2> QED BY <1>14, <2>1, <2>2, StatusNames DEF Replan, TypeOK
<1> QED
  BY <1>1, <1>2, <1>3, <1>4, <1>5, <1>6, <1>7, <1>8, <1>9, <1>10, <1>11, <1>12, <1>13,
     <1>14 DEF RunAction

LEMMA TypeResumeAction ==
  ASSUME TypeOK, ResumeAction
  PROVE  TypeOK'
<1> USE DEF driver, store
<1>0. /\ Loaded \in Checkpoints /\ Loaded.plan \in Plans
      /\ Resume => resumes' \in Nat
  BY LoadedType DEF Checkpoints, Resume, TypeOK
<1>1. ASSUME Resume, NotResumed PROVE TypeOK'
  BY <1>0, <1>1 DEF NotResumed, TypeOK
<1>2. CASE ResumeRefused
  BY <1>1, <1>2 DEF ResumeRefused
<1>3. CASE ResumeContinue
  BY <1>0, <1>3, StatusNames DEF ResumeContinue, Reenter, TypeOK
<1>4. CASE ResumeRejected
  <2>1. memory' \in Checkpoints /\ redis' \in Checkpoints /\ faults' \in Nat
    BY <1>0, <1>4, SaveType, StatusNames DEF ResumeRejected, TerminalStatuses
  <2> QED
    BY <1>0, <1>4, <2>1, StatusNames
    DEF ResumeRejected, ResumePaused, TypeOK, TerminalStatuses
<1>5. CASE ResumeDecideRaises
  BY <1>1, <1>5 DEF ResumeDecideRaises, ResumePaused
<1>6. ASSUME NEW approved \in BOOLEAN, ResumeStillWaiting(approved) PROVE TypeOK'
  BY <1>1, <1>6 DEF ResumeStillWaiting, ResumePaused
<1>7. ASSUME NEW approved \in BOOLEAN, ResumeUnlocked(approved) PROVE TypeOK'
  <2>1. UnlockedPlan(approved) \in Plans
    BY UnlockedPlanType
  <2>2. memory' \in Checkpoints /\ redis' \in Checkpoints /\ faults' \in Nat
    BY <1>7, <2>1, SaveType, StatusNames DEF ResumeUnlocked
  <2>3. approvals' \in Seq(ApprovalRecords)
    <3>1. \A g \in DOMAIN approvals : approvals[g] \in ApprovalRecords
      BY DEF TypeOK
    <3>2. approvals' \in [DOMAIN approvals -> ApprovalRecords]
      BY <1>7, <3>1 DEF ResumeUnlocked, ApprovalRecords
    <3> QED BY <3>2, RecordsType DEF TypeOK
  <2>4. preApproved' \subseteq Steps
    BY <1>7 DEF ResumeUnlocked, LostNow, GatesIn, Waiting, StepsIn
  <2>5. grants' \in [Steps -> Nat]
    BY <1>7 DEF ResumeUnlocked, TypeOK
  <2> QED
    BY <1>0, <1>7, <2>1, <2>2, <2>3, <2>4, <2>5, StatusNames
    DEF ResumeUnlocked, ResumePaused, Reenter, TypeOK
<1> QED BY <1>2, <1>3, <1>4, <1>5, <1>6, <1>7 DEF ResumeAction

LEMMA TypeEnvironmentAction ==
  ASSUME TypeOK, EnvironmentAction
  PROVE  TypeOK'
<1> USE DEF driver, store
<1>0. /\ \A g \in DOMAIN approvals : approvals[g] \in ApprovalRecords
      /\ approvals \in [DOMAIN approvals -> ApprovalRecords]
  BY DEF TypeOK
<1>1. CASE RequestCancel
  BY <1>1 DEF RequestCancel, TypeOK
<1>2. CASE Interrupt
  BY <1>2, LeaveType DEF Interrupt, TypeOK
<1>3. CASE Crash
  <2>2. approvals' \in [DOMAIN approvals -> ApprovalRecords]
    BY <1>0, <1>3 DEF Crash, ApprovalRecords
  <2>3. approvals' \in Seq(ApprovalRecords)
    BY <2>2, RecordsType DEF TypeOK
  <2> QED BY <1>3, <2>3, LeaveType, NoCheckpointType DEF Crash, TypeOK
<1>4. ASSUME NEW g \in DOMAIN approvals, Decide(g) PROVE TypeOK'
  <2>1. approvals[g].step \in Steps
    BY <1>0 DEF ApprovalRecords
  <2>2. approvals' \in Seq(ApprovalRecords)
    <3>1. approvals' \in [DOMAIN approvals -> ApprovalRecords]
      BY <1>0, <1>4 DEF Decide, ApprovalRecords
    <3> QED BY <3>1, RecordsType DEF TypeOK
  <2>3. grants' \in [Steps -> Nat]
    <3> DEFINE r == approvals[g].step
    <3>1. grants' = grants \/ grants' = [grants EXCEPT ![r] = @ + 1]
      BY <1>4 DEF Decide
    <3>2. r \in Steps
      BY <2>1
    <3> HIDE DEF r
    <3> QED BY <3>1, <3>2 DEF TypeOK
  <2>4. UNCHANGED <<pc, driver, store, calls, faults, resumes>>
    BY <1>4 DEF Decide
  <2> QED BY <2>2, <2>3, <2>4 DEF TypeOK
<1> QED BY <1>1, <1>2, <1>3, <1>4 DEF EnvironmentAction

LEMMA TypeStutter == TypeOK /\ UNCHANGED vars => TypeOK'
BY DEF TypeOK, vars, driver, store

(* Every variable keeps its type through any run, with any faults.         *)
THEOREM TypeCorrect == Spec => []TypeOK
<1>1. TypeOK /\ [Next]_vars => TypeOK'
  BY TypeStepAction, TypeRunAction, TypeResumeAction, TypeEnvironmentAction, TypeStutter
  DEF Next
<1> QED BY <1>1, TypeInit, PTL DEF Spec
=============================================================================
