------------------------- MODULE AgentEngineGrants -------------------------
(***************************************************************************)
(* No gated tool without an approval: the bookkeeping of approval gates    *)
(* across plan copies, decisions, restarts and resumptions.                *)
(***************************************************************************)
EXTENDS AgentEngineSafety

(* Records are only added, and never handed to another step; grants are    *)
(* never taken back.                                                       *)
RecordsKept ==
  /\ DOMAIN approvals \subseteq DOMAIN approvals'
  /\ \A g \in DOMAIN approvals : approvals'[g].step = approvals[g].step

GrantsKept == \A s \in Steps : grants[s] > 0 => grants'[s] > 0

ApprovedGranted(table, given) ==
  \A g \in DOMAIN table : table[g].status = "APPROVED" => given[table[g].step] > 0

LEMMA OwnsKept ==
  ASSUME NEW p, Owns(p, approvals), RecordsKept
  PROVE  Owns(p, approvals')
BY DEF Owns, RecordsKept

LEMMA OwnsSame ==
  ASSUME NEW p, NEW q, NEW table, Owns(p, table),
         \A s \in Steps : q[s].gate = p[s].gate \/ q[s].gate = 0
  PROVE  Owns(q, table)
BY DEF Owns

LEMMA OwnsSave ==
  ASSUME NEW st, NEW p, NEW table, Owns(p, table), Owns(memory.plan, table),
         Owns(redis.plan, table), SaveCheckpoint(st, p)
  PROVE  Owns(memory'.plan, table) /\ Owns(redis'.plan, table)
BY DEF SaveCheckpoint, Checkpoint

LEMMA OwnsFresh == \A table : Owns(FreshPlan, table)
BY DEF Owns, FreshPlan, FreshStep

LEMMA GateParts ==
  GateInv <=> /\ Owns(plan, approvals) /\ Owns(dumped, approvals)
              /\ Owns(memory.plan, approvals) /\ Owns(redis.plan, approvals)
              /\ ApprovedGranted(approvals, grants)
              /\ \A s \in preApproved : grants[s] > 0
BY DEF GateInv, PlanCopies, ApprovedGranted

LEMMA RecordTypes ==
  ASSUME TypeOK
  PROVE  \A g \in DOMAIN approvals : approvals[g] \in ApprovalRecords /\ approvals[g].step \in Steps
<1>1. \A g \in DOMAIN approvals : approvals[g] \in ApprovalRecords
  BY DEF TypeOK
<1> QED BY <1>1 DEF ApprovalRecords

(* Appending a record.                                                     *)
LEMMA AppendRecord ==
  ASSUME TypeOK, NEW r, approvals' = Append(approvals, r)
  PROVE  /\ DOMAIN approvals' = DOMAIN approvals \cup {Len(approvals) + 1}
         /\ \A g \in DOMAIN approvals : approvals'[g] = approvals[g]
         /\ approvals'[Len(approvals) + 1] = r
<1>1. approvals \in Seq(ApprovalRecords) /\ Len(approvals) \in Nat
  BY DEF TypeOK
<1>2. /\ DOMAIN approvals = 1..Len(approvals)
      /\ DOMAIN approvals' = 1..(Len(approvals) + 1)
  BY <1>1
<1> QED BY <1>1, <1>2

LEMMA GateStepAction ==
  ASSUME TypeOK, BatchInv, GateInv, NEW s \in Steps, StepAction(s)
  PROVE  GateInv'
<1>0. /\ Owns(plan, approvals) /\ Owns(dumped, approvals)
      /\ Owns(memory.plan, approvals) /\ Owns(redis.plan, approvals)
      /\ ApprovedGranted(approvals, grants)
      /\ \A t \in preApproved : grants[t] > 0
      /\ plan \in Plans /\ plan[s] \in StepState
  BY GateParts DEF TypeOK, Plans
<1>1. ASSUME UNCHANGED <<dumped, memory, redis, approvals, grants, preApproved>>,
             \A t \in Steps : plan'[t].gate = plan[t].gate \/ plan'[t].gate = 0
      PROVE  GateInv'
  <2>1. Owns(plan', approvals)
    BY <1>0, <1>1, OwnsSame
  <2> QED BY <1>0, <1>1, <2>1 DEF GateInv, PlanCopies, ApprovedGranted
<1>2. CASE SelectAgent(s)
  BY <1>1, <1>2, SelectKeeps DEF SelectAgent, store
<1>3. CASE CallUngated(s) \/ GateUnavailable(s) \/ CallReturns(s)
  BY <1>1, <1>3 DEF CallUngated, StartCall, GateUnavailable, CallReturns, store
<1>4. CASE CallApproved(s)
  <2>1. \A t \in Steps : plan'[t].gate = plan[t].gate \/ plan'[t].gate = 0
    BY <1>0, <1>4 DEF CallApproved, Plans, StepState
  <2> QED BY <1>1, <1>4, <2>1 DEF CallApproved, StartCall, store
<1>5. CASE RaiseGate(s)
  <2>1. approvals' = Append(approvals, [step |-> s, status |-> "PENDING"])
    BY <1>5 DEF RaiseGate
  <2>2. /\ DOMAIN approvals' = DOMAIN approvals \cup {Len(approvals) + 1}
        /\ \A g \in DOMAIN approvals : approvals'[g] = approvals[g]
        /\ approvals'[Len(approvals) + 1] = [step |-> s, status |-> "PENDING"]
    BY <2>1, AppendRecord
  <2>3. RecordsKept
    BY <2>2 DEF RecordsKept
  <2>4. /\ plan'[s].gate = Len(approvals) + 1
        /\ \A t \in Steps \ {s} : plan'[t] = plan[t]
    BY <1>0, <1>5 DEF RaiseGate, Plans, StepState
  <2>5. Owns(plan', approvals')
    BY <1>0, <2>2, <2>4 DEF Owns
  <2>6. Owns(dumped, approvals') /\ Owns(memory.plan, approvals') /\ Owns(redis.plan, approvals')
    BY <1>0, <2>3, OwnsKept
  <2>7. ApprovedGranted(approvals', grants)
    BY <1>0, <2>2 DEF ApprovedGranted
  <2>8. UNCHANGED <<dumped, memory, redis, grants, preApproved>>
    BY <1>5 DEF RaiseGate, store
  <2> QED BY <1>0, <2>5, <2>6, <2>7, <2>8 DEF GateInv, PlanCopies, ApprovedGranted
<1>6. ASSUME NEW state, Process(s, state), state.gate = plan[s].gate PROVE GateInv'
  <2>1. \A t \in Steps : plan'[t].gate = plan[t].gate
    BY <1>0, <1>6 DEF Process, Plans
  <2> QED BY <1>1, <1>6, <2>1 DEF Process, store
<1>7. CASE ProcessCompleted(s)
  <2>1. [plan[s] EXCEPT !.st = "completed"].gate = plan[s].gate
    BY <1>0 DEF StepState
  <2> QED BY <1>6, <1>7, <2>1 DEF ProcessCompleted
<1>8. CASE ProcessRetry(s)
  <2>1. [plan[s] EXCEPT !.st = "pending", !.retries = @ + 1].gate = plan[s].gate
    BY <1>0 DEF StepState
  <2> QED BY <1>6, <1>8, <2>1 DEF ProcessRetry
<1>9. CASE ProcessSwitch(s)
  <2>1. PICK a \in Agents :
          Process(s, [plan[s] EXCEPT !.st = "pending", !.retries = 0, !.switches = @ + 1,
                                     !.agent = a])
    BY <1>9, AgentsAssumption DEF ProcessSwitch, OtherAgents
  <2>2. [plan[s] EXCEPT !.st = "pending", !.retries = 0, !.switches = @ + 1,
                        !.agent = a].gate = plan[s].gate
    BY <1>0 DEF StepState
  <2> QED BY <1>6, <2>1, <2>2
<1>10. CASE ProcessPaused(s)
  <2>1. Owns(memory'.plan, approvals) /\ Owns(redis'.plan, approvals)
    BY <1>0, <1>10, OwnsSave DEF ProcessPaused
  <2> QED BY <1>0, <1>10, <2>1 DEF ProcessPaused, Leave, GateInv, PlanCopies, ApprovedGranted
<1>11. CASE ProcessTerminate(s)
  <2>1. Owns(memory'.plan, approvals) /\ Owns(redis'.plan, approvals)
    BY <1>0, <1>11, OwnsSave DEF ProcessTerminate, Finish
  <2>2. \A t \in Steps : plan'[t].gate = plan[t].gate
    BY <1>0, <1>11 DEF ProcessTerminate, Plans, StepState
  <2>3. Owns(plan', approvals)
    BY <1>0, <2>2, OwnsSame
  <2> QED
    BY <1>0, <1>11, <2>1, <2>3
    DEF ProcessTerminate, Finish, Leave, GateInv, PlanCopies, ApprovedGranted
<1> QED
  BY <1>2, <1>3, <1>4, <1>5, <1>7, <1>8, <1>9, <1>10, <1>11 DEF StepAction

LEMMA GateRunAction ==
  ASSUME TypeOK, GateInv, RunAction
  PROVE  GateInv'
<1>0. /\ Owns(plan, approvals) /\ Owns(dumped, approvals)
      /\ Owns(memory.plan, approvals) /\ Owns(redis.plan, approvals)
      /\ ApprovedGranted(approvals, grants)
      /\ \A t \in preApproved : grants[t] > 0
  BY GateParts
<1>1. CASE StartRun \/ BeginVerification \/ BeginReplan \/ Dispatch
  BY <1>0, <1>1
  DEF StartRun, BeginVerification, BeginReplan, Finds, Dispatch, store, GateInv, PlanCopies,
      ApprovedGranted
<1>2. ASSUME NEW st, Finish(st), UNCHANGED plan PROVE GateInv'
  <2>1. Owns(memory'.plan, approvals) /\ Owns(redis'.plan, approvals)
    BY <1>0, <1>2, OwnsSave DEF Finish
  <2> QED BY <1>0, <1>2, <2>1 DEF Finish, Leave, GateInv, PlanCopies, ApprovedGranted
<1>3. CASE \/ CancelPlanned \/ ObserveCancel \/ ObserveTimeout
           \/ VerdictPass \/ VerdictRejected \/ VerdictFailed
  BY <1>2, <1>3
  DEF CancelPlanned, ObserveCancel, ObserveTimeout, VerdictPass, VerdictRejected, VerdictFailed
<1>4. ASSUME NEW st, NEW p, SaveCheckpoint(st, p), Owns(p, approvals), plan' = p, dumped' = p,
             UNCHANGED <<approvals, grants>>, preApproved' \subseteq preApproved
      PROVE  GateInv'
  <2>1. Owns(memory'.plan, approvals) /\ Owns(redis'.plan, approvals)
    BY <1>0, <1>4, OwnsSave
  <2> QED BY <1>0, <1>4, <2>1 DEF GateInv, PlanCopies, ApprovedGranted
<1>5. CASE BeginExecution
  <2>1. Owns(memory'.plan, approvals) /\ Owns(redis'.plan, approvals)
    BY <1>0, <1>5, OwnsSave DEF BeginExecution
  <2> QED BY <1>0, <1>5, <2>1 DEF BeginExecution, GateInv, PlanCopies, ApprovedGranted
<1>6. CASE PauseForGates \/ FinishBatch
  BY <1>0, <1>4, <1>6 DEF PauseForGates, FinishBatch, Leave
<1>7. CASE Replan
  <2>1. \A s \in Steps : Replanned(plan)[s].gate = plan[s].gate \/ Replanned(plan)[s].gate = 0
    BY DEF Replanned, FreshStep, TypeOK, Plans, StepState
  <2>2. Owns(Replanned(plan), approvals)
    BY <1>0, <2>1, OwnsSame
  <2> QED BY <1>4, <1>7, <2>2 DEF Replan
<1> QED BY <1>1, <1>3, <1>5, <1>6, <1>7 DEF RunAction

LEMMA GateResumeAction ==
  ASSUME TypeOK, GateInv, ResumeAction
  PROVE  GateInv'
<1>0. /\ Owns(plan, approvals) /\ Owns(dumped, approvals)
      /\ Owns(memory.plan, approvals) /\ Owns(redis.plan, approvals)
      /\ Owns(Loaded.plan, approvals)
      /\ ApprovedGranted(approvals, grants)
      /\ \A t \in preApproved : grants[t] > 0
      /\ Loaded.plan \in Plans
  BY GateParts, LoadedType DEF Loaded, Checkpoints
<1>1. CASE ResumeRefused \/ ResumeDecideRaises
           \/ \E approved \in BOOLEAN : ResumeStillWaiting(approved)
  <2>1. NotResumed
    BY <1>1 DEF ResumeRefused, ResumeDecideRaises, ResumeStillWaiting
  <2> QED BY <1>0, <2>1 DEF NotResumed, driver, GateInv, PlanCopies, ApprovedGranted
<1>2. CASE ResumeContinue
  BY <1>0, <1>2 DEF ResumeContinue, Reenter, GateInv, PlanCopies, ApprovedGranted
<1>3. CASE ResumeRejected
  <2>1. Owns(memory'.plan, approvals) /\ Owns(redis'.plan, approvals)
    BY <1>0, <1>3, OwnsSave DEF ResumeRejected
  <2> QED BY <1>0, <1>3, <2>1 DEF ResumeRejected, GateInv, PlanCopies, ApprovedGranted
<1>4. ASSUME NEW approved \in BOOLEAN, ResumeUnlocked(approved) PROVE GateInv'
  <2>1. /\ DOMAIN approvals' = DOMAIN approvals
        /\ \A g \in DOMAIN approvals :
             \/ approvals'[g] = approvals[g]
             \/ /\ approvals'[g] = [approvals[g] EXCEPT !.status = "APPROVED"]
                /\ \E s \in DecidedNow(approved) : Loaded.plan[s].gate = g
    BY <1>4 DEF ResumeUnlocked
  <2>2. /\ \A g \in DOMAIN approvals : approvals'[g].step = approvals[g].step
        /\ RecordsKept
    BY <2>1, RecordTypes DEF RecordsKept, ApprovalRecords
  <2>3. /\ \A s \in Steps : grants'[s] = grants[s] \/ grants'[s] = grants[s] + 1
        /\ \A s \in DecidedNow(approved) \cup LostNow(approved) : grants'[s] = grants[s] + 1
        /\ \A s \in Steps : grants[s] \in Nat
        /\ DecidedNow(approved) \cup LostNow(approved) \subseteq Steps
    BY <1>4
    DEF ResumeUnlocked, TypeOK, DecidedNow, LostNow, GatesIn, Waiting, StepsIn
  <2>4. ApprovedGranted(approvals', grants')
    <3>1. SUFFICES ASSUME NEW g \in DOMAIN approvals, approvals'[g].status = "APPROVED"
                   PROVE  grants'[approvals'[g].step] > 0
      BY <2>1 DEF ApprovedGranted
    <3>2. CASE approvals'[g] = approvals[g]
      BY <1>0, <2>3, <3>1, <3>2, RecordTypes DEF ApprovedGranted
    <3>3. ASSUME NEW s \in DecidedNow(approved), Loaded.plan[s].gate = g
          PROVE  grants'[approvals'[g].step] > 0
      <4>1. s \in Steps /\ g # 0
        BY <2>3, <3>3 DEF DecidedNow, GatesIn, GateStatus
      <4>2. approvals[g].step = s
        BY <1>0, <3>3, <4>1 DEF Owns
      <4>3. grants'[s] = grants[s] + 1 /\ grants[s] \in Nat
        BY <2>3, <3>3, <4>1
      <4> QED BY <2>2, <4>2, <4>3
    <3> QED BY <2>1, <3>2, <3>3
  <2>5. \A s \in preApproved' : grants'[s] > 0
    BY <1>4, <2>3 DEF ResumeUnlocked
  <2>6. \A s \in Steps : \/ UnlockedPlan(approved)[s].gate = Loaded.plan[s].gate
                         \/ UnlockedPlan(approved)[s].gate = 0
    BY <1>0 DEF UnlockedPlan, Plans, StepState
  <2>7. Owns(UnlockedPlan(approved), approvals')
    BY <1>0, <2>2, <2>6, OwnsSame, OwnsKept
  <2>8. Owns(memory.plan, approvals') /\ Owns(redis.plan, approvals')
    BY <1>0, <2>2, OwnsKept
  <2>9. Owns(memory'.plan, approvals') /\ Owns(redis'.plan, approvals')
    BY <1>4, <2>7, <2>8, OwnsSave DEF ResumeUnlocked
  <2>10. plan' = UnlockedPlan(approved) /\ dumped' = UnlockedPlan(approved)
    BY <1>4 DEF ResumeUnlocked, Reenter
  <2> QED BY <2>4, <2>5, <2>7, <2>9, <2>10 DEF GateInv, PlanCopies, ApprovedGranted
<1> QED BY <1>1, <1>2, <1>3, <1>4 DEF ResumeAction

(* One more grant for r takes none away from any other step.               *)
LEMMA Granted ==
  ASSUME NEW f \in [Steps -> Nat], NEW r \in Steps, NEW new,
         new = f \/ new = [f EXCEPT ![r] = @ + 1]
  PROVE  /\ \A s \in Steps : f[s] > 0 => new[s] > 0
         /\ new = f \/ new[r] > 0
<1>1. f[r] \in Nat
  OBVIOUS
<1>2. CASE new = f
  BY <1>2
<1>3. CASE new = [f EXCEPT ![r] = @ + 1]
  <2>1. new[r] = f[r] + 1 /\ \A s \in Steps \ {r} : new[s] = f[s]
    BY <1>3
  <2> QED BY <1>1, <2>1
<1> QED BY <1>2, <1>3

LEMMA GateEnvironmentAction ==
  ASSUME TypeOK, GateInv, EnvironmentAction
  PROVE  GateInv'
<1>0. /\ Owns(plan, approvals) /\ Owns(dumped, approvals)
      /\ Owns(memory.plan, approvals) /\ Owns(redis.plan, approvals)
      /\ ApprovedGranted(approvals, grants)
      /\ \A t \in preApproved : grants[t] > 0
  BY GateParts
<1>1. CASE RequestCancel
  BY <1>0, <1>1 DEF RequestCancel, store, GateInv, PlanCopies, ApprovedGranted
<1>2. CASE Interrupt
  BY <1>0, <1>2 DEF Interrupt, Leave, store, GateInv, PlanCopies, ApprovedGranted
<1>3. CASE Crash
  <2>1. /\ DOMAIN approvals' = DOMAIN approvals
        /\ \A g \in DOMAIN approvals : /\ approvals'[g].step = approvals[g].step
                                       /\ approvals'[g].status = "LOST"
    BY <1>3, RecordTypes DEF Crash, ApprovalRecords
  <2>2. RecordsKept
    BY <2>1 DEF RecordsKept
  <2>3. memory'.plan = FreshPlan
    BY <1>3 DEF Crash, NoCheckpoint, Checkpoint
  <2>4. /\ Owns(plan, approvals') /\ Owns(dumped, approvals') /\ Owns(redis.plan, approvals')
        /\ Owns(memory'.plan, approvals')
    BY <1>0, <2>2, <2>3, OwnsKept, OwnsFresh
  <2>5. ApprovedGranted(approvals', grants')
    BY <2>1 DEF ApprovedGranted
  <2>6. UNCHANGED <<plan, dumped, redis, grants>> /\ preApproved' = {}
    BY <1>3 DEF Crash, Leave
  <2> QED BY <2>4, <2>5, <2>6 DEF GateInv, PlanCopies, ApprovedGranted
<1>4. ASSUME NEW g \in DOMAIN approvals, Decide(g) PROVE GateInv'
  <2>1. approvals[g] \in ApprovalRecords /\ approvals[g].step \in Steps
    BY RecordTypes
  <2>2. /\ DOMAIN approvals' = DOMAIN approvals
        /\ \A h \in DOMAIN approvals : approvals'[h].step = approvals[h].step
        /\ \A h \in DOMAIN approvals \ {g} : approvals'[h] = approvals[h]
    BY <1>4, <2>1 DEF Decide, ApprovalRecords
  <2>3. RecordsKept
    BY <2>2 DEF RecordsKept
  <2>4. /\ Owns(plan, approvals') /\ Owns(dumped, approvals')
        /\ Owns(memory.plan, approvals') /\ Owns(redis.plan, approvals')
    BY <1>0, <2>3, OwnsKept
  <2> DEFINE r == approvals[g].step
  <2>5. \/ grants' = [grants EXCEPT ![r] = @ + 1]
        \/ grants' = grants /\ approvals'[g].status = "REJECTED"
    BY <1>4, <2>1 DEF Decide, ApprovalRecords
  <2>6. r \in Steps /\ \A s \in Steps : grants[s] \in Nat
    BY <2>1 DEF TypeOK
  <2>7. /\ \A s \in Steps : grants[s] > 0 => grants'[s] > 0
        /\ grants' = grants \/ grants'[r] > 0
    <3>1. grants \in [Steps -> Nat]
      BY DEF TypeOK
    <3>2. grants' = grants \/ grants' = [grants EXCEPT ![r] = @ + 1]
      BY <2>5
    <3> HIDE DEF r
    <3> QED BY <3>1, <3>2, <2>6, Granted
  <2>8. ApprovedGranted(approvals', grants')
    <3>1. SUFFICES ASSUME NEW h \in DOMAIN approvals, approvals'[h].status = "APPROVED"
                   PROVE  grants'[approvals[h].step] > 0
      BY <2>2 DEF ApprovedGranted
    <3>2. CASE h = g
      BY <2>5, <2>6, <3>1, <3>2 DEF TypeOK
    <3>3. CASE h # g
      <4>1. approvals[h].status = "APPROVED" /\ approvals[h].step \in Steps
        BY <2>2, <3>1, <3>3, RecordTypes
      <4> QED BY <1>0, <2>7, <4>1 DEF ApprovedGranted
    <3> QED BY <3>2, <3>3
  <2>9. UNCHANGED <<plan, dumped, memory, redis, preApproved>>
    BY <1>4 DEF Decide, driver, store
  <2>10. \A s \in preApproved' : grants'[s] > 0
    BY <1>0, <2>7, <2>9 DEF TypeOK
  <2> QED BY <2>4, <2>8, <2>9, <2>10 DEF GateInv, PlanCopies, ApprovedGranted
<1> QED BY <1>1, <1>2, <1>3, <1>4 DEF EnvironmentAction

LEMMA GateCorrect == Spec => []GateInv
<1>1. Init => GateInv
  <2>1. SUFFICES ASSUME Init PROVE GateInv
    OBVIOUS
  <2>2. \A p \in PlanCopies : p = FreshPlan
    BY <2>1 DEF Init, PlanCopies, NoCheckpoint, Checkpoint
  <2>3. DOMAIN approvals = {} /\ preApproved = {}
    BY <2>1 DEF Init
  <2> QED BY <2>2, <2>3, OwnsFresh DEF GateInv
<1>2. GateInv /\ UNCHANGED vars => GateInv'
  BY DEF GateInv, PlanCopies, vars, driver, store
<1>3. TypeOK /\ BatchInv /\ GateInv /\ [Next]_vars => GateInv'
  BY <1>2, GateStepAction, GateRunAction, GateResumeAction, GateEnvironmentAction DEF Next
<1> QED BY <1>1, <1>3, TypeCorrect, BatchCorrect, PTL DEF Spec

(* The step of the action that starts a call, and the grants of the others *)
(* are untouched.                                                          *)
LEMMA CallsOfOthers ==
  ASSUME TypeOK, NEW s \in Steps, StartCall(s)
  PROVE  \A t \in Steps \ {s} : calls'[t] = calls[t]
BY DEF StartCall, TypeOK

LEMMA GrantsNeverTaken ==
  ASSUME TypeOK, Next
  PROVE  GrantsKept
<1>0. \A s \in Steps : grants[s] \in Nat
  BY DEF TypeOK
<1>1. ASSUME UNCHANGED grants PROVE GrantsKept
  BY <1>1 DEF GrantsKept
<1>2. CASE \E s \in Steps : StepAction(s)
  BY <1>1, <1>2
  DEF StepAction, SelectAgent, CallUngated, CallApproved, StartCall, RaiseGate,
      GateUnavailable, CallReturns, ProcessCompleted, ProcessPaused, ProcessRetry,
      ProcessSwitch, ProcessTerminate, Process, Finish
<1>3. CASE RunAction
  BY <1>1, <1>3
  DEF RunAction, StartRun, CancelPlanned, BeginExecution, ObserveCancel, ObserveTimeout,
      PauseForGates, Dispatch, FinishBatch, BeginVerification, VerdictPass, VerdictRejected,
      VerdictFailed, BeginReplan, Replan, Finish
<1>4. ASSUME NEW approved \in BOOLEAN, ResumeUnlocked(approved) PROVE GrantsKept
  BY <1>0, <1>4 DEF ResumeUnlocked, GrantsKept
<1>5. CASE ResumeAction
  BY <1>1, <1>4, <1>5
  DEF ResumeAction, ResumeRefused, ResumeContinue, ResumeRejected, ResumeDecideRaises,
      ResumeStillWaiting, NotResumed
<1>6. CASE RequestCancel \/ Interrupt \/ Crash
  BY <1>1, <1>6 DEF RequestCancel, Interrupt, Crash
<1>7. ASSUME NEW g \in DOMAIN approvals, Decide(g) PROVE GrantsKept
  <2> DEFINE r == approvals[g].step
  <2>1. grants' = [grants EXCEPT ![r] = @ + 1] \/ grants' = grants
    BY <1>7 DEF Decide
  <2>2. r \in Steps
    BY RecordTypes
  <2> HIDE DEF r
  <2> QED BY <1>0, <2>1, <2>2 DEF GrantsKept, TypeOK
<1> QED BY <1>2, <1>3, <1>5, <1>6, <1>7 DEF Next, EnvironmentAction

(* The call itself: what lets it through rests on a grant for that step.   *)
LEMMA CallHasGrant ==
  ASSUME TypeOK, GateInv, NEW s \in Dangerous, CallUngated(s) \/ CallApproved(s)
  PROVE  grants[s] > 0
<1>0. s \in Steps
  BY CountsAssumption
<1>1. CASE CallUngated(s)
  BY <1>1 DEF CallUngated, NeedsApproval, GateInv
<1>2. CASE CallApproved(s)
  <2>1. plan[s].gate # 0 /\ approvals[plan[s].gate].status = "APPROVED"
    BY <1>2 DEF CallApproved, GateStatus
  <2>2. Owns(plan, approvals)
    BY DEF GateInv, PlanCopies
  <2>3. plan[s].gate \in DOMAIN approvals /\ approvals[plan[s].gate].step = s
    BY <1>0, <2>1, <2>2 DEF Owns
  <2> QED BY <2>1, <2>3 DEF GateInv
<1> QED BY <1>1, <1>2

(* A gated tool is never called for a step the operator has not approved,  *)
(* for any plan and policy and through any sequence of restarts, lost      *)
(* approval records and resumptions.                                       *)
THEOREM DangerousCallNeedsGrantCorrect == Spec => []DangerousCallNeedsGrant
<1>1. Init => DangerousCallNeedsGrant
  BY CountsAssumption DEF Init, DangerousCallNeedsGrant
<1>2. TypeOK /\ GateInv /\ DangerousCallNeedsGrant /\ [Next]_vars => DangerousCallNeedsGrant'
  <2>1. SUFFICES ASSUME TypeOK, GateInv, DangerousCallNeedsGrant, [Next]_vars
                 PROVE  DangerousCallNeedsGrant'
    OBVIOUS
  <2>2. CASE UNCHANGED vars
    BY <2>1, <2>2 DEF vars, DangerousCallNeedsGrant
  <2>3. ASSUME NEW s \in Steps, CallUngated(s) \/ CallApproved(s), Next
        PROVE  DangerousCallNeedsGrant'
    <3>1. \A t \in Steps \ {s} : calls'[t] = calls[t]
      BY <2>1, <2>3, CallsOfOthers DEF CallUngated, CallApproved
    <3>2. UNCHANGED grants
      BY <2>3 DEF CallUngated, CallApproved, StartCall
    <3>3. \A t \in Dangerous : t \in Steps
      BY CountsAssumption
    <3> QED BY <2>1, <2>3, <3>1, <3>2, <3>3, CallHasGrant DEF DangerousCallNeedsGrant
  <2>4. ASSUME Next, UNCHANGED calls PROVE DangerousCallNeedsGrant'
    BY <2>1, <2>4, GrantsNeverTaken, CountsAssumption DEF DangerousCallNeedsGrant, GrantsKept
  <2>5. ASSUME Next PROVE UNCHANGED calls \/ \E s \in Steps : CallUngated(s) \/ CallApproved(s)
    BY <2>5, CallsKept
  <2> QED BY <2>1, <2>2, <2>3, <2>4, <2>5
<1> QED BY <1>1, <1>2, TypeCorrect, GateCorrect, PTL DEF Spec
=============================================================================
