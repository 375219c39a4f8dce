----------------------- MODULE AgentEngineDurability -----------------------
(***************************************************************************)
(* What survives crashes and lost writes (completed steps, terminal        *)
(* statuses, the truth of what a checkpoint claims), how a driven run      *)
(* comes to rest, how often a step is called on the way, and how many      *)
(* steps the generator has left.                                           *)
(***************************************************************************)
EXTENDS AgentEngineSafety, WellFoundedInduction, FiniteSetTheorems

LEMMA NotAbsent ==
  /\ "absent" \notin RunStatuses
  /\ TerminalStatuses \cap PausedStatuses = {}
  /\ {"created", "ready", "executing", "verifying", "replanning", "waiting_approval"}
       \cap TerminalStatuses = {}
  /\ {"created", "ready", "executing", "verifying", "replanning"} \cap PausedStatuses = {}
BY DEF RunStatuses, TerminalStatuses, PausedStatuses

(* After a save, a resumption loads what was saved, and what is durable    *)
(* is that or an earlier part of it.                                       *)
LEMMA SaveLoads ==
  ASSUME NEW st \in RunStatuses, NEW p, SaveCheckpoint(st, p),
         Completed(redis.plan) \subseteq Completed(p)
  PROVE  /\ Loaded' = Checkpoint(st, p) /\ Loaded'.plan = p
         /\ Completed(redis'.plan) \subseteq Completed(p)
<1>1. memory' = Checkpoint(st, p) /\ memory'.status = st /\ memory'.plan = p
  BY DEF SaveCheckpoint, Checkpoint
<1>2. Loaded' = memory'
  BY <1>1, NotAbsent DEF Loaded
<1> QED BY <1>1, <1>2 DEF SaveCheckpoint, Checkpoint

LEMMA ReloadSame ==
  ASSUME Loaded.status # "absent", memory' = Loaded
  PROVE  Loaded' = Loaded
BY DEF Loaded

LEMMA CompletedFresh == Completed(FreshPlan) = {}
BY DEF Completed, StepsIn, FreshPlan, FreshStep

LEMMA ProgressFinish ==
  ASSUME TypeOK, ProgressInv, pc # "idle", NEW st \in RunStatuses, Finish(st)
  PROVE  ProgressInv'
<1>1. Completed(redis.plan) \subseteq Completed(dumped)
  BY DEF ProgressInv
<1> QED BY <1>1, SaveLoads DEF Finish, Leave, ProgressInv

LEMMA ProgressStepAction ==
  ASSUME TypeOK, BatchInv, ProgressInv, NEW s \in Steps, StepAction(s)
  PROVE  ProgressInv'
<1>0. pc = "batch"
  BY InBatch, NextInBatch
  DEF StepAction, SelectAgent, CallUngated, CallApproved, RaiseGate, GateUnavailable,
      CallReturns, ProcessCompleted, ProcessPaused, ProcessRetry, ProcessSwitch,
      ProcessTerminate, Failed
<1>1. CASE ProcessPaused(s)
  <2>1. "waiting_approval" \in RunStatuses
    BY DEF RunStatuses, PausedStatuses
  <2>2. Completed(redis.plan) \subseteq Completed(plan)
    BY <1>0 DEF ProgressInv
  <2> QED BY <1>1, <2>1, <2>2, SaveLoads DEF ProcessPaused, Leave, ProgressInv
<1>2. CASE ProcessTerminate(s)
  BY <1>0, <1>2, ProgressFinish, StatusNames DEF ProcessTerminate, TerminalStatuses
<1>3. CASE ~ProcessPaused(s) /\ ~ProcessTerminate(s)
  <2>1. UNCHANGED <<dumped, memory, redis>>
    BY <1>3
    DEF StepAction, SelectAgent, CallUngated, CallApproved, StartCall, RaiseGate,
        GateUnavailable, CallReturns, ProcessCompleted, ProcessRetry, ProcessSwitch, Process,
        store
  <2>2. UNCHANGED Loaded
    BY <2>1 DEF Loaded
  <2> QED BY <1>0, <2>1, <2>2, CompletedGrows DEF ProgressInv
<1> QED BY <1>1, <1>2, <1>3

LEMMA ProgressRunAction ==
  ASSUME TypeOK, ProgressInv, RunAction
  PROVE  ProgressInv'
<1>0. pc # "idle" =>
        /\ Completed(redis.plan) \subseteq Completed(dumped)
        /\ Completed(redis.plan) \subseteq Completed(plan)
        /\ Completed(dumped) \subseteq Completed(plan)
  BY DEF ProgressInv
<1>1. CASE StartRun \/ BeginVerification \/ BeginReplan \/ Dispatch
  <2>1. pc # "idle" /\ UNCHANGED <<plan, dumped, memory, redis>>
    BY <1>1
    DEF StartRun, BeginVerification, BeginReplan, Finds, Dispatch, AtLoopTop, store
  <2> QED BY <2>1 DEF ProgressInv, Loaded
<1>2. CASE \/ CancelPlanned \/ ObserveCancel \/ ObserveTimeout
           \/ VerdictPass \/ VerdictRejected \/ VerdictFailed
  BY <1>2, ProgressFinish, StatusNames
  DEF CancelPlanned, ObserveCancel, ObserveTimeout, VerdictPass, VerdictRejected,
      VerdictFailed, Finds, AtLoopTop, TerminalStatuses
<1>3. CASE BeginExecution
  <2>1. status \in RunStatuses
    BY DEF TypeOK
  <2> QED BY <1>0, <1>3, <2>1, SaveLoads DEF BeginExecution, ProgressInv
<1>4. CASE PauseForGates
  <2>1. "waiting_approval" \in RunStatuses
    BY DEF RunStatuses, PausedStatuses
  <2> QED BY <1>0, <1>4, <2>1, SaveLoads DEF PauseForGates, AtLoopTop, Leave, ProgressInv
<1>5. CASE FinishBatch
  <2>1. status \in RunStatuses
    BY DEF TypeOK
  <2> QED BY <1>0, <1>5, <2>1, SaveLoads DEF FinishBatch, ProgressInv
<1>6. CASE Replan
  <2>1. Completed(Replanned(plan)) = Completed(plan)
    BY ReplannedType DEF TypeOK
  <2> QED BY <1>0, <1>6, <2>1, SaveLoads, StatusNames DEF Replan, ProgressInv
<1> QED BY <1>1, <1>2, <1>3, <1>4, <1>5, <1>6 DEF RunAction

LEMMA ProgressOtherAction ==
  ASSUME TypeOK, ProgressInv, ResumeAction \/ EnvironmentAction
  PROVE  ProgressInv'
<1>0. Completed(redis.plan) \subseteq Completed(Loaded.plan)
  BY DEF ProgressInv
<1>1. ASSUME Resume, NotResumed PROVE ProgressInv'
  BY <1>0, <1>1, ReloadSame DEF Resume, NotResumed, driver, ProgressInv
<1>2. CASE ResumeRefused \/ ResumeDecideRaises
           \/ \E approved \in BOOLEAN : ResumeStillWaiting(approved)
  BY <1>1, <1>2 DEF ResumeRefused, ResumeDecideRaises, ResumeStillWaiting, ResumePaused
<1>3. CASE ResumeContinue
  BY <1>0, <1>3, ReloadSame DEF ResumeContinue, Resume, Reenter, ProgressInv
<1>4. CASE ResumeRejected
  <2>1. "rejected" \in RunStatuses
    BY DEF RunStatuses, TerminalStatuses
  <2> QED
    BY <1>0, <1>4, <2>1, SaveLoads DEF ResumeRejected, ResumePaused, Resume, ProgressInv
<1>5. ASSUME NEW approved \in BOOLEAN, ResumeUnlocked(approved) PROVE ProgressInv'
  <2>1. Completed(UnlockedPlan(approved)) = Completed(Loaded.plan)
    BY UnlockedPlanType
  <2> QED
    BY <1>0, <1>5, <2>1, SaveLoads, StatusNames DEF ResumeUnlocked, Reenter, ProgressInv
<1>6. CASE RequestCancel \/ \E g \in DOMAIN approvals : Decide(g)
  <2>1. UNCHANGED <<pc, plan, dumped, memory, redis>>
    BY <1>6 DEF RequestCancel, Decide, driver, store
  <2> QED BY <2>1 DEF ProgressInv, Loaded
<1>7. CASE Interrupt
  <2>1. pc' = "idle" /\ UNCHANGED <<memory, redis>>
    BY <1>7 DEF Interrupt, Leave, store
  <2> QED BY <2>1 DEF ProgressInv, Loaded
<1>8. CASE Crash
  <2>1. pc' = "idle" /\ memory'.status = "absent" /\ UNCHANGED redis
    BY <1>8 DEF Crash, Leave, NoCheckpoint, Checkpoint
  <2> QED BY <2>1 DEF ProgressInv, Loaded
<1> QED
  BY <1>2, <1>3, <1>4, <1>5, <1>6, <1>7, <1>8 DEF ResumeAction, EnvironmentAction

LEMMA ProgressCorrect == Spec => []ProgressInv
<1>1. Init => ProgressInv
  BY CompletedFresh DEF Init, ProgressInv, Loaded, NoCheckpoint, Checkpoint
<1>2. ProgressInv /\ UNCHANGED vars => ProgressInv'
  BY DEF ProgressInv, Loaded, vars, driver, store
<1>3. TypeOK /\ BatchInv /\ ProgressInv /\ [Next]_vars => ProgressInv'
  BY <1>2, ProgressStepAction, ProgressRunAction, ProgressOtherAction DEF Next
<1> QED BY <1>1, <1>3, TypeCorrect, BatchCorrect, PTL DEF Spec

(* A step that is durably completed is never called again.  The proof: a   *)
(* call is made for a step of the batch, which the live plan does not have *)
(* as completed, and the live plan has all that is durable.                *)
THEOREM CompletedNeverRepeatedCorrect == Spec => CompletedNeverRepeated
<1>1. TypeOK /\ BatchInv /\ ProgressInv /\ [Next]_vars
        => [\A s \in Steps : calls'[s] # calls[s] => redis.plan[s].st # "completed"]_vars
  <2>1. ASSUME TypeOK, BatchInv, ProgressInv, Next, NEW s \in Steps, calls'[s] # calls[s]
        PROVE  redis.plan[s].st # "completed"
    <3>1. PICK t \in Steps : CallUngated(t) \/ CallApproved(t)
      BY <2>1, CallsKept
    <3>2. t = s
      BY <2>1, <3>1 DEF CallUngated, CallApproved, StartCall, TypeOK
    <3>3. pc = "batch" /\ s \notin Completed(plan)
      BY <2>1, <3>1, <3>2, InBatch
      DEF CallUngated, CallApproved, BatchInv, Completed, StepsIn
    <3> QED BY <2>1, <3>3 DEF ProgressInv, Completed, StepsIn
  <2>2. UNCHANGED vars => UNCHANGED calls
    BY DEF vars
  <2> QED BY <2>1, <2>2
<1> QED
  BY <1>1, TypeCorrect, BatchCorrect, ProgressCorrect, PTL DEF Spec, CompletedNeverRepeated

-----------------------------------------------------------------------------
LEMMA SaveTerminal ==
  ASSUME NEW st, NEW p, SaveCheckpoint(st, p), redis.status \notin TerminalStatuses,
         st \in TerminalStatuses => pc' = "idle"
  PROVE  TerminalInv'
BY DEF SaveCheckpoint, Checkpoint, TerminalInv

LEMMA TerminalStep ==
  ASSUME TypeOK, BatchInv, StatusInv, TerminalInv, Next
  PROVE  TerminalInv'
<1>1. ASSUME UNCHANGED <<memory, redis>>, pc' = "idle" \/ pc # "idle" PROVE TerminalInv'
  BY <1>1 DEF TerminalInv
<1>2. ASSUME pc # "idle" PROVE redis.status \notin TerminalStatuses
  BY <1>2 DEF TerminalInv
<1>3. ASSUME NEW st, pc # "idle", Finish(st) PROVE TerminalInv'
  BY <1>2, <1>3, SaveTerminal DEF Finish, Leave
<1>4. ASSUME NEW s \in Steps, StepAction(s) PROVE TerminalInv'
  <2>0. pc = "batch"
    BY <1>4, InBatch, NextInBatch
    DEF StepAction, SelectAgent, CallUngated, CallApproved, RaiseGate, GateUnavailable,
        CallReturns, ProcessCompleted, ProcessPaused, ProcessRetry, ProcessSwitch,
        ProcessTerminate, Failed
  <2>1. CASE ProcessPaused(s)
    BY <1>2, <2>0, <2>1, SaveTerminal DEF ProcessPaused, Leave
  <2>2. CASE ProcessTerminate(s)
    BY <1>3, <2>0, <2>2 DEF ProcessTerminate
  <2>3. CASE ~ProcessPaused(s) /\ ~ProcessTerminate(s)
    <3>1. UNCHANGED <<memory, redis>>
      BY <1>4, <2>3
      DEF StepAction, SelectAgent, CallUngated, CallApproved, StartCall, RaiseGate,
          GateUnavailable, CallReturns, ProcessCompleted, ProcessRetry, ProcessSwitch,
          Process, store
    <3> QED BY <1>1, <2>0, <3>1
  <2> QED BY <2>1, <2>2, <2>3
<1>5. CASE RunAction
  <2>1. CASE StartRun \/ BeginVerification \/ BeginReplan \/ Dispatch
    BY <1>1, <2>1
    DEF StartRun, BeginVerification, BeginReplan, Finds, Dispatch, AtLoopTop, store
  <2>2. CASE \/ CancelPlanned \/ ObserveCancel \/ ObserveTimeout
             \/ VerdictPass \/ VerdictRejected \/ VerdictFailed
    BY <1>3, <2>2
    DEF CancelPlanned, ObserveCancel, ObserveTimeout, VerdictPass, VerdictRejected,
        VerdictFailed, Finds, AtLoopTop
  <2>3. CASE BeginExecution
    BY <1>2, <2>3, SaveTerminal, NotAbsent DEF BeginExecution, StatusInv
  <2>4. CASE PauseForGates
    BY <1>2, <2>4, SaveTerminal DEF PauseForGates, AtLoopTop, Leave
  <2>5. CASE FinishBatch
    BY <1>2, <2>5, SaveTerminal, NotAbsent DEF FinishBatch, StatusInv
  <2>6. CASE Replan
    BY <1>2, <2>6, SaveTerminal, NotAbsent DEF Replan
  <2> QED BY <1>5, <2>1, <2>2, <2>3, <2>4, <2>5, <2>6 DEF RunAction
<1>6. CASE ResumeAction
  <2>1. redis.status \in TerminalStatuses => Loaded.status \in TerminalStatuses
    BY DEF TerminalInv, Loaded
  <2>2. ASSUME NotResumed, Resume PROVE TerminalInv'
    BY <2>1, <2>2 DEF NotResumed, Resume, driver, TerminalInv
  <2>3. CASE ResumeRefused \/ ResumeDecideRaises
             \/ \E approved \in BOOLEAN : ResumeStillWaiting(approved)
    BY <2>2, <2>3 DEF ResumeRefused, ResumeDecideRaises, ResumeStillWaiting, ResumePaused
  <2>4. CASE ResumeContinue
    BY <2>1, <2>4 DEF ResumeContinue, TerminalInv
  <2>5. CASE ResumeRejected
    BY <2>1, <2>5, SaveTerminal, NotAbsent DEF ResumeRejected, ResumePaused, Resume
  <2>6. ASSUME NEW approved \in BOOLEAN, ResumeUnlocked(approved) PROVE TerminalInv'
    BY <2>1, <2>6, SaveTerminal, NotAbsent DEF ResumeUnlocked, ResumePaused
  <2> QED BY <1>6, <2>3, <2>4, <2>5, <2>6 DEF ResumeAction
<1>7. CASE EnvironmentAction
  <2>1. CASE RequestCancel \/ \E g \in DOMAIN approvals : Decide(g)
    BY <2>1 DEF RequestCancel, Decide, driver, store, TerminalInv
  <2>2. CASE Interrupt
    BY <1>1, <2>2 DEF Interrupt, Leave, store
  <2>3. CASE Crash
    BY <2>3 DEF Crash, Leave, NoCheckpoint, Checkpoint, TerminalInv
  <2> QED BY <1>7, <2>1, <2>2, <2>3 DEF EnvironmentAction
<1> QED BY <1>4, <1>5, <1>6, <1>7 DEF Next

LEMMA TerminalCorrect == Spec => []TerminalInv
<1>1. Init => TerminalInv
  BY NotAbsent DEF Init, TerminalInv, NoCheckpoint, Checkpoint, RunStatuses
<1>2. TerminalInv /\ UNCHANGED vars => TerminalInv'
  BY DEF TerminalInv, vars, driver, store
<1>3. TypeOK /\ BatchInv /\ StatusInv /\ TerminalInv /\ [Next]_vars => TerminalInv'
  BY <1>2, TerminalStep
<1> QED BY <1>1, <1>3, TypeCorrect, BatchCorrect, StatusCorrect, PTL DEF Spec

(* Once a terminal status is durable nothing is called and nothing is      *)
(* written over it any more.                                               *)
THEOREM DurableTerminalIsFinalCorrect == Spec => DurableTerminalIsFinal
<1>1. TypeOK /\ BatchInv /\ TerminalInv /\ [Next]_vars
        => [redis.status \in TerminalStatuses => UNCHANGED <<redis, calls>>]_vars
  <2>1. SUFFICES ASSUME TypeOK, BatchInv, TerminalInv, Next, redis.status \in TerminalStatuses
                 PROVE  UNCHANGED <<redis, calls>>
    OBVIOUS
  <2>2. pc = "idle" /\ Loaded.status \in TerminalStatuses
    BY <2>1 DEF TerminalInv, Loaded
  <2>3. ASSUME NEW s \in Steps, StepAction(s) PROVE FALSE
    BY <2>1, <2>2, <2>3, InBatch, NextInBatch
    DEF StepAction, SelectAgent, CallUngated, CallApproved, RaiseGate, GateUnavailable,
        CallReturns, ProcessCompleted, ProcessPaused, ProcessRetry, ProcessSwitch,
        ProcessTerminate, Failed
  <2>4. CASE RunAction
    BY <2>2, <2>4
    DEF RunAction, StartRun, CancelPlanned, BeginExecution, ObserveCancel, ObserveTimeout,
        PauseForGates, Dispatch, AtLoopTop, FinishBatch, BeginVerification, VerdictPass,
        VerdictRejected, VerdictFailed, BeginReplan, Replan, Finds
  <2>5. CASE ResumeAction
    BY <2>2, <2>5, NotAbsent
    DEF ResumeAction, ResumeRefused, ResumeContinue, ResumeRejected, ResumeDecideRaises,
        ResumeStillWaiting, ResumeUnlocked, ResumePaused, NotResumed
  <2>6. CASE EnvironmentAction
    BY <2>6 DEF EnvironmentAction, RequestCancel, Decide, Interrupt, Crash, store
  <2> QED BY <2>1, <2>3, <2>4, <2>5, <2>6 DEF Next
<1> QED
  BY <1>1, TypeCorrect, BatchCorrect, TerminalCorrect, PTL DEF Spec, DurableTerminalIsFinal

-----------------------------------------------------------------------------
LEMMA LessThanOnNat ==
  ASSUME NEW m \in Nat, NEW n \in Nat
  PROVE  <<m, n>> \in OpToRel(<, Nat) <=> m < n
BY DEF OpToRel

(* Some step of a non-empty set depends on no other step of the set.       *)
LEMMA FirstOf ==
  ASSUME NEW T \in SUBSET Steps, T # {}
  PROVE  \E s \in T : Deps[s] \cap T = {}
<1>1. PICK rank \in [Steps -> Steps] : \A s \in Steps : \A d \in Deps[s] : rank[d] < rank[s]
  BY DepsAssumption
<1>2. DEFINE ranks == {rank[s] : s \in T}
<1>3. ranks \subseteq Nat /\ ranks # {}
  <2>1. Steps \subseteq Nat
    BY CountsAssumption DEF Steps
  <2>2. \A s \in T : rank[s] \in Nat
    BY <1>1, <2>1
  <2> QED BY <2>2
<1>4. PICK x \in ranks : \A y \in ranks : ~ (<<y, x>> \in OpToRel(<, Nat))
  <2> HIDE DEF ranks
  <2> QED BY <1>3, WFMin, NatLessThanWellFounded
<1>5. \A y \in ranks : ~ (y < x)
  <2> HIDE DEF ranks
  <2> QED BY <1>3, <1>4, LessThanOnNat
<1>6. PICK s \in T : rank[s] = x
  BY <1>4
<1> QED BY <1>1, <1>5, <1>6

(* At the head of the loop an incomplete plan always has a step to run or  *)
(* a gate to wait for: the first of the steps that are not completed has   *)
(* its dependencies completed, and it is not FAILED.                       *)
THEOREM NeverStallsCorrect == Spec => []NeverStalls
<1>1. TypeOK /\ PlanInv => NeverStalls
  <2>1. SUFFICES ASSUME TypeOK, PlanInv, AtLoopTop, Waiting(plan) = {}
                 PROVE  Runnable(plan) # {}
    BY DEF NeverStalls
  <2>2. DEFINE T == Steps \ Completed(plan)
  <2>3. T # {} /\ T \subseteq Steps
    BY <2>1 DEF AtLoopTop, IsComplete, Completed, StepsIn
  <2>4. PICK s \in T : Deps[s] \cap T = {}
    BY <2>3, FirstOf
  <2>5. plan[s].st = "pending"
    BY <2>1, <2>4
    DEF AtLoopTop, PlanInv, Sane, Completed, StepsIn, Waiting, TypeOK, Plans, StepState,
        StepStatuses
  <2>6. Deps[s] \subseteq StepsIn(plan, "completed")
    BY <2>4, DepsAssumption DEF Completed
  <2> QED BY <2>4, <2>5, <2>6 DEF Runnable, StepsIn
<1> QED BY <1>1, TypeCorrect, PlanCorrect, PTL

-----------------------------------------------------------------------------
(* Without a fault whoever leaves the generator has saved an ending or a   *)
(* pause, and memory still has it.                                         *)
Kept == faults = 0 /\ pc = "idle" => memory.status \in TerminalStatuses \cup PausedStatuses

LEMMA KeptFinish ==
  ASSUME NEW st \in TerminalStatuses, Finish(st)
  PROVE  Kept'
BY DEF Finish, SaveCheckpoint, Checkpoint, Kept

LEMMA KeptStep ==
  ASSUME TypeOK, BatchInv, Kept, Next
  PROVE  Kept'
<1>0. "waiting_approval" \in PausedStatuses /\ "absent" \notin PausedStatuses
      /\ "rejected" \in TerminalStatuses
      /\ {"failed", "cancelled", "timeout", "completed"} \subseteq TerminalStatuses
  BY DEF PausedStatuses, TerminalStatuses
<1>1. ASSUME NEW s \in Steps, StepAction(s) PROVE Kept'
  <2>1. CASE ProcessPaused(s)
    BY <1>0, <2>1 DEF ProcessPaused, SaveCheckpoint, Checkpoint, Kept
  <2>2. CASE ProcessTerminate(s)
    BY <1>0, <2>2, KeptFinish DEF ProcessTerminate
  <2>3. CASE ~ProcessPaused(s) /\ ~ProcessTerminate(s)
    <3>1. pc = "batch"
      BY <1>1, InBatch, NextInBatch
      DEF StepAction, SelectAgent, CallUngated, CallApproved, RaiseGate, GateUnavailable,
          CallReturns, ProcessCompleted, ProcessPaused, ProcessRetry, ProcessSwitch,
          ProcessTerminate, Failed
    <3>2. pc' = pc
      BY <1>1, <2>3
      DEF StepAction, SelectAgent, CallUngated, CallApproved, StartCall, RaiseGate,
          GateUnavailable, CallReturns, ProcessCompleted, ProcessRetry, ProcessSwitch,
          Process
    <3> QED BY <3>1, <3>2 DEF Kept
  <2> QED BY <2>1, <2>2, <2>3
<1>2. CASE RunAction
  <2>1. CASE PauseForGates
    BY <1>0, <2>1 DEF PauseForGates, SaveCheckpoint, Checkpoint, Kept
  <2>2. CASE \/ CancelPlanned \/ ObserveCancel \/ ObserveTimeout
             \/ VerdictPass \/ VerdictRejected \/ VerdictFailed
    BY <1>0, <2>2, KeptFinish
    DEF CancelPlanned, ObserveCancel, ObserveTimeout, VerdictPass, VerdictRejected,
        VerdictFailed
  <2>3. CASE \/ StartRun \/ BeginExecution \/ Dispatch \/ FinishBatch \/ BeginVerification
             \/ BeginReplan \/ Replan
    BY <2>3
    DEF StartRun, BeginExecution, Dispatch, FinishBatch, BeginVerification, BeginReplan,
        Replan, Kept
  <2> QED BY <1>2, <2>1, <2>2, <2>3 DEF RunAction
<1>3. CASE ResumeAction
  <2>1. ASSUME NotResumed, Resume PROVE Kept'
    BY <2>1, NotAbsent, StatusNames DEF NotResumed, Resume, Loaded, Kept
  <2>2. CASE ResumeRefused \/ ResumeDecideRaises
             \/ \E approved \in BOOLEAN : ResumeStillWaiting(approved)
    BY <2>1, <2>2 DEF ResumeRefused, ResumeDecideRaises, ResumeStillWaiting, ResumePaused
  <2>3. CASE ResumeRejected
    BY <1>0, <2>3 DEF ResumeRejected, SaveCheckpoint, Checkpoint, Kept
  <2>4. CASE ResumeContinue \/ \E approved \in BOOLEAN : ResumeUnlocked(approved)
    BY <2>4 DEF ResumeContinue, ResumeUnlocked, Reenter, Kept
  <2> QED BY <1>3, <2>2, <2>3, <2>4 DEF ResumeAction
<1>4. CASE EnvironmentAction
  <2>1. CASE RequestCancel \/ \E g \in DOMAIN approvals : Decide(g)
    BY <2>1 DEF RequestCancel, Decide, driver, store, Kept
  <2>2. CASE Interrupt \/ Crash
    BY <2>2 DEF Interrupt, Crash, TypeOK, Kept
  <2> QED BY <1>4, <2>1, <2>2 DEF EnvironmentAction
<1> QED BY <1>1, <1>2, <1>3, <1>4 DEF Next

(* Without faults, a run that is no longer driven was stored as ended or   *)
(* as paused.                                                              *)
THEOREM NoRunDroppedCorrect == Spec => []NoRunDropped
<1>1. Init => Kept
  BY DEF Init, Kept
<1>2. TypeOK /\ BatchInv /\ Kept /\ [Next]_vars => Kept'
  <2>1. Kept /\ UNCHANGED vars => Kept'
    BY DEF Kept, vars, store
  <2> QED BY <2>1, KeptStep
<1>3. Kept => NoRunDropped
  BY DEF Kept, NoRunDropped, Loaded, TerminalStatuses, PausedStatuses
<1> QED BY <1>1, <1>2, <1>3, TypeCorrect, BatchCorrect, PTL DEF Spec

-----------------------------------------------------------------------------
(* What a checkpoint claims its plan bears out.                            *)
Truthful(c) ==
  /\ c.status = "completed" => IsComplete(c.plan)
  /\ c.status \in PausedStatuses => \E s \in Waiting(c.plan) : c.plan[s].gate # 0

TruthInv == Truthful(memory) /\ Truthful(redis)

LEMMA TruthSave ==
  ASSUME TruthInv, NEW st, NEW p, SaveCheckpoint(st, p), Truthful(Checkpoint(st, p))
  PROVE  TruthInv'
BY DEF SaveCheckpoint, TruthInv

LEMMA TruthOfOther ==
  ASSUME NEW st, NEW p, st # "completed", st \notin PausedStatuses
  PROVE  Truthful(Checkpoint(st, p))
BY DEF Truthful, Checkpoint

LEMMA TruthOfPause ==
  ASSUME NEW p, Sane(p), NEW s \in Steps, p[s].st = "waiting_approval"
  PROVE  Truthful(Checkpoint("waiting_approval", p))
BY DEF Truthful, Checkpoint, Sane, Waiting, StepsIn, PausedStatuses

LEMMA TruthUnchanged == TruthInv /\ UNCHANGED <<memory, redis>> => TruthInv'
BY DEF TruthInv

LEMMA TruthStepAction ==
  ASSUME TypeOK, BatchInv, PlanInv, TruthInv, NEW s \in Steps, StepAction(s)
  PROVE  TruthInv'
<1>1. CASE ProcessPaused(s)
  <2>1. pc = "batch" /\ s \in batch /\ phase[s] = "gated"
    BY <1>1, NextInBatch DEF ProcessPaused
  <2>2. plan[s].st = "waiting_approval" /\ Sane(plan)
    BY <2>1 DEF BatchInv, PlanInv
  <2> QED BY <1>1, <2>2, TruthOfPause, TruthSave DEF ProcessPaused
<1>2. CASE ProcessTerminate(s)
  <2>1. SaveCheckpoint("failed", dumped)
    BY <1>2 DEF ProcessTerminate, Finish
  <2> QED BY <2>1, TruthSave, TruthOfOther DEF PausedStatuses
<1>3. CASE ~ProcessPaused(s) /\ ~ProcessTerminate(s)
  BY <1>3, TruthUnchanged
  DEF StepAction, SelectAgent, CallUngated, CallApproved, StartCall, RaiseGate,
      GateUnavailable, CallReturns, ProcessCompleted, ProcessRetry, ProcessSwitch,
      Process, store
<1> QED BY <1>1, <1>2, <1>3

LEMMA TruthRunAction ==
  ASSUME TypeOK, BatchInv, StatusInv, PlanInv, TruthInv, RunAction
  PROVE  TruthInv'
<1>1. CASE StartRun \/ BeginVerification \/ BeginReplan \/ Dispatch
  BY <1>1, TruthUnchanged
  DEF StartRun, BeginVerification, BeginReplan, Finds, Dispatch, AtLoopTop, store
<1>2. CASE \/ CancelPlanned \/ ObserveCancel \/ ObserveTimeout
           \/ VerdictRejected \/ VerdictFailed
  <2>1. PICK st \in {"cancelled", "timeout", "rejected", "failed"} :
               SaveCheckpoint(st, dumped)
    BY <1>2
    DEF CancelPlanned, ObserveCancel, ObserveTimeout, VerdictRejected, VerdictFailed, Finish
  <2> QED BY <2>1, TruthSave, TruthOfOther DEF PausedStatuses
<1>3. CASE VerdictPass
  <2>1. IsComplete(dumped)
    BY <1>3 DEF VerdictPass, Finds, PlanInv
  <2>2. Truthful(Checkpoint("completed", dumped))
    BY <2>1 DEF Truthful, Checkpoint, PausedStatuses
  <2> QED BY <1>3, <2>2, TruthSave DEF VerdictPass, Finish
<1>4. CASE PauseForGates
  <2>1. PICK s \in Steps : plan[s].st = "waiting_approval"
    BY <1>4 DEF PauseForGates, Waiting, StepsIn
  <2>2. Sane(plan)
    BY <1>4 DEF PauseForGates, AtLoopTop, PlanInv
  <2> QED BY <1>4, <2>1, <2>2, TruthOfPause, TruthSave DEF PauseForGates
<1>5. CASE BeginExecution
  <2>1. status = "ready" /\ SaveCheckpoint(status, dumped)
    BY <1>5 DEF BeginExecution, StatusInv
  <2> QED BY <2>1, TruthSave, TruthOfOther DEF PausedStatuses
<1>6. CASE FinishBatch
  <2>1. status = "executing"
    BY <1>6 DEF FinishBatch, StatusInv, BatchInv
  <2> QED BY <1>6, <2>1, TruthSave, TruthOfOther DEF FinishBatch, PausedStatuses
<1>7. CASE Replan
  BY <1>7, TruthSave, TruthOfOther DEF Replan, PausedStatuses
<1> QED BY <1>1, <1>2, <1>3, <1>4, <1>5, <1>6, <1>7 DEF RunAction

LEMMA TruthOtherAction ==
  ASSUME TypeOK, TruthInv, ResumeAction \/ EnvironmentAction
  PROVE  TruthInv'
<1>1. ASSUME memory' = Loaded, redis' = redis PROVE TruthInv'
  BY <1>1 DEF Loaded, TruthInv
<1>2. CASE ResumeRefused \/ ResumeDecideRaises \/ ResumeContinue
           \/ \E approved \in BOOLEAN : ResumeStillWaiting(approved)
  BY <1>1, <1>2
  DEF ResumeRefused, ResumeDecideRaises, ResumeContinue, ResumeStillWaiting, NotResumed
<1>3. CASE ResumeRejected
  BY <1>3, TruthSave, TruthOfOther DEF ResumeRejected, PausedStatuses
<1>4. ASSUME NEW approved \in BOOLEAN, ResumeUnlocked(approved) PROVE TruthInv'
  BY <1>4, TruthSave, TruthOfOther DEF ResumeUnlocked, PausedStatuses
<1>5. CASE RequestCancel \/ Interrupt \/ \E g \in DOMAIN approvals : Decide(g)
  BY <1>5, TruthUnchanged DEF RequestCancel, Interrupt, Decide, store
<1>6. CASE Crash
  BY <1>6, TruthOfOther DEF Crash, NoCheckpoint, TruthInv, PausedStatuses
<1> QED BY <1>2, <1>3, <1>4, <1>5, <1>6 DEF ResumeAction, EnvironmentAction

(* What a checkpoint's status claims its plan bears out, in memory and in  *)
(* Redis, whatever writes are lost.                                        *)
THEOREM StatusMatchesPlanCorrect == Spec => []StatusMatchesPlan
<1>1. Init => TruthInv
  BY TruthOfOther DEF Init, NoCheckpoint, TruthInv, PausedStatuses
<1>2. TypeOK /\ BatchInv /\ StatusInv /\ PlanInv /\ TruthInv /\ [Next]_vars => TruthInv'
  <2>1. UNCHANGED vars => UNCHANGED <<memory, redis>>
    BY DEF vars, store
  <2> QED
    BY <2>1, TruthUnchanged, TruthStepAction, TruthRunAction, TruthOtherAction DEF Next
<1>3. TruthInv => StatusMatchesPlan
  BY DEF TruthInv, Truthful, StatusMatchesPlan
<1> QED
  BY <1>1, <1>2, <1>3, TypeCorrect, BatchCorrect, StatusCorrect, PlanCorrect, PTL DEF Spec

-----------------------------------------------------------------------------
(* The retries and switches of a step stay within the limits of the        *)
(* recovery engine, in every copy of the plan.                             *)
LEMMA ThriftyFresh == Thrifty(FreshPlan)
BY CountsAssumption DEF Thrifty, FreshPlan, FreshStep

LEMMA ThriftyUnlocked ==
  ASSUME TypeOK, Thrifty(Loaded.plan), NEW approved \in BOOLEAN
  PROVE  Thrifty(UnlockedPlan(approved))
<1>1. ASSUME NEW s \in Steps
      PROVE  /\ UnlockedPlan(approved)[s].retries = Loaded.plan[s].retries
             /\ UnlockedPlan(approved)[s].switches = Loaded.plan[s].switches
  BY LoadedType DEF UnlockedPlan, Checkpoints, Plans, StepState
<1> QED BY <1>1 DEF Thrifty

LEMMA ThriftySave ==
  ASSUME ThriftInv, NEW st, NEW p, SaveCheckpoint(st, p), Thrifty(p),
         Thrifty(plan'), Thrifty(dumped')
  PROVE  ThriftInv'
BY DEF SaveCheckpoint, Checkpoint, ThriftInv, PlanCopies

LEMMA ThriftyKept ==
  ASSUME ThriftInv, UNCHANGED <<dumped, memory, redis>>, Thrifty(plan')
  PROVE  ThriftInv'
BY DEF ThriftInv, PlanCopies

(* Replanning follows a complete plan, which it leaves alone.              *)
LEMMA ReplannedSame ==
  ASSUME NEW p \in Plans, IsComplete(p)
  PROVE  Replanned(p) = p
<1>1. \A s \in Steps : p[s].st = "completed"
  BY DEF IsComplete, StepsIn
<1> QED BY <1>1 DEF Replanned, Plans

(* What a step's action does to the budgets of the steps.                  *)
LEMMA BudgetsOfStep ==
  ASSUME TypeOK, BatchInv, NEW s \in Steps, StepAction(s)
  PROVE  /\ \A t \in Steps \ {s} : plan'[t].retries = plan[t].retries
                                   /\ plan'[t].switches = plan[t].switches
                                   /\ plan'[t].st = plan[t].st
         /\ ~ProcessRetry(s) /\ ~ProcessSwitch(s)
              => plan'[s].retries = plan[s].retries /\ plan'[s].switches = plan[s].switches
         /\ ProcessRetry(s)
              => /\ plan'[s].retries = plan[s].retries + 1
                 /\ plan'[s].switches = plan[s].switches
                 /\ plan'[s].st = "pending"
                 /\ plan[s].retries < MaxRetries
         /\ ProcessSwitch(s)
              => /\ plan'[s].retries = 0 /\ plan'[s].switches = plan[s].switches + 1
                 /\ plan'[s].st = "pending"
                 /\ plan[s].retries >= MaxRetries /\ plan[s].switches < MaxSwitches
<1>0. plan \in Plans /\ plan[s] \in StepState
  BY DEF TypeOK, Plans
<1>1. ASSUME NEW state \in StepState, plan' = [plan EXCEPT ![s] = state]
      PROVE  plan'[s] = state /\ \A t \in Steps \ {s} : plan'[t] = plan[t]
  BY <1>0, <1>1 DEF Plans
<1>2. CASE ProcessRetry(s)
  <2>1. plan' = [plan EXCEPT ![s] = [plan[s] EXCEPT !.st = "pending", !.retries = @ + 1]]
    BY <1>2 DEF ProcessRetry, Process
  <2>2. /\ [plan[s] EXCEPT !.st = "pending", !.retries = @ + 1].retries = plan[s].retries + 1
        /\ [plan[s] EXCEPT !.st = "pending", !.retries = @ + 1].switches = plan[s].switches
        /\ [plan[s] EXCEPT !.st = "pending", !.retries = @ + 1].st = "pending"
    BY <1>0 DEF StepState
  <2>3. plan[s].retries < MaxRetries
    BY <1>0, <1>2, CountsAssumption DEF ProcessRetry, RetriesSpent, StepState
  <2>4. ~ProcessSwitch(s)
    BY <1>2 DEF ProcessRetry, ProcessSwitch
  <2>5. [plan[s] EXCEPT !.st = "pending", !.retries = @ + 1] \in StepState
    BY <1>0, StepEdit
  <2> QED BY <1>1, <1>2, <2>1, <2>2, <2>3, <2>4, <2>5
<1>3. CASE ProcessSwitch(s)
  <2>1. PICK a \in Agents :
          plan' = [plan EXCEPT ![s] =
                     [plan[s] EXCEPT !.st = "pending", !.retries = 0, !.switches = @ + 1,
                                     !.agent = a]]
    BY <1>3, AgentsAssumption DEF ProcessSwitch, OtherAgents, Process
  <2> DEFINE state == [plan[s] EXCEPT !.st = "pending", !.retries = 0, !.switches = @ + 1,
                                      !.agent = a]
  <2>2. /\ state.retries = 0 /\ state.switches = plan[s].switches + 1 /\ state.st = "pending"
    BY <1>0 DEF StepState
  <2>3. plan[s].retries >= MaxRetries /\ plan[s].switches < MaxSwitches
    BY <1>3 DEF ProcessSwitch, RetriesSpent, MaySwitch
  <2>4. ~ProcessRetry(s)
    BY <1>3 DEF ProcessRetry, ProcessSwitch
  <2>5. state \in StepState
    BY <1>0, StepEdit
  <2>6. plan'[s] = state /\ \A t \in Steps \ {s} : plan'[t] = plan[t]
    BY <1>1, <2>1, <2>5
  <2> QED BY <1>3, <2>2, <2>3, <2>4, <2>6
<1>4. CASE ~ProcessRetry(s) /\ ~ProcessSwitch(s)
  <2>1. \/ plan' = plan
        \/ \E a \in Agents : plan' = [plan EXCEPT ![s].agent = a]
        \/ plan' = [plan EXCEPT ![s].gate = 0]
        \/ plan' = [plan EXCEPT ![s].gate = Len(approvals) + 1, ![s].st = "waiting_approval"]
        \/ plan' = [plan EXCEPT ![s].st = "completed"]
        \/ plan' = [plan EXCEPT ![s].st = "failed"]
    BY <1>4, AgentsAssumption
    DEF StepAction, SelectAgent, CallUngated, CallApproved, RaiseGate, GateUnavailable,
        CallReturns, ProcessCompleted, ProcessPaused, ProcessTerminate, Process, StartCall
  <2>2. /\ plan'[s].retries = plan[s].retries /\ plan'[s].switches = plan[s].switches
        /\ \A t \in Steps \ {s} : plan'[t] = plan[t]
    BY <1>0, <2>1 DEF Plans, StepState
  <2> QED BY <1>4, <2>2
<1> QED BY <1>2, <1>3, <1>4

LEMMA ThriftStepAction ==
  ASSUME TypeOK, BatchInv, ThriftInv, NEW s \in Steps, StepAction(s)
  PROVE  ThriftInv'
<1>1. Thrifty(plan) /\ Thrifty(dumped)
  BY DEF ThriftInv, PlanCopies
<1>2. plan[s].retries \in Nat /\ plan[s].switches \in Nat
  BY DEF TypeOK, Plans, StepState
<1>3. ~ProcessRetry(s) /\ ~ProcessSwitch(s) => Thrifty(plan')
  BY <1>1, BudgetsOfStep DEF Thrifty
<1>4. ProcessRetry(s) => Thrifty(plan')
  BY <1>1, <1>2, BudgetsOfStep, CountsAssumption DEF Thrifty
<1>5. ProcessSwitch(s) => Thrifty(plan')
  BY <1>1, <1>2, BudgetsOfStep, CountsAssumption DEF Thrifty
<1>6. CASE ProcessPaused(s)
  BY <1>1, <1>6, ThriftySave DEF ProcessPaused
<1>7. CASE ProcessTerminate(s)
  <2>1. pc = "batch" /\ pc' = "idle"
    BY <1>7, NextInBatch DEF ProcessTerminate, Failed, Finish, Leave
  <2>2. ~ProcessRetry(s) /\ ~ProcessSwitch(s)
    BY <2>1 DEF ProcessRetry, ProcessSwitch, Process
  <2> QED
    BY <1>1, <1>3, <1>7, <2>2, ThriftySave DEF ProcessTerminate, Finish
<1>8. CASE ~ProcessPaused(s) /\ ~ProcessTerminate(s)
  <2>1. UNCHANGED <<dumped, memory, redis>>
    BY <1>8
    DEF StepAction, SelectAgent, CallUngated, CallApproved, StartCall, RaiseGate,
        GateUnavailable, CallReturns, ProcessCompleted, ProcessRetry, ProcessSwitch,
        Process, store
  <2> QED BY <1>3, <1>4, <1>5, <2>1, ThriftyKept
<1> QED BY <1>6, <1>7, <1>8

LEMMA ThriftOtherAction ==
  ASSUME TypeOK, PlanInv, ThriftInv, RunAction \/ ResumeAction \/ EnvironmentAction
  PROVE  ThriftInv'
<1>1. Thrifty(plan) /\ Thrifty(dumped) /\ Thrifty(Loaded.plan)
  BY DEF ThriftInv, PlanCopies, Loaded
<1>2. CASE \/ StartRun \/ BeginVerification \/ BeginReplan \/ Dispatch \/ RequestCancel
           \/ Interrupt \/ \E g \in DOMAIN approvals : Decide(g)
  BY <1>1, <1>2, ThriftyKept
  DEF StartRun, BeginVerification, BeginReplan, Finds, Dispatch, RequestCancel, Interrupt,
      Decide, driver, store
<1>3. CASE \/ CancelPlanned \/ BeginExecution \/ ObserveCancel \/ ObserveTimeout
           \/ PauseForGates \/ FinishBatch \/ VerdictPass \/ VerdictRejected \/ VerdictFailed
  BY <1>1, <1>3, ThriftySave
  DEF CancelPlanned, BeginExecution, ObserveCancel, ObserveTimeout, PauseForGates,
      FinishBatch, VerdictPass, VerdictRejected, VerdictFailed, Finish
<1>4. CASE Replan
  <2>1. Replanned(plan) = plan
    BY <1>4, ReplannedSame DEF Replan, PlanInv, TypeOK
  <2> QED BY <1>1, <1>4, <2>1, ThriftySave DEF Replan
<1>5. ASSUME memory' = Loaded, redis' = redis, Thrifty(plan'), Thrifty(dumped')
      PROVE  ThriftInv'
  BY <1>1, <1>5 DEF ThriftInv, PlanCopies
<1>6. CASE \/ ResumeRefused \/ ResumeContinue \/ ResumeDecideRaises
           \/ \E approved \in BOOLEAN : ResumeStillWaiting(approved)
  BY <1>1, <1>5, <1>6
  DEF ResumeRefused, ResumeContinue, ResumeDecideRaises, ResumeStillWaiting, NotResumed,
      Reenter, driver
<1>7. CASE ResumeRejected
  BY <1>1, <1>7, ThriftySave DEF ResumeRejected
<1>8. ASSUME NEW approved \in BOOLEAN, ResumeUnlocked(approved) PROVE ThriftInv'
  <2>1. Thrifty(UnlockedPlan(approved))
    BY <1>1, ThriftyUnlocked
  <2> QED BY <1>8, <2>1, ThriftySave DEF ResumeUnlocked, Reenter
<1>9. CASE Crash
  BY <1>9, ThriftyFresh DEF Crash, NoCheckpoint, Checkpoint, ThriftInv, PlanCopies
<1> QED
  BY <1>2, <1>3, <1>4, <1>6, <1>7, <1>8, <1>9 DEF RunAction, ResumeAction, EnvironmentAction

LEMMA ThriftCorrect == Spec => []ThriftInv
<1>1. Init => ThriftInv
  BY ThriftyFresh DEF Init, NoCheckpoint, Checkpoint, ThriftInv, PlanCopies
<1>2. ThriftInv /\ UNCHANGED vars => ThriftInv'
  BY DEF ThriftInv, PlanCopies, vars, driver, store
<1>3. TypeOK /\ BatchInv /\ PlanInv /\ ThriftInv /\ [Next]_vars => ThriftInv'
  BY <1>2, ThriftStepAction, ThriftOtherAction DEF Next
<1> QED BY <1>1, <1>3, TypeCorrect, BatchCorrect, PlanCorrect, PTL DEF Spec

-----------------------------------------------------------------------------
(* The arithmetic of an allowance.                                         *)
LEMMA AllowanceType == Allowance \in Nat
<1>1. MaxRetries + 1 \in Nat /\ MaxSwitches + 1 \in Nat
  BY CountsAssumption
<1> QED BY <1>1 DEF Allowance

LEMMA TimesMonotone ==
  ASSUME NEW a \in Nat, NEW b \in Nat, NEW c \in Nat, a <= b
  PROVE  a * c \in Nat /\ a * c <= b * c
<1>1. b = a + (b - a) /\ b - a \in Nat
  OBVIOUS
<1>2. b * c = a * c + (b - a) * c
  BY <1>1
<1>3. (b - a) * c \in Nat
  BY <1>1
<1> QED BY <1>2, <1>3

LEMMA NextTimes ==
  ASSUME NEW n \in Nat, NEW k \in Nat
  PROVE  n * k \in Nat /\ (n + 1) * k = n * k + k
OBVIOUS

LEMMA SpentType ==
  ASSUME NEW st \in StepState
  PROVE  Spent(st) \in Nat
<1>1. /\ st.switches \in Nat /\ st.retries \in Nat /\ MaxRetries + 1 \in Nat
  BY CountsAssumption DEF StepState
<1>2. st.switches * (MaxRetries + 1) \in Nat
  BY <1>1
<1> QED BY <1>1, <1>2 DEF Spent

(* Within the limits there is always one call left to the allowance.       *)
LEMMA SpentBound ==
  ASSUME NEW st \in StepState, st.retries <= MaxRetries, st.switches <= MaxSwitches
  PROVE  Spent(st) + 1 <= Allowance
<1> DEFINE k == MaxRetries + 1
<1>1. /\ st.switches \in Nat /\ st.retries \in Nat /\ k \in Nat /\ MaxSwitches \in Nat
      /\ MaxRetries \in Nat
  BY CountsAssumption DEF StepState
<1>2. st.switches * k \in Nat /\ st.switches * k <= MaxSwitches * k
  BY <1>1, TimesMonotone
<1>3. MaxSwitches * k \in Nat /\ Allowance = MaxSwitches * k + k
  <2>1. (MaxSwitches + 1) * k = MaxSwitches * k + k /\ MaxSwitches * k \in Nat
    BY <1>1, NextTimes
  <2>2. Allowance = (MaxSwitches + 1) * k
    <3>1. MaxSwitches + 1 \in Nat
      BY <1>1
    <3> QED BY <1>1, <3>1 DEF Allowance
  <2> QED BY <2>1, <2>2
<1>4. Spent(st) = st.switches * k + st.retries
  BY DEF Spent
<1>5. st.retries + 1 <= k
  BY <1>1
<1> HIDE DEF k
<1> QED BY <1>1, <1>2, <1>3, <1>4, <1>5

(* A retry spends one call more, and so does a switch.                     *)
LEMMA SpentGrows ==
  ASSUME NEW st \in StepState, NEW new \in StepState, st.retries <= MaxRetries,
         \/ new.retries = st.retries + 1 /\ new.switches = st.switches
         \/ new.retries = 0 /\ new.switches = st.switches + 1
  PROVE  Spent(st) + 1 <= Spent(new)
<1> DEFINE k == MaxRetries + 1
<1>1. /\ st.switches \in Nat /\ st.retries \in Nat /\ k \in Nat /\ MaxRetries \in Nat
      /\ st.retries + 1 <= k
  BY CountsAssumption DEF StepState
<1>2. st.switches * k \in Nat /\ (st.switches + 1) * k = st.switches * k + k
  BY <1>1, NextTimes
<1>3. Spent(st) = st.switches * k + st.retries /\ Spent(new) = new.switches * k + new.retries
  BY DEF Spent
<1> HIDE DEF k
<1>4. CASE new.retries = st.retries + 1 /\ new.switches = st.switches
  BY <1>1, <1>2, <1>3, <1>4
<1>5. CASE new.retries = 0 /\ new.switches = st.switches + 1
  BY <1>1, <1>2, <1>3, <1>5
<1> QED BY <1>4, <1>5

-----------------------------------------------------------------------------
LEMMA LatestType == \A s \in Steps : Latest(s) \in {0, 1} /\ Latest(s)' \in {0, 1}
BY DEF Latest

(* The bound carries over a step within the generator that calls no more   *)
(* than it spends or leaves to be judged, ...                              *)
LEMMA EffortMoves ==
  ASSUME TypeOK, TypeOK', EffortInv, pc # "idle", pc' # "idle", resumes' = resumes,
         \A s \in Steps :
           calls'[s] + Spent(plan[s]) + Latest(s) <= calls[s] + Spent(plan'[s]) + Latest(s)'
  PROVE  EffortInv'
<1>1. SUFFICES ASSUME NEW s \in Steps
               PROVE  calls'[s] <= IF pc' = "idle" THEN resumes' * Allowance + Allowance
                                   ELSE resumes' * Allowance + Spent(plan'[s]) + Latest(s)'
  BY DEF EffortInv
<1>2. /\ calls[s] \in Nat /\ calls'[s] \in Nat /\ Spent(plan[s]) \in Nat
      /\ Spent(plan'[s]) \in Nat /\ resumes * Allowance \in Nat
  BY SpentType, AllowanceType DEF TypeOK, Plans
<1>3. calls[s] <= resumes * Allowance + Spent(plan[s]) + Latest(s)
  BY DEF EffortInv
<1>4. calls'[s] <= resumes * Allowance + Spent(plan'[s]) + Latest(s)'
  BY <1>2, <1>3, LatestType
<1> QED BY <1>4

(* over leaving the generator, which has not spent its whole allowance,    *)
LEMMA EffortLeaves ==
  ASSUME TypeOK, TypeOK', ThriftInv, EffortInv, pc # "idle", pc' = "idle",
         UNCHANGED <<calls, resumes>>
  PROVE  EffortInv'
<1>1. SUFFICES ASSUME NEW s \in Steps
               PROVE  calls'[s] <= IF pc' = "idle" THEN resumes' * Allowance + Allowance
                                   ELSE resumes' * Allowance + Spent(plan'[s]) + Latest(s)'
  BY DEF EffortInv
<1>2. /\ calls[s] \in Nat /\ Spent(plan[s]) \in Nat /\ resumes * Allowance \in Nat
      /\ Allowance \in Nat
  BY SpentType, AllowanceType DEF TypeOK, Plans
<1>3. calls[s] <= resumes * Allowance + Spent(plan[s]) + Latest(s)
  BY DEF EffortInv
<1>4. Spent(plan[s]) + 1 <= Allowance
  BY SpentBound DEF ThriftInv, PlanCopies, Thrifty, TypeOK, Plans
<1>5. calls'[s] <= resumes' * Allowance + Allowance
  BY <1>2, <1>3, <1>4, LatestType
<1> QED BY <1>5

(* and over a resumption, which is granted an allowance of its own.        *)
LEMMA EffortResumes ==
  ASSUME TypeOK, TypeOK', EffortInv, Resume, UNCHANGED calls
  PROVE  EffortInv'
<1>1. SUFFICES ASSUME NEW s \in Steps
               PROVE  calls'[s] <= IF pc' = "idle" THEN resumes' * Allowance + Allowance
                                   ELSE resumes' * Allowance + Spent(plan'[s]) + Latest(s)'
  BY DEF EffortInv
<1>2. /\ calls[s] \in Nat /\ Spent(plan'[s]) \in Nat /\ Allowance \in Nat
      /\ resumes \in Nat /\ resumes' = resumes + 1 /\ pc = "idle"
  BY SpentType, AllowanceType DEF TypeOK, Plans, Resume
<1>3. /\ resumes * Allowance \in Nat
      /\ resumes' * Allowance = resumes * Allowance + Allowance
  BY <1>2, NextTimes
<1>4. calls[s] <= resumes' * Allowance
  BY <1>2, <1>3 DEF EffortInv
<1>5. calls'[s] <= resumes' * Allowance + Spent(plan'[s]) + Latest(s)'
  BY <1>2, <1>3, <1>4, LatestType
<1>6. calls'[s] <= resumes' * Allowance + Allowance
  BY <1>2, <1>3, <1>4
<1> QED BY <1>5, <1>6

(* A step's own action adds to its calls only what it has to be judged or  *)
(* spends.                                                                 *)
LEMMA EffortOfStep ==
  ASSUME TypeOK, TypeOK', BatchInv, ThriftInv, NEW s \in Steps, StepAction(s), pc' # "idle"
  PROVE  /\ resumes' = resumes /\ pc # "idle"
         /\ \A t \in Steps : calls'[t] + Spent(plan[t]) + Latest(t)
                               <= calls[t] + Spent(plan'[t]) + Latest(t)'
<1>0. /\ plan \in Plans /\ plan' \in Plans
      /\ \A t \in Steps : /\ calls[t] \in Nat /\ plan[t] \in StepState /\ plan'[t] \in StepState
                          /\ Spent(plan[t]) \in Nat /\ Spent(plan'[t]) \in Nat
  BY SpentType DEF TypeOK, Plans
<1>1. resumes' = resumes /\ pc = "batch"
  BY InBatch, NextInBatch
  DEF StepAction, SelectAgent, CallUngated, CallApproved, StartCall, RaiseGate,
      GateUnavailable, CallReturns, ProcessCompleted, ProcessPaused, ProcessRetry,
      ProcessSwitch, ProcessTerminate, Failed, Process, Finish
<1>2. ~ProcessPaused(s) /\ ~ProcessTerminate(s)
  BY DEF ProcessPaused, ProcessTerminate, Finish, Leave
<1>3. ASSUME NEW t \in Steps, t # s
      PROVE  calls'[t] = calls[t] /\ Spent(plan'[t]) = Spent(plan[t]) /\ Latest(t)' = Latest(t)
  <2>1. calls'[t] = calls[t] /\ phase'[t] = phase[t] /\ (t \in batch' <=> t \in batch)
    BY <1>2, <1>3
    DEF StepAction, SelectAgent, CallUngated, CallApproved, StartCall, RaiseGate,
        GateUnavailable, CallReturns, ProcessCompleted, ProcessRetry, ProcessSwitch, Process,
        TypeOK
  <2>2. /\ plan'[t].retries = plan[t].retries /\ plan'[t].switches = plan[t].switches
        /\ plan'[t].st = plan[t].st
    BY <1>3, BudgetsOfStep
  <2>3. Spent(plan'[t]) = Spent(plan[t])
    BY <2>2 DEF Spent
  <2>4. Latest(t)' = Latest(t)
    BY <2>1, <2>2 DEF Latest, Unjudged
  <2> QED BY <2>1, <2>3, <2>4
<1>4. ASSUME ~ProcessRetry(s), ~ProcessSwitch(s) PROVE Spent(plan'[s]) = Spent(plan[s])
  BY <1>4, BudgetsOfStep DEF Spent
<1>5. CASE CallUngated(s) \/ CallApproved(s)
  <2>1. s \in batch /\ phase[s] = "selected" /\ plan[s].st = "pending"
    BY <1>5, InBatch DEF CallUngated, CallApproved, BatchInv
  <2>2. Latest(s) = 0
    BY <2>1 DEF Latest, Unjudged
  <2>3. calls'[s] = calls[s] + 1 /\ phase'[s] = "calling" /\ batch' = batch
    BY <1>5 DEF CallUngated, CallApproved, StartCall, TypeOK
  <2>4. Latest(s)' = 1
    BY <2>1, <2>3 DEF Latest, Unjudged
  <2>5. ~ProcessRetry(s) /\ ~ProcessSwitch(s)
    BY <2>1 DEF ProcessRetry, ProcessSwitch, Failed
  <2>6. calls'[s] + Spent(plan[s]) + Latest(s) <= calls[s] + Spent(plan'[s]) + Latest(s)'
    BY <1>0, <1>4, <2>2, <2>3, <2>4, <2>5
  <2> QED BY <1>0, <1>1, <1>3, <2>6, LatestType
<1>6. CASE ProcessRetry(s) \/ ProcessSwitch(s)
  <2>1. calls'[s] = calls[s]
    BY <1>6 DEF ProcessRetry, ProcessSwitch, Process
  <2>2. plan[s].retries <= MaxRetries
    BY DEF ThriftInv, PlanCopies, Thrifty
  <2>3. Spent(plan[s]) + 1 <= Spent(plan'[s])
    BY <1>0, <1>6, <2>2, SpentGrows, BudgetsOfStep
  <2>4. calls'[s] + Spent(plan[s]) + Latest(s) <= calls[s] + Spent(plan'[s]) + Latest(s)'
    BY <1>0, <2>1, <2>3, LatestType
  <2> QED BY <1>0, <1>1, <1>3, <2>4, LatestType
<1>7. CASE \/ SelectAgent(s) \/ RaiseGate(s) \/ GateUnavailable(s) \/ CallReturns(s)
           \/ ProcessCompleted(s)
  <2>1. calls'[s] = calls[s] /\ ~ProcessRetry(s) /\ ~ProcessSwitch(s)
    BY <1>7
    DEF SelectAgent, RaiseGate, GateUnavailable, CallReturns, ProcessCompleted, Process,
        ProcessRetry, ProcessSwitch, Failed
  <2>2. ASSUME SelectAgent(s) \/ RaiseGate(s)
        PROVE  calls'[s] + Spent(plan[s]) + Latest(s) <= calls[s] + Spent(plan'[s]) + Latest(s)'
    <3>1. s \in batch /\ phase[s] \in {"selecting", "selected"} /\ plan[s].st = "pending"
      BY <2>2, InBatch DEF SelectAgent, RaiseGate, BatchInv
    <3>2. Latest(s) = 0
      BY <3>1 DEF Latest, Unjudged
    <3> QED BY <1>0, <1>4, <2>1, <3>2, LatestType
  <2>3. ASSUME GateUnavailable(s) \/ CallReturns(s)
        PROVE  calls'[s] + Spent(plan[s]) + Latest(s) <= calls[s] + Spent(plan'[s]) + Latest(s)'
    <3>1. s \in batch /\ batch' = batch /\ phase'[s] \in {"ok", "error", "fatal"}
      BY <2>3, InBatch DEF GateUnavailable, CallReturns, TypeOK
    <3>2. Latest(s)' = 1
      BY <3>1 DEF Latest, Unjudged
    <3> QED BY <1>0, <1>4, <2>1, <3>2, LatestType
  <2>4. ASSUME ProcessCompleted(s)
        PROVE  calls'[s] + Spent(plan[s]) + Latest(s) <= calls[s] + Spent(plan'[s]) + Latest(s)'
    <3>1. plan'[s].st = "completed"
      BY <1>0, <2>4 DEF ProcessCompleted, Process, Plans, StepState
    <3>2. Latest(s)' = 1
      BY <3>1 DEF Latest
    <3> QED BY <1>0, <1>4, <2>1, <3>2, LatestType
  <2>5. calls'[s] + Spent(plan[s]) + Latest(s) <= calls[s] + Spent(plan'[s]) + Latest(s)'
    BY <1>7, <2>2, <2>3, <2>4
  <2> QED BY <1>0, <1>1, <1>3, <2>5, LatestType
<1> QED BY <1>2, <1>5, <1>6, <1>7 DEF StepAction

LEMMA EffortStep ==
  ASSUME TypeOK, TypeOK', BatchInv, PlanInv, ThriftInv, EffortInv, Next
  PROVE  EffortInv'
<1>1. ASSUME NEW s \in Steps, StepAction(s) PROVE EffortInv'
  <2>1. CASE pc' # "idle"
    BY <1>1, <2>1, EffortOfStep, EffortMoves
  <2>2. CASE pc' = "idle"
    <3>1. pc = "batch"
      BY <1>1, InBatch, NextInBatch
      DEF StepAction, SelectAgent, CallUngated, CallApproved, RaiseGate, GateUnavailable,
          CallReturns, ProcessCompleted, ProcessPaused, ProcessRetry, ProcessSwitch,
          ProcessTerminate, Failed
    <3>2. UNCHANGED <<calls, resumes>>
      BY <1>1, <2>2, <3>1
      DEF StepAction, SelectAgent, CallUngated, CallApproved, StartCall, RaiseGate,
          GateUnavailable, CallReturns, ProcessCompleted, ProcessPaused, ProcessRetry,
          ProcessSwitch, ProcessTerminate, Process, Finish
    <3> QED BY <2>2, <3>1, <3>2, EffortLeaves
  <2> QED BY <2>1, <2>2
<1>2. ASSUME pc # "idle", pc' # "idle", UNCHANGED <<calls, resumes>>, plan' = plan,
             \A s \in Steps : Unjudged(s) => Unjudged(s)'
      PROVE  EffortInv'
  <2>1. \A s \in Steps :
          /\ calls[s] \in Nat /\ Spent(plan[s]) \in Nat /\ Latest(s)' >= Latest(s)
    BY <1>2, SpentType DEF Latest, TypeOK, Plans
  <2> QED BY <1>2, <2>1, EffortMoves, LatestType
<1>3. CASE RunAction
  <2>1. CASE \/ StartRun \/ BeginExecution \/ Dispatch \/ FinishBatch \/ BeginVerification
             \/ BeginReplan \/ Replan
    <3>1. pc # "idle" /\ pc' # "idle" /\ UNCHANGED <<calls, resumes>>
      BY <2>1
      DEF StartRun, BeginExecution, Dispatch, AtLoopTop, FinishBatch, BeginVerification,
          BeginReplan, Replan, Finds
    <3>2. batch = {}
      BY <2>1
      DEF StartRun, BeginExecution, Dispatch, AtLoopTop, FinishBatch, BeginVerification,
          BeginReplan, Replan, Finds, BatchInv
    <3>3. Replan => Replanned(plan) = plan
      BY ReplannedSame DEF Replan, PlanInv, TypeOK
    <3>4. plan' = plan
      BY <2>1, <3>3
      DEF StartRun, BeginExecution, Dispatch, FinishBatch, BeginVerification, BeginReplan,
          Replan
    <3> QED BY <1>2, <3>1, <3>2, <3>4 DEF Unjudged
  <2>2. CASE \/ CancelPlanned \/ ObserveCancel \/ ObserveTimeout \/ PauseForGates
             \/ VerdictPass \/ VerdictRejected \/ VerdictFailed
    <3>1. pc # "idle" /\ pc' = "idle" /\ UNCHANGED <<calls, resumes>>
      BY <2>2
      DEF CancelPlanned, ObserveCancel, ObserveTimeout, PauseForGates, AtLoopTop,
          VerdictPass, VerdictRejected, VerdictFailed, Finds, Finish, Leave
    <3> QED BY <3>1, EffortLeaves
  <2> QED BY <1>3, <2>1, <2>2 DEF RunAction
<1>4. CASE ResumeAction
  <2>1. Resume /\ UNCHANGED calls
    BY <1>4
    DEF ResumeAction, ResumeRefused, ResumeContinue, ResumeRejected, ResumeDecideRaises,
        ResumeStillWaiting, ResumeUnlocked, ResumePaused, Reenter, NotResumed
  <2> QED BY <2>1, EffortResumes
<1>5. CASE RequestCancel \/ \E g \in DOMAIN approvals : Decide(g)
  <2>1. UNCHANGED <<pc, plan, batch, phase, calls, resumes>>
    BY <1>5 DEF RequestCancel, Decide, driver
  <2> QED BY <2>1 DEF EffortInv, Latest, Unjudged
<1>6. CASE Interrupt \/ Crash
  <2>1. pc' = "idle" /\ UNCHANGED <<calls, resumes>>
    BY <1>6 DEF Interrupt, Crash, Leave
  <2>2. CASE pc = "idle"
    BY <2>1, <2>2 DEF EffortInv
  <2>3. CASE pc # "idle"
    BY <2>1, <2>3, EffortLeaves
  <2> QED BY <2>2, <2>3
<1> QED BY <1>1, <1>3, <1>4, <1>5, <1>6 DEF Next, EnvironmentAction

(* Retries, agent switches and resumptions together bound how often a step *)
(* is called: within a generator every call but the last is paid for from  *)
(* the step's budgets, which no crash, lost write or resumption refills    *)
(* without a resume_run call of its own.                                   *)
THEOREM EffortBoundedCorrect == Spec => []EffortBounded
<1>1. Init => EffortInv
  <2>1. ASSUME Init, NEW s \in Steps
        PROVE  calls[s] = 0 /\ resumes = 0 /\ pc # "idle" /\ plan[s] = FreshStep
    BY <2>1 DEF Init, FreshPlan
  <2>2. ASSUME Init, NEW s \in Steps
        PROVE  calls[s] <= resumes * Allowance + Spent(plan[s]) + Latest(s)
    <3>1. Spent(plan[s]) \in Nat /\ resumes * Allowance = 0
      BY <2>1, <2>2, SpentType, FreshPlanType, AllowanceType
    <3> QED BY <2>1, <2>2, <3>1, LatestType
  <2> QED BY <2>1, <2>2 DEF EffortInv
<1>2. TypeOK /\ ThriftInv /\ EffortInv => EffortBounded
  <2>1. SUFFICES ASSUME TypeOK, ThriftInv, EffortInv, NEW s \in Steps
                 PROVE  calls[s] <= (resumes + 1) * (MaxRetries + 1) * (MaxSwitches + 1)
    BY DEF EffortBounded
  <2>2. /\ calls[s] \in Nat /\ Spent(plan[s]) \in Nat /\ Allowance \in Nat
        /\ resumes \in Nat
    BY <2>1, SpentType, AllowanceType DEF TypeOK, Plans
  <2>3. resumes * Allowance \in Nat /\ (resumes + 1) * Allowance = resumes * Allowance + Allowance
    BY <2>2, NextTimes
  <2>4. Spent(plan[s]) + 1 <= Allowance
    BY <2>1, SpentBound DEF ThriftInv, PlanCopies, Thrifty, TypeOK, Plans
  <2>5. calls[s] <= (resumes + 1) * Allowance
    BY <2>1, <2>2, <2>3, <2>4, LatestType DEF EffortInv
  <2>6. (resumes + 1) * Allowance = (resumes + 1) * (MaxRetries + 1) * (MaxSwitches + 1)
    <3>1. MaxRetries \in Nat /\ MaxSwitches \in Nat
      BY CountsAssumption
    <3> QED BY <2>2, <3>1 DEF Allowance
  <2> QED BY <2>5, <2>6
<1>3. EffortInv /\ UNCHANGED vars => EffortInv'
  BY DEF EffortInv, Latest, Unjudged, vars, driver
<1>4. TypeOK /\ TypeOK' /\ BatchInv /\ PlanInv /\ ThriftInv /\ EffortInv /\ [Next]_vars
        => EffortInv'
  BY <1>3, EffortStep
<1> QED
  BY <1>1, <1>2, <1>4, TypeCorrect, BatchCorrect, PlanCorrect, ThriftCorrect, PTL DEF Spec
-----------------------------------------------------------------------------
(* What a driven run has still to do.                                      *)
LEMMA UnitsFinite ==
  ASSUME NEW f
  PROVE  IsFiniteSet(Units(f)) /\ Cardinality(Units(f)) \in Nat
<1>1. NumSteps \in Nat /\ MostMoves \in Nat
  BY CountsAssumption, AllowanceType DEF MostMoves
<1>2. IsFiniteSet(Steps) /\ IsFiniteSet(1..MostMoves)
  BY <1>1, FS_Interval DEF Steps
<1>3. IsFiniteSet(Steps \X (1..MostMoves))
  BY <1>2, FS_Product
<1>4. Units(f) \subseteq Steps \X (1..MostMoves)
  BY DEF Units
<1>5. IsFiniteSet(Units(f))
  BY <1>3, <1>4, FS_Subset
<1> QED BY <1>5, FS_CardinalityType

LEMMA UnitsShrink ==
  ASSUME NEW f \in [Steps -> Int], NEW g \in [Steps -> Int], \A s \in Steps : g[s] <= f[s]
  PROVE  /\ Units(g) \subseteq Units(f)
         /\ Cardinality(Units(g)) <= Cardinality(Units(f))
<1>1. MostMoves \in Nat
  BY AllowanceType DEF MostMoves
<1>2. ASSUME NEW u \in Units(g) PROVE u \in Units(f)
  <2>1. /\ u \in Steps \X (1..MostMoves) /\ u[2] <= g[u[1]]
        /\ u[1] \in Steps /\ u[2] \in 1..MostMoves
    BY <1>2 DEF Units
  <2>2. g[u[1]] \in Int /\ f[u[1]] \in Int /\ u[2] \in Int /\ g[u[1]] <= f[u[1]]
    BY <1>1, <2>1
  <2>3. u[2] <= f[u[1]]
    BY <2>1, <2>2
  <2> QED BY <2>1, <2>3 DEF Units
<1> QED BY <1>2, UnitsFinite, FS_Subset

LEMMA UnitsFall ==
  ASSUME NEW f \in [Steps -> Int], NEW g \in [Steps -> Int], \A s \in Steps : g[s] <= f[s],
         NEW s \in Steps, g[s] < f[s], f[s] \in 1..MostMoves
  PROVE  Cardinality(Units(g)) < Cardinality(Units(f))
<1>1. MostMoves \in Nat
  BY AllowanceType DEF MostMoves
<1>2. <<s, f[s]>> \in Units(f) /\ <<s, f[s]>> \notin Units(g)
  BY <1>1 DEF Units
<1>3. /\ Cardinality(Units(g)) <= Cardinality(Units(f))
      /\ Cardinality(Units(g)) # Cardinality(Units(f))
  BY <1>2, UnitsShrink, UnitsFinite, FS_Subset
<1> QED BY <1>3, UnitsFinite

LEMMA CallsLeftType ==
  ASSUME NEW st \in StepState, st.retries <= MaxRetries, st.switches <= MaxSwitches
  PROVE  /\ CallsLeft(st) \in 0..Allowance
         /\ st.st # "completed" => CallsLeft(st) >= 1
BY SpentType, SpentBound, AllowanceType DEF CallsLeft

LEMMA PassedType == \A ph : Passed(ph) \in 1..4
<1> SUFFICES ASSUME NEW ph PROVE Passed(ph) \in 1..4
  OBVIOUS
<1>1. CASE ph = "selecting"
  BY <1>1 DEF Passed
<1>2. CASE ph = "selected"
  BY <1>2 DEF Passed
<1>3. CASE ph = "calling"
  BY <1>3 DEF Passed
<1>4. CASE ph \notin {"selecting", "selected", "calling"}
  BY <1>4 DEF Passed
<1> QED BY <1>1, <1>2, <1>3, <1>4

LEMMA MovesType ==
  ASSUME TypeOK, BatchInv, ThriftInv, NEW s \in Steps
  PROVE  /\ Moves(s) \in 0..MostMoves
         /\ s \in batch => Moves(s) \in 2..MostMoves
         /\ CallsLeft(plan[s]) \in 0..Allowance
<1>1. /\ CallsLeft(plan[s]) \in 0..Allowance
      /\ plan[s].st # "completed" => CallsLeft(plan[s]) >= 1
  BY CallsLeftType DEF ThriftInv, PlanCopies, Thrifty, TypeOK, Plans
<1>2. s \in batch => plan[s].st # "completed"
  BY DEF BatchInv
<1>3. Passed(phase[s]) \in 1..4 /\ Allowance \in Nat
  BY PassedType, AllowanceType
<1>4. CASE s \in batch
  BY <1>1, <1>2, <1>3, <1>4 DEF Moves, MostMoves
<1>5. CASE s \notin batch
  BY <1>1, <1>3, <1>5 DEF Moves, MostMoves
<1> QED BY <1>1, <1>4, <1>5

LEMMA MovesTypeNext ==
  TypeOK' /\ BatchInv' /\ ThriftInv' => (\A s \in Steps : Moves(s) \in 0..MostMoves)'
<1>1. TypeOK /\ BatchInv /\ ThriftInv => \A s \in Steps : Moves(s) \in 0..MostMoves
  BY MovesType
<1> QED BY <1>1, PTL

(* Where the generator stands, in turn.                                    *)
LEMMA PlaceOrder ==
  ASSUME NEW n \in Nat
  PROVE  /\ \A place : PlaceOf(place, n) \in Nat \ {0}
         /\ PlaceOf("planned", n) < PlaceOf("new", n)
         /\ PlaceOf("top", n) < PlaceOf("planned", n)
         /\ PlaceOf("batch", n) = PlaceOf("top", n)
         /\ PlaceOf("verify", n) < PlaceOf("top", n)
         /\ PlaceOf("replan", n) < PlaceOf("verify", n)
         /\ PlaceOf("top", n) < PlaceOf("replan", n + 1)
<1>1. /\ PlaceOf("new", n) = 3 * n + 5 /\ PlaceOf("planned", n) = 3 * n + 4
      /\ PlaceOf("top", n) = 3 * n + 3 /\ PlaceOf("batch", n) = 3 * n + 3
      /\ PlaceOf("verify", n) = 3 * n + 2 /\ PlaceOf("replan", n) = 3 * n + 1
      /\ PlaceOf("replan", n + 1) = 3 * (n + 1) + 1
  BY DEF PlaceOf
<1>2. ASSUME NEW place PROVE PlaceOf(place, n) \in Nat \ {0}
  <2>1. CASE place \in {"new", "planned", "top", "batch", "verify"}
    BY <1>1, <2>1
  <2>2. CASE place \notin {"new", "planned", "top", "batch", "verify"}
    BY <2>2 DEF PlaceOf
  <2> QED BY <2>1, <2>2
<1> QED BY <1>1, <1>2

LEMMA RevisionLimitType == RevisionLimit \in Nat
BY CountsAssumption DEF RevisionLimit

LEMMA PlaceType ==
  ASSUME RevisionsLeft
  PROVE  /\ RevisionLimit - revision \in Nat
         /\ PlaceOf(pc, RevisionLimit - revision) \in Nat \ {0}
<1>1. RevisionLimit - revision \in Nat
  BY RevisionLimitType DEF RevisionsLeft
<1> QED BY <1>1, PlaceOrder

LEMMA PlaceTypeNext ==
  ASSUME RevisionsLeft'
  PROVE  PlaceOf(pc', RevisionLimit - revision') \in Nat \ {0}
<1>1. RevisionLimit - revision' \in Nat
  BY CountsAssumption DEF RevisionsLeft, RevisionLimit
<1> QED BY <1>1, PlaceOrder

(* The bound falls when a step of the plan or the generator advances, ...  *)
LEMMA ToDoFalls ==
  ASSUME TypeOK, BatchInv, ThriftInv, RevisionsLeft,
         TypeOK', BatchInv', ThriftInv', RevisionsLeft',
         pc # "idle", pc' # "idle",
         \A s \in Steps : Moves(s)' <= Moves(s),
         PlaceOf(pc', RevisionLimit - revision') <= PlaceOf(pc, RevisionLimit - revision)
  PROVE  /\ ToDo' <= ToDo
         /\ \/ \E s \in Steps : Moves(s)' < Moves(s)
            \/ PlaceOf(pc', RevisionLimit - revision') < PlaceOf(pc, RevisionLimit - revision)
            => ToDo' < ToDo
<1>1. PICK f : f = [s \in Steps |-> Moves(s)]
  OBVIOUS
<1>2. PICK g : g = [s \in Steps |-> Moves(s)']
  OBVIOUS
<1>3. MostMoves \in Nat
  BY AllowanceType DEF MostMoves
<1>4. \A s \in Steps : Moves(s) \in 0..MostMoves /\ Moves(s)' \in 0..MostMoves
  BY MovesType, MovesTypeNext
<1>5. f \in [Steps -> Int] /\ g \in [Steps -> Int] /\ \A s \in Steps : g[s] <= f[s]
  BY <1>1, <1>2, <1>3, <1>4
<1>6. Cardinality(Units(g)) \in Nat /\ Cardinality(Units(f)) \in Nat
  BY UnitsFinite
<1>7. PICK a \in Nat, b \in Nat : a = PlaceOf(pc, RevisionLimit - revision)
                                 /\ b = PlaceOf(pc', RevisionLimit - revision')
  BY PlaceType, PlaceTypeNext
<1>8. ToDo = Cardinality(Units(f)) + a /\ ToDo' = Cardinality(Units(g)) + b
  BY <1>1, <1>2, <1>7 DEF ToDo
<1>9. Cardinality(Units(g)) <= Cardinality(Units(f))
  BY <1>5, UnitsShrink
<1>10. ASSUME NEW s \in Steps, Moves(s)' < Moves(s)
       PROVE  Cardinality(Units(g)) < Cardinality(Units(f))
  <2>1. g[s] < f[s] /\ f[s] \in 1..MostMoves
    BY <1>1, <1>2, <1>3, <1>4, <1>10
  <2> QED BY <1>5, <2>1, UnitsFall
<1>11. ToDo' <= ToDo
  BY <1>6, <1>7, <1>8, <1>9
<1>12. ASSUME NEW s \in Steps, Moves(s)' < Moves(s) PROVE ToDo' < ToDo
  BY <1>6, <1>7, <1>8, <1>10, <1>12
<1>13. ASSUME PlaceOf(pc', RevisionLimit - revision') < PlaceOf(pc, RevisionLimit - revision)
       PROVE  ToDo' < ToDo
  BY <1>6, <1>7, <1>8, <1>9, <1>13
<1> QED BY <1>11, <1>12, <1>13

(* and when the generator returns or is dropped.                           *)
LEMMA ToDoEnds ==
  ASSUME RevisionsLeft, pc # "idle", pc' = "idle"
  PROVE  ToDo' < ToDo
<1>1. PlaceOf(pc, RevisionLimit - revision) \in Nat \ {0}
  BY PlaceType
<1>2. Cardinality(Units([s \in Steps |-> Moves(s)])) \in Nat
  BY UnitsFinite
<1>3. ToDo' = 0
  BY DEF ToDo
<1> QED BY <1>1, <1>2, <1>3 DEF ToDo

(* A batch has steps that were gathered, ...                               *)
LEMMA GatheredStep ==
  ASSUME TypeOK, BatchInv, Gathered, Next
  PROVE  Gathered'
<1>1. ASSUME NEW s \in Steps, StepAction(s), pc' = "batch" PROVE Gathered'
  <2>1. pc = "batch"
    BY <1>1, InBatch, NextInBatch
    DEF StepAction, SelectAgent, CallUngated, CallApproved, RaiseGate, GateUnavailable,
        CallReturns, ProcessCompleted, ProcessPaused, ProcessRetry, ProcessSwitch,
        ProcessTerminate, Failed
  <2>2. PICK t \in Steps : phase[t] # "none"
    BY <2>1 DEF Gathered
  <2>3. phase'[t] # "none"
    BY <1>1, <2>2
    DEF StepAction, SelectAgent, CallUngated, CallApproved, StartCall, RaiseGate,
        GateUnavailable, CallReturns, ProcessCompleted, ProcessPaused, ProcessRetry,
        ProcessSwitch, ProcessTerminate, Process, Finish, Leave, TypeOK
  <2> QED BY <2>3 DEF Gathered
<1>2. CASE Dispatch
  <2>1. PICK s \in Runnable(plan) : s \in Steps
    BY <1>2 DEF Dispatch, Runnable, StepsIn
  <2>2. phase'[s] # "none"
    BY <1>2, <2>1 DEF Dispatch
  <2> QED BY <2>1, <2>2 DEF Gathered
<1>3. CASE ResumeAction
  <2>1. pc = "idle" /\ pc' # "batch"
    BY <1>3
    DEF ResumeAction, ResumeRefused, ResumeContinue, ResumeRejected, ResumeDecideRaises,
        ResumeStillWaiting, ResumeUnlocked, ResumePaused, Resume, Reenter, NotResumed, driver
  <2> QED BY <2>1 DEF Gathered
<1>4. CASE EnvironmentAction
  <2>1. pc' = "batch" => UNCHANGED <<pc, phase>>
    BY <1>4 DEF EnvironmentAction, RequestCancel, Interrupt, Crash, Leave, Decide, driver
  <2> QED BY <2>1 DEF Gathered
<1>5. CASE RunAction /\ ~Dispatch
  <2>1. pc' # "batch"
    BY <1>5
    DEF RunAction, StartRun, CancelPlanned, BeginExecution, ObserveCancel, ObserveTimeout,
        PauseForGates, FinishBatch, BeginVerification, VerdictPass, VerdictRejected,
        VerdictFailed, BeginReplan, Replan, Finish, Leave
  <2> QED BY <2>1 DEF Gathered
<1>6. pc' # "batch" => Gathered'
  BY DEF Gathered
<1> QED BY <1>1, <1>2, <1>3, <1>4, <1>5, <1>6 DEF Next

LEMMA GatheredCorrect == Spec => []Gathered
<1>1. Init => Gathered
  BY DEF Init, Gathered
<1>2. Gathered /\ UNCHANGED vars => Gathered'
  BY DEF Gathered, vars, driver
<1>3. TypeOK /\ BatchInv /\ Gathered /\ [Next]_vars => Gathered'
  BY <1>2, GatheredStep
<1> QED BY <1>1, <1>3, TypeCorrect, BatchCorrect, PTL DEF Spec

(* and the revisions stay within both limits.                              *)
LEMMA RevisionsStep ==
  ASSUME TypeOK, BatchInv, RevisionsLeft, Next
  PROVE  RevisionsLeft'
<1>0. /\ RevisionLimit \in Nat /\ revision \in Nat /\ revision <= RevisionLimit
      /\ MaxRevisions \in Nat /\ VerifierRevisions \in Nat
  BY RevisionLimitType, CountsAssumption DEF RevisionsLeft
<1>1. ASSUME revision' \in 0..RevisionLimit, pc' # "replan" PROVE RevisionsLeft'
  BY <1>1 DEF RevisionsLeft, RevisionLimit
<1>2. ASSUME revision' = revision, pc' # "replan" PROVE RevisionsLeft'
  BY <1>0, <1>1, <1>2
<1>3. ASSUME NEW s \in Steps, StepAction(s) PROVE RevisionsLeft'
  <2>1. pc = "batch"
    BY <1>3, InBatch, NextInBatch
    DEF StepAction, SelectAgent, CallUngated, CallApproved, RaiseGate, GateUnavailable,
        CallReturns, ProcessCompleted, ProcessPaused, ProcessRetry, ProcessSwitch,
        ProcessTerminate, Failed
  <2>2. revision' = revision /\ pc' # "replan"
    BY <1>3, <2>1
    DEF StepAction, SelectAgent, CallUngated, CallApproved, StartCall, RaiseGate,
        GateUnavailable, CallReturns, ProcessCompleted, ProcessPaused, ProcessRetry,
        ProcessSwitch, ProcessTerminate, Process, Finish, Leave
  <2> QED BY <1>2, <2>2
<1>4. CASE RunAction /\ ~BeginReplan /\ ~Replan
  <2>1. revision' = revision /\ pc' # "replan"
    BY <1>4
    DEF RunAction, StartRun, CancelPlanned, BeginExecution, ObserveCancel, ObserveTimeout,
        PauseForGates, Dispatch, FinishBatch, BeginVerification, VerdictPass,
        VerdictRejected, VerdictFailed, Finish, Leave
  <2> QED BY <1>2, <2>1
<1>5. CASE BeginReplan
  <2>1. revision' = revision /\ revision < VerifierRevisions /\ revision < MaxRevisions
    BY <1>5 DEF BeginReplan
  <2> QED BY <1>0, <2>1 DEF RevisionsLeft, RevisionLimit
<1>6. CASE Replan
  <2>1. revision < RevisionLimit /\ revision' = revision + 1 /\ pc' = "top"
    BY <1>6 DEF Replan, RevisionsLeft
  <2> QED BY <1>0, <1>1, <2>1
<1>7. CASE ResumeAction
  <2>1. /\ revision' = revision \/ revision' = 0
        /\ pc' \in {"idle", "top"}
    BY <1>7
    DEF ResumeAction, ResumeRefused, ResumeContinue, ResumeRejected, ResumeDecideRaises,
        ResumeStillWaiting, ResumeUnlocked, ResumePaused, Resume, Reenter, NotResumed, driver
  <2> QED BY <1>0, <1>1, <2>1
<1>8. CASE EnvironmentAction
  <2>1. revision' = revision /\ (pc' = pc \/ pc' = "idle")
    BY <1>8 DEF EnvironmentAction, RequestCancel, Interrupt, Crash, Leave, Decide, driver
  <2> QED BY <1>0, <1>2, <2>1 DEF RevisionsLeft, RevisionLimit
<1> QED BY <1>3, <1>4, <1>5, <1>6, <1>7, <1>8 DEF Next

LEMMA RevisionsCorrect == Spec => []RevisionsLeft
<1>1. Init => RevisionsLeft
  BY RevisionLimitType DEF Init, RevisionsLeft
<1>2. RevisionsLeft /\ UNCHANGED vars => RevisionsLeft'
  BY DEF RevisionsLeft, RevisionLimit, vars, driver
<1>3. TypeOK /\ BatchInv /\ RevisionsLeft /\ [Next]_vars => RevisionsLeft'
  BY <1>2, RevisionsStep
<1> QED BY <1>1, <1>3, TypeCorrect, BatchCorrect, PTL DEF Spec

(* An action of a step takes one of its moves and none of another's.       *)
LEMMA MovesOfStep ==
  ASSUME TypeOK, TypeOK', BatchInv, ThriftInv, NEW s \in Steps, StepAction(s), pc' # "idle"
  PROVE  /\ pc = "batch" /\ pc' = "batch" /\ revision' = revision
         /\ \A t \in Steps \ {s} : Moves(t)' = Moves(t)
         /\ Moves(s)' < Moves(s)
<1>0. /\ plan \in Plans /\ plan' \in Plans
      /\ \A t \in Steps : plan[t] \in StepState /\ plan'[t] \in StepState
  BY DEF TypeOK, Plans
<1>1. ~ProcessPaused(s) /\ ~ProcessTerminate(s)
  BY DEF ProcessPaused, ProcessTerminate, Finish, Leave
<1>2. s \in batch /\ pc = "batch"
  BY <1>1, InBatch, NextInBatch
  DEF StepAction, SelectAgent, CallUngated, CallApproved, RaiseGate, GateUnavailable,
      CallReturns, ProcessCompleted, ProcessRetry, ProcessSwitch, Failed
<1>3. pc' = "batch" /\ revision' = revision
  BY <1>1, <1>2
  DEF StepAction, SelectAgent, CallUngated, CallApproved, StartCall, RaiseGate,
      GateUnavailable, CallReturns, ProcessCompleted, ProcessRetry, ProcessSwitch, Process
<1>4. ASSUME NEW t \in Steps, t # s PROVE Moves(t)' = Moves(t)
  <2>1. phase'[t] = phase[t] /\ (t \in batch' <=> t \in batch)
    BY <1>1, <1>4
    DEF StepAction, SelectAgent, CallUngated, CallApproved, StartCall, RaiseGate,
        GateUnavailable, CallReturns, ProcessCompleted, ProcessRetry, ProcessSwitch, Process,
        TypeOK
  <2>2. /\ plan'[t].retries = plan[t].retries /\ plan'[t].switches = plan[t].switches
        /\ plan'[t].st = plan[t].st
    BY <1>4, BudgetsOfStep
  <2>3. CallsLeft(plan'[t]) = CallsLeft(plan[t])
    BY <2>2 DEF CallsLeft, Spent
  <2> QED BY <2>1, <2>3 DEF Moves
<1>5. /\ plan[s].st # "completed"
      /\ CallsLeft(plan[s]) \in Nat /\ CallsLeft(plan[s]) >= 1
      /\ Spent(plan[s]) \in Nat /\ Spent(plan'[s]) \in Nat /\ Allowance \in Nat
      /\ plan[s].retries <= MaxRetries
  <2>1. plan[s].st # "completed"
    BY <1>2 DEF BatchInv
  <2>2. plan[s].retries <= MaxRetries /\ plan[s].switches <= MaxSwitches
    BY DEF ThriftInv, PlanCopies, Thrifty
  <2> QED BY <1>0, <2>1, <2>2, CallsLeftType, SpentType, AllowanceType
<1>6. Moves(s) = 6 * CallsLeft(plan[s]) - Passed(phase[s])
  BY <1>2 DEF Moves
<1>7. CASE \/ SelectAgent(s) \/ CallUngated(s) \/ CallApproved(s) \/ RaiseGate(s)
           \/ GateUnavailable(s) \/ CallReturns(s)
  <2>1. batch' = batch /\ Passed(phase[s]) \in Nat /\ Passed(phase'[s]) \in Nat
    BY <1>7, PassedType
    DEF SelectAgent, CallUngated, CallApproved, StartCall, RaiseGate, GateUnavailable,
        CallReturns
  <2>2. Passed(phase[s]) < Passed(phase'[s])
    <3>1. CASE SelectAgent(s)
      <4>1. phase[s] = "selecting" /\ phase'[s] = "selected"
        BY <3>1 DEF SelectAgent, TypeOK
      <4> QED BY <4>1 DEF Passed
    <3>2. CASE CallUngated(s) \/ CallApproved(s)
      <4>1. phase[s] = "selected" /\ phase'[s] = "calling"
        BY <3>2 DEF CallUngated, CallApproved, StartCall, TypeOK
      <4> QED BY <4>1 DEF Passed
    <3>3. CASE RaiseGate(s) \/ GateUnavailable(s) \/ CallReturns(s)
      <4>1. phase[s] \in {"selected", "calling"} /\ phase'[s] \in Finished
        BY <3>3 DEF RaiseGate, GateUnavailable, CallReturns, Finished, TypeOK
      <4>2. Passed(phase'[s]) = 4
        BY <4>1 DEF Passed, Finished
      <4>3. Passed(phase[s]) \in {2, 3}
        BY <4>1 DEF Passed
      <4> QED BY <4>2, <4>3
    <3> QED BY <1>7, <3>1, <3>2, <3>3
  <2>3. plan'[s].st # "completed"
    <3>1. \/ plan' = plan
          \/ \E a \in Agents : plan' = [plan EXCEPT ![s].agent = a]
          \/ plan' = [plan EXCEPT ![s].gate = 0]
          \/ plan' = [plan EXCEPT ![s].gate = Len(approvals) + 1, ![s].st = "waiting_approval"]
      BY <1>7, AgentsAssumption
      DEF SelectAgent, CallUngated, CallApproved, RaiseGate, GateUnavailable, CallReturns
    <3> QED BY <1>0, <1>5, <3>1 DEF Plans, StepState
  <2>4. ~ProcessRetry(s) /\ ~ProcessSwitch(s)
    BY <1>7, <2>1, <1>2 DEF ProcessRetry, ProcessSwitch, Process
  <2>5. CallsLeft(plan'[s]) = CallsLeft(plan[s])
    BY <1>5, <2>3, <2>4, BudgetsOfStep DEF CallsLeft, Spent
  <2>6. Moves(s)' = 6 * CallsLeft(plan[s]) - Passed(phase'[s])
    BY <1>2, <2>1, <2>5 DEF Moves
  <2>7. Moves(s)' < Moves(s)
    BY <1>5, <1>6, <2>1, <2>2, <2>6
  <2> QED BY <1>2, <1>3, <1>4, <2>7
<1>8. CASE ProcessCompleted(s) \/ ProcessRetry(s) \/ ProcessSwitch(s)
  <2>1. phase[s] \in {"ok", "error", "fatal"} /\ phase'[s] = phase[s] /\ s \notin batch'
    BY <1>8 DEF ProcessCompleted, ProcessRetry, ProcessSwitch, Failed, Process
  <2>2. Passed(phase[s]) = 4
    BY <2>1 DEF Passed
  <2>3. Moves(s)' = 6 * CallsLeft(plan'[s]) + 1
    BY <2>1 DEF Moves
  <2>4. CallsLeft(plan'[s]) \in Int /\ CallsLeft(plan'[s]) <= CallsLeft(plan[s]) - 1
    <3>1. CASE ProcessCompleted(s)
      <4>1. plan'[s].st = "completed"
        BY <1>0, <3>1 DEF ProcessCompleted, Process, Plans, StepState
      <4>2. CallsLeft(plan'[s]) = 0
        BY <4>1 DEF CallsLeft
      <4> QED BY <1>5, <4>2
    <3>2. CASE ProcessRetry(s) \/ ProcessSwitch(s)
      <4>1. plan'[s].st = "pending" /\ Spent(plan[s]) + 1 <= Spent(plan'[s])
        BY <1>0, <1>5, <3>2, SpentGrows, BudgetsOfStep
      <4>2. /\ CallsLeft(plan'[s]) = Allowance - Spent(plan'[s])
            /\ CallsLeft(plan[s]) = Allowance - Spent(plan[s])
        BY <1>5, <4>1 DEF CallsLeft
      <4> QED BY <1>5, <4>1, <4>2
    <3> QED BY <1>8, <3>1, <3>2
  <2>5. Moves(s)' < Moves(s)
    BY <1>5, <1>6, <2>2, <2>3, <2>4
  <2> QED BY <1>2, <1>3, <1>4, <2>5
<1> QED BY <1>1, <1>7, <1>8 DEF StepAction

(* An action of the generator gathers steps, finishes a batch, or takes    *)
(* the generator on.                                                       *)
LEMMA MovesOfRun ==
  ASSUME TypeOK, TypeOK', BatchInv, BatchInv', PlanInv, ThriftInv, Gathered, RevisionsLeft,
         RevisionsLeft', RunAction, pc' # "idle"
  PROVE  /\ pc # "idle"
         /\ \A s \in Steps : Moves(s)' <= Moves(s)
         /\ PlaceOf(pc', RevisionLimit - revision') <= PlaceOf(pc, RevisionLimit - revision)
         /\ \/ \E s \in Steps : Moves(s)' < Moves(s)
            \/ PlaceOf(pc', RevisionLimit - revision') < PlaceOf(pc, RevisionLimit - revision)
<1>1. PICK n \in Nat : n = RevisionLimit - revision
  BY PlaceType
<1>2. \A s \in Steps : CallsLeft(plan[s]) \in Int /\ Moves(s) \in Int
  BY MovesType, AllowanceType DEF MostMoves
<1>3. pc # "idle" /\ batch = {}
  BY DEF RunAction, StartRun, CancelPlanned, BeginExecution, ObserveCancel, ObserveTimeout,
         PauseForGates, Dispatch, AtLoopTop, FinishBatch, BeginVerification, VerdictPass,
         VerdictRejected, VerdictFailed, BeginReplan, Finds, Replan, BatchInv
<1>4. CASE StartRun \/ BeginExecution \/ BeginVerification \/ BeginReplan \/ Replan
  <2>1. plan' = plan
    BY <1>4, ReplannedSame
    DEF StartRun, BeginExecution, BeginVerification, BeginReplan, Replan, PlanInv, TypeOK
  <2>2. UNCHANGED <<batch, phase>>
    BY <1>4 DEF StartRun, BeginExecution, BeginVerification, BeginReplan, Replan
  <2>3. \A s \in Steps : Moves(s)' = Moves(s)
    BY <2>1, <2>2 DEF Moves
  <2>4. CASE ~Replan
    <3>1. /\ revision' = revision
          /\ \/ pc = "new" /\ pc' = "planned"
             \/ pc = "planned" /\ pc' = "top"
             \/ pc = "top" /\ pc' = "verify"
             \/ pc = "verify" /\ pc' = "replan"
      BY <1>4, <2>4 DEF StartRun, BeginExecution, BeginVerification, BeginReplan, Finds
    <3>2. PlaceOf(pc', n) < PlaceOf(pc, n) /\ PlaceOf(pc', n) \in Nat /\ PlaceOf(pc, n) \in Nat
      BY <3>1, PlaceOrder
    <3>3. PlaceOf(pc', n) <= PlaceOf(pc, n)
      BY <3>2
    <3>4. RevisionLimit - revision' = n
      BY <1>1, <3>1
    <3> QED BY <1>1, <1>2, <1>3, <2>3, <3>2, <3>3, <3>4
  <2>5. CASE Replan
    <3>1. pc = "replan" /\ pc' = "top" /\ revision' = revision + 1
      BY <2>5 DEF Replan
    <3>2. PICK m \in Nat : m = RevisionLimit - revision'
      BY <3>1, RevisionLimitType DEF RevisionsLeft
    <3>3. n = m + 1
      BY <1>1, <3>1, <3>2, RevisionLimitType DEF RevisionsLeft
    <3>4. PlaceOf(pc', m) < PlaceOf(pc, n) /\ PlaceOf(pc', m) \in Nat /\ PlaceOf(pc, n) \in Nat
      BY <3>1, <3>3, PlaceOrder
    <3>5. PlaceOf(pc', m) <= PlaceOf(pc, n)
      BY <3>4
    <3> QED BY <1>1, <1>2, <1>3, <2>3, <3>2, <3>4, <3>5
  <2> QED BY <2>4, <2>5
<1>5. CASE Dispatch \/ FinishBatch
  <2>1. plan' = plan /\ revision' = revision /\ pc \in {"top", "batch"} /\ pc' \in {"top", "batch"}
    BY <1>5 DEF Dispatch, AtLoopTop, FinishBatch
  <2>2. PlaceOf(pc', n) = PlaceOf(pc, n) /\ PlaceOf(pc, n) \in Nat
    BY <2>1, PlaceOrder
  <2>3. PlaceOf(pc', RevisionLimit - revision') <= PlaceOf(pc, RevisionLimit - revision)
    BY <1>1, <2>1, <2>2
  <2>4. CASE Dispatch
    <3>1. \A s \in Steps : Moves(s) = 6 * CallsLeft(plan[s])
      BY <1>3, <2>4 DEF Dispatch, AtLoopTop, BatchInv, NoPhase, Moves
    <3>2. ASSUME NEW s \in Runnable(plan) PROVE s \in Steps /\ Moves(s)' < Moves(s)
      <4>1. s \in Steps /\ s \in batch' /\ phase'[s] = "selecting"
        BY <2>4, <3>2 DEF Dispatch, Runnable, StepsIn
      <4>2. Moves(s)' = 6 * CallsLeft(plan[s]) - 1
        BY <2>1, <4>1 DEF Moves, Passed
      <4> QED BY <1>2, <3>1, <4>1, <4>2
    <3>3. ASSUME NEW s \in Steps, s \notin Runnable(plan) PROVE Moves(s)' = Moves(s)
      <4>1. s \notin batch' /\ phase'[s] = "none"
        BY <2>4, <3>3 DEF Dispatch
      <4> QED BY <2>1, <3>1, <4>1 DEF Moves
    <3>4. PICK s \in Runnable(plan) : TRUE
      BY <2>4 DEF Dispatch
    <3>5. \A u \in Steps : Moves(u)' <= Moves(u)
      <4>1. ASSUME NEW u \in Steps PROVE Moves(u)' <= Moves(u)
        <5>1. CASE u \in Runnable(plan)
          <6>1. Moves(u)' = Moves(u) - 1
            <7>1. u \in batch' /\ phase'[u] = "selecting"
              BY <2>4, <5>1 DEF Dispatch
            <7>2. Moves(u)' = 6 * CallsLeft(plan[u]) - 1
              BY <2>1, <7>1 DEF Moves, Passed
            <7> QED BY <3>1, <7>2
          <6> QED BY <1>2, <6>1
        <5>2. CASE u \notin Runnable(plan)
          BY <1>2, <3>3, <5>2
        <5> QED BY <5>1, <5>2
      <4> QED BY <4>1
    <3> QED BY <1>3, <2>3, <3>2, <3>4, <3>5
  <2>5. CASE FinishBatch
    <3>1. \A s \in Steps : batch' = {} /\ phase'[s] = "none"
      BY <2>5 DEF FinishBatch, NoPhase
    <3>2. \A s \in Steps : Moves(s)' = 6 * CallsLeft(plan[s])
      BY <2>1, <3>1 DEF Moves
    <3>3. \A s \in Steps : Moves(s) = IF phase[s] = "none" THEN 6 * CallsLeft(plan[s])
                                      ELSE 6 * CallsLeft(plan[s]) + 1
      BY <1>3 DEF Moves
    <3>4. PICK s \in Steps : phase[s] # "none"
      BY <2>5 DEF FinishBatch, Gathered
    <3>5. Moves(s)' < Moves(s)
      BY <1>2, <3>2, <3>3, <3>4
    <3>6. \A u \in Steps : Moves(u)' <= Moves(u)
      BY <1>2, <3>2, <3>3
    <3> QED BY <1>3, <2>3, <3>5, <3>6
  <2> QED BY <1>5, <2>4, <2>5
<1>6. \/ StartRun \/ BeginExecution \/ BeginVerification \/ BeginReplan \/ Replan
      \/ Dispatch \/ FinishBatch
  BY DEF RunAction, CancelPlanned, ObserveCancel, ObserveTimeout, PauseForGates, VerdictPass,
         VerdictRejected, VerdictFailed, Finish, Leave
<1> QED BY <1>4, <1>5, <1>6

(* Every step of the engine lowers the bound on the steps it has left, ... *)
LEMMA EngineFalls ==
  ASSUME TypeOK, TypeOK', BatchInv, BatchInv', PlanInv, ThriftInv, ThriftInv', Gathered,
         RevisionsLeft, RevisionsLeft',
         (\E s \in Steps : StepAction(s)) \/ RunAction
  PROVE  ToDo' < ToDo
<1>1. ASSUME NEW s \in Steps, StepAction(s) PROVE ToDo' < ToDo
  <2>1. pc = "batch"
    BY <1>1, InBatch, NextInBatch
    DEF StepAction, SelectAgent, CallUngated, CallApproved, RaiseGate, GateUnavailable,
        CallReturns, ProcessCompleted, ProcessPaused, ProcessRetry, ProcessSwitch,
        ProcessTerminate, Failed
  <2>2. CASE pc' = "idle"
    BY <2>1, <2>2, ToDoEnds
  <2>3. CASE pc' # "idle"
    <3>1. /\ pc' = pc /\ revision' = revision
          /\ \A t \in Steps \ {s} : Moves(t)' = Moves(t)
          /\ Moves(s)' < Moves(s)
      BY <1>1, <2>1, <2>3, MovesOfStep
    <3>2. \A t \in Steps : Moves(t) \in Int /\ Moves(t)' \in Int
      BY MovesType, MovesTypeNext, AllowanceType DEF MostMoves
    <3>3. \A t \in Steps : Moves(t)' <= Moves(t)
      BY <3>1, <3>2
    <3>4. PlaceOf(pc', RevisionLimit - revision') <= PlaceOf(pc, RevisionLimit - revision)
      BY <3>1, PlaceType
    <3> QED BY <2>1, <2>3, <3>1, <3>3, <3>4, ToDoFalls
  <2> QED BY <2>2, <2>3
<1>2. CASE RunAction
  <2>1. pc # "idle"
    BY <1>2
    DEF RunAction, StartRun, CancelPlanned, BeginExecution, ObserveCancel, ObserveTimeout,
        PauseForGates, Dispatch, AtLoopTop, FinishBatch, BeginVerification, VerdictPass,
        VerdictRejected, VerdictFailed, BeginReplan, Finds, Replan
  <2>2. CASE pc' = "idle"
    BY <2>1, <2>2, ToDoEnds
  <2>3. CASE pc' # "idle"
    BY <1>2, <2>3, MovesOfRun, ToDoFalls
  <2> QED BY <2>2, <2>3
<1> QED BY <1>1, <1>2

(* and nothing that happens around a driven run raises it: not the         *)
(* operator's decisions nor a cancellation, whatever fails and whatever    *)
(* the verdicts are.  A generator that is scheduled therefore runs out of  *)
(* steps; fairness is needed only for it to be scheduled.                  *)
THEOREM EngineAdvancesCorrect == Spec => EngineAdvances
<1>1. ASSUME TypeOK, TypeOK', BatchInv, BatchInv', PlanInv, ThriftInv, ThriftInv', Gathered,
             RevisionsLeft, RevisionsLeft', [Next]_vars
      PROVE  [/\ pc # "idle" => ToDo' <= ToDo
              /\ (\E s \in Steps : StepAction(s)) \/ RunAction => ToDo' < ToDo]_vars
  <2>1. ToDo \in Nat /\ ToDo' \in Nat
    <3>1. /\ PlaceOf(pc, RevisionLimit - revision) \in Nat
          /\ PlaceOf(pc', RevisionLimit - revision') \in Nat
      BY <1>1, PlaceType, PlaceTypeNext
    <3>2. /\ Cardinality(Units([s \in Steps |-> Moves(s)])) \in Nat
          /\ Cardinality(Units([s \in Steps |-> Moves(s)'])) \in Nat
      BY UnitsFinite
    <3>3. ToDo \in Nat
      BY <3>1, <3>2 DEF ToDo
    <3>4. ToDo' \in Nat
      BY <3>1, <3>2 DEF ToDo
    <3> QED BY <3>3, <3>4
  <2>2. ASSUME (\E s \in Steps : StepAction(s)) \/ RunAction
        PROVE  ToDo' < ToDo /\ ToDo' <= ToDo
    BY <1>1, <2>1, <2>2, EngineFalls
  <2>3. ASSUME ResumeAction PROVE pc = "idle"
    BY <2>3
    DEF ResumeAction, ResumeRefused, ResumeContinue, ResumeRejected, ResumeDecideRaises,
        ResumeStillWaiting, ResumeUnlocked, ResumePaused, Resume
  <2>4. ASSUME EnvironmentAction, pc # "idle" PROVE ToDo' <= ToDo
    <3>1. CASE Interrupt \/ Crash
      <4>1. pc' = "idle"
        BY <3>1 DEF Interrupt, Crash, Leave
      <4> QED BY <1>1, <2>1, <2>4, <4>1, ToDoEnds
    <3>2. CASE RequestCancel \/ \E g \in DOMAIN approvals : Decide(g)
      <4>1. UNCHANGED <<pc, plan, revision, batch, phase>>
        BY <3>2 DEF RequestCancel, Decide, driver
      <4>2. ToDo' = ToDo
        BY <4>1 DEF ToDo, Moves
      <4> QED BY <2>1, <4>2
    <3> QED BY <2>4, <3>1, <3>2 DEF EnvironmentAction
  <2> QED BY <1>1, <2>2, <2>3, <2>4 DEF Next
<1> QED
  BY <1>1, TypeCorrect, BatchCorrect, PlanCorrect, ThriftCorrect, GatheredCorrect,
     RevisionsCorrect, PTL
  DEF Spec, EngineAdvances
=============================================================================
