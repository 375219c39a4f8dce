----------------------- MODULE AgentEngineRefinement -----------------------
(***************************************************************************)
(* The engine implements RunLifecycle.                                     *)
(***************************************************************************)
EXTENDS AgentEngineDurability

(* Nothing is stored before the run has started.                           *)
FreshStore == pc = "new" => memory.status = "absent" /\ redis.status = "absent"

(* The instance of RunLifecycle speaks of the same statuses, and they      *)
(* include neither of its two other values.                                *)
LEMMA SameStates ==
  /\ Lifecycle!TerminalStatuses = TerminalStatuses
  /\ Lifecycle!PausedStatuses = PausedStatuses
  /\ Lifecycle!RunStatuses = RunStatuses
  /\ {"parked", "absent"} \cap RunStatuses = {}
BY DEF Lifecycle!TerminalStatuses, TerminalStatuses, Lifecycle!PausedStatuses,
       PausedStatuses, Lifecycle!RunStatuses, RunStatuses

(* The transitions the engine takes are in the table.                      *)
LEMMA EngineTransitions ==
  /\ \A st : Lifecycle!MayBecome(st, st)
  /\ Lifecycle!MayBecome("ready", "executing")
  /\ Lifecycle!MayBecome("ready", "cancelled")
  /\ \A st \in TerminalStatuses \cup PausedStatuses : Lifecycle!MayBecome("executing", st)
  /\ Lifecycle!MayBecome("executing", "verifying")
  /\ Lifecycle!MayBecome("waiting_approval", "failed")
  /\ \A st \in {"completed", "replanning", "failed", "rejected"} :
       Lifecycle!MayBecome("verifying", st)
  /\ Lifecycle!MayBecome("replanning", "executing")
BY DEF Lifecycle!MayBecome, Lifecycle!RunTransitions, Lifecycle!RunStatuses,
       Lifecycle!FromActive, Lifecycle!FromPaused, Lifecycle!TerminalStatuses,
       Lifecycle!PausedStatuses, TerminalStatuses, PausedStatuses

(* Writing a checkpoint is persisting its status.                          *)
LEMMA SavePersists ==
  ASSUME NEW st, NEW p, SaveCheckpoint(st, p)
  PROVE  Lifecycle!Persist(st)
BY DEF SaveCheckpoint, Checkpoint, Lifecycle!Persist

LEMMA RestHere ==
  ASSUME TypeOK, Driving, pc' = "idle",
         NEW st \in TerminalStatuses \cup PausedStatuses, Lifecycle!MayBecome(status, st),
         NEW p, SaveCheckpoint(st, p)
  PROVE  Lifecycle!Rest
<1>1. Lifecycle!Persist(st)
  BY SavePersists
<1>2. status # "parked"
  BY SameStates DEF TypeOK
<1> QED BY <1>1, <1>2, SameStates DEF Lifecycle!Rest, Driving

(* A step that goes on driving, and saves nothing or the status it writes  *)
(* or had.                                                                 *)
LEMMA AdvanceHere ==
  ASSUME TypeOK, TypeOK', Driving, pc' \notin {"new", "idle"},
         status' \notin TerminalStatuses, Lifecycle!MayBecome(status, status'),
         \/ UNCHANGED <<memory, redis>>
         \/ \E p : SaveCheckpoint(status, p) \/ SaveCheckpoint(status', p)
  PROVE  Lifecycle!Advance
<1>1. \/ UNCHANGED <<memory.status, redis.status>>
      \/ Lifecycle!Persist(status) \/ Lifecycle!Persist(status')
  BY SavePersists
<1>2. status # "parked" /\ status' \in RunStatuses \ TerminalStatuses
  BY SameStates DEF TypeOK
<1> QED BY <1>1, <1>2, SameStates DEF Lifecycle!Advance, Lifecycle!Persist, Driving

LEMMA StepImplements ==
  ASSUME TypeOK, TypeOK', BatchInv, StatusInv, NEW s \in Steps, StepAction(s)
  PROVE  Lifecycle!LifecycleNext
<1>1. pc = "batch" /\ status \in {"executing", "waiting_approval"}
  BY InBatch, NextInBatch
  DEF StepAction, SelectAgent, CallUngated, CallApproved, RaiseGate, GateUnavailable,
      CallReturns, ProcessCompleted, ProcessPaused, ProcessRetry, ProcessSwitch,
      ProcessTerminate, Failed, StatusInv
<1>2. /\ Driving
      /\ "waiting_approval" \in PausedStatuses /\ "failed" \in TerminalStatuses
      /\ {"executing", "waiting_approval"} \cap TerminalStatuses = {}
      /\ Lifecycle!MayBecome(status, "waiting_approval")
      /\ Lifecycle!MayBecome(status, "failed")
      /\ Lifecycle!MayBecome(status, status)
  <2>1. "waiting_approval" \in PausedStatuses /\ "failed" \in TerminalStatuses
    BY DEF PausedStatuses, TerminalStatuses
  <2> QED BY <1>1, <2>1, EngineTransitions, NotAbsent DEF Driving, TerminalStatuses
<1>3. CASE ProcessPaused(s)
  BY <1>2, <1>3, RestHere DEF ProcessPaused, Leave, Lifecycle!LifecycleNext
<1>4. CASE ProcessTerminate(s)
  BY <1>2, <1>4, RestHere DEF ProcessTerminate, Finish, Leave, Lifecycle!LifecycleNext
<1>5. CASE ~ProcessPaused(s) /\ ~ProcessTerminate(s)
  <2>1. pc' = pc /\ status' \in {status, "waiting_approval"} /\ UNCHANGED <<memory, redis>>
    BY <1>5
    DEF StepAction, SelectAgent, CallUngated, CallApproved, StartCall, RaiseGate,
        GateUnavailable, CallReturns, ProcessCompleted, ProcessRetry, ProcessSwitch,
        Process, store
  <2> QED BY <1>1, <1>2, <2>1, AdvanceHere DEF Lifecycle!LifecycleNext
<1> QED BY <1>3, <1>4, <1>5

LEMMA RunImplements ==
  ASSUME TypeOK, TypeOK', BatchInv, StatusInv, FreshStore, RunAction
  PROVE  Lifecycle!LifecycleNext \/ UNCHANGED Lifecycle!lifecycleVars
<1>0. /\ {"cancelled", "timeout", "completed", "rejected", "failed"} \subseteq TerminalStatuses
      /\ "waiting_approval" \in PausedStatuses
      /\ {"ready", "executing", "verifying", "replanning"} \cap TerminalStatuses = {}
  BY DEF TerminalStatuses, PausedStatuses
<1>1. CASE StartRun
  <2>1. /\ pc = "new" /\ pc' = "planned" /\ status' = "ready"
        /\ memory.status = "absent" /\ redis.status = "absent"
        /\ UNCHANGED <<memory, redis>>
    BY <1>1 DEF StartRun, store, FreshStore
  <2> QED
    BY <2>1 DEF Lifecycle!LifecycleNext, Lifecycle!Begin, Lifecycle!Stored
<1>2. ASSUME NEW st \in TerminalStatuses, Finish(st), Driving,
             Lifecycle!MayBecome(status, st)
      PROVE  Lifecycle!LifecycleNext
  BY <1>2, RestHere DEF Finish, Leave, Lifecycle!LifecycleNext
<1>3. CASE CancelPlanned \/ ObserveCancel \/ ObserveTimeout
  BY <1>0, <1>2, <1>3, EngineTransitions
  DEF CancelPlanned, ObserveCancel, ObserveTimeout, AtLoopTop, StatusInv, Driving
<1>4. CASE VerdictPass \/ VerdictRejected \/ VerdictFailed
  BY <1>0, <1>2, <1>4, EngineTransitions
  DEF VerdictPass, VerdictRejected, VerdictFailed, Finds, StatusInv, Driving
<1>5. CASE PauseForGates
  BY <1>0, <1>5, RestHere, EngineTransitions
  DEF PauseForGates, AtLoopTop, StatusInv, Leave, Driving, Lifecycle!LifecycleNext
<1>6. ASSUME Lifecycle!Advance PROVE Lifecycle!LifecycleNext
  BY <1>6 DEF Lifecycle!LifecycleNext
<1>7. CASE BeginExecution
  BY <1>0, <1>6, <1>7, AdvanceHere, EngineTransitions DEF BeginExecution, StatusInv, Driving
<1>8. CASE Dispatch \/ FinishBatch
  <2>1. status = "executing" /\ Driving
    BY <1>8 DEF Dispatch, AtLoopTop, FinishBatch, StatusInv, BatchInv, Driving
  <2> QED
    BY <1>0, <1>6, <1>8, <2>1, AdvanceHere, EngineTransitions DEF Dispatch, FinishBatch, store
<1>9. CASE BeginVerification \/ BeginReplan \/ Replan
  BY <1>0, <1>6, <1>9, AdvanceHere, EngineTransitions
  DEF BeginVerification, BeginReplan, Replan, Finds, StatusInv, Driving, store
<1> QED BY <1>1, <1>3, <1>4, <1>5, <1>7, <1>8, <1>9 DEF RunAction

LEMMA OtherImplements ==
  ASSUME TypeOK, ResumeAction \/ EnvironmentAction
  PROVE  Lifecycle!LifecycleNext \/ UNCHANGED Lifecycle!lifecycleVars
<1>0. Lifecycle!Stored = Loaded.status
  BY DEF Lifecycle!Stored, Loaded
<1>1. ASSUME Resume, NotResumed PROVE Lifecycle!LifecycleNext
  BY <1>0, <1>1
  DEF Resume, NotResumed, driver, Lifecycle!LifecycleNext, Lifecycle!Rehydrate
<1>2. CASE ResumeRefused \/ ResumeDecideRaises
           \/ \E approved \in BOOLEAN : ResumeStillWaiting(approved)
  BY <1>1, <1>2 DEF ResumeRefused, ResumeDecideRaises, ResumeStillWaiting, ResumePaused
<1>3. CASE ResumeContinue
  BY <1>0, <1>3, SameStates
  DEF ResumeContinue, Resume, Reenter, Lifecycle!LifecycleNext, Lifecycle!Restore
<1>4. CASE ResumeRejected
  BY <1>0, <1>4, SameStates, SavePersists
  DEF ResumeRejected, ResumePaused, Resume, Lifecycle!LifecycleNext, Lifecycle!RejectPaused
<1>5. ASSUME NEW approved \in BOOLEAN, ResumeUnlocked(approved)
      PROVE  Lifecycle!LifecycleNext
  BY <1>0, <1>5, SameStates, SavePersists, NotAbsent
  DEF ResumeUnlocked, ResumePaused, Resume, Reenter, Lifecycle!LifecycleNext,
      Lifecycle!Restore
<1>6. CASE RequestCancel \/ \E g \in DOMAIN approvals : Decide(g)
  BY <1>6 DEF RequestCancel, Decide, driver, store, Lifecycle!lifecycleVars
<1>7. CASE Interrupt
  BY <1>7, SameStates
  DEF Interrupt, Leave, store, TypeOK, Lifecycle!LifecycleNext, Lifecycle!Abandon
<1>8. CASE Crash
  BY <1>8
  DEF Crash, Leave, NoCheckpoint, Checkpoint, Lifecycle!LifecycleNext,
      Lifecycle!LoseProcess
<1> QED BY <1>2, <1>3, <1>4, <1>5, <1>6, <1>7, <1>8 DEF ResumeAction, EnvironmentAction

LEMMA FreshStoreCorrect == Spec => []FreshStore
<1>1. Init => FreshStore
  BY DEF Init, FreshStore, NoCheckpoint, Checkpoint
<1>2. TypeOK /\ BatchInv /\ FreshStore /\ [Next]_vars => FreshStore'
  <2>1. SUFFICES ASSUME TypeOK, BatchInv, FreshStore, [Next]_vars, pc' = "new"
                 PROVE  pc = "new" /\ UNCHANGED <<memory, redis>>
    BY DEF FreshStore
  <2>2. ASSUME NEW s \in Steps, StepAction(s) PROVE FALSE
    BY <2>1, <2>2, InBatch, NextInBatch
    DEF StepAction, SelectAgent, CallUngated, CallApproved, StartCall, RaiseGate,
        GateUnavailable, CallReturns, ProcessCompleted, ProcessPaused, ProcessRetry,
        ProcessSwitch, ProcessTerminate, Failed, Process, Finish, Leave
  <2>3. CASE RunAction
    BY <2>1, <2>3
    DEF RunAction, StartRun, CancelPlanned, BeginExecution, ObserveCancel, ObserveTimeout,
        PauseForGates, Dispatch, AtLoopTop, FinishBatch, BeginVerification, VerdictPass,
        VerdictRejected, VerdictFailed, BeginReplan, Replan, Finds, Finish, Leave
  <2>4. CASE ResumeAction
    BY <2>1, <2>4
    DEF ResumeAction, ResumeRefused, ResumeContinue, ResumeRejected, ResumeDecideRaises,
        ResumeStillWaiting, ResumeUnlocked, ResumePaused, Resume, Reenter, NotResumed
  <2>5. CASE EnvironmentAction
    BY <2>1, <2>5 DEF EnvironmentAction, RequestCancel, Decide, Interrupt, Crash, Leave, store
  <2>6. CASE UNCHANGED vars
    BY <2>1, <2>6 DEF vars, store
  <2> QED BY <2>1, <2>2, <2>3, <2>4, <2>5, <2>6 DEF Next
<1> QED BY <1>1, <1>2, TypeCorrect, BatchCorrect, PTL DEF Spec

(* The engine implements RunLifecycle: every status write is one the       *)
(* transition table admits, every checkpoint holds a status the run had,   *)
(* and no terminal checkpoint is driven again.                             *)
THEOREM EngineImplementsLifecycle == Spec => ImplementsLifecycle
<1>1. Init => Lifecycle!LifecycleInit
  BY DEF Init, NoCheckpoint, Checkpoint, Lifecycle!LifecycleInit
<1>2. TypeOK /\ TypeOK' /\ BatchInv /\ StatusInv /\ FreshStore /\ [Next]_vars
        => [Lifecycle!LifecycleNext]_(Lifecycle!lifecycleVars)
  <2>1. UNCHANGED vars => UNCHANGED Lifecycle!lifecycleVars
    BY DEF vars, driver, store, Lifecycle!lifecycleVars
  <2> QED BY <2>1, StepImplements, RunImplements, OtherImplements DEF Next
<1> QED
  BY <1>1, <1>2, TypeCorrect, BatchCorrect, StatusCorrect, FreshStoreCorrect, PTL
  DEF Spec, ImplementsLifecycle, Lifecycle!LifecycleSpec
=============================================================================
