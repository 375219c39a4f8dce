---------------------------- MODULE AgentEngine ----------------------------
(***************************************************************************)
(* ExecutionEngine (agent/execution/engine.py): one run of a task through  *)
(* plan, concurrent DAG execution, recovery, verification and self-        *)
(* correction, with human approval gates, checkpoints in process memory    *)
(* and in Redis, and resumption after a pause, an interruption or a crash. *)
(*                                                                         *)
(* One async generator drives the run at a time.  An action is the code    *)
(* between two points where another coroutine, the operator or a crash can *)
(* intervene: an await or a yield.                                         *)
(***************************************************************************)
EXTENDS Naturals, Sequences, RunStates

CONSTANTS
  NumSteps,           \* the plan's steps are 1..NumSteps, in plan order
  Deps,               \* PlanStep.dependencies
  Dangerous,          \* steps whose tool ApprovalPolicy gates
  Agents,             \* registered agents
  Selectable,         \* agents AgentSelector may choose for a step
  Eligible,           \* agents the recovery engine may transfer a step to
  NoAgent,            \* assigned_agent before a first selection
  MaxRetries,         \* RecoveryLimits.MAX_STEP_RETRIES
  MaxSwitches,        \* RecoveryLimits.MAX_AGENT_SWITCHES
  MaxRevisions,       \* execute_task's max_revisions
  VerifierRevisions,  \* CanonicalVerifier.max_revisions
  LongTimeout,        \* timeout_seconds exceeds MAX_EXECUTION_TIME_SECONDS
  AuthorityInstalled, \* an approval authority is installed behind decide()
  MaxFaults,          \* bound: crashes, interruptions and lost Redis writes
  MaxResumes          \* bound: calls of resume_run

Steps == 1..NumSteps

ASSUME CountsAssumption ==
  /\ NumSteps \in Nat \ {0}
  /\ {MaxRetries, MaxSwitches, MaxRevisions, VerifierRevisions, MaxFaults, MaxResumes}
       \subseteq Nat
  /\ LongTimeout \in BOOLEAN /\ AuthorityInstalled \in BOOLEAN
  /\ Dangerous \subseteq Steps

\* parse_structured_plan refuses self-, dangling and cyclic dependencies.
ASSUME DepsAssumption ==
  /\ Deps \in [Steps -> SUBSET Steps]
  /\ \E rank \in [Steps -> Steps] : \A s \in Steps : \A d \in Deps[s] : rank[d] < rank[s]

ASSUME AgentsAssumption ==
  /\ NoAgent \notin Agents
  /\ Selectable \in [Steps -> (SUBSET Agents) \ {{}}]
  /\ Eligible \in [Steps -> SUBSET Agents]

VARIABLES
  pc,          \* where the driving generator stands
  status,      \* RunState.status
  plan,        \* the live plan: the steps' mutable fields
  dumped,      \* RunState.plan, the last model_dump of the live plan
  evidence,    \* what the verifier finds in the outputs accumulated so far
  revision,    \* revision_count
  batch,       \* gathered steps whose result is still to be processed
  phase,       \* progress of each gathered step
  preApproved, \* pre_approved_step_ids
  cancel,      \* the cancellation token
  approvals,   \* ApprovalManager's records, by approval id
  memory,      \* CheckpointManager: latest checkpoint in process memory
  redis,       \* CheckpointManager: latest checkpoint in Redis
  calls,       \* history: tool or model calls started for each step
  grants,      \* history: operator approvals given for each step
  faults,      \* faults so far
  resumes      \* resume_run calls so far

driver == <<status, plan, dumped, evidence, revision, batch, phase, preApproved, cancel>>
store  == <<memory, redis>>
vars   == <<pc, driver, approvals, store, calls, grants, faults, resumes>>

(* The fields of a PlanStep the engine changes.  FAILED is written only    *)
(* just before a step is rescheduled or the run ends.                      *)
StepStatuses == {"pending", "waiting_approval", "completed", "failed"}
StepState    == [st : StepStatuses, retries : Nat, switches : Nat, gate : Nat,
                 agent : Agents \cup {NoAgent}]
FreshStep    == [st |-> "pending", retries |-> 0, switches |-> 0, gate |-> 0,
                 agent |-> NoAgent]
Plans        == [Steps -> StepState]
FreshPlan    == [s \in Steps |-> FreshStep]

StepsIn(p, st) == {s \in Steps : p[s].st = st}
IsComplete(p)  == StepsIn(p, "completed") = Steps
Waiting(p)     == StepsIn(p, "waiting_approval")

\* Mutant: dependencies are not looked at.
RunnableEarly(p) == StepsIn(p, "pending")

Runnable(p)    == {s \in StepsIn(p, "pending") : Deps[s] \subseteq StepsIn(p, "completed")}

(* A checkpoint is a snapshot of the RunState: its status and its plan.    *)
Checkpoint(st, p) == [status |-> st, plan |-> p]
NoCheckpoint      == Checkpoint("absent", FreshPlan)
Checkpoints       == [status : RunStatuses \cup {"absent"}, plan : Plans]

ApprovalRecords == [step : Steps, status : {"PENDING", "APPROVED", "REJECTED", "LOST"}]

\* Mutant: a record that was lost counts as approved.
GateStatusTrusting(p, s) ==
  IF p[s].gate = 0 THEN "LOST"
  ELSE IF approvals[p[s].gate].status = "LOST" THEN "APPROVED" ELSE approvals[p[s].gate].status

GateStatus(p, s) == IF p[s].gate = 0 THEN "LOST" ELSE approvals[p[s].gate].status

Finished == {"ok", "error", "fatal", "gated"}
NoPhase  == [s \in Steps |-> "none"]

Init ==
  /\ pc = "new" /\ status = "created"
  /\ plan = FreshPlan /\ dumped = FreshPlan
  /\ evidence = "unjudged" /\ revision = 0
  /\ batch = {} /\ phase = NoPhase /\ preApproved = {} /\ cancel = FALSE
  /\ approvals = << >>
  /\ memory = NoCheckpoint /\ redis = NoCheckpoint
  /\ calls = [s \in Steps |-> 0] /\ grants = [s \in Steps |-> 0]
  /\ faults = 0 /\ resumes = 0

-----------------------------------------------------------------------------
(* Checkpoints.                                                            *)

(* save_checkpoint writes memory, then the record and the run pointer in   *)
(* Redis; an exception of either Redis write is swallowed and leaves the   *)
(* previous checkpoint the one Redis resolves to.                          *)
SaveCheckpoint(st, p) ==
  /\ memory' = Checkpoint(st, p)
  /\ \/ redis' = Checkpoint(st, p) /\ UNCHANGED faults
     \/ faults < MaxFaults /\ faults' = faults + 1 /\ UNCHANGED redis

(* load_checkpoint prefers memory and rehydrates it from Redis.            *)
Loaded == IF memory.status # "absent" THEN memory ELSE redis

(* The generator returns or is dropped: its local variables disappear.     *)
Leave ==
  /\ pc' = "idle" /\ batch' = {} /\ phase' = NoPhase /\ preApproved' = {} /\ cancel' = FALSE

\* Mutant: the final status is not saved.
FinishUnsaved(st) ==
  /\ status' = st
  /\ Leave
  /\ UNCHANGED <<dumped, revision, approvals, store, calls, grants, faults, resumes>>

(* Write a final status, save and return.  run_state.plan keeps the last   *)
(* dump: these paths do not dump the live plan again.                      *)
Finish(st) ==
  /\ status' = st
  /\ SaveCheckpoint(st, dumped)
  /\ Leave
  /\ UNCHANGED <<dumped, revision, approvals, calls, grants, resumes>>

-----------------------------------------------------------------------------
(* execute_task                                                            *)

StartRun ==
  /\ pc = "new"
  /\ pc' = "planned" /\ status' = "ready"
  /\ UNCHANGED <<plan, dumped, evidence, revision, batch, phase, preApproved, cancel,
                 approvals, store, calls, grants, faults, resumes>>

CancelPlanned ==
  /\ pc = "planned" /\ cancel
  /\ Finish("cancelled")
  /\ UNCHANGED <<plan, evidence>>

(* The READY checkpoint is saved before the status becomes EXECUTING.      *)
BeginExecution ==
  /\ pc = "planned" /\ ~cancel
  /\ SaveCheckpoint(status, dumped)
  /\ pc' = "top" /\ status' = "executing"
  /\ UNCHANGED <<plan, dumped, evidence, revision, batch, phase, preApproved, cancel,
                 approvals, calls, grants, resumes>>

-----------------------------------------------------------------------------
(* _run_execution_loop: the head of the inner loop                         *)

AtLoopTop == pc = "top" /\ ~IsComplete(plan)

ObserveCancel ==
  /\ AtLoopTop /\ cancel
  /\ Finish("cancelled")
  /\ UNCHANGED <<plan, evidence>>

ObserveTimeout ==
  /\ AtLoopTop /\ ~cancel
  /\ Finish("timeout")
  /\ UNCHANGED <<plan, evidence>>

(* Nothing runnable, something waiting for a human: pause the run.         *)
PauseForGates ==
  /\ AtLoopTop /\ ~cancel
  /\ Runnable(plan) = {} /\ Waiting(plan) # {}
  /\ status' = "waiting_approval" /\ dumped' = plan
  /\ SaveCheckpoint("waiting_approval", plan)
  /\ Leave
  /\ UNCHANGED <<plan, evidence, revision, approvals, calls, grants, resumes>>

(* Start a coroutine for every runnable step (asyncio.gather, or a direct  *)
(* call when there is only one).                                           *)
Dispatch ==
  /\ AtLoopTop /\ ~cancel
  /\ Runnable(plan) # {}
  /\ pc' = "batch" /\ batch' = Runnable(plan)
  /\ phase' = [s \in Steps |-> IF s \in Runnable(plan) THEN "selecting" ELSE "none"]
  /\ UNCHANGED <<status, plan, dumped, evidence, revision, preApproved, cancel,
                 approvals, store, calls, grants, faults, resumes>>

-----------------------------------------------------------------------------
(* _execute_single_step, one coroutine per gathered step                   *)

(* select_agent_async asks a model to pick an eligible agent, ranks them,  *)
(* or falls back on keywords; the choice overwrites assigned_agent.        *)
SelectAgent(s) ==
  /\ phase[s] = "selecting"
  /\ phase' = [phase EXCEPT ![s] = "selected"]
  /\ \E a \in Selectable[s] : plan' = [plan EXCEPT ![s].agent = a]
  /\ UNCHANGED <<pc, status, dumped, evidence, revision, batch, preApproved, cancel,
                 approvals, store, calls, grants, faults, resumes>>

NeedsApproval(s) == s \in Dangerous /\ s \notin preApproved

StartCall(s) ==
  /\ phase' = [phase EXCEPT ![s] = "calling"]
  /\ calls' = [calls EXCEPT ![s] = @ + 1]
  /\ UNCHANGED <<pc, status, dumped, evidence, revision, batch, preApproved, cancel,
                 approvals, store, grants, faults, resumes>>

CallUngated(s) ==
  /\ phase[s] = "selected" /\ ~NeedsApproval(s)
  /\ StartCall(s)
  /\ UNCHANGED plan

(* The step's own gate was approved: the binding is consumed, the record   *)
(* stays APPROVED.                                                         *)
CallApproved(s) ==
  /\ phase[s] = "selected" /\ NeedsApproval(s)
  /\ GateStatus(plan, s) = "APPROVED"
  /\ plan' = [plan EXCEPT ![s].gate = 0]
  /\ StartCall(s)

(* No gate is bound: create one.  Step and run wait from here on, while    *)
(* the sibling coroutines go on.                                           *)
RaiseGate(s) ==
  /\ phase[s] = "selected" /\ NeedsApproval(s) /\ plan[s].gate = 0
  /\ approvals' = Append(approvals, [step |-> s, status |-> "PENDING"])
  /\ plan' = [plan EXCEPT ![s].gate = Len(approvals) + 1, ![s].st = "waiting_approval"]
  /\ status' = "waiting_approval"
  /\ phase' = [phase EXCEPT ![s] = "gated"]
  /\ UNCHANGED <<pc, dumped, evidence, revision, batch, preApproved, cancel, store,
                 calls, grants, faults, resumes>>

(* A bound gate that is neither approved nor pending fails the step with a *)
(* non-retryable error.                                                    *)
GateUnavailable(s) ==
  /\ phase[s] = "selected" /\ NeedsApproval(s) /\ plan[s].gate # 0
  /\ GateStatus(plan, s) \in {"REJECTED", "LOST"}
  /\ phase' = [phase EXCEPT ![s] = "fatal"]
  /\ UNCHANGED <<pc, status, plan, dumped, evidence, revision, batch, preApproved, cancel,
                 approvals, store, calls, grants, faults, resumes>>

(* The awaited call succeeds, fails, times out, or fails for a reason that *)
(* retrying cannot cure.                                                   *)
CallReturns(s) ==
  /\ phase[s] = "calling"
  /\ \E r \in {"ok", "error", "fatal"} : phase' = [phase EXCEPT ![s] = r]
  /\ UNCHANGED <<pc, status, plan, dumped, evidence, revision, batch, preApproved, cancel,
                 approvals, store, calls, grants, faults, resumes>>

-----------------------------------------------------------------------------
(* Results, processed in plan order once every coroutine has returned      *)

NextResult(s) ==
  /\ s \in batch
  /\ \A t \in batch : s <= t /\ phase[t] \in Finished

(* Take the result of s off the batch, leaving s in the given state.       *)
Process(s, state) ==
  /\ plan' = [plan EXCEPT ![s] = state]
  /\ batch' = batch \ {s}
  /\ UNCHANGED <<pc, status, dumped, revision, phase, preApproved, cancel, approvals,
                 store, calls, grants, faults, resumes>>

ProcessCompleted(s) ==
  /\ NextResult(s) /\ phase[s] = "ok"
  /\ Process(s, [plan[s] EXCEPT !.st = "completed"])
  /\ evidence' = "unjudged"

(* A gated step pauses the run.  The results behind it are dropped.        *)
ProcessPaused(s) ==
  /\ NextResult(s) /\ phase[s] = "gated"
  /\ status' = "waiting_approval" /\ dumped' = plan
  /\ SaveCheckpoint("waiting_approval", plan)
  /\ Leave
  /\ UNCHANGED <<plan, evidence, revision, approvals, calls, grants, resumes>>

\* Mutant: one retry too many.
RetriesOverspent(s) == plan[s].retries > MaxRetries

(* evaluate_step_failure: the retry limit is looked at before the kind of  *)
(* error.  RETRY and SWITCH_MODEL reschedule the step alike.               *)
RetriesSpent(s) == plan[s].retries >= MaxRetries
OtherAgents(s)  == Eligible[s] \ {plan[s].agent}
MaySwitch(s)    == plan[s].switches < MaxSwitches /\ OtherAgents(s) # {}

Failed(s) == NextResult(s) /\ phase[s] \in {"error", "fatal"}

\* Mutant: the retry budget counts down from zero.
ProcessRetryDown(s) ==
  /\ Failed(s) /\ ~RetriesSpent(s) /\ phase[s] = "error"
  /\ Process(s, [plan[s] EXCEPT !.st = "pending", !.retries = @ - 1])
  /\ UNCHANGED evidence

\* Mutant: the step to retry is left FAILED.
ProcessRetryStuck(s) ==
  /\ Failed(s) /\ ~RetriesSpent(s) /\ phase[s] = "error"
  /\ Process(s, [plan[s] EXCEPT !.st = "failed", !.retries = @ + 1])
  /\ UNCHANGED evidence

ProcessRetry(s) ==
  /\ Failed(s) /\ ~RetriesSpent(s) /\ phase[s] = "error"
  /\ Process(s, [plan[s] EXCEPT !.st = "pending", !.retries = @ + 1])
  /\ UNCHANGED evidence

ProcessSwitch(s) ==
  /\ Failed(s) /\ RetriesSpent(s) /\ MaySwitch(s)
  /\ \E a \in OtherAgents(s) :
       Process(s, [plan[s] EXCEPT !.st = "pending", !.retries = 0, !.switches = @ + 1,
                                  !.agent = a])
  /\ UNCHANGED evidence

ProcessTerminate(s) ==
  /\ Failed(s)
  /\ \/ LongTimeout
     \/ RetriesSpent(s) /\ ~MaySwitch(s)
     \/ ~RetriesSpent(s) /\ phase[s] = "fatal"
  /\ plan' = [plan EXCEPT ![s].st = "failed"]
  /\ Finish("failed")
  /\ UNCHANGED evidence

\* Mutant: the plan is not dumped before it is saved.
FinishBatchUndumped ==
  /\ pc = "batch" /\ batch = {}
  /\ SaveCheckpoint(status, dumped)
  /\ pc' = "top" /\ phase' = NoPhase
  /\ UNCHANGED <<status, plan, dumped, evidence, revision, batch, preApproved, cancel,
                 approvals, calls, grants, resumes>>

FinishBatch ==
  /\ pc = "batch" /\ batch = {}
  /\ dumped' = plan
  /\ SaveCheckpoint(status, plan)
  /\ pc' = "top" /\ phase' = NoPhase
  /\ UNCHANGED <<status, plan, evidence, revision, batch, preApproved, cancel, approvals,
                 calls, grants, resumes>>

-----------------------------------------------------------------------------
(* Verification and self-correction                                        *)

\* Mutant: the run does not pass through VERIFYING.
BeginVerificationUnseen ==
  /\ pc = "top" /\ IsComplete(plan)
  /\ pc' = "verify"
  /\ UNCHANGED <<status, plan, dumped, evidence, revision, batch, phase, preApproved,
                 cancel, approvals, store, calls, grants, faults, resumes>>

BeginVerification ==
  /\ pc = "top" /\ IsComplete(plan)
  /\ pc' = "verify" /\ status' = "verifying"
  /\ UNCHANGED <<plan, dumped, evidence, revision, batch, phase, preApproved, cancel,
                 approvals, store, calls, grants, faults, resumes>>

(* verify_execution is a function of the accumulated outputs: what it      *)
(* found once it finds again until another step completes.                 *)
Finds(e) ==
  /\ pc = "verify"
  /\ evidence \in {"unjudged", e}
  /\ evidence' = e

VerdictPass ==
  /\ Finds("sound")
  /\ Finish("completed")
  /\ UNCHANGED plan

VerdictRejected ==
  /\ Finds("breach")
  /\ Finish("rejected")
  /\ UNCHANGED plan

\* Mutant: off by one at both revision limits.
VerdictFailedLate ==
  /\ Finds("flawed")
  /\ revision > VerifierRevisions \/ revision > MaxRevisions
  /\ Finish("failed")
  /\ UNCHANGED plan

(* The verifier gives up after its own number of revisions, the engine     *)
(* after max_revisions.                                                    *)
VerdictFailed ==
  /\ Finds("flawed")
  /\ revision >= VerifierRevisions \/ revision >= MaxRevisions
  /\ Finish("failed")
  /\ UNCHANGED plan

BeginReplan ==
  /\ Finds("flawed")
  /\ revision < VerifierRevisions /\ revision < MaxRevisions
  /\ pc' = "replan" /\ status' = "replanning"
  /\ UNCHANGED <<plan, dumped, revision, batch, phase, preApproved, cancel, approvals,
                 store, calls, grants, faults, resumes>>

(* BoundedPlanner.replan keeps completed steps, replaces the failed one (a *)
(* step called s_revised, which takes its place) and reschedules the rest. *)
FailedStep(p) ==
  LET failed == StepsIn(p, "failed")
  IN  IF failed = {} THEN 1 ELSE CHOOSE s \in failed : \A t \in failed : s <= t

\* Mutant: completed steps are rescheduled too.
ReplannedAfresh(p) == [s \in Steps |-> [p[s] EXCEPT !.st = "pending"]]

Replanned(p) ==
  [s \in Steps |->
     IF p[s].st = "completed" THEN p[s]
     ELSE IF s = FailedStep(p) THEN [FreshStep EXCEPT !.retries = p[s].retries + 1]
     ELSE [p[s] EXCEPT !.st = "pending"]]

Replan ==
  /\ pc = "replan"
  /\ plan' = Replanned(plan) /\ dumped' = Replanned(plan)
  /\ pc' = "top" /\ status' = "executing" /\ revision' = revision + 1
  /\ SaveCheckpoint("executing", Replanned(plan))
  /\ UNCHANGED <<evidence, batch, phase, preApproved, cancel, approvals, calls, grants,
                 resumes>>

-----------------------------------------------------------------------------
(* resume_run                                                              *)

Resume ==
  /\ pc = "idle" /\ Loaded.status # "absent"
  /\ resumes < MaxResumes /\ resumes' = resumes + 1

(* Enter _run_execution_loop with the given plan, EXECUTING.               *)
Reenter(p) ==
  /\ pc' = "top" /\ status' = "executing"
  /\ plan' = p /\ dumped' = p
  /\ evidence' = "unjudged" /\ revision' = 0
  /\ UNCHANGED <<batch, phase, cancel, calls>>

(* Leave the run as it is stored; loading it has refreshed memory.         *)
NotResumed ==
  /\ memory' = Loaded
  /\ UNCHANGED <<pc, driver, approvals, redis, calls, grants, faults>>

ResumeRefused ==
  /\ Resume /\ Loaded.status \in TerminalStatuses
  /\ NotResumed

\* Mutant: a terminal run is continued.
ResumeAnything ==
  /\ Resume /\ Loaded.status \notin PausedStatuses
  /\ Reenter(Loaded.plan)
  /\ memory' = Loaded /\ preApproved' = {}
  /\ UNCHANGED <<approvals, redis, grants, faults>>

(* A run that was not paused continues from its checkpoint, through        *)
(* _normalize_to_executing.                                                *)
ResumeContinue ==
  /\ Resume /\ Loaded.status \notin TerminalStatuses \cup PausedStatuses
  /\ Reenter(Loaded.plan)
  /\ memory' = Loaded /\ preApproved' = {}
  /\ UNCHANGED <<approvals, redis, grants, faults>>

ResumePaused == Resume /\ Loaded.status \in PausedStatuses

ResumeRejected ==
  /\ ResumePaused
  /\ status' = "rejected" /\ dumped' = Loaded.plan
  /\ SaveCheckpoint("rejected", Loaded.plan)
  /\ UNCHANGED <<pc, plan, evidence, revision, batch, phase, preApproved, cancel,
                 approvals, calls, grants>>

GatesIn(st) == {s \in Waiting(Loaded.plan) : GateStatus(Loaded.plan, s) = st}

(* Which waiting steps this call unlocks: those whose record is APPROVED;  *)
(* if the caller passes approved=True, also those whose record is PENDING  *)
(* (decided here) or gone.                                                 *)
DecidedNow(approved) == IF approved THEN GatesIn("PENDING") ELSE {}
LostNow(approved)    == IF approved THEN GatesIn("LOST") ELSE {}
Unlocked(approved)   == GatesIn("APPROVED") \cup DecidedNow(approved) \cup LostNow(approved)

UnlockedPlan(approved) ==
  [s \in Steps |->
     IF s \notin Unlocked(approved) THEN Loaded.plan[s]
     ELSE [Loaded.plan[s] EXCEPT !.st = "pending",
                                 !.gate = IF s \in LostNow(approved) THEN 0 ELSE @]]

(* ApprovalManager.decide raises unless an authority is installed.         *)
DecideRaises(approved) == DecidedNow(approved) # {} /\ ~AuthorityInstalled

ResumeDecideRaises ==
  /\ ResumePaused /\ DecideRaises(TRUE)
  /\ NotResumed

ResumeStillWaiting(approved) ==
  /\ ResumePaused /\ Unlocked(approved) = {}
  /\ NotResumed

ResumeUnlocked(approved) ==
  /\ ResumePaused /\ ~DecideRaises(approved)
  /\ Unlocked(approved) # {}
  /\ approvals' = [g \in DOMAIN approvals |->
                     IF \E s \in DecidedNow(approved) : Loaded.plan[s].gate = g
                     THEN [approvals[g] EXCEPT !.status = "APPROVED"] ELSE approvals[g]]
  /\ grants' = [s \in Steps |->
                  IF s \in DecidedNow(approved) \cup LostNow(approved)
                  THEN grants[s] + 1 ELSE grants[s]]
  /\ preApproved' = LostNow(approved)
  /\ Reenter(UnlockedPlan(approved))
  /\ SaveCheckpoint("executing", UnlockedPlan(approved))

-----------------------------------------------------------------------------
(* The environment: the operator, the client and failures                  *)

RequestCancel ==
  /\ pc \notin {"new", "idle"} /\ ~cancel
  /\ cancel' = TRUE
  /\ UNCHANGED <<pc, status, plan, dumped, evidence, revision, batch, phase, preApproved,
                 approvals, store, calls, grants, faults, resumes>>

(* The operator decides a pending gate through the installed authority.    *)
Decide(g) ==
  /\ AuthorityInstalled
  /\ g \in DOMAIN approvals /\ approvals[g].status = "PENDING"
  /\ \/ /\ approvals' = [approvals EXCEPT ![g].status = "APPROVED"]
        /\ grants' = [grants EXCEPT ![approvals[g].step] = @ + 1]
     \/ /\ approvals' = [approvals EXCEPT ![g].status = "REJECTED"]
        /\ UNCHANGED grants
  /\ UNCHANGED <<pc, driver, store, calls, faults, resumes>>

(* The consumer cancels or abandons the generator at an await or a yield.  *)
Interrupt ==
  /\ pc \notin {"new", "idle"}
  /\ faults < MaxFaults /\ faults' = faults + 1
  /\ Leave
  /\ UNCHANGED <<status, plan, dumped, evidence, revision, approvals, store,
                 calls, grants, resumes>>

(* The process dies: checkpoints in memory and approval records are lost.  *)
Crash ==
  /\ pc # "new"
  /\ faults < MaxFaults /\ faults' = faults + 1
  /\ memory' = NoCheckpoint
  /\ approvals' = [g \in DOMAIN approvals |-> [approvals[g] EXCEPT !.status = "LOST"]]
  /\ Leave
  /\ UNCHANGED <<status, plan, dumped, evidence, revision, redis, calls, grants,
                 resumes>>

-----------------------------------------------------------------------------
StepAction(s) ==
  \/ SelectAgent(s) \/ CallUngated(s) \/ CallApproved(s) \/ RaiseGate(s)
  \/ GateUnavailable(s) \/ CallReturns(s)
  \/ ProcessCompleted(s) \/ ProcessPaused(s) \/ ProcessRetry(s) \/ ProcessSwitch(s)
  \/ ProcessTerminate(s)

RunAction ==
  \/ StartRun \/ CancelPlanned \/ BeginExecution
  \/ ObserveCancel \/ ObserveTimeout \/ PauseForGates \/ Dispatch \/ FinishBatch
  \/ BeginVerification \/ VerdictPass \/ VerdictRejected \/ VerdictFailed
  \/ BeginReplan \/ Replan

ResumeAction ==
  \/ ResumeRefused \/ ResumeContinue \/ ResumeRejected \/ ResumeDecideRaises
  \/ \E approved \in BOOLEAN : ResumeStillWaiting(approved) \/ ResumeUnlocked(approved)

EnvironmentAction ==
  \/ RequestCancel \/ Interrupt \/ Crash
  \/ \E g \in DOMAIN approvals : Decide(g)

Next ==
  \/ \E s \in Steps : StepAction(s)
  \/ RunAction
  \/ ResumeAction
  \/ EnvironmentAction

Spec == Init /\ [][Next]_vars

-----------------------------------------------------------------------------
(* Properties                                                              *)

TypeOK ==
  /\ pc \in {"new", "planned", "top", "batch", "verify", "replan", "idle"}
  /\ status \in RunStatuses
  /\ plan \in Plans /\ dumped \in Plans
  /\ evidence \in {"unjudged", "sound", "flawed", "breach"} /\ revision \in Nat
  /\ batch \subseteq Steps /\ preApproved \subseteq Steps /\ cancel \in BOOLEAN
  /\ phase \in [Steps -> {"none", "selecting", "selected", "calling"} \cup Finished]
  /\ approvals \in Seq(ApprovalRecords)
  /\ memory \in Checkpoints /\ redis \in Checkpoints
  /\ calls \in [Steps -> Nat] /\ grants \in [Steps -> Nat]
  /\ faults \in Nat /\ resumes \in Nat

PlanCopies == {plan, dumped, memory.plan, redis.plan}

Closed(p) == \A s \in StepsIn(p, "completed") : Deps[s] \subseteq StepsIn(p, "completed")

(* No step is started, and none is recorded as completed in any copy of    *)
(* the plan, before all the steps it depends on are completed.             *)
DependenciesRespected ==
  /\ \A s \in Steps : phase[s] # "none" => Deps[s] \subseteq StepsIn(plan, "completed")
  /\ \A p \in PlanCopies : Closed(p)

(* A tool the approval policy gates is never called for a step the         *)
(* operator has not approved, whatever crashes, interruptions, lost        *)
(* records and resumptions come between the approval and the call.         *)
DangerousCallNeedsGrant ==
  \A s \in Dangerous : calls[s] > 0 => grants[s] > 0

(* What a checkpoint's status claims its plan bears out: a completed run   *)
(* has every step completed, a paused run has a step waiting at a gate of  *)
(* its own, which a resumption can unlock.                                 *)
StatusMatchesPlan ==
  \A c \in {memory, redis} :
    /\ c.status = "completed" => IsComplete(c.plan)
    /\ c.status \in PausedStatuses => \E s \in Waiting(c.plan) : c.plan[s].gate # 0

(* A step that the durable checkpoint has as completed is never called     *)
(* again, through any sequence of restarts and resumptions.                *)
CompletedNeverRepeated ==
  [][\A s \in Steps : calls'[s] # calls[s] => redis.plan[s].st # "completed"]_vars

(* Once a terminal status is durable the run is over: the checkpoint stays *)
(* and no step is called any more.                                         *)
DurableTerminalIsFinal ==
  [][redis.status \in TerminalStatuses => UNCHANGED <<redis, calls>>]_vars

(* Retries, agent switches and resumptions together are bounded: each      *)
(* generator starts a step at most as often as its budgets allow.          *)
EffortBounded ==
  \A s \in Steps : calls[s] <= (resumes + 1) * (MaxRetries + 1) * (MaxSwitches + 1)

(* At the head of the loop an incomplete plan always has a step to run or  *)
(* a gate to wait for: the engine's "unrecoverable step failure" and       *)
(* "no runnable steps remain" exits are never taken.                       *)
NeverStalls == AtLoopTop => Runnable(plan) \cup Waiting(plan) # {}

(* Without faults, a run that is no longer driven was stored as ended or   *)
(* as paused: the engine never just drops a run.                           *)
NoRunDropped ==
  pc = "idle" /\ faults = 0 => Loaded.status \in TerminalStatuses \cup PausedStatuses

(* The engine implements RunLifecycle: every status write is one the       *)
(* transition table admits, every checkpoint holds a status the run had,   *)
(* and no terminal checkpoint is driven again.                             *)
Lifecycle ==
  INSTANCE RunLifecycle WITH
    live    <- IF pc \in {"new", "idle"} THEN "parked" ELSE status,
    saved   <- memory.status,
    durable <- redis.status

ImplementsLifecycle == Lifecycle!LifecycleSpec

(* The event loop keeps running the coroutines, and awaited calls return   *)
(* or time out.                                                            *)
Fairness == WF_vars(RunAction \/ \E s \in Steps : StepAction(s))

FairSpec == Spec /\ Fairness

(* A driven run comes to rest: it ends, pauses for a human, or is dropped. *)
RunSettles == pc \in {"planned", "top", "batch", "verify", "replan"} ~> pc = "idle"

-----------------------------------------------------------------------------
(* What comments and documents say and the code does not do                *)

(* RunStatus.REPLANNING leads to EXECUTING because "after a replan,        *)
(* revised execution resumes": replanning leaves a step to execute.        *)
ReplanSchedulesWork ==
  [][pc = "replan" /\ pc' = "top" => StepsIn(plan', "pending") # {}]_vars

(* An approval is single-use, consumed on execution: a gated tool is       *)
(* called at most once for each approval the operator gave.                *)
ApprovalSingleUse == \A s \in Dangerous : calls[s] <= grants[s]

(* SWITCH_AGENT transfers the step to the alternative agent: the next      *)
(* attempt runs on the agent the recovery engine chose.                    *)
SwitchedAgentRuns ==
  [][\A s \in Steps :
       plan[s].switches > 0 /\ phase[s] = "selecting" /\ phase'[s] = "selected"
         => plan'[s].agent = plan[s].agent]_vars
=============================================================================
