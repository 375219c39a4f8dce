---------------------------- MODULE AgentRuntime ----------------------------
(***************************************************************************)
(* The driver behind the REST surface (agent/runtime: manager.py,          *)
(* runner.py, loop.py): the runs of one task, each a bounded loop of       *)
(* "ask the planner, then act", with an approval gate before a dangerous   *)
(* tool, cancellation, and a checkpoint after every round.                 *)
(*                                                                         *)
(* Every start or resumption of a run is an asyncio task of its own, a     *)
(* driver <<r, k>>: the k-th driver of run r.  An action is the code       *)
(* between two awaits that really suspend: the planner's answer, a tool's  *)
(* result, the Redis writes of a checkpoint.                               *)
(***************************************************************************)
EXTENDS Naturals, RunStates

CONSTANTS
  Runs,                \* the runs created for the task
  Watched,             \* those a client streams the events of
  MaxIterations,       \* AgentConfig.max_iterations
  AuthorityInstalled,  \* an approval authority is installed behind decide()
  Guarded              \* requests pass the authorization middleware

ASSUME RuntimeAssumption ==
  /\ Watched \subseteq Runs
  /\ MaxIterations \in Nat \ {0}
  /\ AuthorityInstalled \in BOOLEAN /\ Guarded \in BOOLEAN

\* A run is resumed at most once for each iteration it has.
Drivers == Runs \X (1..MaxIterations + 1)

VARIABLES
  task,        \* TaskState.status, shared by the task's runs
  run,         \* RunState.status in the manager's table, or "absent"
  iteration,   \* RunState.current_iteration
  starts,      \* drivers started for the run so far
  pc,          \* where each driver stands
  registered,  \* AgentRunner._active_tasks: the driver a cancellation reaches, or 0
  stream,      \* a client's subscription to the run's events: "open", or "told"
               \* once the end-of-stream sentinel is in its queue
  doomed,      \* drivers with an undelivered CancelledError
  gate,        \* status of the run's latest approval request
  saved,       \* latest checkpoint in process memory: its status
  toolCalls    \* history: tool calls started for the run

reach   == <<registered, stream>>
vars    == <<task, run, iteration, starts, pc, registered, stream, doomed, gate,
             saved, toolCalls>>

-----------------------------------------------------------------------------
(* The task's own transition table: a task mirrors the run machine, starts *)
(* PENDING, and a terminal task may be re-opened to RUNNING.               *)
TaskStatuses == (RunStatuses \ {"created"}) \cup {"pending"}

TaskMayBecome(from, to) ==
  \/ from = to
  \/ from \in TerminalStatuses /\ to = "running"
  \/ from = "pending" /\ to \in {"planning", "ready", "running", "failed", "rejected",
                                 "cancelled"}
  \/ from # "pending" /\ to \in RunTransitions[from]

Terminal(r) == run[r] \in TerminalStatuses

Init ==
  /\ task = "pending" /\ run = [r \in Runs |-> "absent"]
  /\ iteration = [r \in Runs |-> 0] /\ starts = [r \in Runs |-> 0]
  /\ pc = [d \in Drivers |-> "none"]
  /\ registered = [r \in Runs |-> 0] /\ doomed = {}
  /\ stream = [r \in Runs |-> "none"]
  /\ gate = [r \in Runs |-> "none"]
  /\ saved = [r \in Runs |-> "absent"]
  /\ toolCalls = [r \in Runs |-> 0]

At(r, k, place) == pc[<<r, k>>] = place /\ <<r, k>> \notin doomed

MoveTo(r, k, place) == pc' = [pc EXCEPT ![<<r, k>>] = place]

(* start_run's finally: whoever leaves ends the run's subscriptions and     *)
(* clears its registration.                                                *)
Unregister(r) ==
  /\ registered' = [registered EXCEPT ![r] = 0]
  /\ stream' = [stream EXCEPT ![r] = IF @ = "open" THEN "told" ELSE @]

Leave(r, k) == MoveTo(r, k, "over") /\ Unregister(r)

(* save_checkpoint: process memory at once, then the Redis writes are      *)
(* awaited; what becomes of those is CheckpointManager's affair.           *)
BeginSave(r, status) == saved' = [saved EXCEPT ![r] = status]

(* Write a status to run and task, then save.                              *)
Settle(r, k, status) ==
  /\ run' = [run EXCEPT ![r] = status] /\ task' = status
  /\ BeginSave(r, status)
  /\ MoveTo(r, k, "lastSave")
  /\ UNCHANGED reach

\* Mutant: a refused write is tried again instead of ending the driver.
ConcludeInsists(r, k, status) ==
  /\ MayBecome(run[r], status) /\ TaskMayBecome(task, status)
  /\ Settle(r, k, status)

(* The run's write or the task's may be refused by the transition tables:  *)
(* the exception ends the driver between the two writes, or before both.   *)
Conclude(r, k, status) ==
  \/ /\ MayBecome(run[r], status) /\ TaskMayBecome(task, status)
     /\ Settle(r, k, status)
  \/ /\ MayBecome(run[r], status) /\ ~TaskMayBecome(task, status)
     /\ run' = [run EXCEPT ![r] = status]
     /\ Leave(r, k)
     /\ UNCHANGED <<task, saved>>
  \/ /\ ~MayBecome(run[r], status)
     /\ Leave(r, k)
     /\ UNCHANGED <<run, task, saved>>

-----------------------------------------------------------------------------
(* POST /tasks/{id}/runs                                                   *)

Create(r) ==
  /\ run[r] = "absent"
  /\ run' = [run EXCEPT ![r] = "created"]
  /\ starts' = [starts EXCEPT ![r] = 1]
  /\ MoveTo(r, 1, "scheduled")
  /\ UNCHANGED <<task, iteration, reach, doomed, gate, saved, toolCalls>>

(* The background task runs up to the planner's first answer.              *)
Start(r) ==
  /\ At(r, 1, "scheduled") /\ ~Terminal(r)
  /\ run' = [run EXCEPT ![r] = "running"] /\ task' = "running"
  /\ registered' = [registered EXCEPT ![r] = 1]
  /\ MoveTo(r, 1, "planning")
  /\ UNCHANGED <<stream, iteration, starts, doomed, gate, saved, toolCalls>>

(* Cancelled while it was scheduled: execute_run raises.                   *)
StartRefused(r) ==
  /\ At(r, 1, "scheduled") /\ Terminal(r)
  /\ MoveTo(r, 1, "over")
  /\ UNCHANGED <<task, run, iteration, starts, reach, doomed, gate, saved, toolCalls>>

-----------------------------------------------------------------------------
(* AgentExecutionLoop.execute: the planner's answer decides                *)

PlannerEnds(r, k) ==
  /\ At(r, k, "planning")
  /\ \E status \in {"completed", "failed"} : Conclude(r, k, status)
  /\ UNCHANGED <<iteration, starts, doomed, gate, toolCalls>>

(* A dangerous tool: create the approval request, pause and return.        *)
PlannerPauses(r, k) ==
  /\ At(r, k, "planning")
  /\ gate' = [gate EXCEPT ![r] = "pending"]
  /\ Conclude(r, k, "paused_approval")
  /\ UNCHANGED <<iteration, starts, doomed, toolCalls>>

PlannerCalls(r, k) ==
  /\ At(r, k, "planning")
  /\ MoveTo(r, k, "tool")
  /\ toolCalls' = [toolCalls EXCEPT ![r] = @ + 1]
  /\ UNCHANGED <<task, run, iteration, starts, reach, doomed, gate, saved>>

(* The observation is recorded and the round saved.                        *)
ToolReturns(r, k) ==
  /\ At(r, k, "tool")
  /\ iteration' = [iteration EXCEPT ![r] = @ + 1]
  /\ BeginSave(r, run[r])
  /\ MoveTo(r, k, "roundSave")
  /\ UNCHANGED <<task, run, starts, reach, doomed, gate, toolCalls>>

\* Mutant: the bound on iterations is off by one.
RoundSavedLate(r, k) ==
  /\ At(r, k, "roundSave")
  /\ \/ iteration[r] > MaxIterations /\ Conclude(r, k, "failed")
     \/ iteration[r] <= MaxIterations /\ run[r] = "cancelled" /\ Conclude(r, k, "cancelled")
     \/ /\ iteration[r] <= MaxIterations /\ run[r] # "cancelled"
        /\ MoveTo(r, k, "planning")
        /\ UNCHANGED <<task, run, reach, saved>>
  /\ UNCHANGED <<iteration, starts, doomed, gate, toolCalls>>

(* The next round: out of iterations, cancelled, or on to the planner.     *)
RoundSaved(r, k) ==
  /\ At(r, k, "roundSave")
  /\ \/ iteration[r] >= MaxIterations /\ Conclude(r, k, "failed")
     \/ iteration[r] < MaxIterations /\ run[r] = "cancelled" /\ Conclude(r, k, "cancelled")
     \/ /\ iteration[r] < MaxIterations /\ run[r] # "cancelled"
        /\ MoveTo(r, k, "planning")
        /\ UNCHANGED <<task, run, reach, saved>>
  /\ UNCHANGED <<iteration, starts, doomed, gate, toolCalls>>

LastSaved(r, k) ==
  /\ At(r, k, "lastSave")
  /\ Leave(r, k)
  /\ UNCHANGED <<task, run, iteration, starts, doomed, gate, saved, toolCalls>>

(* The planner's call fails (its backend, a credential, the caller's         *)
(* authority), or authorize_bound_effect refuses the tool's, outside the    *)
(* registry's own try.  start_run catches cancellations only: the driver    *)
(* is gone and the statuses stay as they are.                               *)
CallRaises(r, k) ==
  /\ At(r, k, "planning") \/ At(r, k, "tool")
  /\ MoveTo(r, k, "raised") /\ Unregister(r)
  /\ UNCHANGED <<task, run, iteration, starts, doomed, gate, saved, toolCalls>>

(* The CancelledError of cancel_run surfaces at the driver's await.  The   *)
(* run is terminal by then; Redis writes under way may have landed.        *)
Delivered(r, k) ==
  /\ <<r, k>> \in doomed
  /\ doomed' = doomed \ {<<r, k>>}
  /\ Leave(r, k)
  /\ UNCHANGED <<task, run, iteration, starts, gate, saved, toolCalls>>

-----------------------------------------------------------------------------
(* POST .../cancel: no await in it                                         *)

\* Mutant: the asyncio task is not cancelled.
RequestCancelFlagOnly(r) ==
  /\ run[r] # "absent" /\ ~Terminal(r)
  /\ run' = [run EXCEPT ![r] = "cancelled"]
  /\ task' = IF task \in TerminalStatuses THEN task ELSE "cancelled"
  /\ UNCHANGED <<iteration, starts, pc, reach, doomed, gate, saved, toolCalls>>

RequestCancel(r) ==
  /\ run[r] # "absent" /\ ~Terminal(r)
  /\ run' = [run EXCEPT ![r] = "cancelled"]
  /\ task' = IF task \in TerminalStatuses THEN task ELSE "cancelled"
  /\ doomed' = IF registered[r] = 0 THEN doomed ELSE doomed \cup {<<r, registered[r]>>}
  /\ UNCHANGED <<iteration, starts, pc, reach, gate, saved, toolCalls>>

-----------------------------------------------------------------------------
(* A run executes inside the request that created it, after its response:  *)
(* the middleware stops both when the caller's authority is lost.          *)

(* The middleware's watch cancels the request, and the CancelledError      *)
(* surfaces at the first driver's await.  A call that meets the loss first *)
(* raises it: CallRaises.                                                  *)
AuthorityLost(r) ==
  /\ Guarded
  /\ \E place \in {"planning", "tool", "roundSave", "lastSave"} : At(r, 1, place)
  /\ run' = IF Terminal(r) THEN run ELSE [run EXCEPT ![r] = "cancelled"]
  /\ task' = IF ~Terminal(r) /\ TaskMayBecome(task, "cancelled") THEN "cancelled" ELSE task
  /\ Leave(r, 1)
  /\ UNCHANGED <<iteration, starts, doomed, gate, saved, toolCalls>>

(* The response may not be sent: what was to run after it never does.      *)
CreationWithheld(r) ==
  /\ Guarded /\ At(r, 1, "scheduled")
  /\ MoveTo(r, 1, "dropped")
  /\ UNCHANGED <<task, run, iteration, starts, reach, doomed, gate, saved, toolCalls>>

-----------------------------------------------------------------------------
(* POST .../approvals/{approval_id}                                        *)

Decidable(r) == AuthorityInstalled /\ gate[r] = "pending"

(* The run is paused: the decision's request becomes its next driver and   *)
(* starts the approved tool.                                               *)
ApproveResumes(r) ==
  /\ Decidable(r) /\ run[r] = "paused_approval"
  /\ gate' = [gate EXCEPT ![r] = "approved"]
  /\ toolCalls' = [toolCalls EXCEPT ![r] = @ + 1]
  /\ starts' = [starts EXCEPT ![r] = @ + 1]
  /\ MoveTo(r, starts[r] + 1, "approvedTool")
  /\ UNCHANGED <<task, run, iteration, reach, doomed, saved>>

ApproveIgnored(r) ==
  /\ Decidable(r) /\ run[r] # "paused_approval"
  /\ gate' = [gate EXCEPT ![r] = "approved"]
  /\ UNCHANGED <<task, run, iteration, starts, pc, reach, doomed, saved, toolCalls>>

\* Mutant: a resumption does not count as an iteration.
ApprovedToolReturnsFree(r, k) ==
  /\ At(r, k, "approvedTool") /\ ~Terminal(r)
  /\ run' = [run EXCEPT ![r] = "running"] /\ task' = "running"
  /\ MoveTo(r, k, "planning")
  /\ registered' = [registered EXCEPT ![r] = k]
  /\ UNCHANGED <<stream, iteration, starts, saved, doomed, gate, toolCalls>>

(* The approved tool has run; the loop goes on, unless that was the last   *)
(* iteration.                                                              *)
ApprovedToolReturns(r, k) ==
  /\ At(r, k, "approvedTool") /\ ~Terminal(r)
  /\ iteration' = [iteration EXCEPT ![r] = @ + 1]
  /\ registered' = [registered EXCEPT ![r] = k]
  /\ \/ /\ iteration'[r] < MaxIterations
        /\ run' = [run EXCEPT ![r] = "running"] /\ task' = "running"
        /\ MoveTo(r, k, "planning")
        /\ UNCHANGED saved
     \/ /\ iteration'[r] >= MaxIterations
        /\ run' = [run EXCEPT ![r] = "failed"] /\ task' = "failed"
        /\ BeginSave(r, "failed")
        /\ MoveTo(r, k, "lastSave")
  /\ UNCHANGED <<stream, starts, doomed, gate, toolCalls>>

(* The approved tool is refused its authority: resume_after_approval ends  *)
(* before start_run, with the gate decided and the run still paused.       *)
ApprovedToolRaises(r, k) ==
  /\ At(r, k, "approvedTool")
  /\ MoveTo(r, k, "raised")
  /\ UNCHANGED <<task, run, iteration, starts, reach, doomed, gate, saved, toolCalls>>

(* The run was cancelled meanwhile: writing RUNNING raises.                *)
ApprovedToolRefused(r, k) ==
  /\ At(r, k, "approvedTool") /\ Terminal(r)
  /\ MoveTo(r, k, "over")
  /\ UNCHANGED <<task, run, iteration, starts, reach, doomed, gate, saved, toolCalls>>

\* Mutant: a rejection puts the run back to RUNNING.
RejectReleases(r) ==
  /\ Decidable(r)
  /\ gate' = [gate EXCEPT ![r] = "rejected"]
  /\ run' = IF Terminal(r) THEN run ELSE [run EXCEPT ![r] = "running"]
  /\ UNCHANGED <<task, iteration, starts, pc, reach, doomed, saved, toolCalls>>

Reject(r) ==
  /\ Decidable(r)
  /\ gate' = [gate EXCEPT ![r] = "rejected"]
  /\ run' = IF Terminal(r) THEN run ELSE [run EXCEPT ![r] = "rejected"]
  /\ task' = IF Terminal(r) \/ task \in TerminalStatuses THEN task ELSE "rejected"
  /\ UNCHANGED <<iteration, starts, pc, reach, doomed, saved, toolCalls>>

-----------------------------------------------------------------------------
(* GET .../events: stream_run_events                                       *)

(* The subscription of a run that has ended answers with its status at once. *)
Subscribe(r) ==
  /\ r \in Watched
  /\ run[r] # "absent" /\ ~Terminal(r) /\ stream[r] = "none"
  /\ stream' = [stream EXCEPT ![r] = "open"]
  /\ UNCHANGED <<task, run, iteration, starts, pc, registered, doomed, gate, saved, toolCalls>>

\* Mutant: the stream waits for the sentinel alone.
StreamClosesWhenTold(r) ==
  /\ stream[r] = "told"
  /\ stream' = [stream EXCEPT ![r] = "none"]
  /\ UNCHANGED <<task, run, iteration, starts, pc, registered, doomed, gate, saved, toolCalls>>

(* The sentinel is read, or a second without events finds the run ended.   *)
StreamCloses(r) ==
  /\ stream[r] = "told" \/ (stream[r] = "open" /\ Terminal(r))
  /\ stream' = [stream EXCEPT ![r] = "none"]
  /\ UNCHANGED <<task, run, iteration, starts, pc, registered, doomed, gate, saved, toolCalls>>

-----------------------------------------------------------------------------
DriverAction(r, k) ==
  \/ PlannerEnds(r, k) \/ PlannerPauses(r, k) \/ PlannerCalls(r, k)
  \/ ToolReturns(r, k) \/ RoundSaved(r, k) \/ LastSaved(r, k) \/ Delivered(r, k)
  \/ ApprovedToolReturns(r, k) \/ ApprovedToolRefused(r, k)
  \/ CallRaises(r, k) \/ ApprovedToolRaises(r, k)

RunAction(r) ==
  \/ Start(r) \/ StartRefused(r)
  \/ \E k \in 1..MaxIterations + 1 : DriverAction(r, k)

OperatorAction(r) ==
  \/ Create(r) \/ RequestCancel(r) \/ ApproveResumes(r) \/ ApproveIgnored(r)
  \/ Reject(r) \/ Subscribe(r) \/ AuthorityLost(r) \/ CreationWithheld(r)

Next == \E r \in Runs : RunAction(r) \/ OperatorAction(r) \/ StreamCloses(r)

Spec == Init /\ [][Next]_vars

(* The event loop keeps running every coroutine, and awaited calls return; *)
(* a stream is polled every second.                                        *)
FairSpec ==
  /\ Spec
  /\ \A r \in Runs : WF_vars(RunAction(r))
  /\ \A r \in Watched : WF_vars(StreamCloses(r))

-----------------------------------------------------------------------------
(* Properties                                                              *)

Places == {"none", "scheduled", "planning", "tool", "roundSave", "lastSave",
           "approvedTool", "dropped", "over", "raised"}

TypeOK ==
  /\ task \in TaskStatuses
  /\ run \in [Runs -> RunStatuses \cup {"absent"}]
  /\ iteration \in [Runs -> 0..MaxIterations]
  /\ starts \in [Runs -> 0..MaxIterations + 1]
  /\ pc \in [Drivers -> Places]
  /\ registered \in [Runs -> 0..MaxIterations + 1] /\ doomed \subseteq Drivers
  /\ stream \in [Runs -> {"none", "open", "told"}]
  /\ gate \in [Runs -> {"none", "pending", "approved", "rejected"}]
  /\ saved \in [Runs -> RunStatuses \cup {"absent"}]
  /\ toolCalls \in [Runs -> Nat]

Working(r, places) == \E k \in 1..MaxIterations + 1 : pc[<<r, k>>] \in places

(* A driver of the run was ended by an exception of a call it awaited.     *)
Raised(r) == Working(r, {"raised"})

(* No run is stranded but by an exception: unless a call of its driver     *)
(* raised, a run that is to run is being driven, and a paused run has a    *)
(* gate the operator can still decide or a decision being carried out; and *)
(* a run that such an exception stranded has no other driver at work and   *)
(* no gate to decide, so only a cancellation can end it.  A run whose      *)
(* creation was never answered stays CREATED: nobody holds its id.         *)
NoZombie ==
  \A r \in Runs :
    /\ run[r] = "created" => Working(r, {"scheduled", "dropped"})
    /\ run[r] = "running" => Working(r, {"planning", "tool", "roundSave"}) \/ Raised(r)
    /\ run[r] = "paused_approval" =>
         gate[r] = "pending" \/ Working(r, {"approvedTool"}) \/ Raised(r)
    /\ ~Terminal(r) /\ Raised(r) =>
         gate[r] # "pending" /\ ~Working(r, {"planning", "tool", "roundSave", "approvedTool"})

(* max_iterations bounds the tools a run calls, whichever drivers call     *)
(* them and however often it is paused and resumed.                        *)
ToolsBounded == \A r \in Runs : toolCalls[r] <= MaxIterations

(* A run that was never paused starts no tool once it is cancelled.        *)
CancelHeeded ==
  [][\A r \in Runs :
       toolCalls'[r] # toolCalls[r] /\ starts[r] = 1 => ~Terminal(r)]_vars

(* Every driver comes to an end: a run whose drivers are at work has none  *)
(* left at some later moment, however often it is paused and resumed.      *)
Driven(r) == Working(r, Places \ {"none", "dropped", "over", "raised"})

DriversEnd == \A r \in Runs : Driven(r) ~> ~Driven(r)

(* No client is left waiting on the events of a run that has ended, also   *)
(* where no driver is left to send the sentinel: a paused run that is      *)
(* rejected or cancelled, a driver whose start was refused.                *)
StreamsEnd ==
  \A r \in Watched : stream[r] = "open" /\ Terminal(r) ~> stream[r] = "none"

-----------------------------------------------------------------------------
(* What comments and documents say and the code does not do                *)

(* cancel_run signals "cooperative and task cancellation to an active      *)
(* run": once a run is cancelled none of its drivers starts a tool.        *)
CancelAlwaysHeeded ==
  [][\A r \in Runs : toolCalls'[r] # toolCalls[r] => ~Terminal(r)]_vars

(* A run that completed and is no longer driven has its completion in a    *)
(* checkpoint: a crash afterwards loses nothing of it.                     *)
CompletedIsSaved ==
  \A r \in Runs :
    run[r] = "completed" /\ ~Driven(r) => saved[r] = "completed"
=============================================================================
