----------------------------- MODULE RunStates -----------------------------
(***************************************************************************)
(* The status values of a JakeAI agent run and the transition table that   *)
(* RunState.__setattr__ enforces on every write (agent/state/models.py).   *)
(* Constants only: the modules of both execution drivers extend it.        *)
(***************************************************************************)

TerminalStatuses == {"completed", "failed", "cancelled", "rejected", "timeout"}

PausedStatuses == {"waiting_approval", "paused_approval"}

RunStatuses ==
  {"created", "planning", "ready", "running", "executing",
   "verifying", "replanning"} \cup PausedStatuses \cup TerminalStatuses

(* Successors of the two statuses in which steps execute, "running" and    *)
(* "executing"; each also admits the other.                                *)
FromActive == PausedStatuses \cup TerminalStatuses \cup {"verifying"}

FromPaused ==
  {"running", "executing", "rejected", "cancelled", "failed"}

RunTransitions ==
  [s \in RunStatuses |->
     CASE s = "created"    -> {"planning", "ready", "running", "failed", "cancelled"}
       [] s = "planning"   -> {"ready", "running", "failed", "cancelled"}
       [] s = "ready"      -> {"running", "executing", "failed", "cancelled"}
       [] s = "running"    -> FromActive \cup {"executing"}
       [] s = "executing"  -> FromActive \cup {"running"}
       [] s = "verifying"  -> {"completed", "replanning", "planning", "running",
                               "failed", "rejected", "cancelled"}
       [] s = "replanning" -> {"planning", "ready", "running", "executing",
                               "failed", "cancelled"}
       [] s \in PausedStatuses   -> FromPaused
       [] s \in TerminalStatuses -> {}]

(* assert_run_transition: writing the same status again is a no-op, any    *)
(* other write must follow the table.                                      *)
MayBecome(from, to) == from = to \/ to \in RunTransitions[from]
=============================================================================
