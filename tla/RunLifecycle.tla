---------------------------- MODULE RunLifecycle ----------------------------
(***************************************************************************)
(* What an execution engine promises about one run, whatever it executes:  *)
(* the status of a driven run only moves along RunTransitions, what is     *)
(* stored is a status the run really had, driving resumes only from a      *)
(* stored status that is not terminal, and a crash costs no more than the  *)
(* copy in process memory.                                                 *)
(***************************************************************************)
EXTENDS RunStates

VARIABLES
  live,    \* status of the run being driven, "parked" when nothing drives it
  saved,   \* status in the checkpoint in process memory, or "absent"
  durable  \* status in the checkpoint in Redis, or "absent"

lifecycleVars == <<live, saved, durable>>

Stored == IF saved # "absent" THEN saved ELSE durable

(* A write reaches memory, and Redis unless it is lost there.              *)
Persist(s) == saved' = s /\ durable' \in {s, durable}

LifecycleInit == live = "parked" /\ saved = "absent" /\ durable = "absent"

Begin ==
  /\ live = "parked" /\ Stored = "absent"
  /\ live' = "ready"
  /\ UNCHANGED <<saved, durable>>

Advance ==
  /\ live # "parked"
  /\ live' \in RunStatuses \ TerminalStatuses /\ MayBecome(live, live')
  /\ \/ UNCHANGED <<saved, durable>>
     \/ Persist(live)
     \/ Persist(live')

(* The run ends or pauses with that status stored.                         *)
Rest ==
  /\ live # "parked" /\ live' = "parked"
  /\ \E s \in TerminalStatuses \cup PausedStatuses : MayBecome(live, s) /\ Persist(s)

(* The driver is dropped and nothing is written.                           *)
Abandon == live # "parked" /\ live' = "parked" /\ UNCHANGED <<saved, durable>>

Restore ==
  /\ live = "parked" /\ Stored \notin TerminalStatuses \cup {"absent"}
  /\ live' = "executing"
  /\ \/ saved' = Stored /\ UNCHANGED durable
     \/ Persist("executing")

RejectPaused ==
  /\ live = "parked" /\ Stored \in PausedStatuses
  /\ Persist("rejected")
  /\ UNCHANGED live

Rehydrate == live = "parked" /\ saved' = Stored /\ UNCHANGED <<live, durable>>

LoseProcess == live' = "parked" /\ saved' = "absent" /\ UNCHANGED durable

LifecycleNext ==
  \/ Begin \/ Advance \/ Rest \/ Abandon
  \/ Restore \/ RejectPaused \/ Rehydrate \/ LoseProcess

LifecycleSpec == LifecycleInit /\ [][LifecycleNext]_lifecycleVars
=============================================================================
