--------------------------- MODULE CircuitBreaker ---------------------------
(***************************************************************************)
(* The circuit breaker (core/circuit_breaker.py) that the gateway puts in  *)
(* front of its providers.  Nothing ties the outcome of a call to the      *)
(* state it was admitted in: callers interleave freely between is_available*)
(* and record_success or record_failure.                                   *)
(***************************************************************************)
EXTENDS Naturals

CONSTANTS
  FailureThreshold,   \* failure_threshold
  SuccessThreshold    \* half_open_success_threshold

ASSUME BreakerAssumption ==
  /\ FailureThreshold \in Nat \ {0}
  /\ SuccessThreshold \in Nat \ {0}

VARIABLES
  state,       \* CircuitBreaker.state
  failures,    \* failure_count
  successes,   \* success_count
  cooled       \* recovery_timeout_seconds have passed since last_state_change

breakerVars == <<state, failures, successes, cooled>>

CircuitStates == {"CLOSED", "OPEN", "HALF_OPEN"}

BreakerCounts ==
  /\ state \in CircuitStates
  /\ failures \in Nat
  /\ successes \in Nat

BreakerTypeOK == BreakerCounts /\ cooled \in BOOLEAN

BreakerInit ==
  state = "CLOSED" /\ failures = 0 /\ successes = 0 /\ cooled = FALSE

\* The clock: only an open circuit looks at it.
CoolDown ==
  /\ state = "OPEN" /\ ~cooled
  /\ cooled' = TRUE
  /\ UNCHANGED <<state, failures, successes>>

\* is_available() lets the call through.
Admit ==
  \/ /\ state # "OPEN"
     /\ UNCHANGED breakerVars
  \/ /\ state = "OPEN" /\ cooled
     /\ state' = "HALF_OPEN" /\ successes' = 0 /\ cooled' = FALSE
     /\ UNCHANGED failures

\* is_available() turns the call away.
Refuse ==
  state = "OPEN" /\ ~cooled /\ UNCHANGED breakerVars

Closes == state' = "CLOSED" /\ failures' = 0 /\ successes' = 0 /\ cooled' = FALSE

\* record_success(): ignored while the circuit is open.
RecordSuccess ==
  IF state = "HALF_OPEN" /\ successes + 1 >= SuccessThreshold THEN Closes
  ELSE /\ successes' = IF state = "HALF_OPEN" THEN successes + 1 ELSE successes
       /\ failures' = IF state = "CLOSED" THEN 0 ELSE failures
       /\ UNCHANGED <<state, cooled>>

\* The threshold compared before the failure is counted.
RecordFailureLate ==
  /\ failures' = failures + 1
  /\ cooled' = FALSE
  /\ IF state = "HALF_OPEN" \/ failures >= FailureThreshold
     THEN state' = "OPEN" /\ successes' = 0
     ELSE UNCHANGED <<state, successes>>

\* record_failure(): also restarts the clock of a circuit that is open already.
RecordFailure ==
  /\ failures' = failures + 1
  /\ cooled' = FALSE
  /\ IF state = "HALF_OPEN" \/ failures + 1 >= FailureThreshold
     THEN state' = "OPEN" /\ successes' = 0
     ELSE UNCHANGED <<state, successes>>

\* The circuit by itself: calls and their outcomes in any order.
BreakerNext == CoolDown \/ Admit \/ RecordSuccess \/ RecordFailure

BreakerSpec == BreakerInit /\ [][BreakerNext]_breakerVars

-----------------------------------------------------------------------------
(* The counters agree with the state whatever the order in which outcomes  *)
(* of calls of earlier eras arrive: a closed circuit is below its failure  *)
(* threshold, any other has reached it, and probes are counted only while  *)
(* half open, below the threshold that closes the circuit.                 *)
CountersMatchState ==
  /\ state = "CLOSED" <=> failures < FailureThreshold
  /\ state = "HALF_OPEN" => successes < SuccessThreshold
  /\ state # "HALF_OPEN" => successes = 0

\* An open circuit is left through HALF_OPEN only, never closed by the late
\* success of a call that was let through before it opened.
OpenLeftByProbe ==
  [][state = "OPEN" => state' # "CLOSED"]_breakerVars
=============================================================================
