--------------------------- MODULE GatewayProofs ----------------------------
(***************************************************************************)
(* Theorems about the gateway, for every set of requests, chain of         *)
(* candidates, quota and threshold.  First: its steps drive the circuit    *)
(* breaker through that component's own steps, and every variable keeps    *)
(* its type.  Then what it does with its reservations and its cache: no    *)
(* request is settled twice, one that was answered has been settled, the   *)
(* two stores of a budget never count too little nor commit more than the  *)
(* quota allows, and outage texts are not cached.  Last: every request     *)
(* runs out of steps.                                                      *)
(***************************************************************************)
EXTENDS Gateway, FiniteSetTheorems, WellFoundedInduction, TLAPS

\* The breaker invariant that is inductive: the counters agree with the state.
BreakerInv == BreakerCounts /\ CountersMatchState

\* A fresh circuit has its counters at zero and is closed.
LEMMA BreakerInitInv == BreakerInit => BreakerInv
  BY BreakerAssumption
  DEF BreakerAssumption, BreakerInit, BreakerInv, BreakerCounts, CountersMatchState,
      CircuitStates

\* A success keeps the counters in step with the state, in whichever state it arrives.
LEMMA RecordSuccessInv == BreakerInv /\ RecordSuccess => BreakerInv'
  BY BreakerAssumption
  DEF BreakerAssumption, BreakerInv, BreakerCounts, CountersMatchState, CircuitStates,
      RecordSuccess, Closes

\* So does a failure.
LEMMA RecordFailureInv == BreakerInv /\ RecordFailure => BreakerInv'
  BY BreakerAssumption
  DEF BreakerAssumption, BreakerInv, BreakerCounts, CountersMatchState, CircuitStates,
      RecordFailure

\* Every step of the circuit preserves its invariant.
LEMMA BreakerStepInv == BreakerInv /\ [BreakerNext]_breakerVars => BreakerInv'
  <1> SUFFICES ASSUME BreakerInv, [BreakerNext]_breakerVars PROVE BreakerInv'
    OBVIOUS
  <1> USE BreakerAssumption
      DEF BreakerAssumption, BreakerInv, BreakerCounts, CountersMatchState, CircuitStates
  <1>1. CASE CoolDown
    BY <1>1 DEF CoolDown
  <1>2. CASE Admit
    BY <1>2 DEF Admit, breakerVars
  <1>3. CASE RecordSuccess
    BY <1>3, RecordSuccessInv
  <1>4. CASE RecordFailure
    BY <1>4, RecordFailureInv
  <1>5. CASE UNCHANGED breakerVars
    BY <1>5 DEF breakerVars
  <1> QED
    BY <1>1, <1>2, <1>3, <1>4, <1>5 DEF BreakerNext

\* A step of the circuit never leads from OPEN to CLOSED.
LEMMA BreakerStepProbes ==
  BreakerInv /\ BreakerNext => (state = "OPEN" => state' # "CLOSED")
  BY DEF BreakerNext, CoolDown, Admit, RecordSuccess, RecordFailure, Closes, breakerVars

\* The circuit by itself keeps its counters in step with its state.
THEOREM BreakerKeepsCounters == BreakerSpec => []BreakerInv
  BY BreakerInitInv, BreakerStepInv, PTL DEF BreakerSpec

-----------------------------------------------------------------------------
(* Each step of the gateway is a step of the circuit or leaves it alone.   *)

\* What a handler's own step does to the circuit.
LEMMA ProgressOnBreaker ==
  ASSUME NEW r \in Requests, Progress(r)
  PROVE  [BreakerNext]_breakerVars
  <1>1. CASE Lookup(r)
    BY <1>1 DEF Lookup, Miss, Refuse, BreakerNext
  <1>2. CASE Answered(r)
    BY <1>2 DEF Answered, BreakerNext
  <1>3. CASE DispatchFails(r)
    BY <1>3 DEF DispatchFails, BreakerNext
  <1>4. CASE Reserve(r) \/ Screen(r) \/ Replay(r) \/ AttemptFails(r)
    BY <1>4 DEF Reserve, Screen, Replay, AttemptFails
  <1>5. CASE Work(r) \/ Inspect(r) \/ Words(r) \/ Store(r) \/ Settle(r)
    BY <1>5 DEF Work, Inspect, Words, Store, Settle
  <1> QED
    BY <1>1, <1>2, <1>3, <1>4, <1>5 DEF Progress

\* Every step of the gateway is one of the circuit or leaves it alone.
LEMMA NextOnBreaker == [Next]_vars => [BreakerNext]_breakerVars
  <1> SUFFICES ASSUME [Next]_vars PROVE [BreakerNext]_breakerVars
    OBVIOUS
  <1>1. ASSUME NEW r \in Requests, Progress(r) PROVE [BreakerNext]_breakerVars
    BY <1>1, ProgressOnBreaker
  <1>2. ASSUME NEW r \in Requests, Departure(r) PROVE UNCHANGED breakerVars
    BY <1>2 DEF Departure, ReplayCut, CacheRaises, Cancelled, CancelledSettling, Abandoned
  <1>3. ASSUME NEW r \in Requests, Arrive(r) PROVE UNCHANGED breakerVars
    BY <1>3 DEF Arrive
  <1>4. ASSUME NEW t \in {"gateway", "sse"}, Expire(t) PROVE UNCHANGED breakerVars
    BY <1>4 DEF Expire
  <1>5. CASE Clock
    BY <1>5 DEF Clock, BreakerNext
  <1>6. CASE UNCHANGED vars
    BY <1>6 DEF vars
  <1> QED
    BY <1>1, <1>2, <1>3, <1>4, <1>5, <1>6 DEF Next

\* The gateway drives its breaker as the breaker's own specification allows:
\* every admission and every outcome it reports is one of that component's steps.
THEOREM GatewayDrivesBreaker == Spec => BreakerSpec
  <1>1. Init => BreakerInit
    BY DEF Init
  <1> QED
    BY <1>1, NextOnBreaker, PTL DEF Spec, BreakerSpec

\* The counters agree with the circuit's state, whatever the order in which the
\* outcomes of concurrent calls arrive (record_success, record_failure).
THEOREM CountersMatchStateCorrect == Spec => []CountersMatchState
  <1>1. BreakerInv => CountersMatchState
    BY DEF BreakerInv
  <1> QED
    BY <1>1, GatewayDrivesBreaker, BreakerKeepsCounters, PTL

\* An open circuit is closed only by probes that were let through half open
\* (is_available, record_success).
THEOREM OpenLeftByProbeCorrect == Spec => OpenLeftByProbe
  <1>1. BreakerInv /\ [BreakerNext]_breakerVars
          => [state = "OPEN" => state' # "CLOSED"]_breakerVars
    BY BreakerStepProbes
  <1> QED
    BY <1>1, GatewayDrivesBreaker, BreakerKeepsCounters, PTL DEF OpenLeftByProbe, BreakerSpec

-----------------------------------------------------------------------------
(* Types of the budget and of the failover, step by step.                  *)

BudgetStep(r) ==
  \/ ScriptReserves(r, TRUE) \/ ScriptReserves(r, FALSE)
  \/ \E actual \in Actuals \cup {0} :
        \/ ScriptFinalizes(r, actual, TRUE) \/ ScriptFinalizes(r, actual, FALSE)
        \/ MemoryFinalizes(r, actual)
  \/ MemoryReserves(r) \/ RedisUnreached

BudgetNumbers ==
  /\ redisUsed \in Int /\ memUsed \in Nat /\ spent \in Nat
  /\ faults \in 0..MaxFaults

BudgetSets ==
  /\ client \in {"connected", "latched"}
  /\ redisMarks \subseteq Requests /\ memMarks \subseteq Requests
  /\ doubled \subseteq {"reserve", "finalize"} /\ held \subseteq Requests

\* The budget's operations keep its variables in their types.
LEMMA BudgetStepType ==
  ASSUME BudgetTypeOK, NEW r \in Requests, BudgetStep(r)
  PROVE  BudgetTypeOK'
  <1> USE BudgetAssumption, GatewayAssumption
      DEF BudgetAssumption, GatewayAssumption, BudgetTypeOK, BudgetNumbers, BudgetSets
  <1>1. CASE ScriptReserves(r, TRUE)
    <2>1. BudgetNumbers'
      BY <1>1 DEF ScriptReserves
    <2>2. BudgetSets'
      BY <1>1 DEF ScriptReserves
    <2> QED
      BY <2>1, <2>2
  <1>2. CASE ScriptReserves(r, FALSE)
    <2>1. BudgetNumbers'
      BY <1>2 DEF ScriptReserves
    <2>2. BudgetSets'
      BY <1>2 DEF ScriptReserves
    <2> QED
      BY <2>1, <2>2
  <1>3. ASSUME NEW actual \in Actuals \cup {0}, ScriptFinalizes(r, actual, TRUE)
        PROVE  BudgetTypeOK'
    <2>1. BudgetNumbers'
      BY <1>3 DEF ScriptFinalizes, Settled
    <2>2. BudgetSets'
      BY <1>3 DEF ScriptFinalizes, Settled
    <2> QED
      BY <2>1, <2>2
  <1>4. ASSUME NEW actual \in Actuals \cup {0}, ScriptFinalizes(r, actual, FALSE)
        PROVE  BudgetTypeOK'
    <2>1. BudgetNumbers'
      BY <1>4 DEF ScriptFinalizes
    <2>2. BudgetSets'
      BY <1>4 DEF ScriptFinalizes
    <2> QED
      BY <2>1, <2>2
  <1>5. ASSUME NEW actual \in Actuals \cup {0}, MemoryFinalizes(r, actual)
        PROVE  BudgetTypeOK'
    <2>1. BudgetNumbers'
      BY <1>5 DEF MemoryFinalizes, Settled, AtLeastZero
    <2>2. BudgetSets'
      BY <1>5 DEF MemoryFinalizes, Settled, AtLeastZero
    <2> QED
      BY <2>1, <2>2
  <1>6. CASE MemoryReserves(r)
    <2>1. BudgetNumbers'
      BY <1>6 DEF MemoryReserves
    <2>2. BudgetSets'
      BY <1>6 DEF MemoryReserves
    <2> QED
      BY <2>1, <2>2
  <1>7. CASE RedisUnreached
    <2>1. BudgetNumbers'
      BY <1>7 DEF RedisUnreached
    <2>2. BudgetSets'
      BY <1>7 DEF RedisUnreached
    <2> QED
      BY <2>1, <2>2
  <1> QED
    BY <1>1, <1>2, <1>3, <1>4, <1>5, <1>6, <1>7 DEF BudgetStep

\* The loop's next candidate is one it does not skip, further down the chain.
LEMMA AfterType ==
  ASSUME NEW c
  PROVE  After(c) = 0 \/ (After(c) \in Eligible /\ After(c) > c)
  <1> DEFINE later == {d \in Eligible : d > c}
             R == OpToRel(LAMBDA x, y : x < y, Nat)
  <1>1. CASE \E d \in Eligible : d > c
    <2>1. later # {} /\ later \subseteq Nat
      BY <1>1 DEF Eligible
    <2>2. IsWellFoundedOn(R, Nat)
      BY NatLessThanWellFounded DEF OpToRel
    <2>3. \E x \in later : \A y \in later : ~ (<<y, x>> \in R)
      <3> HIDE DEF later, R
      <3> QED
        BY <2>1, <2>2, WFMin
    <2>4. \E x \in later : \A y \in later : x <= y
      <3>1. ASSUME NEW x \in later, NEW y \in later, y < x PROVE <<y, x>> \in R
        BY <3>1, <2>1 DEF OpToRel
      <3> HIDE DEF R
      <3>2. PICK x \in later : \A y \in later : ~ (<<y, x>> \in R)
        BY <2>3
      <3>3. \A y \in later : ~ (y < x)
        BY <3>1, <3>2
      <3> QED
        BY <3>3, <2>1
    <2> QED
      BY <1>1, <2>4 DEF After
  <1>2. CASE ~ \E d \in Eligible : d > c
    BY <1>2 DEF After
  <1> QED
    BY <1>1, <1>2

FailoverStep(r) ==
  \/ Dispatch(r) \/ Leaves(r)
  \/ \E retryable \in BOOLEAN : Fails(r, retryable) \/ StartsOver(r, retryable)

\* The failover's operations keep its variables in their types.
LEMMA FailoverStepType ==
  ASSUME FailoverTypeOK, NEW r \in Callers, FailoverStep(r)
  PROVE  FailoverTypeOK'
  <1> USE FailoverAssumption DEF FailoverAssumption, FailoverTypeOK
  <1>1. \A c : After(c) \in 0..Len(Chain)
    BY AfterType DEF Eligible
  <1>2. CASE Dispatch(r)
    BY <1>1, <1>2 DEF Dispatch
  <1>3. CASE Leaves(r)
    BY <1>3 DEF Leaves
  <1>4. ASSUME NEW retryable \in BOOLEAN, Fails(r, retryable)
        PROVE  FailoverTypeOK'
    <2>1. AfterFailure(r, retryable) \in 0..Len(Chain) /\ attempts[r] + 1 < MaxAttempts
      BY <1>1, <1>4 DEF AfterFailure, Fails, MayRetry
    <2>2. MayRetry(r, retryable) => retries[r] < MaxRetries
      BY DEF MayRetry
    <2>3. cand' \in [Callers -> 0..Len(Chain)] /\ sent' \in [Callers -> Nat]
            /\ attempts' \in [Callers -> 0..MaxAttempts]
      BY <1>4, <2>1 DEF Fails
    <2>4. retries' \in [Callers -> 0..MaxRetries]
      <3>1. CASE MayRetry(r, retryable)
        BY <1>4, <2>2, <3>1 DEF Fails
      <3>2. CASE ~ MayRetry(r, retryable)
        BY <1>4, <3>2 DEF Fails
      <3> QED
        BY <3>1, <3>2
    <2> QED
      BY <2>3, <2>4
  <1>5. ASSUME NEW retryable \in BOOLEAN, StartsOver(r, retryable)
        PROVE  FailoverTypeOK'
    BY <1>1, <1>5 DEF StartsOver
  <1> QED
    BY <1>2, <1>3, <1>4, <1>5 DEF FailoverStep

-----------------------------------------------------------------------------
(* What a step does to the three parts, and the types of the handlers.     *)

\* A handler's step is one of the budget's operations or leaves the budget alone.
LEMMA StepOnBudget ==
  ASSUME NEW r \in Requests, Progress(r) \/ Departure(r)
  PROVE  \/ BudgetStep(r) \/ UNCHANGED budgetVars
         \/ /\ faults < MaxFaults /\ faults' = faults + 1
            /\ UNCHANGED <<client, redisUsed, memUsed, redisMarks, memMarks, doubled,
                           held, spent>>
  <1>1. CASE Reserve(r)
    BY <1>1 DEF Reserve, BudgetStep, ScriptDenies, MemoryDenies
  <1>2. CASE Settle(r)
    <2>1. Used(r) \subseteq Actuals \cup {0}
      BY DEF Used
    <2> QED
      BY <1>2, <2>1 DEF Settle, BudgetStep
  <1>3. CASE CancelledSettling(r)
    <2>1. Used(r) \subseteq Actuals \cup {0}
      BY DEF Used
    <2> QED
      BY <1>3, <2>1 DEF CancelledSettling, BudgetStep
  <1>4. CASE CacheRaises(r)
    BY <1>4 DEF CacheRaises
  <1>5. CASE Progress(r) /\ ~Reserve(r) /\ ~Settle(r)
    BY <1>5 DEF Progress, Screen, Lookup, Replay, Answered, AttemptFails, DispatchFails,
                Work, Inspect, Words, Store
  <1>6. CASE ReplayCut(r) \/ Cancelled(r) \/ Abandoned(r)
    BY <1>6 DEF ReplayCut, Cancelled, Abandoned
  <1> QED
    BY <1>1, <1>2, <1>3, <1>4, <1>5, <1>6 DEF Departure

\* A handler's step is one of the failover's operations or leaves it alone.
LEMMA StepOnFailover ==
  ASSUME NEW r \in Requests, Progress(r) \/ Departure(r)
  PROVE  FailoverStep(r) \/ UNCHANGED failoverVars
  <1>1. CASE Lookup(r)
    BY <1>1 DEF Lookup, Miss, FailoverStep
  <1>2. CASE Answered(r) \/ AttemptFails(r) \/ DispatchFails(r) \/ Cancelled(r)
    BY <1>2 DEF Answered, Answers, AttemptFails, DispatchFails, GivesUp, Cancelled,
                FailoverStep
  <1>3. CASE Reserve(r) \/ Screen(r) \/ Replay(r) \/ Work(r) \/ Inspect(r)
    BY <1>3 DEF Reserve, Screen, Replay, Work, Inspect
  <1>4. CASE Words(r) \/ Store(r) \/ Settle(r)
    BY <1>4 DEF Words, Store, Settle
  <1>5. CASE ReplayCut(r) \/ CacheRaises(r) \/ CancelledSettling(r) \/ Abandoned(r)
    BY <1>5 DEF ReplayCut, CacheRaises, CancelledSettling, Abandoned
  <1> QED
    BY <1>1, <1>2, <1>3, <1>4, <1>5 DEF Progress, Departure

\* A handler written to in these fields is well-formed.
LEMMA HandlerEdit ==
  ASSUME NEW h \in Handlers, NEW p \in Places, NEW t \in Texts, NEW n \in 0..2
  PROVE  /\ [h EXCEPT !.pc = p, !.round = n] \in Handlers
         /\ [h EXCEPT !.pc = p, !.text = t] \in Handlers
         /\ [h EXCEPT !.round = n] \in Handlers
  BY DEF Handlers

\* The writes of a handler leave it well-formed.
LEMMA HandlerWrites ==
  ASSUME NEW r \in Requests, req \in [Requests -> Handlers]
  PROVE  /\ \A p \in Places : Goto(r, p) =>
               /\ req' \in [Requests -> Handlers]
               /\ req'[r] = [req[r] EXCEPT !.pc = p]
         /\ \A how \in Outcomes : End(r, how) =>
               /\ req' \in [Requests -> Handlers]
               /\ req'[r] = [Fresh EXCEPT !.kind = Kind(r), !.pc = "end", !.outcome = how]
         /\ \A how \in Outcomes : BeginSettle(r, how) =>
               /\ req' \in [Requests -> Handlers]
               /\ req'[r] = [req[r] EXCEPT !.pc = "settle", !.outcome = how, !.settles = @ + 1]
         /\ \A how \in Outcomes : BeginRefund(r, how) =>
               /\ req' \in [Requests -> Handlers]
               /\ req'[r] = [req[r] EXCEPT !.pc = "refund", !.outcome = how, !.settles = @ + 1]
         /\ \A how \in Outcomes, t \in Texts : CutShort(r, how, t) =>
               /\ req' \in [Requests -> Handlers]
               /\ req'[r] = [req[r] EXCEPT !.pc = "settle", !.outcome = how, !.text = t,
                                           !.settles = @ + 1]
  <1> USE DEF Handlers
  <1>1. req[r] \in Handlers /\ Kind(r) \in Kinds
    BY DEF Kind
  <1>2. ASSUME NEW p \in Places, Goto(r, p)
        PROVE  req' \in [Requests -> Handlers] /\ req'[r] = [req[r] EXCEPT !.pc = p]
    BY <1>1, <1>2 DEF Goto
  <1>3. ASSUME NEW how \in Outcomes, End(r, how)
        PROVE  /\ req' \in [Requests -> Handlers]
               /\ req'[r] = [Fresh EXCEPT !.kind = Kind(r), !.pc = "end", !.outcome = how]
    <2> DEFINE h == [Fresh EXCEPT !.kind = Kind(r), !.pc = "end", !.outcome = how]
    <2>1. h \in Handlers
      <3>1. "end" \in Places /\ "none" \in Texts /\ 0 \in 0..2 /\ 0 \in Nat
        BY DEF Places, Texts
      <3> QED
        BY <1>1, <3>1 DEF Fresh
    <2>2. req' = [req EXCEPT ![r] = h]
      BY <1>3 DEF End
    <2>3. req' \in [Requests -> Handlers] /\ req'[r] = h
      <3> HIDE DEF h, Handlers
      <3> QED
        BY <2>1, <2>2
    <2> QED
      BY <2>3
  <1>4. ASSUME NEW how \in Outcomes, BeginSettle(r, how)
        PROVE  /\ req' \in [Requests -> Handlers]
               /\ req'[r] = [req[r] EXCEPT !.pc = "settle", !.outcome = how, !.settles = @ + 1]
    BY <1>1, <1>4 DEF BeginSettle, Places
  <1>5. ASSUME NEW how \in Outcomes, BeginRefund(r, how)
        PROVE  /\ req' \in [Requests -> Handlers]
               /\ req'[r] = [req[r] EXCEPT !.pc = "refund", !.outcome = how, !.settles = @ + 1]
    BY <1>1, <1>5 DEF BeginRefund, Places
  <1>6. ASSUME NEW how \in Outcomes, NEW t \in Texts, CutShort(r, how, t)
        PROVE  /\ req' \in [Requests -> Handlers]
               /\ req'[r] = [req[r] EXCEPT !.pc = "settle", !.outcome = how, !.text = t,
                                           !.settles = @ + 1]
    BY <1>1, <1>6 DEF CutShort, Places
  <1> QED
    BY <1>2, <1>3, <1>4, <1>5, <1>6

OthersStay(r) == \A q \in Requests \ {r} : req'[q] = req[q]

HandlersOK(r) == req' \in [Requests -> Handlers] /\ OthersStay(r)

\* Handlers stay well-formed under the writes of one of them.
LEMMA WritesKeepHandlers ==
  ASSUME NEW r \in Requests, req \in [Requests -> Handlers]
  PROVE  /\ \A p \in Places : Goto(r, p) => HandlersOK(r)
         /\ \A how \in Outcomes : End(r, how) => HandlersOK(r)
         /\ \A how \in Outcomes : BeginSettle(r, how) => HandlersOK(r)
         /\ \A how \in Outcomes : BeginRefund(r, how) => HandlersOK(r)
         /\ \A how \in Outcomes, t \in Texts : CutShort(r, how, t) => HandlersOK(r)
         /\ UNCHANGED req => HandlersOK(r)
  <1>1. /\ \A p : Goto(r, p) => OthersStay(r)
        /\ \A how : End(r, how) => OthersStay(r)
        /\ \A how : BeginSettle(r, how) => OthersStay(r)
        /\ \A how : BeginRefund(r, how) => OthersStay(r)
        /\ \A how, t : CutShort(r, how, t) => OthersStay(r)
        /\ UNCHANGED req => OthersStay(r)
    BY DEF Goto, End, BeginSettle, BeginRefund, CutShort, OthersStay
  <1> QED
    BY <1>1, HandlerWrites DEF HandlersOK

\* A handler's step writes its own record only.
LEMMA StepOnHandlers ==
  ASSUME NEW r \in Requests, req \in [Requests -> Handlers],
         Arrive(r) \/ Progress(r) \/ Departure(r)
  PROVE  HandlersOK(r)
  <1> DEFINE h == req[r]
  <1>0. /\ h \in Handlers
        /\ h.outcome \in Outcomes /\ h.text \in Texts /\ h.kind \in Kinds
    BY DEF Handlers
  <1>16. /\ "call" \in Places /\ "inspect" \in Places
         /\ "genuine" \in Texts /\ "fallback" \in Texts /\ 1 \in 0..2 /\ 2 \in 0..2
    BY DEF Places, Texts
  <1> USE WritesKeepHandlers
  <1>1. CASE Arrive(r)
    <2>1. PICK k \in Kinds : req' = [req EXCEPT ![r].pc = "reserve", ![r].kind = k]
      BY <1>1 DEF Arrive
    <2>2. [h EXCEPT !.pc = "reserve", !.kind = k] \in Handlers
      BY <1>0 DEF Handlers, Places
    <2> QED
      BY <2>1, <2>2 DEF HandlersOK, OthersStay
  <1>2. CASE Reserve(r)
    BY <1>2 DEF Reserve, Granted, Denied, Places, Outcomes
  <1>3. CASE Screen(r) \/ Replay(r)
    BY <1>3 DEF Screen, Replay, Places, Outcomes
  <1>4. CASE Lookup(r)
    <2>1. CASE Miss(r)
      <3>1. [h EXCEPT !.pc = "call", !.round = 1] \in Handlers
        BY <1>0, <1>16, HandlerEdit
      <3>2. [h EXCEPT !.pc = "inspect", !.text = "fallback"] \in Handlers
        BY <1>0, <1>16, HandlerEdit
      <3> QED
        <4>1. CASE Goto(r, "work")
          BY <4>1 DEF Places
        <4>2. CASE req' = [req EXCEPT ![r].pc = "call", ![r].round = 1]
          BY <3>1, <4>2 DEF HandlersOK, OthersStay
        <4>3. CASE req' = [req EXCEPT ![r].pc = "inspect", ![r].text = "fallback"]
          BY <3>2, <4>3 DEF HandlersOK, OthersStay
        <4> QED
          BY <2>1, <4>1, <4>2, <4>3 DEF Miss
    <2>2. CASE Hit(r)
      BY <2>2 DEF Hit, Places, Outcomes
    <2> QED
      BY <1>4, <2>1, <2>2 DEF Lookup
  <1>5. CASE Answered(r)
    <2>1. \A t \in Texts : [h EXCEPT !.pc = "inspect", !.text = t] \in Handlers
      BY <1>0, <1>16, HandlerEdit
    <2>2. \E t \in Texts : req' = [req EXCEPT ![r].pc = "inspect", ![r].text = t]
      BY <1>5 DEF Answered, Texts
    <2> QED
      BY <2>1, <2>2 DEF HandlersOK, OthersStay
  <1>6. CASE AttemptFails(r)
    BY <1>6 DEF AttemptFails
  <1>7. CASE DispatchFails(r)
    <2>1. [h EXCEPT !.round = 2] \in Handlers
      BY <1>0, <1>16, HandlerEdit
    <2>2. [h EXCEPT !.pc = "inspect", !.text = "fallback"] \in Handlers
      BY <1>0, <1>16, HandlerEdit
    <2> QED
      BY <1>7, <2>1, <2>2 DEF DispatchFails, HandlersOK, OthersStay
  <1>8. CASE Work(r)
    <2>1. \A t \in Texts : [h EXCEPT !.pc = "inspect", !.text = t] \in Handlers
      BY <1>0, <1>16, HandlerEdit
    <2>2. CASE \E how \in {"answered", "failed", "gone"} : BeginSettle(r, how)
      BY <2>2 DEF Outcomes
    <2>3. CASE \E t \in {"genuine", "fallback"} :
                 req' = [req EXCEPT ![r].pc = "inspect", ![r].text = t]
      <3>1. PICK t \in Texts : req' = [req EXCEPT ![r].pc = "inspect", ![r].text = t]
        BY <2>3, <1>16
      <3>2. [h EXCEPT !.pc = "inspect", !.text = t] \in Handlers
        BY <2>1
      <3> QED
        BY <3>1, <3>2 DEF HandlersOK, OthersStay
    <2> QED
      BY <1>8, <2>2, <2>3 DEF Work
  <1>9. CASE Inspect(r)
    BY <1>9 DEF Inspect, Release, Block, Places, Outcomes
  <1>10. CASE Words(r) \/ Store(r)
    BY <1>0, <1>10 DEF Words, Store, Places, Outcomes, Texts
  <1>11. CASE Settle(r)
    BY <1>0, <1>11 DEF Settle, Conclude, Places
  <1>12. CASE ReplayCut(r) \/ CacheRaises(r)
    BY <1>0, <1>12 DEF ReplayCut, CacheRaises, SettleOnError, Outcomes
  <1>13. CASE Cancelled(r)
    BY <1>0, <1>13 DEF Cancelled, SettleOnError, Outcomes, Texts
  <1>14. CASE CancelledSettling(r)
    BY <1>14 DEF CancelledSettling, SettleOnError, Outcomes
  <1>15. CASE Abandoned(r)
    BY <1>0, <1>15 DEF Abandoned, Outcomes, Texts
  <1> QED
    BY <1>1, <1>2, <1>3, <1>4, <1>5, <1>6, <1>7, <1>8, <1>9, <1>10, <1>11, <1>12, <1>13,
       <1>14, <1>15 DEF Progress, Departure

\* A step leaves each cache entry alone, drops it or fills it with a handler's text.
LEMMA StepOnCache ==
  ASSUME TypeOK, NEW r \in Requests, Arrive(r) \/ Progress(r) \/ Departure(r)
  PROVE  cache' \in [{"gateway", "sse"} -> Texts]
  <1>1. CASE Store(r)
    <2>1. req[r].text \in Texts
      BY DEF TypeOK, Handlers
    <2> QED
      BY <1>1, <2>1 DEF Store, TypeOK
  <1>2. CASE UNCHANGED cache
    BY <1>2 DEF TypeOK
  <1>3. Arrive(r) \/ (Progress(r) /\ ~Store(r)) \/ Departure(r) => UNCHANGED cache
    BY DEF Arrive, Progress, Reserve, Screen, Lookup, Replay, Answered, AttemptFails,
           DispatchFails, Work, Inspect, Words, Settle, Departure, ReplayCut, CacheRaises,
           Cancelled, CancelledSettling, Abandoned
  <1> QED
    BY <1>1, <1>2, <1>3

\* The gateway's steps keep the circuit's variables in their types.
LEMMA BreakerStepType ==
  BreakerTypeOK /\ BreakerInv /\ [BreakerNext]_breakerVars => BreakerTypeOK'
  <1> SUFFICES ASSUME BreakerTypeOK, BreakerInv, [BreakerNext]_breakerVars
               PROVE  BreakerTypeOK'
    OBVIOUS
  <1>1. BreakerCounts'
    BY BreakerStepInv DEF BreakerInv
  <1>2. cooled' = cooled \/ cooled' = TRUE \/ cooled' = FALSE
    BY DEF BreakerNext, CoolDown, Admit, RecordSuccess, RecordFailure, Closes, breakerVars
  <1>3. cooled' \in BOOLEAN
    BY <1>2 DEF BreakerTypeOK
  <1> QED
    BY <1>1, <1>3 DEF BreakerTypeOK

\* A step of one request keeps every variable in its type.
LEMMA StepType ==
  ASSUME TypeOK, BreakerInv, NEW r \in Requests, Arrive(r) \/ Progress(r) \/ Departure(r)
  PROVE  BudgetTypeOK' /\ FailoverTypeOK'
  <1>1. BudgetTypeOK'
    <2>1. CASE BudgetStep(r)
      BY <2>1, BudgetStepType DEF TypeOK
    <2>2. CASE UNCHANGED budgetVars
      BY <2>2 DEF TypeOK, BudgetTypeOK, budgetVars
    <2>3. CASE /\ faults < MaxFaults /\ faults' = faults + 1
               /\ UNCHANGED <<client, redisUsed, memUsed, redisMarks, memMarks, doubled,
                              held, spent>>
      <3>1. faults' \in 0..MaxFaults
        BY <2>3, BudgetAssumption DEF BudgetAssumption, TypeOK, BudgetTypeOK
      <3> QED
        BY <2>3, <3>1 DEF TypeOK, BudgetTypeOK
    <2> QED
      BY <2>1, <2>2, <2>3, StepOnBudget DEF Arrive
  <1>2. FailoverTypeOK'
    <2>1. CASE FailoverStep(r)
      BY <2>1, FailoverStepType, GatewayAssumption DEF TypeOK, GatewayAssumption
    <2>2. CASE UNCHANGED failoverVars
      BY <2>2 DEF TypeOK, FailoverTypeOK, failoverVars
    <2> QED
      BY <2>1, <2>2, StepOnFailover DEF Arrive
  <1> QED
    BY <1>1, <1>2

\* The initial states are well-typed.
LEMMA InitType == Init => TypeOK /\ BreakerInv
  <1> SUFFICES ASSUME Init PROVE TypeOK /\ BreakerInv
    OBVIOUS
  <1>1. BreakerInv
    BY BreakerInitInv DEF Init
  <1>2. BreakerTypeOK
    <2>1. cooled \in BOOLEAN
      BY DEF Init, BreakerInit
    <2> QED
      BY <1>1, <2>1 DEF BreakerInv, BreakerTypeOK
  <1>3. FailoverTypeOK
    BY FailoverAssumption DEF FailoverAssumption, Init, FailoverInit, FailoverTypeOK
  <1>4. BudgetTypeOK
    BY BudgetAssumption DEF BudgetAssumption, Init, BudgetInit, BudgetTypeOK
  <1>5. Fresh \in Handlers
    BY DEF Fresh, Handlers, Kinds, Places, Texts, Outcomes
  <1>6. req \in [Requests -> Handlers] /\ cache \in [{"gateway", "sse"} -> Texts]
    BY <1>5 DEF Init, Texts
  <1> QED
    BY <1>1, <1>2, <1>3, <1>4, <1>6 DEF TypeOK

\* Every step keeps every variable in its type.
LEMMA NextType == TypeOK /\ BreakerInv /\ [Next]_vars => TypeOK' /\ BreakerInv'
  <1> SUFFICES ASSUME TypeOK, BreakerInv, [Next]_vars PROVE TypeOK' /\ BreakerInv'
    OBVIOUS
  <1>1. BreakerInv' /\ BreakerTypeOK'
    BY BreakerStepInv, BreakerStepType, NextOnBreaker DEF TypeOK
  <1>2. ASSUME NEW r \in Requests, Arrive(r) \/ Progress(r) \/ Departure(r)
        PROVE  TypeOK'
    <2>1. req' \in [Requests -> Handlers]
      BY <1>2, StepOnHandlers DEF TypeOK, HandlersOK
    <2> QED
      BY <1>1, <1>2, <2>1, StepType, StepOnCache DEF TypeOK
  <1>3. ASSUME NEW t \in {"gateway", "sse"}, Expire(t) PROVE TypeOK'
    <2>1. cache' \in [{"gateway", "sse"} -> Texts]
      BY <1>3 DEF Expire, TypeOK, Texts
    <2> QED
      BY <1>1, <1>3, <2>1 DEF Expire, TypeOK, BudgetTypeOK, budgetVars, FailoverTypeOK,
                              failoverVars
  <1>4. CASE Clock
    BY <1>1, <1>4 DEF Clock, TypeOK, BudgetTypeOK, budgetVars, FailoverTypeOK, failoverVars
  <1>5. CASE UNCHANGED vars
    BY <1>1, <1>5 DEF vars, TypeOK, BudgetTypeOK, budgetVars, FailoverTypeOK, failoverVars
  <1> QED
    BY <1>1, <1>2, <1>3, <1>4, <1>5 DEF Next

\* Every variable of the gateway keeps its type (handlers of services/ai_gateway.py
\* and api/v1/endpoints/chat.py, and the stores they share).
THEOREM TypeCorrect == Spec => [](TypeOK /\ BreakerInv)
  BY InitType, NextType, PTL DEF Spec

-----------------------------------------------------------------------------
(* The life of a request and of its reservation                            *)

Arriving == {"new", "reserve", "reserveMem"}
Serving  == {"screen", "lookup", "replay", "call", "work", "inspect", "words"}
Paying   == {"settle", "refund", "settleMem", "refundMem"}

\* The handler has yet to decide on its settlement: a gateway stream stores its
\* text after that, the others before.
Unsettled(r) ==
  At(r, Arriving \cup Serving) \/ (At(r, {"store"}) /\ Kind(r) # "stream")

\* Where a request is in its life fixes what it holds, how often it has turned
\* to its settlement, and what it can still put into the cache.
HandlerInv(r) ==
  /\ At(r, Arriving) => r \notin held /\ r \notin redisMarks /\ r \notin memMarks
  /\ (Unsettled(r) /\ ~At(r, Arriving)) \/ At(r, Paying) => r \in held
  /\ Unsettled(r) => req[r].settles = 0 /\ req[r].outcome = "none"
  /\ ~Unsettled(r) => req[r].settles <= 1
  /\ At(r, Paying) => req[r].settles = 1
  /\ At(r, {"store", "end"}) /\ req[r].outcome = "answered" => r \notin held
  /\ At(r, {"store"}) /\ Kind(r) # "sse" => req[r].text = "genuine"

SettlementInv ==
  /\ TypeOK /\ BreakerInv
  /\ \A r \in Requests : HandlerInv(r)
  /\ cache["gateway"] # "fallback"

\* A step of one request leaves the holdings of the others alone.
LEMMA HoldingsStay ==
  ASSUME NEW r \in Requests, NEW q \in Requests \ {r}, Progress(r) \/ Departure(r)
  PROVE  /\ q \in held' <=> q \in held
         /\ q \in redisMarks' <=> q \in redisMarks
         /\ q \in memMarks' <=> q \in memMarks
  <1>1. CASE BudgetStep(r)
    BY <1>1 DEF BudgetStep, ScriptReserves, ScriptFinalizes, MemoryFinalizes, Settled,
                MemoryReserves, RedisUnreached
  <1>2. CASE UNCHANGED <<held, redisMarks, memMarks>>
    BY <1>2
  <1> QED
    BY <1>1, <1>2, StepOnBudget DEF budgetVars

\* So it preserves what is known of them.
LEMMA OthersInv ==
  ASSUME SettlementInv, NEW r \in Requests, NEW q \in Requests \ {r},
         Arrive(r) \/ Progress(r) \/ Departure(r)
  PROVE  HandlerInv(q)'
  <1>1. req'[q] = req[q]
    BY StepOnHandlers DEF SettlementInv, TypeOK, HandlersOK, OthersStay
  <1>2. /\ q \in held' <=> q \in held
        /\ q \in redisMarks' <=> q \in redisMarks
        /\ q \in memMarks' <=> q \in memMarks
    BY HoldingsStay DEF Arrive, budgetVars
  <1>3. HandlerInv(q)
    BY DEF SettlementInv
  <1> QED
    BY <1>1, <1>2, <1>3 DEF HandlerInv, Unsettled, At, Kind

\* The writes of a handler, for what HandlerInv reads of it.
LEMMA WritesRead ==
  ASSUME NEW r \in Requests, req \in [Requests -> Handlers]
  PROVE  /\ \A p \in Places : Goto(r, p) =>
              /\ req'[r].pc = p /\ req'[r].kind = req[r].kind
              /\ req'[r].text = req[r].text
              /\ req'[r].settles = req[r].settles /\ req'[r].outcome = req[r].outcome
         /\ \A how \in Outcomes : End(r, how) =>
              req'[r].pc = "end" /\ req'[r].settles = 0 /\ req'[r].outcome = how
         /\ \A how \in Outcomes : BeginSettle(r, how) =>
              req'[r].pc = "settle" /\ req'[r].settles = req[r].settles + 1
         /\ \A how \in Outcomes : BeginRefund(r, how) =>
              req'[r].pc = "refund" /\ req'[r].settles = req[r].settles + 1
         /\ \A how \in Outcomes, t \in Texts : CutShort(r, how, t) =>
              req'[r].pc = "settle" /\ req'[r].settles = req[r].settles + 1
  <1>1. req[r] \in Handlers
    OBVIOUS
  <1>2. ASSUME NEW p \in Places, Goto(r, p)
        PROVE  /\ req'[r].pc = p /\ req'[r].kind = req[r].kind
               /\ req'[r].text = req[r].text
               /\ req'[r].settles = req[r].settles /\ req'[r].outcome = req[r].outcome
    BY <1>1, <1>2 DEF Goto, Handlers
  <1>3. ASSUME NEW how \in Outcomes, End(r, how)
        PROVE  req'[r].pc = "end" /\ req'[r].settles = 0 /\ req'[r].outcome = how
    BY <1>3 DEF End, Fresh
  <1>4. ASSUME NEW how \in Outcomes, BeginSettle(r, how)
        PROVE  req'[r].pc = "settle" /\ req'[r].settles = req[r].settles + 1
    BY <1>1, <1>4 DEF BeginSettle, Handlers
  <1>5. ASSUME NEW how \in Outcomes, BeginRefund(r, how)
        PROVE  req'[r].pc = "refund" /\ req'[r].settles = req[r].settles + 1
    BY <1>1, <1>5 DEF BeginRefund, Handlers
  <1>6. ASSUME NEW how \in Outcomes, NEW t \in Texts, CutShort(r, how, t)
        PROVE  req'[r].pc = "settle" /\ req'[r].settles = req[r].settles + 1
    BY <1>1, <1>6 DEF CutShort, Handlers
  <1> QED
    BY <1>2, <1>3, <1>4, <1>5, <1>6

-----------------------------------------------------------------------------
(* The request that takes the step, action by action.                      *)

\* A step of a request preserves what is known of that request.
LEMMA OwnInv ==
  ASSUME SettlementInv, NEW r \in Requests, Arrive(r) \/ Progress(r) \/ Departure(r)
  PROVE  HandlerInv(r)'
  <1> DEFINE h == req[r]
  <1>0. /\ HandlerInv(r) /\ h \in Handlers /\ req \in [Requests -> Handlers]
        /\ h.outcome \in Outcomes /\ h.text \in Texts /\ h.settles \in Nat
    BY DEF SettlementInv, TypeOK, Handlers
  <1>w. /\ Places = Arriving \cup Serving \cup Paying \cup {"store", "end"}
        /\ {"answered", "denied", "refused", "blocked", "failed", "gone", "cancelled",
            "abandoned"} \subseteq Outcomes
    BY DEF Places, Arriving, Serving, Paying, Outcomes
  <1>k. UNCHANGED budgetVars \/ UNCHANGED <<held, redisMarks, memMarks>>
          => UNCHANGED <<held, redisMarks, memMarks>>
    BY DEF budgetVars
  <1> USE WritesRead DEF HandlerInv, Unsettled, At, Kind, Arriving, Serving, Paying
  <1>1. CASE Arrive(r)
    <2>1. PICK k \in Kinds : req' = [req EXCEPT ![r].pc = "reserve", ![r].kind = k]
      BY <1>1 DEF Arrive
    <2>2. /\ req'[r].pc = "reserve" /\ req'[r].settles = h.settles
          /\ req'[r].outcome = h.outcome
      BY <1>0, <2>1 DEF Handlers
    <2>3. h.pc = "new" /\ UNCHANGED <<held, redisMarks, memMarks>>
      BY <1>1, <1>k DEF Arrive
    <2> QED
      BY <1>0, <2>2, <2>3
  <1>2. CASE Reserve(r)
    <2>1. h.pc \in {"reserve", "reserveMem"}
      BY <1>2 DEF Reserve
    <2>2. CASE Granted(r) /\ held' = held \cup {r} /\ UNCHANGED <<redisMarks, memMarks>>
      BY <1>0, <1>w, <2>1, <2>2 DEF Granted
    <2>3. CASE Goto(r, "reserveMem") /\ UNCHANGED <<held, redisMarks, memMarks>>
      BY <1>0, <1>w, <2>1, <2>3
    <2>4. CASE Denied(r)
      BY <1>0, <1>w, <2>4 DEF Denied
    <2> QED
      BY <1>2, <2>2, <2>3, <2>4 DEF Reserve, ScriptReserves, MemoryReserves, RedisUnreached
  <1>3. CASE Screen(r) \/ Replay(r) \/ ReplayCut(r)
    BY <1>0, <1>w, <1>k, <1>3 DEF Screen, Replay, ReplayCut
  <1>4. CASE Lookup(r)
    <2>1. CASE Miss(r)
      <3>1. \/ Goto(r, "work")
            \/ req' = [req EXCEPT ![r].pc = "call", ![r].round = 1]
            \/ req' = [req EXCEPT ![r].pc = "inspect", ![r].text = "fallback"]
        BY <2>1 DEF Miss
      <3>2. /\ req'[r].pc \in {"work", "call", "inspect"}
            /\ req'[r].settles = h.settles /\ req'[r].outcome = h.outcome
        BY <1>0, <1>w, <3>1 DEF Handlers
      <3> QED
        BY <1>0, <1>k, <1>4, <3>2 DEF Lookup
    <2>2. CASE Hit(r)
      BY <1>0, <1>w, <1>k, <1>4, <2>2 DEF Lookup, Hit
    <2> QED
      BY <1>4, <2>1, <2>2 DEF Lookup
  <1>5. CASE Answered(r) \/ AttemptFails(r) \/ DispatchFails(r)
    <2>1. /\ req'[r].pc \in {"call", "inspect"}
          /\ req'[r].settles = h.settles /\ req'[r].outcome = h.outcome
      BY <1>0, <1>5 DEF Answered, AttemptFails, DispatchFails, Handlers
    <2>2. h.pc = "call" /\ UNCHANGED budgetVars
      BY <1>5 DEF Answered, AttemptFails, DispatchFails
    <2> QED
      BY <1>0, <1>k, <2>1, <2>2
  <1>6. CASE Work(r)
    <2>1. \/ /\ req'[r].pc = "inspect"
             /\ req'[r].settles = h.settles /\ req'[r].outcome = h.outcome
          \/ req'[r].pc = "settle" /\ req'[r].settles = h.settles + 1
      BY <1>0, <1>w, <1>6 DEF Work, Handlers
    <2>2. h.pc = "work" /\ UNCHANGED budgetVars
      BY <1>6 DEF Work
    <2> QED
      BY <1>0, <1>k, <2>1, <2>2
  <1>7. CASE Inspect(r)
    BY <1>0, <1>w, <1>k, <1>7 DEF Inspect, Release, Block
  <1>8. CASE Words(r) \/ Store(r)
    BY <1>0, <1>w, <1>k, <1>8 DEF Words, Store, Texts
  <1>9. CASE Settle(r)
    <2>1. h.pc \in Paying
      BY <1>9 DEF Settle
    <2>2. CASE Conclude(r) /\ r \notin held'
      BY <1>0, <1>w, <2>1, <2>2 DEF Conclude
    <2>3. CASE /\ \E p \in {"settleMem", "refundMem"} : Goto(r, p)
               /\ UNCHANGED held
      BY <1>0, <1>w, <2>1, <2>3
    <2> QED
      BY <1>9, <2>2, <2>3 DEF Settle, ScriptFinalizes, MemoryFinalizes, Settled, RedisUnreached
  <1>10. CASE CacheRaises(r)
    BY <1>0, <1>w, <1>10 DEF CacheRaises, SettleOnError
  <1>11. CASE Cancelled(r)
    BY <1>0, <1>w, <1>k, <1>11 DEF Cancelled, SettleOnError, Texts
  <1>12. CASE CancelledSettling(r)
    BY <1>0, <1>w, <1>12 DEF CancelledSettling, SettleOnError
  <1>13. CASE Abandoned(r)
    BY <1>0, <1>w, <1>k, <1>13 DEF Abandoned, Texts
  <1> QED
    BY <1>1, <1>2, <1>3, <1>4, <1>5, <1>6, <1>7, <1>8, <1>9, <1>10, <1>11, <1>12, <1>13
    DEF Progress, Departure

\* What reaches the gateway's cache comes from a provider.
LEMMA CacheInv ==
  ASSUME SettlementInv, NEW r \in Requests, Arrive(r) \/ Progress(r) \/ Departure(r)
  PROVE  cache'["gateway"] # "fallback"
  <1>1. CASE Store(r)
    <2>1. Kind(r) # "sse" => req[r].text = "genuine"
      BY <1>1 DEF Store, SettlementInv, HandlerInv, At
    <2>2. cache' = [cache EXCEPT ![Tier(r)] = req[r].text]
      BY <1>1 DEF Store
    <2> QED
      BY <2>1, <2>2 DEF Tier, SettlementInv, TypeOK
  <1>2. CASE UNCHANGED cache
    BY <1>2 DEF SettlementInv
  <1>3. Arrive(r) \/ (Progress(r) /\ ~Store(r)) \/ Departure(r) => UNCHANGED cache
    BY DEF Arrive, Progress, Reserve, Screen, Lookup, Replay, Answered, AttemptFails,
           DispatchFails, Work, Inspect, Words, Settle, Departure, ReplayCut, CacheRaises,
           Cancelled, CancelledSettling, Abandoned
  <1> QED
    BY <1>1, <1>2, <1>3

\* No request has settled anything at the start.
LEMMA SettlementInit == Init => SettlementInv
  <1> SUFFICES ASSUME Init PROVE SettlementInv
    OBVIOUS
  <1>1. TypeOK /\ BreakerInv
    BY InitType
  <1>2. ASSUME NEW r \in Requests PROVE HandlerInv(r)
    <2>1. req[r] = Fresh /\ held = {} /\ redisMarks = {} /\ memMarks = {}
      BY DEF Init, BudgetInit
    <2> QED
      BY <2>1 DEF HandlerInv, Unsettled, At, Kind, Fresh, Arriving, Serving, Paying
  <1>3. cache["gateway"] # "fallback"
    BY DEF Init
  <1> QED
    BY <1>1, <1>2, <1>3 DEF SettlementInv

\* Every step preserves the settlement invariant.
LEMMA SettlementStep == SettlementInv /\ [Next]_vars => SettlementInv'
  <1> SUFFICES ASSUME SettlementInv, [Next]_vars PROVE SettlementInv'
    OBVIOUS
  <1>1. TypeOK' /\ BreakerInv'
    BY NextType DEF SettlementInv
  <1>2. ASSUME NEW r \in Requests, Arrive(r) \/ Progress(r) \/ Departure(r)
        PROVE  SettlementInv'
    <2>1. \A q \in Requests : HandlerInv(q)'
      BY <1>2, OthersInv, OwnInv
    <2> QED
      BY <1>1, <1>2, <2>1, CacheInv DEF SettlementInv
  <1>3. CASE UNCHANGED <<req, held, redisMarks, memMarks>> /\ cache'["gateway"] # "fallback"
    <2>1. \A q \in Requests : HandlerInv(q)'
      BY <1>3 DEF SettlementInv, HandlerInv, Unsettled, At, Kind
    <2> QED
      BY <1>1, <1>3, <2>1 DEF SettlementInv
  <1>4. ASSUME NEW t \in {"gateway", "sse"}, Expire(t)
        PROVE  UNCHANGED <<req, held, redisMarks, memMarks>> /\ cache'["gateway"] # "fallback"
    BY <1>4 DEF Expire, budgetVars, SettlementInv, TypeOK
  <1>5. CASE Clock \/ UNCHANGED vars
    BY <1>3, <1>5 DEF Clock, vars, budgetVars, SettlementInv
  <1> QED
    BY <1>2, <1>3, <1>4, <1>5 DEF Next

\* The settlement invariant holds in every reachable state.
LEMMA Settlement == Spec => []SettlementInv
  BY SettlementInit, SettlementStep, PTL DEF Spec

\* A request that was answered no longer holds its reservation, however Redis
\* failed under its settlement (finalize_reservation).
THEOREM AnsweredIsSettledCorrect == Spec => []AnsweredIsSettled
  <1>1. SettlementInv => AnsweredIsSettled
    BY DEF SettlementInv, HandlerInv, AnsweredIsSettled, At
  <1> QED
    BY <1>1, Settlement, PTL

\* The text of an outage is never cached for the gateway (the R-LOGIC-04 guards of
\* chat_completions and chat_completions_stream).
THEOREM OutageTextNotCachedCorrect == Spec => []OutageTextNotCached
  <1>1. SettlementInv => OutageTextNotCached
    BY DEF SettlementInv, OutageTextNotCached
  <1> QED
    BY <1>1, Settlement, PTL

-----------------------------------------------------------------------------
(* Provider calls: the ceiling holds through retries, fallbacks and the    *)
(* second dispatch of chat_completions.                                    *)

AttemptsInv(r) ==
  /\ At(r, {"call"}) => req[r].round \in {1, 2}
  /\ ~At(r, {"call"}) => cand[r] = 0 /\ sent[r] = 0
  /\ attempts[r] < MaxAttempts
  /\ sent[r] <= attempts[r] + (IF req[r].round = 2 THEN MaxAttempts ELSE 0)

\* A step of one request leaves the attempt counters of the others alone.
LEMMA AttemptsOthers ==
  ASSUME SettlementInv, NEW r \in Requests, NEW q \in Requests \ {r}, AttemptsInv(q),
         Arrive(r) \/ Progress(r) \/ Departure(r)
  PROVE  AttemptsInv(q)'
  <1>1. req'[q] = req[q]
    BY StepOnHandlers DEF SettlementInv, TypeOK, HandlersOK, OthersStay
  <1>2. cand'[q] = cand[q] /\ attempts'[q] = attempts[q] /\ sent'[q] = sent[q]
    <2>1. CASE FailoverStep(r)
      BY <2>1, GatewayAssumption DEF FailoverStep, Dispatch, Leaves, Fails, StartsOver,
               SettlementInv, TypeOK, FailoverTypeOK, GatewayAssumption
    <2>2. CASE UNCHANGED failoverVars
      BY <2>2 DEF failoverVars
    <2> QED
      BY <2>1, <2>2, StepOnFailover DEF Arrive
  <1> QED
    BY <1>1, <1>2 DEF AttemptsInv, At

\* A step of a request keeps its provider calls below the ceiling of its dispatches.
LEMMA AttemptsOwn ==
  ASSUME SettlementInv, NEW r \in Requests, AttemptsInv(r),
         Arrive(r) \/ Progress(r) \/ Departure(r)
  PROVE  AttemptsInv(r)'
  <1>0. /\ cand \in [Requests -> 0..Len(Chain)]
        /\ attempts \in [Requests -> 0..MaxAttempts] /\ sent \in [Requests -> Nat]
        /\ retries \in [Requests -> 0..MaxRetries]
        /\ req \in [Requests -> Handlers] /\ req[r] \in Handlers
        /\ req[r].outcome \in Outcomes /\ req[r].text \in Texts
        /\ MaxAttempts \in Nat \ {0} /\ Len(Chain) \in Nat
    BY GatewayAssumption, FailoverAssumption
    DEF SettlementInv, TypeOK, FailoverTypeOK, GatewayAssumption, FailoverAssumption, Handlers
  <1>1. CASE At(r, {"call"}) /\ UNCHANGED req /\ \E retryable \in BOOLEAN : Fails(r, retryable)
    <2>1. PICK retryable \in BOOLEAN : Fails(r, retryable)
      BY <1>1
    <2>2. attempts[r] + 1 < MaxAttempts
      BY <1>0, <2>1 DEF Fails, AfterFailure, MayRetry
    <2> QED
      BY <1>0, <1>1, <2>1, <2>2 DEF Fails, AttemptsInv, At
  <1>2. CASE DispatchFails(r)
    <2>1. PICK retryable \in BOOLEAN :
            \/ /\ StartsOver(r, retryable) /\ req[r].round = 1
               /\ req' = [req EXCEPT ![r].round = 2]
            \/ /\ GivesUp(r, retryable)
               /\ req' = [req EXCEPT ![r].pc = "inspect", ![r].text = "fallback"]
      BY <1>2 DEF DispatchFails
    <2>2. At(r, {"call"})
      BY <1>2 DEF DispatchFails
    <2>3. CASE StartsOver(r, retryable) /\ req[r].round = 1
               /\ req' = [req EXCEPT ![r].round = 2]
      <3>1. req'[r].round = 2 /\ req'[r].pc = "call"
        BY <1>0, <2>2, <2>3 DEF Handlers, At
      <3>2. attempts'[r] = 0 /\ sent'[r] <= sent[r] + 1
        BY <1>0, <2>3 DEF StartsOver
      <3>3. sent[r] + 1 <= MaxAttempts /\ sent'[r] \in Nat
        BY <1>0, <2>3 DEF AttemptsInv, StartsOver
      <3> QED
        BY <1>0, <3>1, <3>2, <3>3 DEF AttemptsInv, At
    <2>4. CASE /\ GivesUp(r, retryable)
               /\ req' = [req EXCEPT ![r].pc = "inspect", ![r].text = "fallback"]
      BY <1>0, <2>4 DEF GivesUp, Leaves, AttemptsInv, At, Handlers
    <2> QED
      BY <2>1, <2>3, <2>4
  <1>3. CASE Dispatch(r) /\ At(r, {"lookup"})
             /\ req' = [req EXCEPT ![r].pc = "call", ![r].round = 1]
    <2>1. req'[r].round = 1 /\ sent[r] = 0
      BY <1>0, <1>3 DEF AttemptsInv, At, Handlers
    <2> QED
      BY <1>0, <1>3, <2>1 DEF Dispatch, AttemptsInv, At
  <1>4. CASE Leaves(r) /\ req'[r].pc # "call"
    BY <1>0, <1>4 DEF Leaves, AttemptsInv, At
  <1>5. CASE UNCHANGED failoverVars /\ ~At(r, {"call"}) /\ req'[r].pc # "call"
    BY <1>0, <1>5 DEF failoverVars, AttemptsInv, At
  <1>6. Answered(r) => Leaves(r) /\ req'[r].pc # "call"
    BY <1>0 DEF Answered, Answers, Handlers
  <1>7. AttemptFails(r) =>
          At(r, {"call"}) /\ UNCHANGED req /\ \E retryable \in BOOLEAN : Fails(r, retryable)
    BY DEF AttemptFails
  <1> USE WritesRead DEF At, Places, Outcomes
  <1>8. Cancelled(r) => Leaves(r) /\ req'[r].pc # "call"
    BY <1>0 DEF Cancelled, SettleOnError, Texts
  <1>9. Lookup(r) =>
          \/ /\ Dispatch(r) /\ At(r, {"lookup"})
             /\ req' = [req EXCEPT ![r].pc = "call", ![r].round = 1]
          \/ UNCHANGED failoverVars /\ ~At(r, {"call"}) /\ req'[r].pc # "call"
    BY <1>0 DEF Lookup, Miss, Hit, Handlers
  <1>13. Arrive(r) =>
           UNCHANGED failoverVars /\ ~At(r, {"call"}) /\ req'[r].pc # "call"
    <2> SUFFICES ASSUME Arrive(r)
                 PROVE  UNCHANGED failoverVars /\ ~At(r, {"call"}) /\ req'[r].pc # "call"
      OBVIOUS
    <2>1. PICK k \in Kinds : req' = [req EXCEPT ![r].pc = "reserve", ![r].kind = k]
      BY DEF Arrive
    <2>2. req'[r].pc = "reserve"
      BY <1>0, <2>1 DEF Handlers
    <2> QED
      BY <2>2 DEF Arrive
  <1>14. Reserve(r) =>
           UNCHANGED failoverVars /\ ~At(r, {"call"}) /\ req'[r].pc # "call"
    BY <1>0 DEF Reserve, Granted, Denied
  <1>10. Screen(r) \/ Replay(r) \/ ReplayCut(r) =>
           UNCHANGED failoverVars /\ ~At(r, {"call"}) /\ req'[r].pc # "call"
    BY <1>0 DEF Screen, Replay, ReplayCut
  <1>11. Work(r) \/ Inspect(r) \/ Words(r) \/ Store(r) =>
           UNCHANGED failoverVars /\ ~At(r, {"call"}) /\ req'[r].pc # "call"
    BY <1>0 DEF Work, Inspect, Release, Block, Words, Store, Handlers, Texts
  <1>12. Settle(r) \/ CacheRaises(r) \/ CancelledSettling(r) \/ Abandoned(r) =>
           UNCHANGED failoverVars /\ ~At(r, {"call"}) /\ req'[r].pc # "call"
    BY <1>0 DEF Settle, Conclude, CacheRaises, SettleOnError, CancelledSettling, Abandoned,
                Texts
  <1> QED
    BY <1>1, <1>2, <1>3, <1>4, <1>5, <1>6, <1>7, <1>8, <1>9, <1>10, <1>11, <1>12,
       <1>13, <1>14
    DEF Progress, Departure

\* What the calls of each request are counted by holds throughout.
LEMMA CallsCounted == Spec => [](SettlementInv /\ \A r \in Requests : AttemptsInv(r))
  <1> DEFINE Inv == SettlementInv /\ \A r \in Requests : AttemptsInv(r)
  <1>1. Init => Inv
    <2> SUFFICES ASSUME Init, NEW r \in Requests PROVE AttemptsInv(r)
      BY SettlementInit
    <2>1. /\ req[r] = Fresh /\ cand[r] = 0 /\ attempts[r] = 0 /\ sent[r] = 0
          /\ MaxAttempts \in Nat \ {0}
      BY GatewayAssumption, FailoverAssumption
      DEF Init, FailoverInit, GatewayAssumption, FailoverAssumption
    <2> QED
      BY <2>1 DEF AttemptsInv, At, Fresh
  <1>2. Inv /\ [Next]_vars => Inv'
    <2> SUFFICES ASSUME Inv, [Next]_vars PROVE Inv'
      OBVIOUS
    <2>1. SettlementInv'
      BY SettlementStep
    <2>2. ASSUME NEW r \in Requests, Arrive(r) \/ Progress(r) \/ Departure(r)
          PROVE  \A q \in Requests : AttemptsInv(q)'
      BY <2>2, AttemptsOwn, AttemptsOthers
    <2>3. ASSUME UNCHANGED <<req, failoverVars>>
          PROVE  \A q \in Requests : AttemptsInv(q)'
      BY <2>3 DEF AttemptsInv, At, failoverVars
    <2>4. \/ \E r \in Requests : Arrive(r) \/ Progress(r) \/ Departure(r)
          \/ UNCHANGED <<req, failoverVars>>
      BY DEF Next, Expire, Clock, vars
    <2> QED
      BY <2>1, <2>2, <2>3, <2>4
  <1> QED
    BY <1>1, <1>2, PTL DEF Spec

\* A provider is called only while the request is below its ceiling, one
\* max_total_attempts per dispatch (execute_with_failover, call_model).
THEOREM AttemptsBoundedCorrect == Spec => []AttemptsBounded
  <1> DEFINE Inv == SettlementInv /\ \A r \in Requests : AttemptsInv(r)
  <1>1. Inv => AttemptsBounded
    <2> SUFFICES ASSUME Inv, NEW r \in Requests, cand[r] # 0
                 PROVE  sent[r] < req[r].round * MaxAttempts
      BY DEF AttemptsBounded
    <2>1. /\ req[r].round \in {1, 2} /\ attempts[r] < MaxAttempts
          /\ sent[r] <= attempts[r] + (IF req[r].round = 2 THEN MaxAttempts ELSE 0)
          /\ attempts[r] \in Nat /\ sent[r] \in Nat /\ MaxAttempts \in Nat
      BY GatewayAssumption, FailoverAssumption
      DEF AttemptsInv, SettlementInv, TypeOK, FailoverTypeOK, GatewayAssumption,
          FailoverAssumption
    <2>2. CASE req[r].round = 1
      BY <2>1, <2>2
    <2>3. CASE req[r].round = 2
      BY <2>1, <2>3
    <2> QED
      BY <2>1, <2>2, <2>3
  <1> QED
    BY <1>1, CallsCounted, PTL

-----------------------------------------------------------------------------
(* The two usage counters                                                  *)

Fallback == {"reserveMem", "settleMem", "refundMem"}

\* While no answer of a finalizing script was lost, no holder has been finalized,
\* nobody was finalized in both stores, and the counters cover what is held and
\* spent.  While nothing has failed one of the stores is exact and the other unused.
Covered ==
  /\ \A r \in held : r \notin redisMarks /\ r \notin memMarks
  /\ redisMarks \cap memMarks = {}
  /\ redisUsed + memUsed >= Committed

Exact ==
  /\ client = "connected" => memUsed = 0 /\ redisUsed = Committed
  /\ client = "latched" => redisUsed = 0 /\ memUsed = Committed

CountersInv ==
  /\ IsFiniteSet(held)
  /\ "finalize" \notin doubled => Covered
  /\ faults = 0 => doubled = {} /\ Exact

NoFallback == faults = 0 => \A r \in Requests : ~At(r, Fallback)

\* What a reservation adds to the commitment, and what a settlement takes from it.
LEMMA CommittedMore ==
  ASSUME IsFiniteSet(held), BudgetTypeOK, NEW r, r \notin held,
         held' = held \cup {r}, spent' = spent
  PROVE  Committed' = Committed + Estimate /\ IsFiniteSet(held')
  <1>1. /\ Cardinality(held') = Cardinality(held) + 1 /\ IsFiniteSet(held')
        /\ Cardinality(held) \in Nat
    BY FS_AddElement, FS_CardinalityType
  <1>2. \A c \in Nat : Estimate * (c + 1) = Estimate * c + Estimate
    BY BudgetAssumption DEF BudgetAssumption
  <1> QED
    BY <1>1, <1>2, BudgetAssumption DEF Committed, BudgetTypeOK, BudgetAssumption

\* What a settlement takes from the commitment.
LEMMA CommittedLess ==
  ASSUME IsFiniteSet(held), BudgetTypeOK, NEW r \in held, NEW actual \in Nat,
         Settled(r, actual)
  PROVE  /\ Committed' = Committed + actual - Estimate /\ IsFiniteSet(held')
         /\ Committed >= Estimate /\ Committed \in Nat
  <1>1. /\ Cardinality(held') = Cardinality(held) - 1 /\ IsFiniteSet(held')
        /\ Cardinality(held) \in Nat /\ Cardinality(held') \in Nat
    BY FS_RemoveElement, FS_CardinalityType DEF Settled
  <1>2. \A c \in Nat : Estimate * (c + 1) = Estimate * c + Estimate /\ Estimate * c \in Nat
    BY BudgetAssumption DEF BudgetAssumption
  <1>3. spent' = spent + actual
    BY DEF Settled
  <1>4. Estimate * Cardinality(held) = Estimate * Cardinality(held') + Estimate
    BY <1>1, <1>2
  <1> QED
    BY <1>1, <1>2, <1>3, <1>4, BudgetAssumption DEF Committed, BudgetTypeOK, BudgetAssumption

\* How a request's step uses the budget, given where the request stands.
BudgetUse(r) ==
  \/ At(r, Arriving) /\ (ScriptReserves(r, TRUE) \/ ScriptReserves(r, FALSE))
  \/ /\ At(r, Arriving) /\ MemoryReserves(r)
     /\ At(r, Fallback) \/ client = "latched"
  \/ /\ At(r, Paying)
     /\ \E actual \in Actuals \cup {0} :
          \/ ScriptFinalizes(r, actual, TRUE) \/ ScriptFinalizes(r, actual, FALSE)
          \/ MemoryFinalizes(r, actual) /\ (At(r, Fallback) \/ client = "latched")
  \/ /\ faults' = faults + 1
     /\ UNCHANGED <<client, redisUsed, memUsed, redisMarks, memMarks, doubled, held, spent>>
  \/ UNCHANGED budgetVars

\* Which of the budget's operations a handler's step is, and for whom.
LEMMA StepUsesBudget ==
  ASSUME NEW r \in Requests, Arrive(r) \/ Progress(r) \/ Departure(r)
  PROVE  BudgetUse(r)
  <1> USE DEF At, Arriving, Paying, Fallback
  <1>1. CASE Reserve(r)
    BY <1>1 DEF Reserve, BudgetUse, ScriptDenies, MemoryDenies, RedisUnreached
  <1>2. Used(r) \subseteq Actuals \cup {0}
    BY DEF Used
  <1>3. CASE Settle(r)
    <2>1. PICK actual \in Used(r) :
            \/ ScriptFinalizes(r, actual, TRUE) \/ ScriptFinalizes(r, actual, FALSE)
            \/ RedisUnreached
            \/ MemoryFinalizes(r, actual) /\ (At(r, Fallback) \/ client = "latched")
      BY <1>3 DEF Settle
    <2>2. At(r, Paying)
      BY <1>3 DEF Settle
    <2> QED
      BY <1>2, <2>1, <2>2 DEF BudgetUse, RedisUnreached
  <1>4. CASE CancelledSettling(r)
    BY <1>2, <1>4 DEF CancelledSettling, BudgetUse
  <1>5. CASE CacheRaises(r)
    BY <1>5 DEF CacheRaises, BudgetUse
  <1>6. CASE UNCHANGED budgetVars
    BY <1>6 DEF BudgetUse
  <1>7. \/ UNCHANGED budgetVars
        \/ Reserve(r) \/ Settle(r) \/ CancelledSettling(r) \/ CacheRaises(r)
    BY DEF Arrive, Progress, Screen, Lookup, Replay, Answered, AttemptFails, DispatchFails,
           Work, Inspect, Words, Store, Departure, ReplayCut, Cancelled, Abandoned
  <1> QED
    BY <1>1, <1>3, <1>4, <1>5, <1>6, <1>7

\* A request turns to process memory only after a Redis call has raised.
LEMMA FallbackNeedsFault ==
  ASSUME SettlementInv, NEW r \in Requests, Arrive(r) \/ Progress(r) \/ Departure(r),
         faults' = 0
  PROVE  faults = 0 /\ (~At(r, Fallback) => ~At(r, Fallback)')
  <1>0. /\ req \in [Requests -> Handlers] /\ req[r] \in Handlers /\ faults \in Nat
        /\ req[r].outcome \in Outcomes /\ req[r].text \in Texts
    BY BudgetAssumption DEF SettlementInv, TypeOK, BudgetTypeOK, BudgetAssumption, Handlers
  <1>1. faults = 0
    BY <1>0, StepUsesBudget
    DEF BudgetUse, ScriptReserves, ScriptFinalizes, MemoryReserves, MemoryFinalizes, budgetVars
  <1> SUFFICES ASSUME ~At(r, Fallback) PROVE ~At(r, Fallback)'
    BY <1>1
  <1> USE WritesRead DEF At, Fallback, Places, Outcomes
  <1>2. CASE Reserve(r)
    <2>1. ~Goto(r, "reserveMem")
      BY <1>0, <1>1, <1>2 DEF Reserve, ScriptReserves, RedisUnreached, ScriptDenies,
                              MemoryReserves, MemoryDenies, Granted, Denied
    <2> QED
      BY <1>0, <1>2, <2>1 DEF Reserve, Granted, Denied
  <1>3. CASE Settle(r)
    <2>1. Conclude(r)
      BY <1>0, <1>1, <1>3 DEF Settle, ScriptFinalizes, RedisUnreached
    <2> QED
      BY <1>0, <2>1 DEF Conclude
  <1>4. CASE Arrive(r)
    <2>1. PICK k \in Kinds : req' = [req EXCEPT ![r].pc = "reserve", ![r].kind = k]
      BY <1>4 DEF Arrive
    <2> QED
      BY <1>0, <2>1 DEF Handlers
  <1>5. CASE Lookup(r)
    BY <1>0, <1>5 DEF Lookup, Miss, Hit, Handlers
  <1>6. CASE Answered(r) \/ AttemptFails(r) \/ DispatchFails(r)
    BY <1>0, <1>6 DEF Answered, AttemptFails, DispatchFails, Handlers
  <1>7. CASE Screen(r) \/ Replay(r) \/ ReplayCut(r) \/ Work(r)
    BY <1>0, <1>7 DEF Screen, Replay, ReplayCut, Work, Handlers
  <1>8. CASE Inspect(r) \/ Words(r) \/ Store(r)
    BY <1>0, <1>8 DEF Inspect, Release, Block, Words, Store, Texts
  <1>9. CASE CacheRaises(r) \/ Cancelled(r) \/ CancelledSettling(r) \/ Abandoned(r)
    BY <1>0, <1>9 DEF CacheRaises, Cancelled, CancelledSettling, Abandoned, SettleOnError, Texts
  <1> QED
    BY <1>1, <1>2, <1>3, <1>4, <1>5, <1>6, <1>7, <1>8, <1>9 DEF Progress, Departure

\* Each operation of the budget moves a counter by what it adds to the commitment.
LEMMA BudgetUseCounts ==
  ASSUME SettlementInv, CountersInv, NoFallback, NEW r \in Requests, BudgetUse(r)
  PROVE  CountersInv'
  <1>0. /\ redisUsed \in Int /\ memUsed \in Nat /\ spent \in Nat /\ Estimate \in Nat
        /\ faults \in Nat /\ Actuals \cup {0} \subseteq Nat
        /\ client \in {"connected", "latched"} /\ BudgetTypeOK
    BY BudgetAssumption, GatewayAssumption
    DEF SettlementInv, TypeOK, BudgetTypeOK, BudgetAssumption, GatewayAssumption
  <1>h. /\ At(r, Arriving) => r \notin held /\ r \notin redisMarks /\ r \notin memMarks
        /\ At(r, Paying) => r \in held
    BY DEF SettlementInv, HandlerInv
  <1>c. Committed \in Int
    BY <1>0, FS_CardinalityType DEF Committed, CountersInv
  <1>1. CASE At(r, Arriving) /\ ScriptReserves(r, TRUE)
    <2>1. Committed' = Committed + Estimate /\ IsFiniteSet(held')
      BY <1>0, <1>h, <1>1, CommittedMore DEF ScriptReserves, CountersInv
    <2>2. /\ redisUsed' = redisUsed + Estimate /\ held' = held \cup {r} /\ client = "connected"
          /\ UNCHANGED <<client, memUsed, redisMarks, memMarks, faults, doubled>>
      BY <1>1 DEF ScriptReserves
    <2>3. Covered => Covered'
      BY <1>0, <1>c, <1>h, <1>1, <2>1, <2>2 DEF Covered
    <2>4. Exact => Exact'
      BY <1>0, <1>c, <2>1, <2>2 DEF Exact
    <2> QED
      BY <2>1, <2>2, <2>3, <2>4 DEF CountersInv
  <1>2. CASE At(r, Arriving) /\ ScriptReserves(r, FALSE)
    <2>1. /\ redisUsed' = redisUsed + Estimate /\ faults' = faults + 1
          /\ doubled' = doubled \cup {"reserve"}
          /\ UNCHANGED <<client, memUsed, redisMarks, memMarks, held, spent>>
      BY <1>2 DEF ScriptReserves
    <2>2. Committed' = Committed
      BY <2>1 DEF Committed
    <2>3. Covered => Covered'
      BY <1>0, <1>c, <2>1, <2>2 DEF Covered
    <2> QED
      BY <1>0, <2>1, <2>3 DEF CountersInv
  <1>3. CASE At(r, Arriving) /\ MemoryReserves(r) /\ (At(r, Fallback) \/ client = "latched")
    <2>1. Committed' = Committed + Estimate /\ IsFiniteSet(held')
      BY <1>0, <1>h, <1>3, CommittedMore DEF MemoryReserves, CountersInv
    <2>2. /\ memUsed' = memUsed + Estimate /\ held' = held \cup {r}
          /\ UNCHANGED <<client, redisUsed, redisMarks, memMarks, faults, doubled>>
      BY <1>3 DEF MemoryReserves
    <2>3. Covered => Covered'
      BY <1>0, <1>c, <1>h, <1>3, <2>1, <2>2 DEF Covered
    <2>4. faults = 0 /\ Exact => Exact'
      BY <1>0, <1>c, <1>3, <2>1, <2>2 DEF Exact, NoFallback
    <2> QED
      BY <2>1, <2>2, <2>3, <2>4 DEF CountersInv
  <1>4. ASSUME NEW actual \in Actuals \cup {0}, At(r, Paying), ScriptFinalizes(r, actual, TRUE)
        PROVE  CountersInv'
    <2>1. /\ Committed' = Committed + actual - Estimate /\ IsFiniteSet(held') /\ actual \in Nat
      BY <1>0, <1>h, <1>4, CommittedLess DEF ScriptFinalizes, CountersInv
    <2>2. /\ redisUsed' = IF r \in redisMarks THEN redisUsed ELSE redisUsed + actual - Estimate
          /\ held' = held \ {r} /\ redisMarks' = redisMarks \cup {r} /\ client = "connected"
          /\ UNCHANGED <<client, memUsed, memMarks, faults, doubled>>
      BY <1>4 DEF ScriptFinalizes, Settled
    <2>3. Covered => Covered'
      BY <1>0, <1>c, <1>h, <1>4, <2>1, <2>2 DEF Covered
    <2>4. Covered /\ Exact => Exact'
      BY <1>0, <1>c, <1>h, <1>4, <2>1, <2>2 DEF Exact, Covered
    <2> QED
      BY <2>1, <2>2, <2>3, <2>4 DEF CountersInv
  <1>5. ASSUME NEW actual \in Actuals \cup {0}, ScriptFinalizes(r, actual, FALSE)
        PROVE  CountersInv'
    BY <1>0, <1>5 DEF ScriptFinalizes, CountersInv
  <1>6. ASSUME NEW actual \in Actuals \cup {0}, At(r, Paying), MemoryFinalizes(r, actual),
               At(r, Fallback) \/ client = "latched"
        PROVE  CountersInv'
    <2>1. /\ Committed' = Committed + actual - Estimate /\ IsFiniteSet(held') /\ actual \in Nat
          /\ Committed >= Estimate
      BY <1>0, <1>h, <1>6, CommittedLess DEF MemoryFinalizes, CountersInv
    <2>2. /\ memUsed' = IF r \in memMarks THEN memUsed
                        ELSE AtLeastZero(memUsed + actual - Estimate)
          /\ held' = held \ {r} /\ memMarks' = memMarks \cup {r}
          /\ UNCHANGED <<client, redisUsed, redisMarks, faults, doubled>>
      BY <1>6 DEF MemoryFinalizes, Settled
    <2>3. Covered => Covered'
      BY <1>0, <1>c, <1>h, <1>6, <2>1, <2>2 DEF Covered, AtLeastZero
    <2>4. faults = 0 /\ Covered /\ Exact => Exact'
      BY <1>0, <1>c, <1>h, <1>6, <2>1, <2>2 DEF Exact, Covered, AtLeastZero, NoFallback
    <2> QED
      BY <2>1, <2>2, <2>3, <2>4 DEF CountersInv
  <1>7. CASE /\ faults' = faults + 1
             /\ UNCHANGED <<client, redisUsed, memUsed, redisMarks, memMarks, doubled, held,
                            spent>>
    BY <1>0, <1>7 DEF CountersInv, Covered, Committed
  <1>8. CASE UNCHANGED budgetVars
    BY <1>8 DEF CountersInv, Covered, Exact, Committed, budgetVars
  <1> QED
    BY <1>1, <1>2, <1>3, <1>4, <1>5, <1>6, <1>7, <1>8 DEF BudgetUse

\* What is known of the two counters holds in every reachable state.
LEMMA CountersKept == Spec => [](SettlementInv /\ CountersInv)
  <1> DEFINE Inv == SettlementInv /\ CountersInv /\ NoFallback
  <1>1. Init => Inv
    <2> SUFFICES ASSUME Init PROVE CountersInv /\ NoFallback
      BY SettlementInit
    <2>1. Committed = 0 /\ IsFiniteSet(held)
      BY FS_EmptySet, BudgetAssumption DEF BudgetAssumption, Init, BudgetInit, Committed
    <2> QED
      BY <2>1 DEF Init, BudgetInit, CountersInv, Covered, Exact, NoFallback, At, Fresh, Fallback
  <1>2. Inv /\ [Next]_vars => Inv'
    <2> SUFFICES ASSUME Inv, [Next]_vars PROVE CountersInv' /\ NoFallback'
      BY SettlementStep
    <2>1. ASSUME NEW r \in Requests, Arrive(r) \/ Progress(r) \/ Departure(r)
          PROVE  CountersInv' /\ NoFallback'
      <3>1. CountersInv'
        BY <2>1, StepUsesBudget, BudgetUseCounts
      <3>2. ASSUME faults' = 0, NEW q \in Requests PROVE ~At(q, Fallback)'
        <4>1. faults = 0 /\ (~At(r, Fallback) => ~At(r, Fallback)')
          BY <2>1, <3>2, FallbackNeedsFault
        <4>2. q # r => req'[q] = req[q]
          BY <2>1, StepOnHandlers DEF SettlementInv, TypeOK, HandlersOK, OthersStay
        <4> QED
          BY <4>1, <4>2 DEF NoFallback, At
      <3> QED
        BY <3>1, <3>2 DEF NoFallback
    <2>2. ASSUME UNCHANGED <<req, budgetVars>> PROVE CountersInv' /\ NoFallback'
      BY <2>2 DEF CountersInv, Covered, Exact, Committed, NoFallback, At, budgetVars
    <2>3. \/ \E r \in Requests : Arrive(r) \/ Progress(r) \/ Departure(r)
          \/ UNCHANGED <<req, budgetVars>>
      BY DEF Next, Expire, Clock, vars
    <2> QED
      BY <2>1, <2>2, <2>3
  <1> QED
    BY <1>1, <1>2, PTL DEF Spec

\* The usage counters never fall short of what the tenant holds and has spent,
\* unless the answer of a finalizing script was lost, and are exact while no call
\* has raised (reserve_budget, finalize_reservation).
THEOREM CountersCoverUseCorrect == Spec => []CountersCoverUse
  <1>1. SettlementInv /\ CountersInv => CountersCoverUse
    BY DEF CountersInv, Covered, Exact, CountersCoverUse, SettlementInv, TypeOK, BudgetTypeOK
  <1> QED
    BY <1>1, CountersKept, PTL

\* No request settles twice: neither the exception handlers of generate_chat_stream
\* nor the finally clause of chat_completions_stream repeat a settlement, and what
\* one store has finalised the other does not (finalize_reservation).
THEOREM SettledAtMostOnceCorrect == Spec => []SettledAtMostOnce
  <1>1. SettlementInv => \A r \in Requests : req[r].settles <= 1
    BY DEF SettlementInv, HandlerInv, TypeOK, Handlers
  <1>2. SettlementInv /\ CountersInv => SettledAtMostOnce
    BY <1>1 DEF CountersInv, Covered, SettledAtMostOnce
  <1> QED
    BY <1>2, CountersKept, PTL

-----------------------------------------------------------------------------
(* The quota                                                               *)

\* Neither store admits a reservation past its quota, so neither counter exceeds
\* it by more than the requests it has settled overran their estimates.
QuotaInv ==
  /\ IsFiniteSet(redisMarks) /\ IsFiniteSet(memMarks)
  /\ redisUsed <= RedisLimit + Overrun * Cardinality(redisMarks)
  /\ memUsed <= MemoryLimit + Overrun * Cardinality(memMarks)

\* A request overruns its estimate by Overrun at the most.
LEMMA OverrunType ==
  /\ Overrun \in Nat
  /\ \A actual \in Actuals \cup {0} : actual \in Nat /\ actual - Estimate <= Overrun
  BY BudgetAssumption, GatewayAssumption DEF BudgetAssumption, GatewayAssumption, Overrun

\* Multiples of a natural number.
LEMMA Multiples ==
  ASSUME NEW k \in Nat, NEW m \in Nat, NEW n \in Nat
  PROVE  /\ k * m \in Nat /\ k * (m + 1) = k * m + k /\ k * (m + n) = k * m + k * n
         /\ m <= n => k * m <= k * n
  <1>1. k * m \in Nat /\ k * (m + 1) = k * m + k /\ k * (m + n) = k * m + k * n
    OBVIOUS
  <1>2. ASSUME m <= n PROVE k * m <= k * n
    <2>1. n - m \in Nat /\ n = m + (n - m)
      BY <1>2
    <2>2. k * n = k * m + k * (n - m) /\ k * (n - m) \in Nat
      BY <2>1
    <2> QED
      BY <1>1, <2>2
  <1> QED
    BY <1>1, <1>2

\* A store stays within its bound when it settles one request more.
LEMMA SettlingInQuota ==
  ASSUME NEW S, IsFiniteSet(S), NEW r, r \notin S, NEW used \in Int,
         NEW limit \in Nat, used <= limit + Overrun * Cardinality(S), NEW actual \in Actuals \cup {0}
  PROVE  /\ IsFiniteSet(S \cup {r})
         /\ used + actual - Estimate <= limit + Overrun * Cardinality(S \cup {r})
         /\ 0 <= limit + Overrun * Cardinality(S \cup {r})
  <1>1. /\ IsFiniteSet(S \cup {r}) /\ Cardinality(S) \in Nat
        /\ Cardinality(S \cup {r}) = Cardinality(S) + 1
    BY FS_AddElement, FS_CardinalityType
  <1>2. /\ Overrun * Cardinality(S) \in Nat
        /\ Overrun * Cardinality(S \cup {r}) = Overrun * Cardinality(S) + Overrun
    BY <1>1, Multiples, OverrunType
  <1> QED
    BY <1>1, <1>2, OverrunType, BudgetAssumption DEF BudgetAssumption

\* Whatever a step does with the budget, the stores stay within their bounds.
LEMMA BudgetUseInQuota ==
  ASSUME BudgetTypeOK, QuotaInv, NEW r \in Requests, BudgetUse(r)
  PROVE  QuotaInv'
  <1>0. /\ redisUsed \in Int /\ memUsed \in Nat /\ Estimate \in Nat
        /\ RedisLimit \in Nat /\ MemoryLimit \in Nat
        /\ Overrun' = Overrun
    BY BudgetAssumption DEF BudgetTypeOK, BudgetAssumption, Overrun
  <1>c. /\ Overrun * Cardinality(redisMarks) \in Nat
        /\ Overrun * Cardinality(memMarks) \in Nat
    BY OverrunType, Multiples, FS_CardinalityType DEF QuotaInv
  <1>1. ASSUME NEW answered \in BOOLEAN, ScriptReserves(r, answered) PROVE QuotaInv'
    <2>1. redisUsed' <= RedisLimit /\ UNCHANGED <<redisMarks, memUsed, memMarks>>
      BY <1>0, <1>1 DEF ScriptReserves, Fits
    <2> QED
      BY <1>0, <1>c, <1>1, <2>1 DEF QuotaInv, ScriptReserves
  <1>2. CASE MemoryReserves(r)
    <2>1. memUsed' <= MemoryLimit /\ UNCHANGED <<redisMarks, redisUsed, memMarks>>
      BY <1>0, <1>2 DEF MemoryReserves, Fits
    <2> QED
      BY <1>0, <1>c, <1>2, <2>1 DEF QuotaInv, MemoryReserves
  <1>3. ASSUME NEW actual \in Actuals \cup {0}, NEW answered \in BOOLEAN,
               ScriptFinalizes(r, actual, answered)
        PROVE  QuotaInv'
    <2>1. /\ redisMarks' = redisMarks \cup {r} /\ UNCHANGED <<memUsed, memMarks>>
          /\ r \in redisMarks => redisMarks' = redisMarks /\ redisUsed' = redisUsed
          /\ r \notin redisMarks => redisUsed' = redisUsed + actual - Estimate
      BY <1>3 DEF ScriptFinalizes
    <2>2. CASE r \in redisMarks
      BY <1>0, <2>1, <2>2 DEF QuotaInv
    <2>3. CASE r \notin redisMarks
      <3>1. IsFiniteSet(redisMarks) /\ redisUsed <= RedisLimit + Overrun * Cardinality(redisMarks)
        BY DEF QuotaInv
      <3>2. /\ IsFiniteSet(redisMarks \cup {r})
            /\ redisUsed + actual - Estimate <= RedisLimit + Overrun * Cardinality(redisMarks \cup {r})
        BY <1>0, <2>3, <3>1, SettlingInQuota
      <3>3. redisUsed' <= RedisLimit + Overrun * Cardinality(redisMarks')
        BY <2>1, <2>3, <3>2
      <3> QED
        BY <1>0, <2>1, <3>2, <3>3 DEF QuotaInv
    <2> QED
      BY <2>2, <2>3
  <1>4. ASSUME NEW actual \in Actuals \cup {0}, MemoryFinalizes(r, actual) PROVE QuotaInv'
    <2>1. /\ memMarks' = memMarks \cup {r} /\ UNCHANGED <<redisUsed, redisMarks>>
          /\ r \in memMarks => memMarks' = memMarks /\ memUsed' = memUsed
          /\ r \notin memMarks =>
               memUsed' = 0 \/ memUsed' = memUsed + actual - Estimate
      BY <1>4 DEF MemoryFinalizes, AtLeastZero
    <2>2. CASE r \in memMarks
      BY <1>0, <2>1, <2>2 DEF QuotaInv
    <2>3. CASE r \notin memMarks
      <3>1. memUsed \in Int /\ memUsed <= MemoryLimit + Overrun * Cardinality(memMarks)
              /\ IsFiniteSet(memMarks)
        BY <1>0 DEF QuotaInv
      <3>2. /\ IsFiniteSet(memMarks \cup {r})
            /\ memUsed + actual - Estimate <= MemoryLimit + Overrun * Cardinality(memMarks \cup {r})
            /\ 0 <= MemoryLimit + Overrun * Cardinality(memMarks \cup {r})
        BY <1>0, <2>3, <3>1, SettlingInQuota
      <3>3. memUsed' <= MemoryLimit + Overrun * Cardinality(memMarks')
        BY <2>1, <2>3, <3>2
      <3> QED
        BY <1>0, <2>1, <3>2, <3>3 DEF QuotaInv
    <2> QED
      BY <2>2, <2>3
  <1>5. CASE UNCHANGED <<redisUsed, memUsed, redisMarks, memMarks>>
    BY <1>0, <1>5 DEF QuotaInv
  <1> QED
    BY <1>1, <1>2, <1>3, <1>4, <1>5 DEF BudgetUse, budgetVars

\* Concurrent requests cannot oversubscribe a quota (reserve_budget compares and
\* adds in one script): the counters cover what is held and spent, each counter is
\* within its store's quota but for the overruns it has settled, and while nothing has
\* failed only one of them is in use.
THEOREM SpendBoundedCorrect == Spec => []SpendBounded
  <1>1. Init => QuotaInv
    <2>1. Overrun * 0 = 0 /\ Cardinality({}) = 0 /\ IsFiniteSet({})
      BY OverrunType, FS_EmptySet
    <2> QED
      BY <2>1, BudgetAssumption DEF Init, BudgetInit, QuotaInv, BudgetAssumption
  <1>2. SettlementInv /\ QuotaInv /\ [Next]_vars => QuotaInv'
    <2> SUFFICES ASSUME SettlementInv, QuotaInv, [Next]_vars PROVE QuotaInv'
      OBVIOUS
    <2>1. ASSUME NEW r \in Requests, Arrive(r) \/ Progress(r) \/ Departure(r) PROVE QuotaInv'
      BY <2>1, StepUsesBudget, BudgetUseInQuota DEF SettlementInv, TypeOK
    <2>2. CASE UNCHANGED budgetVars
      BY <2>2 DEF QuotaInv, Overrun, budgetVars
    <2> QED
      BY <2>1, <2>2 DEF Next, Expire, Clock, vars
  <1>3. SettlementInv /\ CountersInv /\ QuotaInv => SpendBounded
    <2> SUFFICES ASSUME SettlementInv, CountersInv, QuotaInv, "finalize" \notin doubled
                 PROVE  Committed <= QuotaInForce + Shortfall
      BY DEF SpendBounded
    <2> DEFINE R == Cardinality(redisMarks)
               M == Cardinality(memMarks)
               U == Cardinality(redisMarks \cup memMarks)
    <2>1. R \in Nat /\ M \in Nat /\ U = R + M
      <3>1. redisMarks \cap memMarks = {}
        BY DEF CountersInv, Covered
      <3>2. /\ U = Cardinality(redisMarks) + Cardinality(memMarks) - Cardinality({})
            /\ Cardinality({}) = 0 /\ R \in Nat /\ M \in Nat
        BY <3>1, FS_Union, FS_EmptySet, FS_CardinalityType DEF QuotaInv
      <3> QED
        BY <3>2
    <2>2. /\ Overrun * R \in Nat /\ Overrun * M \in Nat
          /\ Shortfall = Overrun * R + Overrun * M
      <3>1. Shortfall = Overrun * U
        BY DEF Shortfall
      <3> HIDE DEF R, M, U
      <3> QED
        BY <2>1, <3>1, Multiples, OverrunType
    <2>3. /\ redisUsed \in Int /\ memUsed \in Nat
          /\ RedisLimit \in Nat /\ MemoryLimit \in Nat /\ faults \in Nat
          /\ client \in {"connected", "latched"}
          /\ redisUsed <= RedisLimit + Overrun * R /\ memUsed <= MemoryLimit + Overrun * M
      BY BudgetAssumption DEF SettlementInv, TypeOK, BudgetTypeOK, BudgetAssumption, QuotaInv
    <2>4. Committed \in Int /\ Committed <= redisUsed + memUsed
      BY <2>3, FS_CardinalityType, BudgetAssumption
      DEF CountersInv, Covered, Committed, SettlementInv, TypeOK, BudgetTypeOK, BudgetAssumption
    <2>5. faults = 0 => IF client = "connected" THEN memUsed = 0 ELSE redisUsed = 0
      BY <2>3 DEF CountersInv, Exact
    <2> HIDE DEF R, M, U
    <2>6. CASE faults = 0
      BY <2>2, <2>3, <2>4, <2>5, <2>6 DEF QuotaInForce
    <2>7. CASE faults # 0
      BY <2>2, <2>3, <2>4, <2>7 DEF QuotaInForce
    <2> QED
      BY <2>6, <2>7
  <1> QED
    BY <1>1, <1>2, <1>3, CountersKept, PTL DEF Spec

-----------------------------------------------------------------------------
(* What a request still has to do                                          *)

\* The provider calls a dispatching handler has left, with the second dispatch.
CallsLeft(h, made) ==
  (IF h.round = 1 THEN MaxAttempts + 1 ELSE 0) + (MaxAttempts - made)

\* A bound on the steps a handler has left: the places in the order in which
\* each kind of request goes through them.
Remaining(h, made) ==
  CASE h.pc = "end" -> 0
    [] h.pc = "store" /\ h.kind = "stream" -> 1
    [] h.pc \in {"settleMem", "refundMem"} -> 2
    [] h.pc \in {"settle", "refund"} -> 3
    [] h.pc \in {"replay", "words"} -> 4
    [] h.pc = "store" /\ h.kind # "stream" -> 5
    [] h.pc = "inspect" -> 6
    [] h.pc = "work" -> 7
    [] h.pc = "call" -> 7 + CallsLeft(h, made)
    [] h.pc = "lookup" -> 9 + 2 * MaxAttempts
    [] h.pc = "screen" -> 10 + 2 * MaxAttempts
    [] h.pc = "reserveMem" -> 11 + 2 * MaxAttempts
    [] h.pc = "reserve" -> 12 + 2 * MaxAttempts
    [] OTHER -> 13 + 2 * MaxAttempts

StepsLeft(r) == Remaining(req[r], attempts[r])

\* Each step of a request brings it nearer to its end; no other step, be it one
\* of another request, of the cache or of the clock, takes it further away.
Approaches(r) ==
  /\ StepsLeft(r)' <= StepsLeft(r)
  /\ Arrive(r) \/ Progress(r) \/ Departure(r) => StepsLeft(r)' < StepsLeft(r)

RequestsAdvance == [][\A r \in Requests : Approaches(r)]_vars

\* The bound at each place of the handler.
LEMMA RemainingAt ==
  ASSUME NEW h \in Handlers, NEW made \in 0..MaxAttempts
  PROVE  /\ Remaining(h, made) \in Nat
         /\ h.pc = "end" => Remaining(h, made) = 0
         /\ h.pc = "store" => Remaining(h, made) = IF h.kind = "stream" THEN 1 ELSE 5
         /\ h.pc \in {"settleMem", "refundMem"} => Remaining(h, made) = 2
         /\ h.pc \in {"settle", "refund"} => Remaining(h, made) = 3
         /\ h.pc \in {"replay", "words"} => Remaining(h, made) = 4
         /\ h.pc = "inspect" => Remaining(h, made) = 6
         /\ h.pc = "work" => Remaining(h, made) = 7
         /\ h.pc = "call" => Remaining(h, made) = 7 + CallsLeft(h, made)
         /\ h.pc = "lookup" => Remaining(h, made) = 9 + 2 * MaxAttempts
         /\ h.pc = "screen" => Remaining(h, made) = 10 + 2 * MaxAttempts
         /\ h.pc = "reserveMem" => Remaining(h, made) = 11 + 2 * MaxAttempts
         /\ h.pc = "reserve" => Remaining(h, made) = 12 + 2 * MaxAttempts
         /\ h.pc = "new" => Remaining(h, made) = 13 + 2 * MaxAttempts
<1>1. h.pc \in Places
  BY DEF Handlers
<1>2. CallsLeft(h, made) \in Nat
  BY FailoverAssumption DEF FailoverAssumption, CallsLeft
<1> DEFINE n == Remaining(h, made)
<1>3. /\ h.pc = "end" => n = 0
      /\ h.pc = "store" => n = IF h.kind = "stream" THEN 1 ELSE 5
      /\ h.pc \in {"settleMem", "refundMem"} => n = 2
      /\ h.pc \in {"settle", "refund"} => n = 3
  BY DEF Remaining
<1>4. /\ h.pc \in {"replay", "words"} => n = 4
      /\ h.pc = "inspect" => n = 6
      /\ h.pc = "work" => n = 7
      /\ h.pc = "call" => n = 7 + CallsLeft(h, made)
  BY DEF Remaining
<1>5. /\ h.pc = "lookup" => n = 9 + 2 * MaxAttempts
      /\ h.pc = "screen" => n = 10 + 2 * MaxAttempts
      /\ h.pc = "reserveMem" => n = 11 + 2 * MaxAttempts
  BY DEF Remaining
<1>6. /\ h.pc = "reserve" => n = 12 + 2 * MaxAttempts
      /\ h.pc = "new" => n = 13 + 2 * MaxAttempts
  BY DEF Remaining
<1> HIDE DEF n
<1>7. n \in Nat
  BY <1>1, <1>2, <1>3, <1>4, <1>5, <1>6, FailoverAssumption DEF FailoverAssumption, Places
<1> QED BY <1>3, <1>4, <1>5, <1>6, <1>7 DEF n

\* Each step of a request lowers its bound.
LEMMA OwnApproach ==
  ASSUME SettlementInv, TypeOK', NEW r \in Requests, AttemptsInv(r), AttemptsInv(r)',
         Arrive(r) \/ Progress(r) \/ Departure(r)
  PROVE  StepsLeft(r)' < StepsLeft(r)
<1> DEFINE h  == req[r]
           h1 == req'[r]
           n  == Remaining(h, attempts[r])
           n1 == Remaining(h1, attempts'[r])
<1>0. /\ req \in [Requests -> Handlers] /\ h \in Handlers /\ h1 \in Handlers
      /\ attempts \in [Requests -> 0..MaxAttempts]
      /\ attempts[r] \in 0..MaxAttempts /\ attempts'[r] \in 0..MaxAttempts
      /\ attempts[r] < MaxAttempts
      /\ h.outcome \in Outcomes /\ h.text \in Texts
      /\ MaxAttempts \in Nat \ {0}
  BY GatewayAssumption, FailoverAssumption
  DEF SettlementInv, TypeOK, FailoverTypeOK, GatewayAssumption, FailoverAssumption, Handlers,
      AttemptsInv
<1>1. n \in Nat /\ n1 \in Nat
  BY <1>0, RemainingAt
<1>2. /\ h1.pc = "end" => n1 = 0
      /\ h1.pc = "store" => n1 = IF h1.kind = "stream" THEN 1 ELSE 5
      /\ h1.pc \in {"settleMem", "refundMem"} => n1 = 2
      /\ h1.pc \in {"settle", "refund"} => n1 = 3
      /\ h1.pc \in {"replay", "words"} => n1 = 4
      /\ h1.pc = "inspect" => n1 = 6
      /\ h1.pc = "work" => n1 = 7
      /\ h1.pc = "call" => n1 = 7 + CallsLeft(h1, attempts'[r])
      /\ h1.pc = "lookup" => n1 = 9 + 2 * MaxAttempts
      /\ h1.pc = "screen" => n1 = 10 + 2 * MaxAttempts
      /\ h1.pc = "reserveMem" => n1 = 11 + 2 * MaxAttempts
      /\ h1.pc = "reserve" => n1 = 12 + 2 * MaxAttempts
  BY <1>0, RemainingAt
<1>3. /\ h.pc = "store" => n = IF h.kind = "stream" THEN 1 ELSE 5
      /\ h.pc \in {"settleMem", "refundMem"} => n = 2
      /\ h.pc \in {"settle", "refund"} => n = 3
      /\ h.pc \in {"replay", "words"} => n = 4
      /\ h.pc = "inspect" => n = 6
      /\ h.pc = "work" => n = 7
      /\ h.pc = "call" => n = 7 + CallsLeft(h, attempts[r])
      /\ h.pc = "lookup" => n = 9 + 2 * MaxAttempts
      /\ h.pc = "screen" => n = 10 + 2 * MaxAttempts
      /\ h.pc = "reserveMem" => n = 11 + 2 * MaxAttempts
      /\ h.pc = "reserve" => n = 12 + 2 * MaxAttempts
      /\ h.pc = "new" => n = 13 + 2 * MaxAttempts
  BY <1>0, RemainingAt
<1>4. /\ h.pc = "call" => n > 7
      /\ h1.pc = "call" /\ h1.round = 1 /\ attempts'[r] = 0 => n1 = 8 + 2 * MaxAttempts
  BY <1>0, <1>2, <1>3 DEF CallsLeft
<1> SUFFICES n1 < n
  BY DEF StepsLeft
<1> HIDE DEF n, n1
\* The steps that end a request or turn it to its settlement.
<1>5. ASSUME h1.pc = "end", h.pc # "end" PROVE n1 < n
  <2>1. h.pc \in Places
    BY <1>0 DEF Handlers
  <2> QED BY <1>0, <1>1, <1>2, <1>3, <1>4, <1>5, <2>1 DEF Places
<1>6. ASSUME h1.pc \in {"settle", "refund"},
             h.pc \in {"screen", "lookup", "replay", "call", "work", "inspect", "words"}
      PROVE  n1 < n
  BY <1>0, <1>1, <1>2, <1>3, <1>4, <1>6
<1> USE WritesRead DEF At, Places, Outcomes
<1>7. CASE Arrive(r)
  <2>1. PICK k \in Kinds : req' = [req EXCEPT ![r].pc = "reserve", ![r].kind = k]
    BY <1>7 DEF Arrive
  <2>2. h.pc = "new"
    BY <1>7 DEF Arrive
  <2>3. h1.pc = "reserve"
    BY <1>0, <2>1 DEF Handlers
  <2> QED BY <1>0, <1>2, <1>3, <2>2, <2>3
<1>8. CASE Reserve(r)
  <2>1. \/ h.pc = "reserve" /\ h1.pc = "reserveMem"
        \/ h.pc \in {"reserve", "reserveMem"} /\ h1.pc \in {"screen", "lookup", "end"}
    BY <1>0, <1>8 DEF Reserve, Granted, Denied
  <2> QED BY <1>0, <1>2, <1>3, <2>1
<1>9. CASE Screen(r) \/ Replay(r) \/ ReplayCut(r)
  <2>1. \/ h.pc = "screen" /\ h1.pc = "lookup"
        \/ h.pc \in {"screen", "replay"} /\ h1.pc = "refund"
        \/ h.pc = "replay" /\ h1.pc = "end"
    BY <1>0, <1>9 DEF Screen, Replay, ReplayCut
  <2> QED BY <1>0, <1>2, <1>3, <1>5, <1>6, <2>1
<1>10. CASE Lookup(r)
  <2>1. h.pc = "lookup"
    BY <1>10 DEF Lookup
  <2>2. CASE Dispatch(r) /\ req' = [req EXCEPT ![r].pc = "call", ![r].round = 1]
    <3>1. h1.pc = "call" /\ h1.round = 1 /\ attempts'[r] = 0
      BY <1>0, <2>2 DEF Dispatch, Handlers
    <3> QED BY <1>0, <1>3, <1>4, <2>1, <3>1
  <2>3. CASE ~(Dispatch(r) /\ req' = [req EXCEPT ![r].pc = "call", ![r].round = 1])
    <3>1. h1.pc \in {"work", "inspect", "replay", "refund", "end"}
      BY <1>0, <1>10, <2>3 DEF Lookup, Miss, Hit, Handlers
    <3> QED BY <1>0, <1>2, <1>3, <2>1, <3>1
  <2> QED BY <2>2, <2>3
<1>11. CASE Answered(r)
  <2>1. h.pc = "call" /\ h1.pc = "inspect"
    BY <1>0, <1>11 DEF Answered, Handlers
  <2> QED BY <1>0, <1>1, <1>2, <1>4, <2>1
<1>12. CASE AttemptFails(r)
  <2>1. h.pc = "call" /\ h1 = h /\ attempts'[r] = attempts[r] + 1
    BY <1>0, <1>12 DEF AttemptFails, Fails
  <2> QED BY <1>0, <1>2, <1>3, <2>1 DEF CallsLeft
<1>13. CASE DispatchFails(r)
  <2>1. h.pc = "call"
    BY <1>13 DEF DispatchFails
  <2>2. PICK retryable \in BOOLEAN :
          \/ /\ StartsOver(r, retryable) /\ h.round = 1
             /\ req' = [req EXCEPT ![r].round = 2]
          \/ req' = [req EXCEPT ![r].pc = "inspect", ![r].text = "fallback"]
    BY <1>13 DEF DispatchFails
  <2>3. CASE /\ StartsOver(r, retryable) /\ h.round = 1
             /\ req' = [req EXCEPT ![r].round = 2]
    <3>1. h1.pc = "call" /\ h1.round = 2 /\ attempts'[r] = 0
      BY <1>0, <2>1, <2>3 DEF StartsOver, Handlers
    <3> QED BY <1>0, <1>2, <1>3, <2>1, <2>3, <3>1 DEF CallsLeft
  <2>4. CASE req' = [req EXCEPT ![r].pc = "inspect", ![r].text = "fallback"]
    <3>1. h1.pc = "inspect"
      BY <1>0, <2>4 DEF Handlers
    <3> QED BY <1>0, <1>1, <1>2, <1>4, <2>1, <3>1
  <2> QED BY <2>2, <2>3, <2>4
<1>14. CASE Work(r)
  <2>1. h.pc = "work" /\ h1.pc \in {"inspect", "settle"}
    BY <1>0, <1>14 DEF Work, Handlers
  <2> QED BY <1>0, <1>2, <1>3, <2>1
<1>15. CASE Inspect(r)
  <2>1. /\ h.pc = "inspect"
        /\ \/ h1.pc = "store" /\ h1.kind # "stream"
           \/ h1.pc \in {"words", "settle", "end"}
    BY <1>0, <1>15 DEF Inspect, Release, Block, Kind, Handlers
  <2> QED BY <1>0, <1>2, <1>3, <2>1
<1>16. CASE Words(r)
  <2>1. h.pc = "words" /\ h1.pc = "settle"
    BY <1>0, <1>16 DEF Words, Texts
  <2> QED BY <1>0, <1>2, <1>3, <2>1
<1>17. CASE Store(r)
  <2>1. /\ h.pc = "store"
        /\ \/ h.kind = "chat" /\ h1.pc = "settle"
           \/ h.kind = "sse" /\ h1.pc = "words"
           \/ h.kind = "stream" /\ h1.pc = "end"
    BY <1>0, <1>17 DEF Store, Kind
  <2> QED BY <1>0, <1>2, <1>3, <2>1
<1>18. CASE Settle(r)
  <2>1. /\ h.pc \in {"settle", "refund", "settleMem", "refundMem"}
        /\ \/ h.pc \in {"settle", "refund"} /\ h1.pc \in {"settleMem", "refundMem"}
           \/ h1.pc = "end"
           \/ h1.pc = "store" /\ h1.kind = "stream"
    BY <1>0, <1>18 DEF Settle, Conclude, Kind
  <2> QED BY <1>0, <1>2, <1>3, <2>1
<1>19. CASE CacheRaises(r)
  <2>1. /\ h.pc \in {"lookup", "store"}
        /\ h1.pc = "end" \/ (h1.pc = "settle" /\ (h.pc = "lookup" \/ h.kind = "sse"))
    BY <1>0, <1>19 DEF CacheRaises, SettleOnError, Kind
  <2> QED BY <1>0, <1>2, <1>3, <1>5, <1>6, <2>1
<1>20. CASE Cancelled(r)
  <2>1. /\ h.pc \in {"lookup", "replay", "call", "work", "store", "words"}
        /\ h1.pc = "end" \/ (h1.pc = "settle" /\ (h.pc # "store" \/ h.kind = "sse"))
    BY <1>0, <1>20 DEF Cancelled, SettleOnError, Kind, Texts
  <2> QED BY <1>0, <1>2, <1>3, <1>5, <1>6, <2>1
<1>21. CASE CancelledSettling(r)
  <2>1. h.settles = 1 /\ h.pc \in {"settle", "refund"}
    BY <1>21 DEF CancelledSettling, SettlementInv, HandlerInv, Paying
  <2>2. h1.pc = "end"
    BY <1>0, <1>21, <2>1 DEF CancelledSettling, SettleOnError
  <2> QED BY <1>5, <2>1, <2>2
<1>22. CASE Abandoned(r)
  <2>1. /\ h.pc \in {"screen", "lookup", "replay", "work", "words"}
        /\ h1.pc \in {"end", "settle"}
    BY <1>0, <1>22 DEF Abandoned, Texts
  <2> QED BY <1>5, <1>6, <2>1
<1> QED
  BY <1>7, <1>8, <1>9, <1>10, <1>11, <1>12, <1>13, <1>14, <1>15, <1>16, <1>17, <1>18,
     <1>19, <1>20, <1>21, <1>22
  DEF Progress, Departure

\* A step of one request leaves the bound of the others as it was.
LEMMA OthersStand ==
  ASSUME SettlementInv, NEW r \in Requests, NEW q \in Requests \ {r},
         Arrive(r) \/ Progress(r) \/ Departure(r)
  PROVE  StepsLeft(q)' = StepsLeft(q)
<1>1. req'[q] = req[q]
  BY StepOnHandlers DEF SettlementInv, TypeOK, HandlersOK, OthersStay
<1>2. attempts'[q] = attempts[q]
  <2>1. CASE FailoverStep(r)
    BY <2>1, GatewayAssumption DEF FailoverStep, Dispatch, Leaves, Fails, StartsOver,
             SettlementInv, TypeOK, FailoverTypeOK, GatewayAssumption
  <2>2. CASE UNCHANGED failoverVars
    BY <2>2 DEF failoverVars
  <2> QED BY <2>1, <2>2, StepOnFailover DEF Arrive
<1> QED BY <1>1, <1>2 DEF StepsLeft

(* A request takes a bounded number of steps, whatever Redis, the providers *)
(* and the client do: each one lowers a bound that no step of another       *)
(* request raises.  What RequestsEnd adds is that a request always has a    *)
(* next step and is scheduled to take it.                                   *)
THEOREM RequestsAdvanceCorrect == Spec => RequestsAdvance
<1> DEFINE Inv == SettlementInv /\ \A r \in Requests : AttemptsInv(r)
<1>1. Inv /\ Inv' /\ [Next]_vars => [\A r \in Requests : Approaches(r)]_vars
  <2> SUFFICES ASSUME Inv, Inv', Next, NEW q \in Requests PROVE Approaches(q)
    OBVIOUS
  <2>1. StepsLeft(q) \in Nat
    <3>1. req[q] \in Handlers /\ attempts[q] \in 0..MaxAttempts
      BY GatewayAssumption
      DEF SettlementInv, TypeOK, FailoverTypeOK, GatewayAssumption
    <3> QED BY <3>1, RemainingAt DEF StepsLeft
  <2>2. Arrive(q) \/ Progress(q) \/ Departure(q) => StepsLeft(q)' < StepsLeft(q)
    BY OwnApproach DEF SettlementInv
  <2>3. StepsLeft(q)' <= StepsLeft(q)
    <3>1. CASE \E r \in Requests : Arrive(r) \/ Progress(r) \/ Departure(r)
      <4>1. PICK r \in Requests : Arrive(r) \/ Progress(r) \/ Departure(r)
        BY <3>1
      <4>2. CASE r = q
        <5>1. StepsLeft(q)' \in Nat
          <6>1. req'[q] \in Handlers /\ attempts'[q] \in 0..MaxAttempts
            BY GatewayAssumption
            DEF SettlementInv, TypeOK, FailoverTypeOK, GatewayAssumption
          <6> QED BY <6>1, RemainingAt DEF StepsLeft
        <5> QED BY <2>1, <2>2, <4>1, <4>2, <5>1
      <4>3. CASE r # q
        BY <2>1, <4>1, <4>3, OthersStand
      <4> QED BY <4>2, <4>3
    <3>2. CASE Clock \/ \E t \in {"gateway", "sse"} : Expire(t)
      <4>1. StepsLeft(q)' = StepsLeft(q)
        BY <3>2 DEF Clock, Expire, failoverVars, StepsLeft
      <4> QED BY <2>1, <4>1
    <3> QED BY <3>1, <3>2 DEF Next
  <2> QED BY <2>2, <2>3 DEF Approaches
<1>2. Spec => []Inv
  BY CallsCounted, PTL
<1> QED BY <1>1, <1>2, PTL DEF Spec, RequestsAdvance
=============================================================================
