------------------------------- MODULE Budget -------------------------------
(***************************************************************************)
(* The tenant's token budget (finops/budget.py): a usage counter in Redis, *)
(* moved by two Lua scripts, and a second one in process memory that takes *)
(* over whenever a Redis call raises.  The dollar counter moves with the   *)
(* token counter in every operation and is not modelled.                   *)
(*                                                                         *)
(* An operation is split where the code awaits Redis: the script runs,     *)
(* then the caller learns the answer, or an exception although the script  *)
(* may have run.                                                           *)
(*                                                                         *)
(* Each store compares with a quota of its own.  The model covers one      *)
(* lifetime of a process: a restart forgets the memory store, usage and    *)
(* quota, and what the process knows of the quota afterwards is the        *)
(* default, for Redis never fills that table.                              *)
(***************************************************************************)
EXTENDS Integers, FiniteSets, FiniteSetsExt

CONSTANTS
  Requests,    \* the requests, each with a reservation of its own
  RedisLimit,  \* what finops:limit:tokens leaves to use in Redis at the start
  MemoryLimit, \* _memory_token_limits, or DEFAULT_MONTHLY_TOKEN_QUOTA without
               \* an entry; set_budget writes it before Redis, whose write may fail
  Estimate,    \* tokens reserved for a request
  MaxFaults    \* Redis calls that raise, at most (a bound)

ASSUME BudgetAssumption ==
  /\ RedisLimit \in Nat /\ MemoryLimit \in Nat
  /\ Estimate \in Nat /\ MaxFaults \in Nat

VARIABLES
  client,      \* _get_redis(): "connected", or "latched" after the first ping failed
  redisUsed,   \* finops:usage:tokens in Redis
  memUsed,     \* _memory_token_usage
  redisMarks,  \* finops:res:finalized:<id> markers in Redis
  memMarks,    \* _finalized_reservations
  faults,      \* Redis calls that have raised
  doubled,     \* history: a script ran in Redis, its answer was lost, and the
               \* memory store did the same again: {"reserve", "finalize"}
  held,        \* history: requests holding a reservation that is not settled
  spent        \* history: tokens settled so far, once per request

budgetVars == <<client, redisUsed, memUsed, redisMarks, memMarks, faults,
                doubled, held, spent>>

BudgetTypeOK ==
  /\ client \in {"connected", "latched"}
  /\ redisUsed \in Int /\ memUsed \in Nat
  /\ redisMarks \subseteq Requests /\ memMarks \subseteq Requests
  /\ faults \in 0..MaxFaults
  /\ doubled \subseteq {"reserve", "finalize"}
  /\ held \subseteq Requests /\ spent \in Nat

BudgetInit ==
  /\ client \in {"connected", "latched"}
  /\ redisUsed = 0 /\ memUsed = 0 /\ redisMarks = {} /\ memMarks = {}
  /\ faults = 0 /\ doubled = {} /\ held = {} /\ spent = 0

\* A quota that is compared before the request's own estimate is added.
FitsStale(used, limit) == used <= limit

Fits(used, limit) == used + Estimate <= limit

\* The memory balance is not clamped.
AtLeastZeroNot(n) == n

AtLeastZero(n) == IF n < 0 THEN 0 ELSE n

-----------------------------------------------------------------------------
(* reserve_budget                                                          *)

\* The reserving script runs in Redis; the caller may never learn.
ScriptReserves(r, answered) ==
  /\ client = "connected" /\ Fits(redisUsed, RedisLimit)
  /\ redisUsed' = redisUsed + Estimate
  /\ IF answered
     THEN held' = held \cup {r} /\ UNCHANGED <<faults, doubled>>
     ELSE /\ faults < MaxFaults /\ faults' = faults + 1
          /\ doubled' = doubled \cup {"reserve"}
          /\ UNCHANGED held
  /\ UNCHANGED <<client, memUsed, redisMarks, memMarks, spent>>

ScriptDenies ==
  client = "connected" /\ ~Fits(redisUsed, RedisLimit) /\ UNCHANGED budgetVars

\* The call raises before the script ran.
RedisUnreached ==
  /\ client = "connected" /\ faults < MaxFaults
  /\ faults' = faults + 1
  /\ UNCHANGED <<client, redisUsed, memUsed, redisMarks, memMarks, doubled,
                 held, spent>>

MemoryReserves(r) ==
  /\ Fits(memUsed, MemoryLimit)
  /\ memUsed' = memUsed + Estimate
  /\ held' = held \cup {r}
  /\ UNCHANGED <<client, redisUsed, redisMarks, memMarks, faults, doubled, spent>>

MemoryDenies == ~Fits(memUsed, MemoryLimit) /\ UNCHANGED budgetVars

-----------------------------------------------------------------------------
(* finalize_reservation                                                    *)

Settled(r, actual) ==
  /\ held' = held \ {r}
  /\ spent' = IF r \in held THEN spent + actual ELSE spent

\* The finalizing script: the marker makes a second run a no-op.
ScriptFinalizes(r, actual, answered) ==
  /\ client = "connected"
  /\ redisMarks' = redisMarks \cup {r}
  /\ redisUsed' = IF r \in redisMarks THEN redisUsed
                  ELSE redisUsed + actual - Estimate
  /\ IF answered
     THEN Settled(r, actual) /\ UNCHANGED <<faults, doubled>>
     ELSE /\ faults < MaxFaults /\ faults' = faults + 1
          /\ doubled' = doubled \cup {"finalize"}
          /\ UNCHANGED <<held, spent>>
  /\ UNCHANGED <<client, memUsed, memMarks>>

\* The whole estimate is given back, whatever was used.
MemoryFinalizesInFull(r, actual) ==
  /\ memMarks' = memMarks \cup {r}
  /\ memUsed' = IF r \in memMarks THEN memUsed ELSE AtLeastZero(memUsed - Estimate)
  /\ Settled(r, actual)
  /\ UNCHANGED <<client, redisUsed, redisMarks, faults, doubled>>

MemoryFinalizes(r, actual) ==
  /\ memMarks' = memMarks \cup {r}
  /\ memUsed' = IF r \in memMarks THEN memUsed
                ELSE AtLeastZero(memUsed + actual - Estimate)
  /\ Settled(r, actual)
  /\ UNCHANGED <<client, redisUsed, redisMarks, faults, doubled>>

-----------------------------------------------------------------------------
\* What the tenant has used or still holds.
Committed == Estimate * Cardinality(held) + spent
=============================================================================
