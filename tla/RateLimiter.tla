---------------------------- MODULE RateLimiter -----------------------------
(***************************************************************************)
(* The token bucket of core/rate_limiter.py for one tenant and address, in *)
(* Redis with a bucket in process memory to fall back to.                  *)
(*                                                                         *)
(* A check reads the clock, then awaits the script that refills and spends *)
(* in Redis: scripts of concurrent checks may run in another order than    *)
(* their clock readings.  The unit of time is that of one token.  Neither  *)
(* store drops a bucket before it would be full again (the key expires     *)
(* after 60 s, memory is pruned after 120 s, a burst of 10 refills in 10). *)
(***************************************************************************)
EXTENDS Integers, FiniteSetsExt

CONSTANTS
  Checks,     \* concurrent calls of check
  Capacity,   \* burst
  Backoff,    \* how long Redis is left alone after a failed ping or script
  MaxTime     \* bound on the clock

ASSUME LimiterAssumption ==
  /\ Capacity \in Nat \ {0}
  /\ Backoff \in Nat /\ MaxTime \in Nat

VARIABLES
  time,        \* the clock
  bucket,      \* store |-> [tokens, last]
  retryAfter,  \* _redis_retry_after
  call,        \* what a check does: [at, now]
  granted,     \* history: store |-> checks allowed
  rewound      \* history: how far last_time has been set back

limiterVars == <<time, bucket, retryAfter, call, granted, rewound>>

Stores == {"redis", "memory"}

LimiterTypeOK ==
  /\ time \in 0..MaxTime
  /\ bucket \in [Stores -> [tokens : 0..Capacity, last : 0..MaxTime]]
  /\ retryAfter \in 0..(MaxTime + Backoff)
  /\ call \in [Checks -> [at : {"idle", "evaluating"}, now : 0..MaxTime]]
  /\ granted \in [Stores -> Nat]
  /\ rewound \in Nat

LimiterInit ==
  /\ time = 0
  /\ bucket = [s \in Stores |-> [tokens |-> Capacity, last |-> 0]]
  /\ retryAfter = 0
  /\ call = [c \in Checks |-> [at |-> "idle", now |-> 0]]
  /\ granted = [s \in Stores |-> 0]
  /\ rewound = 0

\* Tokens after refilling for the time since last_time, which does not run back.
Refilled(s, now) == Min({Capacity, bucket[s].tokens + Max({0, now - bucket[s].last})})

\* The refill is stored without the time it was made for.
SpendKeepingTime(s, now) ==
  bucket' = [bucket EXCEPT ![s].tokens = Refilled(s, now) - 1]

Spend(s, now) ==
  bucket' = [bucket EXCEPT ![s] = [tokens |-> Refilled(s, now) - 1, last |-> now]]

\* A refused check leaves the bucket as it is.
Consume(s, now) ==
  \/ /\ Refilled(s, now) >= 1
     /\ Spend(s, now)
     /\ granted' = [granted EXCEPT ![s] = @ + 1]
     /\ rewound' = rewound + Max({0, bucket[s].last - now})
  \/ /\ Refilled(s, now) < 1
     /\ UNCHANGED <<bucket, granted, rewound>>

Begin(c) ==
  /\ call[c].at = "idle"
  /\ time >= retryAfter
  /\ call' = [call EXCEPT ![c] = [at |-> "evaluating", now |-> time]]
  /\ UNCHANGED <<time, bucket, retryAfter, granted, rewound>>

\* _get_redis has no client, or its ping fails and backs off.
CheckInMemory(c) ==
  /\ call[c].at = "idle"
  /\ retryAfter' \in IF time < retryAfter THEN {retryAfter} ELSE {time + Backoff}
  /\ Consume("memory", time)
  /\ UNCHANGED <<time, call>>

Evaluate(c) ==
  /\ call[c].at = "evaluating"
  /\ Consume("redis", call[c].now)
  /\ call' = [call EXCEPT ![c] = [at |-> "idle", now |-> 0]]
  /\ UNCHANGED <<time, retryAfter>>

\* The script raises: the same check is answered from memory.  (One that ran
\* before its reply was lost has also spent in Redis, which only refuses more.)
EvaluationFails(c) ==
  /\ call[c].at = "evaluating"
  /\ retryAfter' = call[c].now + Backoff
  /\ Consume("memory", time)
  /\ call' = [call EXCEPT ![c] = [at |-> "idle", now |-> 0]]
  /\ UNCHANGED time

Tick ==
  /\ time < MaxTime
  /\ time' = time + 1
  /\ UNCHANGED <<bucket, retryAfter, call, granted, rewound>>

LimiterNext ==
  \/ Tick
  \/ \E c \in Checks : Begin(c) \/ CheckInMemory(c) \/ Evaluate(c) \/ EvaluationFails(c)

LimiterSpec == LimiterInit /\ [][LimiterNext]_limiterVars

-----------------------------------------------------------------------------
\* Neither store allows more than its burst and the time that has passed,
\* except for the time by which scripts that run late set last_time back; an
\* outage adds the burst of the other store, never more.
AdmissionsBounded ==
  /\ granted["memory"] <= Capacity + time
  /\ granted["redis"] <= Capacity + time + rewound
=============================================================================
