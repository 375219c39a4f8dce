------------------------------ MODULE Failover ------------------------------
(***************************************************************************)
(* One dispatch of a request to the model providers (routing/failover.py,  *)
(* execute_with_failover): the candidates of the routing decision in order,*)
(* each retried on retryable errors, under a ceiling on all attempts.      *)
(* An attempt is one call of a provider, with the await it suspends at.    *)
(***************************************************************************)
EXTENDS Naturals, Sequences

CONSTANTS
  Callers,         \* the requests that dispatch
  Chain,           \* selected provider and fallback_chain: a sequence of candidates
  Registered,      \* candidates whose provider has an adapter
  MaxRetries,      \* FailoverConfig.max_retries_per_provider
  MaxAttempts      \* FailoverConfig.max_total_attempts

ASSUME FailoverAssumption ==
  /\ Len(Chain) \in Nat
  /\ MaxRetries \in Nat /\ MaxAttempts \in Nat \ {0}

VARIABLES
  cand,       \* position in the chain, 0 when not dispatching
  retries,    \* provider_retries
  attempts,   \* total_attempts of the dispatch
  sent        \* history: failed provider calls of a request that is dispatching

failoverVars == <<cand, retries, attempts, sent>>

FailoverTypeOK ==
  /\ cand \in [Callers -> 0..Len(Chain)]
  /\ retries \in [Callers -> 0..MaxRetries]
  /\ attempts \in [Callers -> 0..MaxAttempts]
  /\ sent \in [Callers -> Nat]

FailoverInit ==
  /\ cand = [r \in Callers |-> 0] /\ retries = [r \in Callers |-> 0]
  /\ attempts = [r \in Callers |-> 0]
  /\ sent = [r \in Callers |-> 0]

\* Candidates the loop does not skip: registered, and not a duplicate.
Eligible ==
  {c \in 1..Len(Chain) :
     Chain[c] \in Registered /\ \A d \in 1..c - 1 : Chain[d] # Chain[c]}

\* The loop's next candidate after position c, 0 when the chain is exhausted.
After(c) ==
  IF \E d \in Eligible : d > c
  THEN CHOOSE d \in Eligible : d > c /\ \A e \in Eligible : e > c => d <= e
  ELSE 0

\* The first candidate of a fresh dispatch.
Dispatch(r) ==
  /\ cand' = [cand EXCEPT ![r] = After(0)]
  /\ retries' = [retries EXCEPT ![r] = 0]
  /\ attempts' = [attempts EXCEPT ![r] = 0]
  /\ UNCHANGED sent

\* The loop is left, by an answer, for good or with the task that ran it.
Leaves(r) ==
  /\ cand' = [cand EXCEPT ![r] = 0] /\ retries' = [retries EXCEPT ![r] = 0]
  /\ attempts' = [attempts EXCEPT ![r] = 0] /\ sent' = [sent EXCEPT ![r] = 0]

Answers(r) == cand[r] # 0 /\ Leaves(r)

MayRetry(r, retryable) ==
  retryable /\ retries[r] < MaxRetries /\ attempts[r] + 1 < MaxAttempts

\* The candidate to try after a failed attempt: the same one, the next one
\* while the ceiling leaves room, or none.
AfterFailure(r, retryable) ==
  CASE MayRetry(r, retryable) -> cand[r]
    [] ~MayRetry(r, retryable) /\ attempts[r] + 1 < MaxAttempts -> After(cand[r])
    [] OTHER -> 0

\* A failure that leaves something to try.
Fails(r, retryable) ==
  /\ cand[r] # 0 /\ AfterFailure(r, retryable) # 0
  /\ attempts' = [attempts EXCEPT ![r] = @ + 1]
  /\ sent' = [sent EXCEPT ![r] = @ + 1]
  /\ cand' = [cand EXCEPT ![r] = AfterFailure(r, retryable)]
  /\ retries' = [retries EXCEPT ![r] = IF MayRetry(r, retryable) THEN @ + 1 ELSE 0]

\* A failure after which the dispatch gives up; one without candidates does at once.
GivesUp(r, retryable) == AfterFailure(r, retryable) = 0 /\ Leaves(r)

\* A failure after which the dispatch gives up and its caller makes another one.
StartsOver(r, retryable) ==
  /\ AfterFailure(r, retryable) = 0
  /\ cand' = [cand EXCEPT ![r] = After(0)]
  /\ retries' = [retries EXCEPT ![r] = 0]
  /\ attempts' = [attempts EXCEPT ![r] = 0]
  /\ sent' = [sent EXCEPT ![r] = IF cand[r] = 0 THEN @ ELSE @ + 1]
=============================================================================
