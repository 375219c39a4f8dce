------------------------------ MODULE Gateway -------------------------------
(***************************************************************************)
(* Inference requests of one tenant from reservation to settlement:        *)
(* services/ai_gateway.py (chat_completions and chat_completions_stream)   *)
(* and api/v1/endpoints/chat.py (the SSE stream of the agent graph), over  *)
(* the budget, the circuit breaker, the provider failover and the response *)
(* caches they share.  All requests carry the same prompt, so that one can *)
(* be answered from the cache entry another one has left.                  *)
(*                                                                         *)
(* A request is an asyncio task: an action is what it does between two     *)
(* awaits that suspend.  Requests arrive in the order of their numbers.    *)
(***************************************************************************)
EXTENDS Budget, CircuitBreaker, Failover

CONSTANTS
  Actuals,    \* tokens a settled request may turn out to have used
  MaxActual   \* the most a request can use: its calls and their lengths are limited

ASSUME GatewayAssumption ==
  /\ Requests \subseteq Nat /\ Callers = Requests
  /\ MaxActual \in Nat /\ Actuals \subseteq 0..MaxActual

VARIABLES
  req,    \* the handler of each request: see Handlers
  cache   \* the prompt's exact entry for the gateway and for the SSE stream

vars == <<req, cache, budgetVars, breakerVars, failoverVars>>

Kinds    == {"chat", "stream", "sse"}
Texts    == {"none", "genuine", "legacy", "fallback"}
Outcomes == {"none", "answered", "denied", "refused", "blocked", "failed", "gone",
             "cancelled", "abandoned"}
Places   == {"new", "reserve", "reserveMem", "screen", "lookup", "replay", "call",
             "work", "inspect", "store", "words", "settle", "refund", "settleMem",
             "refundMem", "end"}

Handlers ==
  [kind     : Kinds,         \* "chat", "stream" (gateway) or "sse" (chat.py)
   pc       : Places,        \* where it stands
   text     : Texts,         \* what it answers with
   round    : 0..2,          \* dispatches it has started
   outcome  : Outcomes,      \* history: how the request ends
   settles  : Nat]           \* accounting_recorded, as a count of settlements begun

Fresh == [kind |-> "chat", pc |-> "new", text |-> "none", round |-> 0,
          outcome |-> "none", settles |-> 0]

TypeOK ==
  /\ BudgetTypeOK /\ BreakerTypeOK /\ FailoverTypeOK
  /\ req \in [Requests -> Handlers]
  /\ cache \in [{"gateway", "sse"} -> Texts]

Init ==
  /\ BudgetInit /\ BreakerInit /\ FailoverInit
  /\ req = [r \in Requests |-> Fresh]
  /\ cache = [t \in {"gateway", "sse"} |-> "none"]

At(r, places) == req[r].pc \in places
Kind(r)       == req[r].kind

\* The cache an entry point looks into: their identities differ in the provider.
Tier(r) == IF Kind(r) = "sse" THEN "sse" ELSE "gateway"

Goto(r, place) == req' = [req EXCEPT ![r].pc = place]

\* The handler's locals go with it.
End(r, how) ==
  req' = [req EXCEPT ![r] = [Fresh EXCEPT !.kind = Kind(r), !.pc = "end", !.outcome = how]]

\* The handler turns to its settlement, having decided how the request ends.
BeginSettle(r, how) ==
  req' = [req EXCEPT ![r].pc = "settle", ![r].outcome = how, ![r].settles = @ + 1]

BeginRefund(r, how) ==
  req' = [req EXCEPT ![r].pc = "refund", ![r].outcome = how, ![r].settles = @ + 1]

\* A handler that settles without looking whether it has done so.
SettleOnErrorAgain(r, how) == BeginSettle(r, how)

\* An exception or a cancellation of the SSE stream settles what is not settled.
SettleOnError(r, how) ==
  IF req[r].settles > 0 THEN End(r, how) ELSE BeginSettle(r, how)

-----------------------------------------------------------------------------
(* Reservation                                                             *)

Arrive(r) ==
  /\ At(r, {"new"}) /\ \A q \in Requests : q < r => ~At(q, {"new"})
  /\ \E k \in Kinds : req' = [req EXCEPT ![r].pc = "reserve", ![r].kind = k]
  /\ UNCHANGED <<cache, budgetVars, breakerVars, failoverVars>>

\* A request over the quota waits for it.
DeniedWaits(r) == UNCHANGED req

Denied(r) == End(r, "denied")

Granted(r) == Goto(r, IF Kind(r) = "sse" THEN "screen" ELSE "lookup")

Reserve(r) ==
  /\ \/ At(r, {"reserve"}) /\ ScriptReserves(r, TRUE) /\ Granted(r)
     \/ At(r, {"reserve"}) /\ ScriptReserves(r, FALSE) /\ Goto(r, "reserveMem")
     \/ At(r, {"reserve"}) /\ RedisUnreached /\ Goto(r, "reserveMem")
     \/ At(r, {"reserve"}) /\ ScriptDenies /\ Denied(r)
     \/ /\ At(r, {"reserveMem"}) \/ (At(r, {"reserve"}) /\ client = "latched")
        /\ \/ MemoryReserves(r) /\ Granted(r)
           \/ MemoryDenies /\ Denied(r)
  /\ UNCHANGED <<cache, breakerVars, failoverVars>>

\* The SSE stream's input guardrail: nothing was sent upstream yet.
Screen(r) ==
  /\ At(r, {"screen"})
  /\ Goto(r, "lookup") \/ BeginRefund(r, "refused")
  /\ UNCHANGED <<cache, budgetVars, breakerVars, failoverVars>>

-----------------------------------------------------------------------------
(* Cache                                                                   *)

\* Where a miss leads: the SSE stream runs the agent graph, a gateway stream
\* dispatches at once, chat_completions asks the breaker first.
Miss(r) ==
  \/ /\ Kind(r) = "sse"
     /\ Goto(r, "work") /\ UNCHANGED <<breakerVars, failoverVars>>
  \/ /\ Kind(r) = "stream" \/ (Kind(r) = "chat" /\ (state # "OPEN" \/ cooled))
     /\ Dispatch(r)
     /\ req' = [req EXCEPT ![r].pc = "call", ![r].round = 1]
     /\ IF Kind(r) = "chat" THEN Admit ELSE UNCHANGED breakerVars
  \/ /\ Kind(r) = "chat" /\ Refuse
     /\ req' = [req EXCEPT ![r].pc = "inspect", ![r].text = "fallback"]
     /\ UNCHANGED failoverVars

\* A hit of chat_completions that is not refunded.
HitUnrefunded(r) ==
  IF Kind(r) = "chat"
  THEN End(r, "answered")
  ELSE req' = [req EXCEPT ![r].pc = "replay"]

\* A cached text passes the output guardrail once more, except in the SSE stream.
Hit(r) ==
  \/ Kind(r) = "chat" /\ BeginRefund(r, "answered")
  \/ Kind(r) # "chat" /\ Goto(r, "replay")
  \/ Kind(r) # "sse" /\ End(r, "blocked")

\* The SSE stream passes the cache by when the edge proxy has looked already.
Lookup(r) ==
  /\ At(r, {"lookup"})
  /\ \/ (cache[Tier(r)] = "none" \/ Kind(r) = "sse") /\ Miss(r)
     \/ cache[Tier(r)] # "none" /\ Hit(r) /\ UNCHANGED <<breakerVars, failoverVars>>
  /\ UNCHANGED <<cache, budgetVars>>

\* A hit has been streamed to its end.
Replay(r) ==
  /\ At(r, {"replay"})
  /\ BeginRefund(r, "answered")
  /\ UNCHANGED <<cache, budgetVars, breakerVars, failoverVars>>

\* The client is found disconnected between two words of a hit.
ReplayCut(r) ==
  /\ At(r, {"replay"})
  /\ End(r, "gone")
  /\ UNCHANGED <<cache, budgetVars, breakerVars, failoverVars>>

\* The cache raises, because the authority of the request was withdrawn: only
\* the SSE stream settles on its way out.
CacheRaises(r) ==
  /\ faults < MaxFaults /\ faults' = faults + 1
  /\ \/ Kind(r) # "sse" /\ At(r, {"lookup"}) /\ End(r, "failed")
     \/ Kind(r) = "chat" /\ At(r, {"store"}) /\ End(r, "failed")
     \/ Kind(r) = "stream" /\ At(r, {"store"}) /\ End(r, req[r].outcome)
     \/ Kind(r) = "sse" /\ At(r, {"lookup", "store"}) /\ SettleOnError(r, "failed")
  /\ UNCHANGED <<cache, client, redisUsed, memUsed, redisMarks, memMarks, doubled,
                 held, spent, breakerVars, failoverVars>>

\* The entry's time to live ends.
Expire(t) ==
  /\ cache[t] # "none"
  /\ cache' = [cache EXCEPT ![t] = "none"]
  /\ UNCHANGED <<req, budgetVars, breakerVars, failoverVars>>

-----------------------------------------------------------------------------
(* Providers                                                               *)

Answered(r) ==
  /\ At(r, {"call"}) /\ Answers(r)
  /\ req' = [req EXCEPT ![r].pc = "inspect", ![r].text = IF req[r].round = 2 THEN "legacy" ELSE "genuine"]
  /\ IF Kind(r) = "chat" THEN RecordSuccess ELSE UNCHANGED breakerVars
  /\ UNCHANGED <<cache, budgetVars>>

AttemptFails(r) ==
  /\ At(r, {"call"})
  /\ \E retryable \in BOOLEAN : Fails(r, retryable)
  /\ UNCHANGED <<req, cache, budgetVars, breakerVars>>

\* A dispatch of chat_completions that failed as a whole is made once more
\* through the legacy call; then the breaker counts one failure.
DispatchFails(r) ==
  /\ At(r, {"call"})
  /\ \E retryable \in BOOLEAN :
       IF Kind(r) = "chat" /\ req[r].round = 1
       THEN /\ StartsOver(r, retryable)
            /\ req' = [req EXCEPT ![r].round = 2]
            /\ UNCHANGED breakerVars
       ELSE /\ GivesUp(r, retryable)
            /\ req' = [req EXCEPT ![r].pc = "inspect", ![r].text = "fallback"]
            /\ IF Kind(r) = "chat" THEN RecordFailure ELSE UNCHANGED breakerVars
  /\ UNCHANGED <<cache, budgetVars>>

\* The agent graph of the SSE stream: it answers (with its canned text when
\* its own model call failed), ends without an answer, raises, exceeds the
\* stream's time limit, or the client is found disconnected.
Work(r) ==
  /\ At(r, {"work"})
  /\ \/ \E t \in {"genuine", "fallback"} :
          req' = [req EXCEPT ![r].pc = "inspect", ![r].text = t]
     \/ \E how \in {"answered", "failed", "gone"} : BeginSettle(r, how)
  /\ UNCHANGED <<cache, budgetVars, breakerVars, failoverVars>>

-----------------------------------------------------------------------------
(* Answer                                                                  *)

\* What becomes of a text that passed the output guardrail: chat_completions
\* caches the text of its first dispatch before it settles, the gateway stream
\* sends its words, SSE caches unless a tool has run.
Release(r) ==
  \/ Kind(r) = "chat" /\ req[r].text = "genuine" /\ Goto(r, "store")
  \/ Kind(r) = "chat" /\ req[r].text # "genuine" /\ BeginSettle(r, "answered")
  \/ Kind(r) = "stream" /\ Goto(r, "words")
  \/ Kind(r) = "sse" /\ \E place \in {"store", "words"} : Goto(r, place)

\* A text the guardrail blocks is settled by the SSE stream only.
Block(r) ==
  IF Kind(r) = "sse" THEN BeginSettle(r, "blocked") ELSE End(r, "blocked")

Inspect(r) ==
  /\ At(r, {"inspect"})
  /\ Release(r) \/ Block(r)
  /\ UNCHANGED <<cache, budgetVars, breakerVars, failoverVars>>

\* The client goes away: a gateway stream caches only a complete text.
CutShort(r, how, text) ==
  req' = [req EXCEPT ![r].pc = "settle", ![r].outcome = how, ![r].text = text,
                     ![r].settles = @ + 1]

\* The words are sent to the last one, or the client is found disconnected
\* before: either way the handler settles.
Words(r) ==
  /\ At(r, {"words"})
  /\ BeginSettle(r, "answered") \/ CutShort(r, "gone", "none")
  /\ UNCHANGED <<cache, budgetVars, breakerVars, failoverVars>>

Store(r) ==
  /\ At(r, {"store"})
  /\ cache' = [cache EXCEPT ![Tier(r)] = req[r].text]
  /\ \/ Kind(r) = "chat" /\ BeginSettle(r, "answered")
     \/ Kind(r) = "sse" /\ Goto(r, "words")
     \/ Kind(r) = "stream" /\ End(r, req[r].outcome)
  /\ UNCHANGED <<budgetVars, breakerVars, failoverVars>>

-----------------------------------------------------------------------------
(* Settlement                                                              *)

\* Whatever was streamed is cached.
ConcludeCaching(r) ==
  IF Kind(r) = "stream" /\ req[r].text # "none"
  THEN Goto(r, "store") ELSE End(r, req[r].outcome)

\* A gateway stream caches a provider's text once it is settled.
Conclude(r) ==
  IF Kind(r) = "stream" /\ req[r].text = "genuine"
  THEN Goto(r, "store") ELSE End(r, req[r].outcome)

Used(r) == IF At(r, {"refund", "refundMem"}) THEN {0} ELSE Actuals

Settle(r) ==
  /\ At(r, {"settle", "refund", "settleMem", "refundMem"})
  /\ \E actual \in Used(r) :
       \/ /\ At(r, {"settle", "refund"})
          /\ ScriptFinalizes(r, actual, TRUE) /\ Conclude(r)
       \/ /\ At(r, {"settle", "refund"})
          /\ (ScriptFinalizes(r, actual, FALSE) \/ RedisUnreached)
          /\ Goto(r, IF At(r, {"settle"}) THEN "settleMem" ELSE "refundMem")
       \/ /\ At(r, {"settleMem", "refundMem"}) \/ client = "latched"
          /\ MemoryFinalizes(r, actual) /\ Conclude(r)
  /\ UNCHANGED <<cache, breakerVars, failoverVars>>

-----------------------------------------------------------------------------
(* Departures of a streaming client that the handler does not poll for     *)

Streaming(r) == Kind(r) \in {"stream", "sse"}

\* The handler's task is cancelled at an await.
Cancelled(r) ==
  /\ Streaming(r) /\ At(r, {"lookup", "replay", "call", "work", "store", "words"})
  /\ \/ Kind(r) = "sse" /\ SettleOnError(r, "cancelled")
     \/ /\ Kind(r) = "stream" /\ At(r, {"words"})
        /\ \E text \in {"none", req[r].text} : CutShort(r, "cancelled", text)
     \/ Kind(r) = "stream" /\ ~At(r, {"words"}) /\ End(r, "cancelled")
  /\ Leaves(r)
  /\ UNCHANGED <<cache, budgetVars, breakerVars>>

\* The cancellation strikes while the settlement awaits Redis: the script has
\* run or it has not.  The SSE stream's handler finds the accounting recorded.
CancelledSettling(r) ==
  /\ Streaming(r) /\ At(r, {"settle", "refund"}) /\ client = "connected"
  /\ \/ \E actual \in Used(r) : ScriptFinalizes(r, actual, TRUE)
     \/ UNCHANGED budgetVars
  /\ IF Kind(r) = "sse" THEN SettleOnError(r, "cancelled") ELSE End(r, "cancelled")
  /\ UNCHANGED <<cache, breakerVars, failoverVars>>

\* The generator is closed at a yield, or was never started: GeneratorExit is no
\* Exception, so only a finally clause runs.
Abandoned(r) ==
  /\ Streaming(r)
  /\ \/ /\ Kind(r) = "stream" /\ At(r, {"words"})
        /\ \E text \in {"none", req[r].text} : CutShort(r, "abandoned", text)
     \/ Kind(r) = "stream" /\ At(r, {"replay"}) /\ End(r, "abandoned")
     \/ /\ Kind(r) = "sse" /\ At(r, {"screen", "lookup", "replay", "work", "words"})
        /\ End(r, "abandoned")
  /\ UNCHANGED <<cache, budgetVars, breakerVars, failoverVars>>

-----------------------------------------------------------------------------
\* The steps a handler takes by itself, given answers from Redis and providers.
Progress(r) ==
  \/ Reserve(r) \/ Screen(r) \/ Lookup(r) \/ Replay(r) \/ Answered(r)
  \/ AttemptFails(r) \/ DispatchFails(r) \/ Work(r) \/ Inspect(r) \/ Words(r)
  \/ Store(r) \/ Settle(r)

Departure(r) ==
  ReplayCut(r) \/ CacheRaises(r) \/ Cancelled(r) \/ CancelledSettling(r) \/ Abandoned(r)

Clock ==
  /\ CoolDown
  /\ UNCHANGED <<req, cache, budgetVars, failoverVars>>

Next ==
  \/ \E r \in Requests : Arrive(r) \/ Progress(r) \/ Departure(r)
  \/ \E t \in {"gateway", "sse"} : Expire(t)
  \/ Clock

Spec == Init /\ [][Next]_vars

\* An arrived request is scheduled again and again until it has ended.
FairSpec == Spec /\ \A r \in Requests : WF_vars(Progress(r))

-----------------------------------------------------------------------------
\* The two usage counters together never fall short of what is held and spent,
\* whichever store each half of a reservation reached, unless the answer of a
\* finalizing script was lost; while no call has raised they are exact.
CountersCoverUse ==
  /\ "finalize" \notin doubled => redisUsed + memUsed >= Committed
  /\ faults = 0 => redisUsed + memUsed = Committed

\* Concurrent requests cannot oversubscribe the quota of the store in use: what they
\* hold and have spent exceeds it by no more than the estimates of the settled ones
\* were short of their use.  Once Redis has failed the memory store grants its own
\* quota besides, which need not be the tenant's.
Overrun   == IF MaxActual > Estimate THEN MaxActual - Estimate ELSE 0
Shortfall == Overrun * Cardinality(redisMarks \cup memMarks)

QuotaInForce ==
  IF faults > 0 THEN RedisLimit + MemoryLimit
  ELSE IF client = "connected" THEN RedisLimit ELSE MemoryLimit

SpendBounded ==
  "finalize" \notin doubled => Committed <= QuotaInForce + Shortfall

\* No exit path settles a request a second time, not even an exception or a
\* cancellation that follows the settlement; and none is charged to both stores,
\* unless the answer of a finalizing script was lost.
SettledAtMostOnce ==
  /\ \A r \in Requests : req[r].settles <= 1
  /\ "finalize" \notin doubled => redisMarks \cap memMarks = {}

\* A request that was answered has given its reservation back or paid for it,
\* however Redis failed.
AnsweredIsSettled ==
  \A r \in Requests : At(r, {"end"}) /\ req[r].outcome = "answered" => r \notin held

\* The offline text of a gateway outage is never cached as a provider's answer.
OutageTextNotCached == cache["gateway"] # "fallback"

\* Retries, fallbacks and the legacy second dispatch stay within the ceiling: a
\* provider is called only while the request's calls are below it.
AttemptsBounded ==
  \A r \in Requests : cand[r] # 0 => sent[r] < req[r].round * MaxAttempts

\* Every request that arrives ends, whatever providers and Redis answer.
RequestsEnd == \A r \in Requests : At(r, {"reserve"}) ~> At(r, {"end"})

\* Every terminal path of the SSE generator that the handler itself returns from
\* finalizes the reservation (docstring of generate_chat_stream).
TerminalPathsFinalize ==
  \A r \in Requests :
    (At(r, {"end"}) /\ Kind(r) = "sse" /\ faults = 0
       /\ req[r].outcome \in {"answered", "refused", "blocked", "failed", "gone"})
    => r \notin held
=============================================================================
