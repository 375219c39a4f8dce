-------------------------- MODULE RequestAuthority --------------------------
(***************************************************************************)
(* The authority of one request while it is being served: the lease of     *)
(* core/identity_state.py, the middleware of core/route_policy.py that     *)
(* admits the request, watches it and stops it, and the flows of the       *)
(* route's handler, each of which checks the lease before an effect and    *)
(* before bytes of the response.                                           *)
(*                                                                         *)
(* A check is an introspection by the identity authority, unless the last  *)
(* good one is recent enough for bytes.  Checks overlap: a denial of one   *)
(* stays with the request.  Clocks count ticks and stop where more makes   *)
(* no difference.                                                          *)
(***************************************************************************)
EXTENDS Naturals

CONSTANTS
  Flows,        \* concurrent activities of the handler, with one lease
  FreshFor,     \* ticks for which a good check serves bytes (10 s)
  WatchPeriod,  \* ticks between two checks by the middleware (10 s)
  AnswerAge,    \* greatest age of an answer that is accepted (5 s)
  MaxActs       \* bound on the effects, and on the messages sent

ASSUME AuthorityAssumption ==
  /\ FreshFor \in Nat \ {0} /\ WatchPeriod \in Nat \ {0}
  /\ AnswerAge \in Nat /\ MaxActs \in Nat

VARIABLES
  watch,       \* where the middleware stands
  handler,     \* the route's task: "none", "running" or "over"
  flow,        \* what each flow awaits a check for: "nothing", "effect" or "bytes"
  response,    \* "none", "open" once it has started, "over"
  denied,      \* AuthorityLease.denial is set
  checkedFor,  \* ticks since checked_monotonic
  waited,      \* ticks the middleware has waited for the handler
  lapsed,      \* the credential has expired, or its signing key was retired
  revoked,     \* the identity authority has withdrawn it
  revokedFor,  \* ticks since
  effects,     \* history: effects authorised
  bytes        \* history: messages of the response sent by the handler

authorityVars == <<watch, handler, flow, response, denied, checkedFor, waited, lapsed,
                   revoked, revokedFor, effects, bytes>>

Long == FreshFor + AnswerAge + 1

AuthorityTypeOK ==
  /\ watch \in {"arriving", "admitting", "routing", "watching", "rechecking", "ended"}
  /\ handler \in {"none", "running", "over"}
  /\ flow \in [Flows -> {"nothing", "effect", "bytes"}]
  /\ response \in {"none", "open", "over"}
  /\ denied \in BOOLEAN /\ lapsed \in BOOLEAN /\ revoked \in BOOLEAN
  /\ checkedFor \in 0..FreshFor /\ waited \in 0..WatchPeriod /\ revokedFor \in 0..Long
  /\ effects \in 0..MaxActs /\ bytes \in 0..MaxActs

AuthorityInit ==
  /\ watch = "arriving" /\ handler = "none" /\ response = "none"
  /\ flow = [f \in Flows |-> "nothing"]
  /\ denied = FALSE /\ lapsed = FALSE /\ revoked = FALSE
  /\ checkedFor = FreshFor /\ waited = 0 /\ revokedFor = 0
  /\ effects = 0 /\ bytes = 0

clocks == <<waited, lapsed, revoked, revokedFor>>

-----------------------------------------------------------------------------
(* AuthorityLease.check                                                    *)

\* A check that is refused at once, without asking.
Barred == denied \/ lapsed

\* Mutant: one good check serves the whole response.
RecentlyCheckedOnce == TRUE

RecentlyChecked == checkedFor < FreshFor

\* An answer that the credential is active can be recent enough.
ActiveAnswer == ~revoked \/ revokedFor <= AnswerAge

\* Mutant: the denial of a check that ended meanwhile is not looked at.
ConfirmedBlind ==
  /\ ActiveAnswer
  /\ checkedFor' = 0 /\ UNCHANGED denied

\* The answer is good, and no other check has been denied while it was awaited.
Confirmed ==
  /\ ActiveAnswer /\ ~denied
  /\ checkedFor' = 0 /\ UNCHANGED denied

\* The answer is bad, stale or missing, or another check has been denied.
Denied == denied' = TRUE /\ UNCHANGED checkedFor

-----------------------------------------------------------------------------
(* The flows of the handler                                                *)

HandlerStops ==
  /\ handler' = "over"
  /\ flow' = [f \in Flows |-> "nothing"]

Performs(f) ==
  /\ effects < MaxActs
  /\ effects' = effects + 1
  /\ flow' = [flow EXCEPT ![f] = "nothing"]
  /\ UNCHANGED <<response, bytes>>

(* The message that starts the response, continues it or ends it.          *)
Sends(f) ==
  /\ bytes < MaxActs /\ response # "over"
  /\ bytes' = bytes + 1
  /\ response' \in {"open", "over"}
  /\ flow' = [flow EXCEPT ![f] = "nothing"]
  /\ UNCHANGED effects

(* A denied effect is an error the handler may deal with; a denied message *)
(* is an exception outside the framework's own, which ends it.             *)
Withheld(act, f) ==
  /\ Denied
  /\ \/ act = "effect" /\ flow' = [flow EXCEPT ![f] = "nothing"] /\ UNCHANGED handler
     \/ act = "bytes" /\ HandlerStops
  /\ UNCHANGED <<response, effects, bytes>>

Ready(f) == handler = "running" /\ flow[f] = "nothing"

(* authorize_effect asks always, guarded_send unless the lease is recent.  *)
Asks(f) ==
  /\ Ready(f) /\ ~Barred
  /\ \/ flow' = [flow EXCEPT ![f] = "effect"]
     \/ /\ ~RecentlyChecked /\ response # "over"
        /\ flow' = [flow EXCEPT ![f] = "bytes"]
  /\ UNCHANGED <<watch, handler, response, denied, checkedFor, clocks, effects, bytes>>

SendsAtOnce(f) ==
  /\ Ready(f) /\ ~Barred /\ RecentlyChecked
  /\ Sends(f)
  /\ UNCHANGED <<watch, handler, denied, checkedFor, clocks>>

RefusedAtOnce(f) ==
  /\ Ready(f) /\ Barred
  /\ Withheld("effect", f) \/ (response # "over" /\ Withheld("bytes", f))
  /\ UNCHANGED <<watch, clocks>>

Proceeds(f) ==
  /\ Confirmed
  /\ \/ flow[f] = "effect" /\ Performs(f)
     \/ flow[f] = "bytes" /\ Sends(f)
  /\ UNCHANGED <<watch, handler, clocks>>

IsRefused(f) ==
  /\ flow[f] # "nothing" /\ Withheld(flow[f], f)
  /\ UNCHANGED <<watch, clocks>>

HandlerEnds ==
  /\ handler = "running" /\ HandlerStops
  /\ UNCHANGED <<watch, response, denied, checkedFor, clocks, effects, bytes>>

-----------------------------------------------------------------------------
(* The middleware                                                          *)

(* The signature is verified, the lease is made and checked.               *)
Arrives ==
  /\ watch = "arriving"
  /\ IF lapsed THEN watch' = "ended" /\ response' = "over"
               ELSE watch' = "admitting" /\ UNCHANGED response
  /\ UNCHANGED <<handler, flow, denied, checkedFor, clocks, effects, bytes>>

IsAdmitted ==
  /\ watch = "admitting" /\ Confirmed
  /\ watch' = "routing"
  /\ UNCHANGED <<handler, flow, response, clocks, effects, bytes>>

NotAdmitted ==
  /\ watch = "admitting" /\ Denied
  /\ watch' = "ended" /\ response' = "over"
  /\ UNCHANGED <<handler, flow, clocks, effects, bytes>>

(* Permissions are compared and the resource's owner is looked up.         *)
NotRouted ==
  /\ watch = "routing"
  /\ watch' = "ended" /\ response' = "over"
  /\ UNCHANGED <<handler, flow, denied, checkedFor, clocks, effects, bytes>>

Routed ==
  /\ watch = "routing"
  /\ watch' = "watching" /\ handler' = "running"
  /\ UNCHANGED <<flow, response, denied, checkedFor, clocks, effects, bytes>>

(* The error is the response, or ends the one that has started; the        *)
(* handler is cancelled first.                                             *)
Stop ==
  /\ watch' = "ended" /\ response' = "over"
  /\ Denied /\ HandlerStops

\* Mutant: the handler is awaited without a timeout.
WatchTimesOutNever == FALSE

WatchTimesOut ==
  /\ watch = "watching" /\ handler = "running" /\ waited = WatchPeriod
  /\ \/ Barred /\ Stop
     \/ /\ ~Barred /\ watch' = "rechecking"
        /\ UNCHANGED <<handler, flow, response, denied, checkedFor>>
  /\ UNCHANGED <<clocks, effects, bytes>>

Rechecked ==
  /\ watch = "rechecking" /\ Confirmed
  /\ watch' = "watching" /\ waited' = 0
  /\ UNCHANGED <<handler, flow, response, lapsed, revoked, revokedFor, effects, bytes>>

RecheckFails ==
  /\ watch = "rechecking" /\ Stop
  /\ UNCHANGED <<clocks, effects, bytes>>

(* However the handler ended, the response is ended with it.               *)
WatchSeesEnd ==
  /\ watch = "watching" /\ handler = "over"
  /\ watch' = "ended" /\ response' = "over"
  /\ UNCHANGED <<handler, flow, denied, checkedFor, clocks, effects, bytes>>

-----------------------------------------------------------------------------
(* The world                                                               *)

Later(clock, most) == IF clock < most THEN clock + 1 ELSE clock

TimePasses ==
  /\ checkedFor' = Later(checkedFor, FreshFor)
  /\ waited' = IF watch = "watching" THEN Later(waited, WatchPeriod) ELSE waited
  /\ revokedFor' = IF revoked THEN Later(revokedFor, Long) ELSE revokedFor
  /\ UNCHANGED <<watch, handler, flow, response, denied, lapsed, revoked, effects, bytes>>

Lapses ==
  /\ ~lapsed /\ lapsed' = TRUE
  /\ UNCHANGED <<watch, handler, flow, response, denied, checkedFor, waited, revoked,
                 revokedFor, effects, bytes>>

IsRevoked ==
  /\ ~revoked /\ revoked' = TRUE
  /\ UNCHANGED <<watch, handler, flow, response, denied, checkedFor, waited, lapsed,
                 revokedFor, effects, bytes>>

-----------------------------------------------------------------------------
FlowStep(f) ==
  \/ Asks(f) \/ SendsAtOnce(f) \/ RefusedAtOnce(f) \/ Proceeds(f) \/ IsRefused(f)

WatchStep ==
  \/ Arrives \/ IsAdmitted \/ NotAdmitted \/ NotRouted \/ Routed
  \/ WatchTimesOut \/ Rechecked \/ RecheckFails \/ WatchSeesEnd

AuthorityNext ==
  \/ \E f \in Flows : FlowStep(f)
  \/ HandlerEnds \/ WatchStep \/ TimePasses \/ Lapses \/ IsRevoked

AuthoritySpec == AuthorityInit /\ [][AuthorityNext]_authorityVars

-----------------------------------------------------------------------------
(* Properties                                                              *)

(* A denial stays with the request: once one check of it has been denied,  *)
(* none that was under way authorises an effect or a message any more.     *)
DenialIsFinal ==
  [][denied => denied' /\ effects' = effects /\ bytes' = bytes]_authorityVars

(* An effect is authorised by an answer at most AnswerAge old, a message   *)
(* by one that was so at most FreshFor ticks ago: what is sent after a     *)
(* revocation is sent within the sum of the two.                           *)
RevocationHeeded ==
  [][/\ effects' # effects /\ revoked => revokedFor <= AnswerAge
     /\ bytes' # bytes /\ revoked => revokedFor < FreshFor + AnswerAge]_authorityVars

(* A handler whose credential was withdrawn is stopped, also one that      *)
(* neither sends nor does anything that is checked.                        *)
WithdrawnIsStopped ==
  (revoked \/ lapsed) /\ handler = "running" ~> handler # "running"
=============================================================================
