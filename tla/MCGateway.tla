----------------------------- MODULE MCGateway ------------------------------
(* A request set and a routing decision for TLC.                           *)
EXTENDS Gateway

TwoRequests == 1..2

\* A selected candidate, one without an adapter, the selected one again, and
\* a second one.
FourCandidates == <<"primary", "unregistered", "primary", "secondary">>
=============================================================================
