--------------------------- MODULE MCAgentEngine ---------------------------
(* Plans for TLC.                                                          *)
EXTENDS AgentEngineInvariants

\* Two independent steps whose outputs a third one joins.
JoinDeps == <<{}, {}, {1, 2}>>

\* One step after the other.
ChainDeps == <<{}, {1}>>

\* Every agent is eligible for every step.
AnyAgent == [s \in Steps |-> Agents]
=============================================================================
