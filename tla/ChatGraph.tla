----------------------------- MODULE ChatGraph -----------------------------
(***************************************************************************)
(* The multi-agent chat graph (agents/graph.py and its nodes): supervisor, *)
(* two specialists, verifier and synthesizer, compiled by LangGraph with a *)
(* checkpointer that keeps the channels of every conversation.             *)
(*                                                                         *)
(* A turn is one run of the graph on the conversation's thread.  It starts *)
(* from the channels the thread was left with, overwrites those its input  *)
(* names, and saves its channels after every node.  Turns of a conversation*)
(* may overlap, and a turn whose client has gone stops between two nodes.  *)
(***************************************************************************)
EXTENDS Naturals

CONSTANTS
  Turns,           \* the turns of one conversation
  MaxRevisions     \* CanonicalVerifier.max_revisions

ASSUME ChatAssumption == MaxRevisions \in Nat

VARIABLES
  thread,   \* the channels of the thread's latest checkpoint
  turn,     \* the channels a turn works on
  at        \* the node it runs next

chatVars == <<thread, turn, at>>

Specialists == {"financial_specialist", "finnapigo_tool"}
Targets     == Specialists \cup {"synthesizer"}
Verdicts    == {"PASS", "NEEDS_REVISION", "FAILED", "REJECTED"}
Nodes       == {"new", "supervisor", "verifier", "done", "gone"} \cup Targets

Channels ==
  [verification_verdict : Verdicts \cup {"none"},
   next_agent           : Targets \cup {"supervisor", "verifier", "none"},
   revision_count       : 0..MaxRevisions,
   results  : BOOLEAN,      \* financial_analysis or tool_calls are not empty
   judged   : Verdicts \cup {"none"},   \* history: the verifier's last word in this turn
   final_response : {"none", "published", "failure_report"}]

FreshThread ==
  [verification_verdict |-> "none", next_agent |-> "none", revision_count |-> 0,
   results |-> FALSE, judged |-> "none", final_response |-> "none"]

ChatTypeOK ==
  /\ thread \in Channels
  /\ turn \in [Turns -> Channels]
  /\ at \in [Turns -> Nodes]

ChatInit ==
  /\ thread = FreshThread
  /\ turn = [t \in Turns |-> FreshThread]
  /\ at = [t \in Turns |-> "new"]

\* The node has run: its writes reach the channels and the checkpoint.
Writes(t, channels, node) ==
  /\ turn' = [turn EXCEPT ![t] = channels]
  /\ thread' = channels
  /\ at' = [at EXCEPT ![t] = node]

\* The initial state names neither the verdict nor the route.
StartTurn(t) ==
  /\ at[t] = "new"
  /\ Writes(t, [thread EXCEPT !.revision_count = 0, !.results = FALSE,
                              !.judged = "none", !.final_response = "none"],
            "supervisor")

\* One revision less is kept on the specialist's route.
UnderRevisionOnce(t) ==
  turn[t].verification_verdict = "NEEDS_REVISION" /\ turn[t].revision_count < 1

UnderRevision(t) ==
  turn[t].verification_verdict = "NEEDS_REVISION" /\ turn[t].revision_count < 2

\* Where the supervisor may send the turn: decide_supervisor_route is a model's
\* decision, and under revision it is asked only when no route is left.
Routes(t) ==
  CASE ~UnderRevision(t) -> Targets
    [] UnderRevision(t) /\ turn[t].next_agent \in Targets -> {turn[t].next_agent}
    [] OTHER -> Specialists

Supervise(t) ==
  /\ at[t] = "supervisor"
  /\ \E target \in Routes(t) : Writes(t, [turn[t] EXCEPT !.next_agent = target], target)

\* A specialist leaves results for the verifier.
HandsOver(t, specialist) ==
  /\ at[t] = specialist
  /\ Writes(t, [turn[t] EXCEPT !.results = TRUE, !.next_agent = "verifier"], "verifier")

\* The analysis computes, or reports what it lacks.
FinancialSpecialist(t) == HandsOver(t, "financial_specialist")

\* The tool is called, blocked or fails.
FinnApiGoTool(t) == HandsOver(t, "finnapigo_tool")

\* A verifier that asks for one more revision than it may.
FailingVerdictLate(t) ==
  IF turn[t].revision_count <= MaxRevisions THEN "NEEDS_REVISION" ELSE "FAILED"

\* What the verifier says of results that are wrong or not grounded.
FailingVerdict(t) ==
  IF turn[t].revision_count < MaxRevisions THEN "NEEDS_REVISION" ELSE "FAILED"

\* A terminal failure sends the turn back as well.
AfterVerdictBack(verdict) ==
  IF verdict \in {"NEEDS_REVISION", "FAILED"} THEN "supervisor" ELSE "synthesizer"

\* route_from_verifier, and the next_agent the verifier writes.
AfterVerdict(verdict) ==
  IF verdict = "NEEDS_REVISION" THEN "supervisor" ELSE "synthesizer"

Verify(t) ==
  /\ at[t] = "verifier"
  /\ \E verdict \in {"PASS", "REJECTED", FailingVerdict(t)} :
       Writes(t, [turn[t] EXCEPT !.verification_verdict = verdict, !.judged = verdict,
                    !.next_agent = AfterVerdict(verdict),
                    !.revision_count = IF verdict = "NEEDS_REVISION" THEN @ + 1 ELSE @],
              AfterVerdict(verdict))

\* Only a failed verification is withheld.
ReportedFailedOnly == {"FAILED"}

\* Verdicts on which the synthesizer renders its failure report.
Reported == {"FAILED", "REJECTED"}

Synthesize(t) ==
  /\ at[t] = "synthesizer"
  /\ Writes(t, [turn[t] EXCEPT !.final_response =
                  IF turn[t].verification_verdict \in Reported
                  THEN "failure_report" ELSE "published"],
            "done")

\* The client has gone: the run is cancelled, its last checkpoint stays.
ClientLeaves(t) ==
  /\ at[t] \notin {"new", "done", "gone"}
  /\ at' = [at EXCEPT ![t] = "gone"]
  /\ UNCHANGED <<thread, turn>>

TurnStep(t) ==
  \/ Supervise(t) \/ FinancialSpecialist(t) \/ FinnApiGoTool(t)
  \/ Verify(t) \/ Synthesize(t)

ChatNext == \E t \in Turns : StartTurn(t) \/ TurnStep(t) \/ ClientLeaves(t)

ChatSpec == ChatInit /\ [][ChatNext]_chatVars

ChatFairness == \A t \in Turns : WF_chatVars(TurnStep(t))

-----------------------------------------------------------------------------
\* What the verifier refused in a turn is not published by that turn, through
\* whatever overlapping turns the thread's channels come from.
RefusedNotPublished ==
  \A t \in Turns :
    turn[t].final_response = "published" => turn[t].judged \notin {"FAILED", "REJECTED"}

\* Results are published as verified once the verifier has passed them in this
\* turn.  The exception is the supervisor's: after the second revision it routes
\* afresh (revision_count < 2 fails) and may skip specialist and verifier.
PublishedWasPassed ==
  \A t \in Turns :
    turn[t].final_response = "published" /\ turn[t].results /\ turn[t].judged # "PASS"
    => turn[t].judged = "NEEDS_REVISION" /\ turn[t].revision_count >= 2

\* Every turn ends unless its client leaves.
TurnsEnd == \A t \in Turns : (at[t] = "supervisor") ~> (at[t] \in {"done", "gone"})
=============================================================================
