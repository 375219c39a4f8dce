--------------------------- MODULE ServicesProofs ---------------------------
(***************************************************************************)
(* Theorems about the services, for every set of turns, tasks, workers,    *)
(* slots and operations and every bound on faults.  Each component has an  *)
(* inductive invariant of its own; a step of Services is a step of one of  *)
(* them and leaves the others alone.  A turn of the chat graph runs out of *)
(* nodes, and the ingestion queue implements TaskPath.                     *)
(***************************************************************************)
EXTENDS Services, TLAPS

(* The chat graph                                                          *)

\* What a turn under way carries: it has published nothing, and the verdict it
\* works with is the last one given in it.
VerdictIsCurrent ==
  \A t \in Turns :
    /\ at[t] # "done" => turn[t].final_response = "none"
    /\ turn[t].judged # "none" => turn[t].verification_verdict = turn[t].judged

\* Results reach the supervisor or the synthesizer through the verifier only.
ResultsWereJudged ==
  \A t \in Turns : turn[t].results =>
    /\ at[t] = "supervisor" => turn[t].judged = "NEEDS_REVISION"
                               /\ turn[t].next_agent = "supervisor"
    /\ at[t] = "synthesizer" =>
         \/ turn[t].judged \in {"PASS", "FAILED", "REJECTED"}
         \/ turn[t].judged = "NEEDS_REVISION" /\ turn[t].revision_count >= 2

ChatInv ==
  ChatTypeOK /\ VerdictIsCurrent /\ ResultsWereJudged
  /\ RefusedNotPublished /\ PublishedWasPassed

\* A conversation nobody has spoken in yet.
LEMMA ChatInitInv == ChatInit => ChatInv
  BY ChatAssumption
  DEF ChatAssumption, ChatInit, ChatInv, ChatTypeOK, VerdictIsCurrent, ResultsWereJudged,
      RefusedNotPublished, PublishedWasPassed, FreshThread, Channels, Nodes

\* A node writes channels of the right type: its writes keep the types.
LEMMA WritesTypes ==
  ASSUME ChatTypeOK, NEW t \in Turns, NEW c \in Channels, NEW n \in Nodes,
         Writes(t, c, n)
  PROVE  ChatTypeOK' /\ turn'[t] = c /\ at'[t] = n
         /\ \A o \in Turns \ {t} : turn'[o] = turn[o] /\ at'[o] = at[o]
  BY DEF ChatTypeOK, Writes

\* A turn that starts takes the verdict and the route of the thread with it, not
\* the results.
LEMMA StartTurnInv ==
  ASSUME ChatInv, NEW t \in Turns, StartTurn(t) PROVE ChatInv'
  <1> DEFINE c == [thread EXCEPT !.revision_count = 0, !.results = FALSE,
                                 !.judged = "none", !.final_response = "none"]
  <1>1. c \in Channels
    <2>1. thread \in Channels
      BY DEF ChatInv, ChatTypeOK
    <2>2. 0 \in 0..MaxRevisions
      BY ChatAssumption DEF ChatAssumption
    <2> QED
      BY <2>1, <2>2, Zenon DEF Channels
  <1>2. ChatTypeOK' /\ turn'[t] = c /\ at'[t] = "supervisor"
        /\ \A o \in Turns \ {t} : turn'[o] = turn[o] /\ at'[o] = at[o]
    BY <1>1, WritesTypes DEF ChatInv, StartTurn, Nodes
  <1>3. c.results = FALSE /\ c.judged = "none" /\ c.final_response = "none"
    BY DEF ChatInv, ChatTypeOK, Channels
  <1> HIDE DEF c
  <1> QED
    BY <1>2, <1>3 DEF ChatInv, VerdictIsCurrent, ResultsWereJudged, RefusedNotPublished,
       PublishedWasPassed

\* The supervisor passes results on without a new verdict only when two revisions
\* are behind it.
LEMMA SuperviseInv ==
  ASSUME ChatInv, NEW t \in Turns, Supervise(t) PROVE ChatInv'
  <1>1. PICK target \in Routes(t) :
          Writes(t, [turn[t] EXCEPT !.next_agent = target], target)
    BY DEF Supervise
  <1> DEFINE c == [turn[t] EXCEPT !.next_agent = target]
  <1>2. turn[t] \in Channels /\ at[t] = "supervisor"
    BY DEF Supervise, ChatInv, ChatTypeOK
  <1>3. target \in Targets
    BY DEF Routes, Targets
  <1>4. c \in Channels /\ target \in Nodes
    BY <1>2, <1>3 DEF Channels, Nodes, Targets
  <1>5. ChatTypeOK' /\ turn'[t] = c /\ at'[t] = target
        /\ \A o \in Turns \ {t} : turn'[o] = turn[o] /\ at'[o] = at[o]
    BY <1>1, <1>4, WritesTypes DEF ChatInv
  <1>6. /\ c.results = turn[t].results /\ c.judged = turn[t].judged
        /\ c.verification_verdict = turn[t].verification_verdict
        /\ c.final_response = turn[t].final_response
        /\ c.revision_count = turn[t].revision_count
    BY <1>2 DEF Channels
  <1>7. turn[t].final_response = "none" /\ target # "done" /\ target # "supervisor"
    BY <1>2, <1>3 DEF ChatInv, VerdictIsCurrent, Targets, Specialists
  <1>8. turn[t].results /\ target = "synthesizer" =>
          turn[t].judged = "NEEDS_REVISION" /\ turn[t].revision_count >= 2
    <2> SUFFICES ASSUME turn[t].results, target = "synthesizer"
                 PROVE  turn[t].judged = "NEEDS_REVISION" /\ turn[t].revision_count >= 2
      OBVIOUS
    <2>1. turn[t].judged = "NEEDS_REVISION" /\ turn[t].next_agent = "supervisor"
          /\ turn[t].verification_verdict = "NEEDS_REVISION"
      BY <1>2 DEF ChatInv, ResultsWereJudged, VerdictIsCurrent
    <2>2. ~UnderRevision(t)
      BY <2>1 DEF Routes, Targets, Specialists
    <2>3. turn[t].revision_count \in Nat
      BY <1>2, ChatAssumption DEF Channels, ChatAssumption
    <2> QED
      BY <2>1, <2>2, <2>3 DEF UnderRevision
  <1> HIDE DEF c
  <1> QED
    BY <1>5, <1>6, <1>7, <1>8 DEF ChatInv, VerdictIsCurrent, ResultsWereJudged,
       RefusedNotPublished, PublishedWasPassed

\* A specialist hands its results to the verifier.
LEMMA HandsOverInv ==
  ASSUME ChatInv, NEW t \in Turns, NEW s \in Specialists, HandsOver(t, s) PROVE ChatInv'
  <1> DEFINE c == [turn[t] EXCEPT !.results = TRUE, !.next_agent = "verifier"]
  <1>1. turn[t] \in Channels /\ at[t] = s
    BY DEF HandsOver, ChatInv, ChatTypeOK
  <1>2. c \in Channels /\ "verifier" \in Nodes
    BY <1>1 DEF Channels, Nodes
  <1>3. ChatTypeOK' /\ turn'[t] = c /\ at'[t] = "verifier"
        /\ \A o \in Turns \ {t} : turn'[o] = turn[o] /\ at'[o] = at[o]
    BY <1>2, WritesTypes DEF ChatInv, HandsOver
  <1>4. /\ c.judged = turn[t].judged /\ c.final_response = turn[t].final_response
        /\ c.verification_verdict = turn[t].verification_verdict
    BY <1>1 DEF Channels
  <1>5. turn[t].final_response = "none"
    BY <1>1 DEF ChatInv, VerdictIsCurrent, Specialists
  <1> HIDE DEF c
  <1> QED
    BY <1>3, <1>4, <1>5 DEF ChatInv, VerdictIsCurrent, ResultsWereJudged,
       RefusedNotPublished, PublishedWasPassed

\* The verifier's verdict is the turn's, and decides where it goes.
LEMMA VerifyInv ==
  ASSUME ChatInv, NEW t \in Turns, Verify(t) PROVE ChatInv'
  <1>1. PICK verdict \in {"PASS", "REJECTED", FailingVerdict(t)} :
          Writes(t, [turn[t] EXCEPT !.verification_verdict = verdict, !.judged = verdict,
                       !.next_agent = AfterVerdict(verdict),
                       !.revision_count = IF verdict = "NEEDS_REVISION" THEN @ + 1 ELSE @],
                 AfterVerdict(verdict))
    BY DEF Verify
  <1> DEFINE c == [turn[t] EXCEPT !.verification_verdict = verdict, !.judged = verdict,
                     !.next_agent = AfterVerdict(verdict),
                     !.revision_count = IF verdict = "NEEDS_REVISION" THEN @ + 1 ELSE @]
  <1>2. turn[t] \in Channels /\ at[t] = "verifier"
    BY DEF Verify, ChatInv, ChatTypeOK
  <1>3. verdict \in Verdicts
        /\ (verdict = "NEEDS_REVISION" => turn[t].revision_count < MaxRevisions)
    BY DEF FailingVerdict, Verdicts
  <1>4. c \in Channels
    <2>1. turn[t].revision_count \in 0..MaxRevisions
      BY <1>2 DEF Channels
    <2> DEFINE n == IF verdict = "NEEDS_REVISION" THEN turn[t].revision_count + 1
                    ELSE turn[t].revision_count
    <2>2. n \in 0..MaxRevisions
      BY <1>3, <2>1, ChatAssumption DEF ChatAssumption
    <2>3. verdict \in Verdicts \cup {"none"}
          /\ AfterVerdict(verdict) \in Targets \cup {"supervisor", "verifier", "none"}
      BY <1>3 DEF AfterVerdict, Targets
    <2>4. c = [turn[t] EXCEPT !.verification_verdict = verdict, !.judged = verdict,
                 !.next_agent = AfterVerdict(verdict), !.revision_count = n]
      BY DEF Channels
    <2> HIDE DEF c, n
    <2> QED
      BY <1>2, <2>2, <2>3, <2>4, Zenon DEF Channels
  <1>5. AfterVerdict(verdict) \in Nodes
    BY DEF AfterVerdict, Nodes, Targets
  <1>6. ChatTypeOK' /\ turn'[t] = c /\ at'[t] = AfterVerdict(verdict)
        /\ \A o \in Turns \ {t} : turn'[o] = turn[o] /\ at'[o] = at[o]
    BY <1>1, <1>4, <1>5, WritesTypes DEF ChatInv
  <1>7. /\ c.judged = verdict /\ c.verification_verdict = verdict
        /\ c.next_agent = AfterVerdict(verdict)
        /\ c.final_response = turn[t].final_response
    BY <1>2 DEF Channels
  <1>8. turn[t].final_response = "none"
    BY <1>2 DEF ChatInv, VerdictIsCurrent
  <1> HIDE DEF c
  <1> QED
    BY <1>3, <1>6, <1>7, <1>8 DEF ChatInv, VerdictIsCurrent, ResultsWereJudged,
       RefusedNotPublished, PublishedWasPassed, AfterVerdict, Verdicts

\* The synthesizer publishes nothing under a verdict it reports as a failure.
LEMMA SynthesizeInv ==
  ASSUME ChatInv, NEW t \in Turns, Synthesize(t) PROVE ChatInv'
  <1> DEFINE r == IF turn[t].verification_verdict \in Reported
                  THEN "failure_report" ELSE "published"
  <1> DEFINE c == [turn[t] EXCEPT !.final_response = r]
  <1>1. turn[t] \in Channels /\ at[t] = "synthesizer"
    BY DEF Synthesize, ChatInv, ChatTypeOK
  <1>2. c \in Channels /\ "done" \in Nodes
    BY <1>1 DEF Channels, Nodes
  <1>3. ChatTypeOK' /\ turn'[t] = c /\ at'[t] = "done"
        /\ \A o \in Turns \ {t} : turn'[o] = turn[o] /\ at'[o] = at[o]
    BY <1>2, WritesTypes DEF ChatInv, Synthesize
  <1>4. /\ c.judged = turn[t].judged /\ c.results = turn[t].results
        /\ c.verification_verdict = turn[t].verification_verdict
        /\ c.revision_count = turn[t].revision_count
        /\ c.final_response = r
    BY <1>1 DEF Channels
  <1>5. r = "published" => turn[t].judged \notin {"FAILED", "REJECTED"}
    BY DEF ChatInv, VerdictIsCurrent, Reported
  <1>6. r = "published" /\ turn[t].results /\ turn[t].judged # "PASS" =>
          turn[t].judged = "NEEDS_REVISION" /\ turn[t].revision_count >= 2
    BY <1>1, <1>5 DEF ChatInv, ResultsWereJudged
  <1> HIDE DEF c, r
  <1> QED
    BY <1>3, <1>4, <1>5, <1>6 DEF ChatInv, VerdictIsCurrent, ResultsWereJudged,
       RefusedNotPublished, PublishedWasPassed

\* A turn that is cancelled has published nothing.
LEMMA ClientLeavesInv ==
  ASSUME ChatInv, NEW t \in Turns, ClientLeaves(t) PROVE ChatInv'
  <1>1. at' = [at EXCEPT ![t] = "gone"] /\ turn' = turn /\ thread' = thread /\ at[t] # "done"
    BY DEF ClientLeaves
  <1>2. ChatTypeOK'
    BY <1>1 DEF ChatInv, ChatTypeOK, Nodes
  <1>3. at'[t] = "gone" /\ \A o \in Turns \ {t} : at'[o] = at[o]
    BY <1>1 DEF ChatInv, ChatTypeOK
  <1> QED
    BY <1>1, <1>2, <1>3 DEF ChatInv, VerdictIsCurrent, ResultsWereJudged,
       RefusedNotPublished, PublishedWasPassed

\* Every step of the graph preserves the invariant.
LEMMA ChatStepInv == ChatInv /\ [ChatNext]_chatVars => ChatInv'
  <1> SUFFICES ASSUME ChatInv, [ChatNext]_chatVars PROVE ChatInv'
    OBVIOUS
  <1>1. CASE UNCHANGED chatVars
    BY <1>1 DEF chatVars, ChatInv, ChatTypeOK, VerdictIsCurrent, ResultsWereJudged,
       RefusedNotPublished, PublishedWasPassed
  <1>2. ASSUME NEW t \in Turns, StartTurn(t) \/ TurnStep(t) \/ ClientLeaves(t)
        PROVE  ChatInv'
    BY <1>2, StartTurnInv, SuperviseInv, HandsOverInv, VerifyInv, SynthesizeInv,
       ClientLeavesInv
    DEF TurnStep, FinancialSpecialist, FinnApiGoTool, Specialists
  <1> QED
    BY <1>1, <1>2 DEF ChatNext

\* Whatever the other services do, a step is one of the graph or leaves it alone.
LEMMA ChatSteps == [ServicesNext]_servicesVars => [ChatNext]_chatVars
  BY DEF ServicesNext, servicesVars, Only, OnlyQueue, OnlyBridge, OnlyLimiter, OnlySlots,
      OnlyAuthority

\* Refused or failed results are not published, in any turn of any conversation.
THEOREM ChatWithholdsRefused == ServicesSpec => []RefusedNotPublished
  <1>1. ServicesInit => ChatInv
    BY ChatInitInv DEF ServicesInit
  <1>2. ChatInv => RefusedNotPublished
    BY DEF ChatInv
  <1> QED
    BY <1>1, <1>2, ChatStepInv, ChatSteps, PTL DEF ServicesSpec

\* Published results were passed by the verifier, or revised twice.
THEOREM ChatPublishesVerified == ServicesSpec => []PublishedWasPassed
  <1>1. ServicesInit => ChatInv
    BY ChatInitInv DEF ServicesInit
  <1>2. ChatInv => PublishedWasPassed
    BY DEF ChatInv
  <1> QED
    BY <1>1, <1>2, ChatStepInv, ChatSteps, PTL DEF ServicesSpec

\* A bound on the nodes a turn has still to run when it is at a node with a number
\* of revisions behind it: each one left takes it back to the supervisor once.
NodesLeft(node, revisions) ==
  CASE node = "new" -> 3 * MaxRevisions + 5
    [] node \in {"done", "gone"} -> 0
    [] node = "supervisor" -> 3 * (MaxRevisions - revisions) + 4
    [] node \in Specialists -> 3 * (MaxRevisions - revisions) + 3
    [] node = "verifier" -> 3 * (MaxRevisions - revisions) + 2
    [] OTHER -> 3 * (MaxRevisions - revisions) + 1

NodesToRun(t) == NodesLeft(at[t], turn[t].revision_count)

\* Each node a turn runs brings it nearer to its end, whatever verdict the
\* verifier gives, and no step of an overlapping turn takes it further away: from
\* its start a turn runs at most 3 * MaxRevisions + 5 steps.
TurnAdvances(t) ==
  /\ NodesToRun(t)' <= NodesToRun(t)
  /\ StartTurn(t) \/ TurnStep(t) \/ ClientLeaves(t) => NodesToRun(t)' < NodesToRun(t)

TurnsAdvance == [][\A t \in Turns : TurnAdvances(t)]_chatVars

\* The bound at each node.
LEMMA NodesLeftAt ==
  ASSUME NEW node \in Nodes, NEW k \in 0..MaxRevisions
  PROVE  /\ NodesLeft(node, k) \in Nat
         /\ node = "new" => NodesLeft(node, k) = 3 * MaxRevisions + 5
         /\ node \in {"done", "gone"} => NodesLeft(node, k) = 0
         /\ node \notin {"done", "gone"} => NodesLeft(node, k) > 0
         /\ node = "supervisor" => NodesLeft(node, k) = 3 * (MaxRevisions - k) + 4
         /\ node \in Specialists => NodesLeft(node, k) = 3 * (MaxRevisions - k) + 3
         /\ node = "verifier" => NodesLeft(node, k) = 3 * (MaxRevisions - k) + 2
         /\ node = "synthesizer" => NodesLeft(node, k) = 3 * (MaxRevisions - k) + 1
  <1> DEFINE left == 3 * (MaxRevisions - k)
             n    == NodesLeft(node, k)
  <1>1. left \in Nat /\ MaxRevisions \in Nat
    BY ChatAssumption DEF ChatAssumption
  <1>2. node \in {"new", "done", "gone", "supervisor", "verifier", "synthesizer"}
                 \cup Specialists
    BY DEF Nodes, Targets
  <1>3. /\ node = "new" => n = 3 * MaxRevisions + 5
        /\ node \in {"done", "gone"} => n = 0
        /\ node = "supervisor" => n = left + 4
        /\ node \in Specialists => n = left + 3
        /\ node = "verifier" => n = left + 2
        /\ node = "synthesizer" => n = left + 1
    BY <1>2 DEF NodesLeft, Specialists
  <1> HIDE DEF left, n
  <1>4. n \in Nat /\ (node \notin {"done", "gone"} => n > 0)
    BY <1>1, <1>2, <1>3
  <1> QED BY <1>3, <1>4 DEF left, n

\* A turn that starts, or whose client leaves, comes nearer to its end.
LEMMA EndsAdvance ==
  ASSUME ChatInv, ChatInv', NEW t \in Turns, StartTurn(t) \/ ClientLeaves(t)
  PROVE  NodesToRun(t)' < NodesToRun(t)
  <1> DEFINE k == turn[t].revision_count
             k1 == turn'[t].revision_count
  <1>1. /\ at[t] \in Nodes /\ at'[t] \in Nodes
        /\ k \in 0..MaxRevisions /\ k1 \in 0..MaxRevisions
    BY DEF ChatInv, ChatTypeOK, Channels
  <1>2. MaxRevisions \in Nat
    BY ChatAssumption DEF ChatAssumption
  <1>3. CASE StartTurn(t)
    <2>1. at[t] = "new" /\ at'[t] = "supervisor"
      BY <1>3 DEF StartTurn, Writes, ChatInv, ChatTypeOK
    <2>2. NodesLeft(at[t], k) = 3 * MaxRevisions + 5
      BY <1>1, <2>1, NodesLeftAt
    <2>3. NodesLeft(at'[t], k1) = 3 * (MaxRevisions - k1) + 4
      BY <1>1, <2>1, NodesLeftAt
    <2>4. 3 * (MaxRevisions - k1) + 4 < 3 * MaxRevisions + 5
      BY <1>1, <1>2
    <2> QED BY <2>2, <2>3, <2>4 DEF NodesToRun
  <1>4. CASE ClientLeaves(t)
    <2>1. at[t] \notin {"done", "gone"} /\ at'[t] = "gone"
      BY <1>4 DEF ClientLeaves, ChatInv, ChatTypeOK
    <2>2. NodesLeft(at[t], k) > 0 /\ NodesLeft(at'[t], k1) = 0
      BY <1>1, <2>1, NodesLeftAt
    <2> QED BY <2>2 DEF NodesToRun
  <1> QED BY <1>3, <1>4

\* A node leads to a later one, or back to the supervisor at the price of a
\* revision.
LEMMA NodeAdvances ==
  ASSUME ChatInv, ChatInv', NEW t \in Turns,
         \/ /\ turn'[t].revision_count = turn[t].revision_count
            /\ \/ at[t] = "supervisor" /\ at'[t] \in Targets
               \/ at[t] \in Specialists /\ at'[t] = "verifier"
               \/ at[t] = "verifier" /\ at'[t] = "synthesizer"
               \/ at[t] = "synthesizer" /\ at'[t] = "done"
         \/ /\ turn'[t].revision_count = turn[t].revision_count + 1
            /\ at[t] = "verifier" /\ at'[t] = "supervisor"
  PROVE  NodesToRun(t)' < NodesToRun(t)
  <1> DEFINE k  == turn[t].revision_count
             k1 == turn'[t].revision_count
             n  == NodesLeft(at[t], k)
             n1 == NodesLeft(at'[t], k1)
  <1>1. /\ at[t] \in Nodes /\ at'[t] \in Nodes
        /\ k \in 0..MaxRevisions /\ k1 \in 0..MaxRevisions
    BY DEF ChatInv, ChatTypeOK, Channels
  <1>2. MaxRevisions \in Nat
    BY ChatAssumption DEF ChatAssumption
  <1>3. /\ at[t] = "supervisor" => n = 3 * (MaxRevisions - k) + 4
        /\ at[t] \in Specialists => n = 3 * (MaxRevisions - k) + 3
        /\ at[t] = "verifier" => n = 3 * (MaxRevisions - k) + 2
        /\ at[t] = "synthesizer" => n = 3 * (MaxRevisions - k) + 1
    BY <1>1, NodesLeftAt
  <1>4. /\ at'[t] = "done" => n1 = 0
        /\ at'[t] = "supervisor" => n1 = 3 * (MaxRevisions - k1) + 4
        /\ at'[t] \in Specialists => n1 = 3 * (MaxRevisions - k1) + 3
        /\ at'[t] = "verifier" => n1 = 3 * (MaxRevisions - k1) + 2
        /\ at'[t] = "synthesizer" => n1 = 3 * (MaxRevisions - k1) + 1
    BY <1>1, NodesLeftAt
  <1>5. \/ /\ k1 = k
           /\ \/ at[t] = "supervisor" /\ at'[t] \in Targets
              \/ at[t] \in Specialists /\ at'[t] = "verifier"
              \/ at[t] = "verifier" /\ at'[t] = "synthesizer"
              \/ at[t] = "synthesizer" /\ at'[t] = "done"
        \/ k1 = k + 1 /\ at[t] = "verifier" /\ at'[t] = "supervisor"
    OBVIOUS
  <1> SUFFICES n1 < n
    BY DEF NodesToRun
  <1> HIDE DEF n, n1, k, k1
  <1> QED BY <1>1, <1>2, <1>3, <1>4, <1>5 DEF Targets

\* Where each node of the graph leads, and what it does to the revisions.
LEMMA NodesLead ==
  ASSUME ChatInv, NEW t \in Turns, TurnStep(t)
  PROVE  \/ /\ turn'[t].revision_count = turn[t].revision_count
            /\ \/ at[t] = "supervisor" /\ at'[t] \in Targets
               \/ at[t] \in Specialists /\ at'[t] = "verifier"
               \/ at[t] = "verifier" /\ at'[t] = "synthesizer"
               \/ at[t] = "synthesizer" /\ at'[t] = "done"
         \/ /\ turn'[t].revision_count = turn[t].revision_count + 1
            /\ at[t] = "verifier" /\ at'[t] = "supervisor"
  <1>1. turn[t] \in Channels /\ turn \in [Turns -> Channels] /\ at \in [Turns -> Nodes]
    BY DEF ChatInv, ChatTypeOK
  <1>2. CASE Supervise(t)
    <2>1. PICK target \in Routes(t) :
            Writes(t, [turn[t] EXCEPT !.next_agent = target], target)
      BY <1>2 DEF Supervise
    <2>2. target \in Targets
      BY <2>1 DEF Routes, Targets
    <2>3. at'[t] = target /\ turn'[t] = [turn[t] EXCEPT !.next_agent = target]
      BY <1>1, <2>1 DEF Writes
    <2>4. turn'[t].revision_count = turn[t].revision_count
      BY <1>1, <2>3 DEF Channels
    <2> QED BY <1>2, <2>2, <2>3, <2>4 DEF Supervise
  <1>3. ASSUME NEW s \in Specialists, HandsOver(t, s)
        PROVE  /\ turn'[t].revision_count = turn[t].revision_count
               /\ at[t] \in Specialists /\ at'[t] = "verifier"
    BY <1>1, <1>3 DEF HandsOver, Writes, Channels
  <1>4. CASE Verify(t)
    <2>1. PICK verdict \in {"PASS", "REJECTED", FailingVerdict(t)} :
            Writes(t, [turn[t] EXCEPT !.verification_verdict = verdict, !.judged = verdict,
                         !.next_agent = AfterVerdict(verdict),
                         !.revision_count = IF verdict = "NEEDS_REVISION" THEN @ + 1 ELSE @],
                   AfterVerdict(verdict))
      BY <1>4 DEF Verify
    <2>2. /\ at'[t] = AfterVerdict(verdict)
          /\ turn'[t].revision_count = IF verdict = "NEEDS_REVISION"
                                       THEN turn[t].revision_count + 1
                                       ELSE turn[t].revision_count
      BY <1>1, <2>1 DEF Writes, Channels
    <2> QED BY <1>4, <2>2 DEF AfterVerdict, Verify
  <1>5. CASE Synthesize(t)
    BY <1>1, <1>5 DEF Synthesize, Writes, Channels
  <1> QED
    BY <1>2, <1>3, <1>4, <1>5
    DEF TurnStep, FinancialSpecialist, FinnApiGoTool, Specialists

\* A turn stands still while another runs.
LEMMA OtherTurnsStand ==
  ASSUME ChatInv, NEW t \in Turns, NEW o \in Turns, o # t,
         StartTurn(t) \/ TurnStep(t) \/ ClientLeaves(t)
  PROVE  NodesToRun(o)' = NodesToRun(o)
  <1>1. turn'[o] = turn[o] /\ at'[o] = at[o]
    BY DEF ChatInv, ChatTypeOK, StartTurn, TurnStep, ClientLeaves, Supervise,
       FinancialSpecialist, FinnApiGoTool, HandsOver, Verify, Synthesize, Writes
  <1> QED BY <1>1 DEF NodesToRun

\* Every node a turn runs brings it nearer to its end: the revisions the verifier
\* may ask for are counted before the turn is sent back.
THEOREM ChatTurnsAdvance == ServicesSpec => TurnsAdvance
  <1>1. ChatInv /\ ChatInv' /\ [ChatNext]_chatVars =>
          [\A t \in Turns : TurnAdvances(t)]_chatVars
    <2> SUFFICES ASSUME ChatInv, ChatInv', ChatNext, NEW o \in Turns PROVE TurnAdvances(o)
      OBVIOUS
    <2>1. NodesToRun(o) \in Nat
      <3>1. at[o] \in Nodes /\ turn[o].revision_count \in 0..MaxRevisions
        BY DEF ChatInv, ChatTypeOK, Channels
      <3> QED BY <3>1, NodesLeftAt DEF NodesToRun
    <2>2. StartTurn(o) \/ TurnStep(o) \/ ClientLeaves(o) => NodesToRun(o)' < NodesToRun(o)
      BY EndsAdvance, NodeAdvances, NodesLead
    <2>3. NodesToRun(o)' <= NodesToRun(o)
      <3>1. NodesToRun(o)' \in Nat
        <4>1. at'[o] \in Nodes /\ turn'[o].revision_count \in 0..MaxRevisions
          BY DEF ChatInv, ChatTypeOK, Channels
        <4> QED BY <4>1, NodesLeftAt DEF NodesToRun
      <3>2. PICK t \in Turns : StartTurn(t) \/ TurnStep(t) \/ ClientLeaves(t)
        BY DEF ChatNext
      <3>3. t # o => NodesToRun(o)' = NodesToRun(o)
        BY <3>2, OtherTurnsStand
      <3> QED BY <2>1, <2>2, <3>1, <3>2, <3>3
    <2> QED BY <2>2, <2>3 DEF TurnAdvances
  <1>2. ServicesInit => ChatInv
    BY ChatInitInv DEF ServicesInit
  <1> QED
    BY <1>1, <1>2, ChatStepInv, ChatSteps, PTL DEF ServicesSpec, TurnsAdvance

-----------------------------------------------------------------------------
(* The custody of credentials                                              *)

Present(s) == slot[s] # NoRecord

\* The key an operation would store is nowhere before it commits.
KeysAreFresh ==
  \A c \in Calls : op[c].at # "ended" =>
    c \notin gone /\ \A s \in Slots : Present(s) => slot[s].key # c

\* No key is in two slots.
KeysDiffer ==
  \A s, r \in Slots : s # r /\ Present(s) /\ Present(r) => slot[s].key # slot[r].key

\* What an operation about to commit has read is what it was admitted for.
BaseFits ==
  \A c \in Calls : op[c].at = "committing" =>
    /\ op[c].base = NoRecord => op[c].kind = "store"
    /\ op[c].base # NoRecord => op[c].owner = op[c].base.owner
    /\ op[c].kind = "validate" => op[c].base.status = "active"

\* With the old processes stopped nothing is sealed with the old master.
OldWritersGone ==
  oldStopped => \A c \in Calls : op[c].at = "committing" => op[c].kid = "new"

\* What a pass has left behind it, clean and with the old processes stopped, is
\* sealed with the new master.
PassCovers ==
  /\ pass.at # "none" =>
       /\ passes \in PassNumbers
       /\ pass.sound => oldStopped
       /\ pass.sound /\ pass.clean => \A s \in Slots \ pass.todo : slot[s].kid = "new"
  /\ pass.at \in Slots => pass.base # NoRecord

RetiredAfterStop == retired => oldStopped

CustodyInv ==
  SlotsTypeOK /\ KeysAreFresh /\ KeysDiffer /\ BaseFits /\ OldWritersGone /\ PassCovers
  /\ RetiredAfterStop /\ RetiredIsUnused /\ GoneStaysGone

\* A record present is one an operation has sealed.
LEMMA PresentRecord ==
  ASSUME NEW r \in Records, r # NoRecord
  PROVE  r \in [status : {"active", "revoked"}, key : Calls, owner : Actors,
                kid : Masters, seal : Seals]
  BY DEF Records

\* What is sealed with the old master is present.
LEMMA AbsentRecord ==
  NoRecord.status = "absent" /\ NoRecord.kid = "new" /\ NoRecord \in Records
  BY DEF NoRecord, Records

\* An operation that is not under way.
LEMMA IdlingFields ==
  ASSUME NEW place
  PROVE  /\ Idling(place).at = place
         /\ place \in {"new", "committing", "ended"} =>
              Idling(place) \in [at : {"new", "committing", "ended"}, kind : Kinds,
                                 slot : Slots, owner : Actors, kid : Masters, base : Records]
  <1>1. (CHOOSE s \in Slots : TRUE) \in Slots /\ (CHOOSE a \in Actors : TRUE) \in Actors
    BY SlotsAssumption DEF SlotsAssumption
  <1> QED
    BY <1>1, AbsentRecord DEF Idling, Kinds, Masters

\* Nothing is stored, no operation has begun.
LEMMA CustodyInit == SlotsInit => CustodyInv
  <1> SUFFICES ASSUME SlotsInit PROVE CustodyInv
    OBVIOUS
  <1>1. passes \in 0..MaxPasses /\ storeFaults \in 0..MaxStoreFaults
    BY SlotsAssumption DEF SlotsInit, SlotsAssumption
  <1>2. SlotsTypeOK
    BY <1>1, AbsentRecord, IdlingFields, Zenon DEF SlotsInit, SlotsTypeOK
  <1>3. "none" \notin Slots
    BY SlotsAssumption DEF SlotsAssumption
  <1>4. \A c \in Calls : op[c].at = "new"
    BY IdlingFields DEF SlotsInit
  <1> QED
    BY <1>2, <1>3, <1>4, AbsentRecord
    DEF SlotsInit, CustodyInv, KeysAreFresh, KeysDiffer, BaseFits, OldWritersGone, PassCovers,
        RetiredAfterStop, RetiredIsUnused, GoneStaysGone, Present

\* The value in a slot changes: to nothing, to the key it had, or to a key that
\* was nowhere before.
Continues(s, v) ==
  \/ v = NoRecord
  \/ Present(s) /\ v.key = slot[s].key /\ (v.status = "active" => slot[s].status = "active")
  \/ v.key \in {c \in Calls : op[c].at # "ended"}

\* A change that continues the slot keeps keys apart, and those that are gone out.
LEMMA BecomesSafe ==
  ASSUME CustodyInv, NEW s \in Slots, NEW v \in Records, Becomes(s, v), Continues(s, v)
  PROVE  /\ slot' \in [Slots -> Records] /\ gone' \subseteq Calls
         /\ slot'[s] = v /\ \A r \in Slots \ {s} : slot'[r] = slot[r]
         /\ gone' \subseteq gone \cup {k \in Calls : Present(s) /\ slot[s].key = k}
         /\ KeysDiffer' /\ GoneStaysGone'
  <1>1. slot \in [Slots -> Records] /\ gone \subseteq Calls
    BY DEF CustodyInv, SlotsTypeOK
  <1>2. slot'[s] = v /\ \A r \in Slots \ {s} : slot'[r] = slot[r]
    BY <1>1 DEF Becomes
  <1>3. slot' \in [Slots -> Records]
    BY <1>1 DEF Becomes
  <1>4. slot[s].status = "active" => Present(s) /\ slot[s].key \in Calls
    BY <1>1, AbsentRecord, PresentRecord DEF Present
  <1>5. gone' \subseteq gone \cup {k \in Calls : Present(s) /\ slot[s].key = k}
    BY <1>4 DEF Becomes
  <1>6. v # NoRecord => \A r \in Slots \ {s} : Present(r) => slot[r].key # v.key
    BY <1>1 DEF Continues, CustodyInv, KeysDiffer, KeysAreFresh
  <1>7. KeysDiffer'
    BY <1>2, <1>6 DEF CustodyInv, KeysDiffer, Present
  <1>8. v.status = "active" => v.key \notin gone'
    <2> SUFFICES ASSUME v.status = "active" PROVE v.key \notin gone'
      OBVIOUS
    <2>1. v # NoRecord
      BY AbsentRecord
    <2>2. CASE Present(s) /\ v.key = slot[s].key /\ slot[s].status = "active"
      BY <2>2 DEF Becomes, CustodyInv, GoneStaysGone
    <2>3. CASE v.key \in {c \in Calls : op[c].at # "ended"}
      BY <2>3, <1>5 DEF CustodyInv, KeysAreFresh
    <2> QED
      BY <2>1, <2>2, <2>3 DEF Continues
  <1>9. ASSUME NEW r \in Slots \ {s}, slot[r].status = "active" PROVE slot[r].key \notin gone'
    <2>1. Present(r) /\ slot[r].key \notin gone
      BY <1>9, <1>1, AbsentRecord DEF Present, CustodyInv, GoneStaysGone
    <2>2. Present(s) => slot[s].key # slot[r].key
      BY <2>1 DEF CustodyInv, KeysDiffer
    <2> QED
      BY <2>1, <2>2, <1>5
  <1>10. GoneStaysGone'
    BY <1>2, <1>8, <1>9 DEF GoneStaysGone
  <1> QED
    BY <1>1, <1>2, <1>3, <1>5, <1>7, <1>10

\* What a compare-and-swap leaves: the slot as it was, or the new value in place of
\* the one compared.
LEMMA CasOutcome ==
  ASSUME NEW s \in Slots, NEW e, NEW v, Cas(s, e, v), storeFaults \in 0..MaxStoreFaults
  PROVE  /\ (slot[s] = e /\ Becomes(s, v)) \/ UNCHANGED <<slot, gone>>
         /\ storeFaults' \in 0..MaxStoreFaults
         /\ UNCHANGED storeFaults => (slot[s] # e \/ Becomes(s, v))
  BY SlotsAssumption DEF Cas, StoreFault, NoStoreFault, SlotsAssumption

\* What an operation commits is a record of its slot's owner.
LEMMA OutcomeFits ==
  ASSUME CustodyInv, NEW c \in Calls, op[c].at = "committing"
  PROVE  /\ Outcome(c) \in Records
         /\ Outcome(c) # NoRecord => Outcome(c).kid = op[c].kid
                                     /\ Outcome(c).owner = op[c].owner
         /\ Outcome(c) # NoRecord /\ op[c].base # NoRecord => 
              Outcome(c).owner = op[c].base.owner
         /\ \/ Outcome(c) = NoRecord
            \/ Outcome(c).key = c
            \/ /\ op[c].base # NoRecord /\ Outcome(c).key = op[c].base.key
               /\ Outcome(c).status = "active" => op[c].base.status = "active"
  <1> DEFINE b == op[c].base
  <1>1. /\ op[c] \in [at : {"new", "committing", "ended"}, kind : Kinds, slot : Slots,
                      owner : Actors, kid : Masters, base : Records]
        /\ <<c>> \in Seals
    BY DEF CustodyInv, SlotsTypeOK, Seals
  <1>2. /\ b \in Records /\ op[c].kid \in Masters /\ op[c].owner \in Actors
        /\ b = NoRecord => op[c].kind = "store"
        /\ b # NoRecord => op[c].owner = b.owner
        /\ op[c].kind = "validate" => b.status = "active"
    BY <1>1 DEF CustodyInv, BaseFits
  <1> HIDE DEF b
  <1>3. CASE b = NoRecord
    <2> DEFINE new == [status |-> "active", key |-> c, owner |-> op[c].owner,
                       kid |-> op[c].kid, seal |-> <<c>>]
    <2>1. Outcome(c) = new
      BY <1>2, <1>3 DEF Outcome, b, NoRecord
    <2>2. new \in Records /\ new # NoRecord /\ new.key = c
      BY <1>1, <1>2 DEF Records, NoRecord
    <2> QED
      BY <2>1, <2>2, <1>3 DEF b
  <1>4. CASE b # NoRecord
    <2>1. b \in [status : {"active", "revoked"}, key : Calls, owner : Actors, kid : Masters,
                 seal : Seals]
      BY <1>2, <1>4, PresentRecord
    <2> DEFINE sealed == [b EXCEPT !.kid = op[c].kid, !.seal = <<c>>]
    <2>2. CASE op[c].kind = "delete"
      BY <2>2, AbsentRecord DEF Outcome
    <2>3. CASE op[c].kind = "revoke"
      BY <2>1, <2>3, <1>1, <1>2, <1>4 DEF Outcome, b, Records
    <2>4. CASE op[c].kind = "validate"
      BY <2>1, <2>4, <1>1, <1>2, <1>4 DEF Outcome, b, Records
    <2>5. CASE op[c].kind \notin {"delete", "revoke", "validate"}
      BY <2>1, <2>5, <1>1, <1>2, <1>4 DEF Outcome, b, Records
    <2> QED
      BY <2>2, <2>3, <2>4, <2>5
  <1> QED
    BY <1>3, <1>4

\* The read of an operation changes nothing but the operation.
LEMMA CallInv ==
  ASSUME CustodyInv, NEW c \in Calls, NEW kind \in Kinds, NEW kid \in Masters,
         NEW s \in Slots, NEW a \in Actors, Call(c, kind, kid, s, a)
  PROVE  CustodyInv'
  <1> DEFINE o == IF Admitted(kind, a, kid, slot[s])
                  THEN [at |-> "committing", kind |-> kind, slot |-> s,
                        owner |-> IF slot[s] = NoRecord THEN a ELSE slot[s].owner,
                        kid |-> kid, base |-> slot[s]]
                  ELSE Idling("ended")
  <1>1. /\ op' = [op EXCEPT ![c] = o] /\ op[c].at = "new" /\ (kid = "old" => ~oldStopped)
        /\ UNCHANGED <<slot, oldStopped, pass, passes, retired, storeFaults, gone>>
    BY DEF Call
  <1>2. slot[s] \in Records
    BY DEF CustodyInv, SlotsTypeOK
  <1>3. o \in [at : {"new", "committing", "ended"}, kind : Kinds, slot : Slots,
               owner : Actors, kid : Masters, base : Records]
    <2>1. slot[s] # NoRecord => slot[s].owner \in Actors
      BY <1>2, PresentRecord
    <2> QED
      BY <1>2, <2>1, IdlingFields
  <1>4. /\ o.at \in {"committing", "ended"}
        /\ o.at = "committing" => 
             /\ o.base = NoRecord => o.kind = "store"
             /\ o.base # NoRecord => o.owner = o.base.owner
             /\ o.kind = "validate" => o.base.status = "active"
             /\ oldStopped => o.kid = "new"
    BY <1>1, IdlingFields, AbsentRecord DEF Admitted, Masters
  <1> HIDE DEF o
  <1>5. op' \in [Calls -> [at : {"new", "committing", "ended"}, kind : Kinds, slot : Slots,
                           owner : Actors, kid : Masters, base : Records]]
    BY <1>1, <1>3 DEF CustodyInv, SlotsTypeOK
  <1>6. op'[c] = o /\ \A d \in Calls \ {c} : op'[d] = op[d]
    BY <1>1 DEF CustodyInv, SlotsTypeOK
  <1>7. SlotsTypeOK'
    BY <1>1, <1>5, Zenon DEF CustodyInv, SlotsTypeOK
  <1>8. KeysAreFresh' /\ BaseFits' /\ OldWritersGone'
    BY <1>1, <1>4, <1>6
    DEF CustodyInv, KeysAreFresh, BaseFits, OldWritersGone, Present
  <1> QED
    BY <1>1, <1>7, <1>8
    DEF CustodyInv, KeysDiffer, PassCovers, RetiredAfterStop, RetiredIsUnused, GoneStaysGone,
        Present

\* A commit that is applied replaces the very record its operation read.
LEMMA CommitInv ==
  ASSUME CustodyInv, NEW c \in Calls, Commit(c) PROVE CustodyInv'
  <1> DEFINE s == op[c].slot
             v == Outcome(c)
  <1>1. /\ op[c].at = "committing" /\ Cas(s, op[c].base, v)
        /\ op' = [op EXCEPT ![c] = Idling("ended")]
        /\ UNCHANGED <<oldStopped, pass, passes, retired>>
    BY DEF Commit
  <1>2. /\ s \in Slots
        /\ storeFaults \in 0..MaxStoreFaults
        /\ slot \in [Slots -> Records] /\ gone \subseteq Calls
    BY DEF CustodyInv, SlotsTypeOK
  <1>3. /\ v \in Records
        /\ v # NoRecord => v.kid = op[c].kid
        /\ \/ v = NoRecord \/ v.key = c
           \/ /\ op[c].base # NoRecord /\ v.key = op[c].base.key
              /\ v.status = "active" => op[c].base.status = "active"
    BY <1>1, OutcomeFits
  <1>4. /\ (slot[s] = op[c].base /\ Becomes(s, v)) \/ UNCHANGED <<slot, gone>>
        /\ storeFaults' \in 0..MaxStoreFaults
    BY <1>1, <1>2, CasOutcome
  <1>5. oldStopped /\ v # NoRecord => v.kid = "new"
    BY <1>1, <1>3 DEF CustodyInv, OldWritersGone
  <1> HIDE DEF v, s
  <1>6. op' \in [Calls -> [at : {"new", "committing", "ended"}, kind : Kinds, slot : Slots,
                           owner : Actors, kid : Masters, base : Records]]
        /\ op'[c].at = "ended" /\ \A d \in Calls \ {c} : op'[d] = op[d]
    BY <1>1, IdlingFields DEF CustodyInv, SlotsTypeOK
  <1>7. BaseFits' /\ OldWritersGone' /\ RetiredAfterStop'
    BY <1>1, <1>6 DEF CustodyInv, BaseFits, OldWritersGone, RetiredAfterStop
  <1>8. CASE UNCHANGED <<slot, gone>>
    <2>1. SlotsTypeOK'
      BY <1>1, <1>4, <1>6, <1>8, Zenon DEF CustodyInv, SlotsTypeOK
    <2> QED
      BY <2>1, <1>1, <1>6, <1>7, <1>8
      DEF CustodyInv, KeysAreFresh, KeysDiffer, PassCovers, RetiredIsUnused, GoneStaysGone,
          Present
  <1>9. CASE slot[s] = op[c].base /\ Becomes(s, v)
    <2>1. Continues(s, v)
      BY <1>1, <1>3, <1>9 DEF Continues, Present
    <2>2. /\ slot' \in [Slots -> Records] /\ gone' \subseteq Calls
          /\ slot'[s] = v /\ \A r \in Slots \ {s} : slot'[r] = slot[r]
          /\ gone' \subseteq gone \cup {k \in Calls : Present(s) /\ slot[s].key = k}
          /\ KeysDiffer' /\ GoneStaysGone'
      BY <1>2, <1>3, <1>9, <2>1, BecomesSafe
    <2>3. SlotsTypeOK'
      BY <1>1, <1>4, <1>6, <2>2, Zenon DEF CustodyInv, SlotsTypeOK
    <2>4. KeysAreFresh'
      <3> SUFFICES ASSUME NEW d \in Calls, op'[d].at # "ended"
                   PROVE  d \notin gone' /\ \A r \in Slots : Present(r)' => slot'[r].key # d
        BY DEF KeysAreFresh
      <3>1. d # c /\ op[d].at # "ended"
        BY <1>6
      <3>2. d \notin gone /\ \A r \in Slots : Present(r) => slot[r].key # d
        BY <3>1 DEF CustodyInv, KeysAreFresh
      <3>3. v # NoRecord => v.key # d
        BY <1>3, <1>9, <1>2, <3>1, <3>2 DEF Present
      <3>4. d \notin gone'
        BY <1>2, <2>2, <3>2
      <3>5. ASSUME NEW r \in Slots, slot'[r] # NoRecord PROVE slot'[r].key # d
        BY <2>2, <3>2, <3>3, <3>5 DEF Present
      <3> QED
        BY <3>4, <3>5 DEF Present
    <2>5. oldStopped => slot'[s].kid = "new"
      BY <1>5, <2>2, AbsentRecord
    <2>6. PassCovers' /\ RetiredIsUnused'
      BY <1>1, <2>2, <2>5
      DEF CustodyInv, PassCovers, RetiredIsUnused, RetiredAfterStop
    <2> QED
      BY <1>7, <2>2, <2>3, <2>4, <2>6 DEF CustodyInv
  <1> QED
    BY <1>4, <1>8, <1>9

\* The old processes stop, and what they were about to commit with them.
LEMMA StopOldWritersInv ==
  ASSUME CustodyInv, StopOldWriters PROVE CustodyInv'
  <1>1. /\ oldStopped' = TRUE
        /\ op' = [c \in Calls |-> IF op[c].at = "committing" /\ op[c].kid = "old"
                                  THEN Idling("ended") ELSE op[c]]
        /\ UNCHANGED <<slot, pass, passes, retired, storeFaults, gone>>
    BY DEF StopOldWriters
  <1>2. op' \in [Calls -> [at : {"new", "committing", "ended"}, kind : Kinds, slot : Slots,
                           owner : Actors, kid : Masters, base : Records]]
    BY <1>1, IdlingFields DEF CustodyInv, SlotsTypeOK
  <1>3. \A c \in Calls : \/ op'[c] = op[c] /\ (op[c].at = "committing" => op[c].kid = "new")
                         \/ op'[c].at = "ended"
    BY <1>1, IdlingFields DEF CustodyInv, SlotsTypeOK, Masters
  <1>4. SlotsTypeOK'
    BY <1>1, <1>2, Zenon DEF CustodyInv, SlotsTypeOK
  <1>5. KeysAreFresh' /\ BaseFits' /\ OldWritersGone'
    BY <1>1, <1>3 DEF CustodyInv, KeysAreFresh, BaseFits, OldWritersGone, Present
  <1> QED
    BY <1>1, <1>4, <1>5
    DEF CustodyInv, KeysDiffer, PassCovers, RetiredAfterStop, RetiredIsUnused, GoneStaysGone,
        Present

\* A pass begins with every record before it.
LEMMA StartPassInv ==
  ASSUME CustodyInv, StartPass PROVE CustodyInv'
  <1>1. /\ passes < MaxPasses /\ passes' = passes + 1
        /\ pass' = [at |-> "scanning", todo |-> {s \in Slots : slot[s] # NoRecord},
                    base |-> NoRecord, clean |-> TRUE, sound |-> oldStopped]
        /\ UNCHANGED <<slot, op, oldStopped, retired, storeFaults, gone>>
    BY DEF StartPass
  <1>2. passes' \in PassNumbers /\ passes' \in 0..MaxPasses
    <2>1. passes \in 0..MaxPasses
      BY DEF CustodyInv, SlotsTypeOK
    <2> QED
      BY <1>1, <2>1, SlotsAssumption DEF PassNumbers, SlotsAssumption
  <1>3. oldStopped \in BOOLEAN
    BY DEF CustodyInv, SlotsTypeOK
  <1>4. pass' \in [at : {"none", "scanning"} \cup Slots, todo : SUBSET Slots,
                   base : Records, clean : BOOLEAN, sound : BOOLEAN]
    BY <1>1, <1>3, AbsentRecord, Zenon
  <1>5. SlotsTypeOK'
    BY <1>1, <1>2, <1>4, Zenon DEF CustodyInv, SlotsTypeOK
  <1>6. /\ pass'.at = "scanning" /\ pass'.sound = oldStopped
        /\ \A s \in Slots \ pass'.todo : slot[s] = NoRecord
    BY <1>1
  <1>7. PassCovers'
    BY <1>1, <1>2, <1>6, AbsentRecord, SlotsAssumption DEF PassCovers, SlotsAssumption
  <1> QED
    BY <1>1, <1>5, <1>7
    DEF CustodyInv, KeysAreFresh, KeysDiffer, BaseFits, OldWritersGone, RetiredAfterStop,
        RetiredIsUnused, GoneStaysGone, Present

\* A record the pass leaves behind is sealed with the new master, unless the read
\* raised.
LEMMA InspectInv ==
  ASSUME CustodyInv, NEW s \in Slots, Inspect(s) PROVE CustodyInv'
  <1>1. /\ pass.at = "scanning" /\ s \in pass.todo
        /\ UNCHANGED <<slot, op, oldStopped, passes, retired, gone>>
    BY DEF Inspect
  <1>2. /\ pass \in [at : {"none", "scanning"} \cup Slots, todo : SUBSET Slots,
                     base : Records, clean : BOOLEAN, sound : BOOLEAN]
        /\ slot[s] \in Records
    BY DEF CustodyInv, SlotsTypeOK
  <1>3. storeFaults' \in 0..MaxStoreFaults
    <2>1. storeFaults \in 0..MaxStoreFaults
      BY DEF CustodyInv, SlotsTypeOK
    <2> QED
      BY <2>1, SlotsAssumption DEF Inspect, StoreFault, NoStoreFault, SlotsAssumption
  <1>4. /\ passes \in PassNumbers
        /\ pass.sound => oldStopped
        /\ pass.sound /\ pass.clean => \A r \in Slots \ pass.todo : slot[r].kid = "new"
    BY <1>1 DEF CustodyInv, PassCovers
  <1>5. \/ slot[s].kid = "new" /\ pass' = [pass EXCEPT !.todo = @ \ {s}]
        \/ slot[s].kid = "old" /\ pass' = [pass EXCEPT !.at = s, !.base = slot[s]]
        \/ pass' = [pass EXCEPT !.todo = @ \ {s}, !.clean = FALSE]
    BY DEF Inspect
  <1>6. /\ pass' \in [at : {"none", "scanning"} \cup Slots, todo : SUBSET Slots,
                      base : Records, clean : BOOLEAN, sound : BOOLEAN]
        /\ pass'.sound = pass.sound
        /\ pass'.at \in Slots => pass'.base # NoRecord
        /\ pass'.clean => pass.clean /\ \A r \in Slots \ pass'.todo :
                                          r \in pass.todo => slot[r].kid = "new"
    BY <1>1, <1>2, <1>5, AbsentRecord, SlotsAssumption DEF SlotsAssumption
  <1>7. SlotsTypeOK'
    BY <1>1, <1>3, <1>6, Zenon DEF CustodyInv, SlotsTypeOK
  <1>8. PassCovers'
    BY <1>1, <1>4, <1>6 DEF PassCovers
  <1> QED
    BY <1>1, <1>7, <1>8
    DEF CustodyInv, KeysAreFresh, KeysDiffer, BaseFits, OldWritersGone, RetiredAfterStop,
        RetiredIsUnused, GoneStaysGone, Present

\* A reseal keeps the key and its status, and a pass that stays clean has resealed.
LEMMA ResealInv ==
  ASSUME CustodyInv, NEW s \in Slots, Reseal(s) PROVE CustodyInv'
  <1> DEFINE v == [pass.base EXCEPT !.kid = "new", !.seal = <<passes, s>>]
  <1>1. /\ pass.at = s /\ Cas(s, pass.base, v)
        /\ pass' = [pass EXCEPT !.at = "scanning", !.todo = @ \ {s}, !.base = NoRecord,
                      !.clean = @ /\ ~Dirty(s)]
        /\ UNCHANGED <<op, oldStopped, passes, retired>>
    BY DEF Reseal
  <1>2. /\ pass \in [at : {"none", "scanning"} \cup Slots, todo : SUBSET Slots,
                     base : Records, clean : BOOLEAN, sound : BOOLEAN]
        /\ storeFaults \in 0..MaxStoreFaults
        /\ slot \in [Slots -> Records] /\ gone \subseteq Calls
    BY DEF CustodyInv, SlotsTypeOK
  <1>3. /\ passes \in PassNumbers
        /\ pass.sound => oldStopped
        /\ pass.sound /\ pass.clean => \A r \in Slots \ pass.todo : slot[r].kid = "new"
        /\ pass.base # NoRecord
    BY <1>1, SlotsAssumption DEF CustodyInv, PassCovers, SlotsAssumption
  <1>4. pass.base \in [status : {"active", "revoked"}, key : Calls, owner : Actors,
                       kid : Masters, seal : Seals]
    BY <1>2, <1>3, PresentRecord
  <1>5. <<passes, s>> \in Seals
    BY <1>3 DEF Seals
  <1>6. /\ v \in Records /\ v.kid = "new" /\ v.key = pass.base.key
        /\ v.status = pass.base.status
    BY <1>4, <1>5 DEF Records, Masters
  <1>7. /\ (slot[s] = pass.base /\ Becomes(s, v)) \/ UNCHANGED <<slot, gone>>
        /\ storeFaults' \in 0..MaxStoreFaults
        /\ ~Dirty(s) => Becomes(s, v)
    BY <1>1, <1>2, CasOutcome DEF Dirty
  <1> HIDE DEF v
  <1>8. /\ pass' \in [at : {"none", "scanning"} \cup Slots, todo : SUBSET Slots,
                      base : Records, clean : BOOLEAN, sound : BOOLEAN]
        /\ pass'.at = "scanning" /\ pass'.sound = pass.sound /\ pass'.todo = pass.todo \ {s}
        /\ pass'.clean => pass.clean /\ Becomes(s, v)
    <2>1. (pass.clean /\ ~Dirty(s)) \in BOOLEAN
      BY <1>2
    <2>2. pass' = [at |-> "scanning", todo |-> pass.todo \ {s}, base |-> NoRecord,
                   clean |-> pass.clean /\ ~Dirty(s), sound |-> pass.sound]
      BY <1>1, <1>2, Zenon
    <2>3. pass'.clean = (pass.clean /\ ~Dirty(s))
      BY <2>2, Zenon
    <2>4. pass' \in [at : {"none", "scanning"} \cup Slots, todo : SUBSET Slots,
                     base : Records, clean : BOOLEAN, sound : BOOLEAN]
      BY <2>1, <2>2, <1>2, AbsentRecord, Zenon
    <2>5. pass'.at = "scanning" /\ pass'.sound = pass.sound /\ pass'.todo = pass.todo \ {s}
      BY <2>2, Zenon
    <2> QED
      BY <2>3, <2>4, <2>5, <1>7
  <1>9. BaseFits' /\ OldWritersGone' /\ RetiredAfterStop'
    BY <1>1 DEF CustodyInv, BaseFits, OldWritersGone, RetiredAfterStop
  <1>10. CASE slot[s] = pass.base /\ Becomes(s, v)
    <2>1. Continues(s, v)
      BY <1>3, <1>6, <1>10 DEF Continues, Present
    <2>2. /\ slot' \in [Slots -> Records] /\ gone' \subseteq Calls
          /\ slot'[s] = v /\ \A r \in Slots \ {s} : slot'[r] = slot[r]
          /\ gone' \subseteq gone \cup {k \in Calls : Present(s) /\ slot[s].key = k}
          /\ KeysDiffer' /\ GoneStaysGone'
      BY <1>6, <1>10, <2>1, BecomesSafe
    <2>3. SlotsTypeOK'
      BY <1>1, <1>7, <1>8, <2>2, Zenon DEF CustodyInv, SlotsTypeOK
    <2>4. KeysAreFresh'
      <3> SUFFICES ASSUME NEW d \in Calls, op'[d].at # "ended"
                   PROVE  d \notin gone' /\ \A r \in Slots : Present(r)' => slot'[r].key # d
        BY DEF KeysAreFresh
      <3>1. d \notin gone /\ \A r \in Slots : Present(r) => slot[r].key # d
        BY <1>1 DEF CustodyInv, KeysAreFresh
      <3>2. Present(s) /\ v.key # d
        BY <1>3, <1>6, <1>10, <3>1 DEF Present
      <3>3. d \notin gone'
        BY <1>2, <2>2, <3>1
      <3>4. ASSUME NEW r \in Slots, slot'[r] # NoRecord PROVE slot'[r].key # d
        BY <2>2, <3>1, <3>2, <3>4 DEF Present
      <3> QED
        BY <3>3, <3>4 DEF Present
    <2>5. PassCovers'
      BY <1>1, <1>3, <1>6, <1>8, <2>2, SlotsAssumption DEF PassCovers, SlotsAssumption
    <2>6. RetiredIsUnused'
      BY <1>1, <1>6, <2>2 DEF CustodyInv, RetiredIsUnused
    <2> QED
      BY <1>9, <2>2, <2>3, <2>4, <2>5, <2>6 DEF CustodyInv
  <1>11. CASE UNCHANGED <<slot, gone>>
    <2>1. SlotsTypeOK'
      BY <1>1, <1>7, <1>8, <1>11, Zenon DEF CustodyInv, SlotsTypeOK
    <2>2. pass'.clean => slot[s].kid = "new"
      BY <1>2, <1>6, <1>8, <1>11 DEF Becomes
    <2>3. PassCovers'
      BY <1>1, <1>3, <1>8, <1>11, <2>2, SlotsAssumption DEF PassCovers, SlotsAssumption
    <2> QED
      BY <1>1, <1>9, <1>11, <2>1, <2>3
      DEF CustodyInv, KeysAreFresh, KeysDiffer, RetiredIsUnused, GoneStaysGone, Present
  <1> QED
    BY <1>7, <1>10, <1>11

\* The master is retired when a pass that covered every slot has nothing to do.
LEMMA FinishPassInv ==
  ASSUME CustodyInv, FinishPass PROVE CustodyInv'
  <1>1. /\ pass.at = "scanning" /\ pass.todo = {}
        /\ retired' = (retired \/ (pass.clean /\ pass.sound))
        /\ pass' = [pass EXCEPT !.at = "none"]
        /\ UNCHANGED <<slot, op, oldStopped, passes, storeFaults, gone>>
    BY DEF FinishPass
  <1>2. /\ pass \in [at : {"none", "scanning"} \cup Slots, todo : SUBSET Slots,
                     base : Records, clean : BOOLEAN, sound : BOOLEAN]
        /\ retired \in BOOLEAN
    BY DEF CustodyInv, SlotsTypeOK
  <1>3. pass.clean /\ pass.sound => oldStopped /\ \A s \in Slots : slot[s].kid = "new"
    BY <1>1 DEF CustodyInv, PassCovers
  <1>4. /\ pass' \in [at : {"none", "scanning"} \cup Slots, todo : SUBSET Slots,
                      base : Records, clean : BOOLEAN, sound : BOOLEAN]
        /\ pass'.at = "none"
    BY <1>1, <1>2, Zenon
  <1>5. SlotsTypeOK'
    BY <1>1, <1>2, <1>4, Zenon DEF CustodyInv, SlotsTypeOK
  <1>6. PassCovers'
    BY <1>4, SlotsAssumption DEF PassCovers, SlotsAssumption
  <1>7. RetiredAfterStop' /\ RetiredIsUnused'
    BY <1>1, <1>3, Zenon DEF CustodyInv, RetiredAfterStop, RetiredIsUnused
  <1> QED
    BY <1>1, <1>5, <1>6, <1>7
    DEF CustodyInv, KeysAreFresh, KeysDiffer, BaseFits, OldWritersGone, GoneStaysGone, Present

\* Every step of the custody preserves its invariant.
LEMMA CustodyStep == CustodyInv /\ [SlotsNext]_slotVars => CustodyInv'
  <1> SUFFICES ASSUME CustodyInv, [SlotsNext]_slotVars PROVE CustodyInv'
    OBVIOUS
  <1>1. CASE UNCHANGED slotVars
    BY <1>1, Zenon
    DEF slotVars, CustodyInv, SlotsTypeOK, KeysAreFresh, KeysDiffer, BaseFits,
        OldWritersGone, PassCovers, RetiredAfterStop, RetiredIsUnused, GoneStaysGone, Present
  <1>2. CASE SlotsNext
    BY <1>2, CallInv, CommitInv, StopOldWritersInv, StartPassInv, InspectInv, ResealInv,
       FinishPassInv
    DEF SlotsNext
  <1> QED
    BY <1>1, <1>2

\* An applied commit or reseal keeps the owner of the record it replaces.
LEMMA OwnerStep ==
  ASSUME CustodyInv, [SlotsNext]_slotVars, NEW s \in Slots,
         slot[s] # NoRecord, slot'[s] # NoRecord
  PROVE  slot'[s].owner = slot[s].owner
  <1>1. slot \in [Slots -> Records] /\ pass.base \in Records
        /\ storeFaults \in 0..MaxStoreFaults
    BY DEF CustodyInv, SlotsTypeOK
  <1>2. ASSUME NEW c \in Calls, Commit(c) PROVE slot'[s].owner = slot[s].owner
    <2>1. \/ slot[op[c].slot] = op[c].base /\ Becomes(op[c].slot, Outcome(c))
          \/ UNCHANGED slot
      BY <1>2, <1>1, CasOutcome DEF Commit, CustodyInv, SlotsTypeOK
    <2>2. Outcome(c) # NoRecord /\ op[c].base # NoRecord =>
            Outcome(c).owner = op[c].base.owner
      BY <1>2, OutcomeFits DEF Commit
    <2> QED
      BY <1>1, <2>1, <2>2 DEF Becomes
  <1>3. ASSUME NEW r \in Slots, Reseal(r) PROVE slot'[s].owner = slot[s].owner
    <2> DEFINE v == [pass.base EXCEPT !.kid = "new", !.seal = <<passes, r>>]
    <2>1. (slot[r] = pass.base /\ Becomes(r, v)) \/ UNCHANGED slot
      BY <1>3, <1>1, CasOutcome DEF Reseal
    <2>2. pass.base # NoRecord => v.owner = pass.base.owner
      BY <1>1, PresentRecord
    <2> HIDE DEF v
    <2> QED
      BY <1>1, <2>1, <2>2 DEF Becomes
  <1>4. CASE UNCHANGED slot
    BY <1>4
  <1> QED
    BY <1>2, <1>3, <1>4
    DEF SlotsNext, slotVars, Call, StopOldWriters, StartPass, Inspect, FinishPass

\* A step of the services is one of the custody or leaves it alone.
LEMMA SlotsSteps == [ServicesNext]_servicesVars => [SlotsNext]_slotVars
  BY DEF ServicesNext, servicesVars, Only, OnlyChat, OnlyQueue, OnlyBridge, OnlyLimiter,
      OnlyAuthority

\* The invariant of the custody holds whatever the services do.
LEMMA Custody == ServicesSpec => []CustodyInv
  <1>1. ServicesInit => CustodyInv
    BY CustodyInit DEF ServicesInit
  <1> QED
    BY <1>1, CustodyStep, SlotsSteps, PTL DEF ServicesSpec

\* A key that was revoked, replaced or deleted is never active again.
THEOREM CustodyKeepsGone == ServicesSpec => []GoneStaysGone
  <1>1. CustodyInv => GoneStaysGone
    BY DEF CustodyInv
  <1> QED
    BY <1>1, Custody, PTL

\* A retired master seals nothing.
THEOREM CustodyRetiresUnused == ServicesSpec => []RetiredIsUnused
  <1>1. CustodyInv => RetiredIsUnused
    BY DEF CustodyInv
  <1> QED
    BY <1>1, Custody, PTL

\* A record keeps its owner for as long as it is there.
THEOREM CustodyKeepsOwner == ServicesSpec => OwnerKept
  <1>1. CustodyInv /\ [SlotsNext]_slotVars =>
          [\A s \in Slots : slot[s] # NoRecord /\ slot'[s] # NoRecord =>
             slot'[s].owner = slot[s].owner]_slotVars
    BY OwnerStep
  <1> QED
    BY <1>1, Custody, SlotsSteps, PTL DEF ServicesSpec, OwnerKept

-----------------------------------------------------------------------------
(* The resume bridge                                                       *)

PostTypes == post \in [Posts -> [at : Places, redis : BOOLEAN, found : BOOLEAN]]

\* Between the lock and the graph.
Holding(p) == post[p].at \in {"loading", "checking", "releasing", "deleting"}

Resuming(p) == post[p].at \in {"deleting", "invoking"}

Started == resumed # 0 \/ \E p \in Posts : Resuming(p)

\* The lock admits one request at a time.
LockExcludes ==
  \A p \in Posts : Holding(p) => lock /\ \A q \in Posts : Holding(q) => p = q

\* Once a graph has been resumed there is no checkpoint to find: it is not in
\* memory, and one that is left in Redis is behind the lock.
StartedIsHidden ==
  Started =>
    /\ ~memory
    /\ kept => lock /\ \A p \in Posts : post[p].at \notin {"loading", "checking", "releasing"}
    /\ \A p \in Posts : post[p].at = "checking" => ~post[p].found

ResumedByOne ==
  /\ resumed \in {0, 1}
  /\ resumed = 1 => \A p \in Posts : ~Resuming(p)
  /\ \A p, q \in Posts : Resuming(p) /\ Resuming(q) => p = q

\* What holds whether or not a request went on without the lock.
PostsFit ==
  /\ ~saved => resumed = 0 /\ \A p \in Posts : post[p].at = "new"
  /\ \A p \in Posts : post[p].at \in {"new", "locking", "loading"} => ~post[p].found

BridgeInv ==
  PostTypes /\ PostsFit /\ (~unlocked => LockExcludes /\ StartedIsHidden /\ ResumedByOne)

\* A request goes on to a place and the others stay.
LEMMA GoesFields ==
  ASSUME PostTypes, NEW p \in Posts, NEW place \in Places, Goes(p, place)
  PROVE  /\ PostTypes'
         /\ post'[p].at = place /\ post'[p].found = post[p].found
         /\ post'[p].redis = post[p].redis
         /\ \A q \in Posts \ {p} : post'[q] = post[q]
  BY DEF PostTypes, Goes

\* No request has come.
LEMMA BridgeInitInv == BridgeInit => BridgeInv
  BY DEF BridgeInit, BridgeInv, PostTypes, Places, PostsFit, LockExcludes, Holding,
         StartedIsHidden, Started, ResumedByOne, Resuming

\* The graph is interrupted before any result of the call is posted.
LEMMA SaveCheckpointInv == BridgeInv /\ SaveCheckpoint => BridgeInv'
  BY DEF SaveCheckpoint, BridgeInv, PostTypes, PostsFit, LockExcludes, Holding,
         StartedIsHidden, Started, ResumedByOne, Resuming

\* A request that does not ask for the lock is told in unlocked.
LEMMA ReceiveInv ==
  ASSUME BridgeInv, NEW p \in Posts, Receive(p) PROVE BridgeInv'
  <1> USE DEF BridgeInv
  <1>1. /\ saved /\ post[p].at = "new"
        /\ UNCHANGED <<saved, lock, kept, memory, processed, resumed, stranded>>
    BY DEF Receive
  <1>2. CASE Goes(p, "refused") /\ unlocked' = unlocked
    <2>1. /\ PostTypes' /\ post'[p].at = "refused"
          /\ \A q \in Posts \ {p} : post'[q] = post[q]
      BY <1>2, GoesFields DEF Places
    <2> QED
      BY <1>1, <1>2, <2>1 DEF PostsFit, LockExcludes, Holding, StartedIsHidden, Started,
         ResumedByOne, Resuming
  <1>3. CASE /\ post' = [post EXCEPT ![p].at = "locking", ![p].redis = TRUE]
             /\ unlocked' = unlocked
    <2>1. /\ PostTypes' /\ post'[p].at = "locking" /\ post'[p].found = post[p].found
          /\ \A q \in Posts \ {p} : post'[q] = post[q]
      BY <1>3 DEF PostTypes, Places
    <2>2. ~post'[p].found
      BY <1>1, <2>1 DEF PostsFit
    <2>3. PostsFit'
      BY <1>1, <2>1, <2>2 DEF PostsFit
    <2>4. \A q \in Posts : (Holding(q)' <=> Holding(q)) /\ (Resuming(q)' <=> Resuming(q))
      BY <1>1, <2>1 DEF Holding, Resuming
    <2>5. LockExcludes => LockExcludes'
      BY <1>1, <2>4 DEF LockExcludes
    <2>6. ResumedByOne => ResumedByOne'
      BY <1>1, <2>4 DEF ResumedByOne
    <2>7. StartedIsHidden => StartedIsHidden'
      BY <1>1, <2>1, <2>4 DEF StartedIsHidden, Started
    <2> QED
      BY <1>3, <2>1, <2>3, <2>5, <2>6, <2>7
  <1>4. CASE unlocked' = TRUE /\ Goes(p, "loading")
    <2>1. /\ PostTypes' /\ post'[p].at = "loading" /\ post'[p].found = post[p].found
          /\ \A q \in Posts \ {p} : post'[q] = post[q]
      BY <1>4, GoesFields DEF Places
    <2> QED
      BY <1>1, <1>4, <2>1 DEF PostsFit
  <1> QED
    BY <1>2, <1>3, <1>4 DEF Receive

\* The lock is taken when nobody holds it.
LEMMA TakeLockInv ==
  ASSUME BridgeInv, NEW p \in Posts, TakeLock(p) PROVE BridgeInv'
  <1> USE DEF BridgeInv
  <1>1. /\ post[p].at = "locking" /\ ~post[p].found /\ saved
        /\ UNCHANGED <<saved, kept, memory, processed, latched, resumed, stranded>>
    BY DEF TakeLock, PostsFit
  <1>2. CASE ~lock /\ lock' = TRUE /\ Goes(p, "loading") /\ unlocked' = unlocked
    <2>1. /\ PostTypes' /\ post'[p].at = "loading" /\ post'[p].found = post[p].found
          /\ \A q \in Posts \ {p} : post'[q] = post[q]
      BY <1>2, GoesFields DEF Places
    <2> QED
      BY <1>1, <1>2, <2>1 DEF PostsFit, LockExcludes, Holding, StartedIsHidden, Started,
         ResumedByOne, Resuming
  <1>3. CASE lock' = lock /\ Goes(p, "refused") /\ unlocked' = unlocked
    <2>1. /\ PostTypes' /\ post'[p].at = "refused"
          /\ \A q \in Posts \ {p} : post'[q] = post[q]
      BY <1>3, GoesFields DEF Places
    <2> QED
      BY <1>1, <1>3, <2>1 DEF PostsFit, LockExcludes, Holding, StartedIsHidden, Started,
         ResumedByOne, Resuming
  <1>4. CASE unlocked' = TRUE /\ Goes(p, "loading")
    <2>1. /\ PostTypes' /\ post'[p].at = "loading" /\ post'[p].found = post[p].found
          /\ \A q \in Posts \ {p} : post'[q] = post[q]
      BY <1>4, GoesFields DEF Places
    <2> QED
      BY <1>1, <1>4, <2>1 DEF PostsFit
  <1> QED
    BY <1>2, <1>3, <1>4 DEF TakeLock

\* With a graph resumed a read of the checkpoint finds nothing.
LEMMA LoadCheckpointInv ==
  ASSUME BridgeInv, NEW p \in Posts, LoadCheckpoint(p) PROVE BridgeInv'
  <1> USE DEF BridgeInv
  <1>1. /\ post[p].at = "loading" /\ ~post[p].found /\ saved
        /\ UNCHANGED <<saved, lock, kept, memory, processed, latched, resumed, unlocked,
                       stranded>>
    BY DEF LoadCheckpoint, PostsFit
  <1>2. /\ PostTypes' /\ post'[p].at = "checking" /\ (post'[p].found => kept)
        /\ \A q \in Posts \ {p} : post'[q] = post[q]
    <2>1. CASE post' = [post EXCEPT ![p].at = "checking", ![p].found = kept /\ ~latched]
      <3>1. (kept /\ ~latched) \in BOOLEAN
        OBVIOUS
      <3>2. PostTypes'
        BY <2>1, <3>1, Zenon DEF PostTypes, Places
      <3> QED
        BY <2>1, <3>2 DEF PostTypes
    <2>2. CASE Goes(p, "checking")
      BY <1>1, <2>2, GoesFields DEF Places
    <2> QED
      BY <2>1, <2>2 DEF LoadCheckpoint
  <1> QED
    BY <1>1, <1>2 DEF PostsFit, LockExcludes, Holding, StartedIsHidden, Started,
       ResumedByOne, Resuming

\* The request that finds the checkpoint is the only one, and nothing has been
\* resumed yet.
LEMMA CheckInv ==
  ASSUME BridgeInv, NEW p \in Posts, Check(p) PROVE BridgeInv'
  <1> USE DEF BridgeInv
  <1>1. /\ post[p].at = "checking" /\ saved
        /\ UNCHANGED <<saved, lock, kept, latched, resumed, bridgeFaults, unlocked, stranded>>
    BY DEF Check, PostsFit
  <1>2. ASSUME NEW place \in {"releasing", "refused"}, Goes(p, place), UNCHANGED memory
        PROVE  BridgeInv'
    <2>1. /\ PostTypes' /\ post'[p].at = place /\ post'[p].found = post[p].found
          /\ \A q \in Posts \ {p} : post'[q] = post[q]
      BY <1>2, GoesFields DEF Places
    <2> QED
      BY <1>1, <1>2, <2>1 DEF PostsFit, LockExcludes, Holding, StartedIsHidden, Started,
         ResumedByOne, Resuming
  <1>3. ASSUME NEW place \in {"deleting", "invoking"}, Goes(p, place), Found(p),
               memory' = FALSE
        PROVE  BridgeInv'
    <2>1. /\ PostTypes' /\ post'[p].at = place /\ post'[p].found = post[p].found
          /\ \A q \in Posts \ {p} : post'[q] = post[q]
      BY <1>3, GoesFields DEF Places
    <2>2. ~unlocked => ~Started
      BY <1>1, <1>3 DEF StartedIsHidden, Found
    <2> QED
      BY <1>1, <1>3, <2>1, <2>2 DEF PostsFit, LockExcludes, Holding, StartedIsHidden, Started,
         ResumedByOne, Resuming
  <1> QED
    BY <1>2, <1>3 DEF Check, Refuses

\* The lock is released by the one that holds it.
LEMMA ReleaseLockInv ==
  ASSUME BridgeInv, NEW p \in Posts, ReleaseLock(p) PROVE BridgeInv'
  <1> USE DEF BridgeInv
  <1>1. /\ post[p].at = "releasing" /\ saved
        /\ UNCHANGED <<saved, kept, memory, processed, latched, resumed, unlocked>>
    BY DEF ReleaseLock, PostsFit
  <1>2. /\ PostTypes' /\ post'[p].at = "refused"
        /\ \A q \in Posts \ {p} : post'[q] = post[q]
    BY GoesFields DEF Places, ReleaseLock
  <1> QED
    BY <1>1, <1>2 DEF PostsFit, LockExcludes, Holding, StartedIsHidden, Started,
       ResumedByOne, Resuming

\* A deletion that raises may leave the checkpoint, behind the lock.
LEMMA DeleteCheckpointInv ==
  ASSUME BridgeInv, NEW p \in Posts, DeleteCheckpoint(p) PROVE BridgeInv'
  <1> USE DEF BridgeInv
  <1>1. /\ post[p].at = "deleting" /\ saved
        /\ UNCHANGED <<saved, lock, memory, processed, latched, resumed, unlocked, stranded>>
    BY DEF DeleteCheckpoint, PostsFit
  <1>2. kept' => kept
    BY Zenon DEF DeleteCheckpoint
  <1>3. /\ PostTypes' /\ post'[p].at = "invoking"
        /\ \A q \in Posts \ {p} : post'[q] = post[q]
    BY GoesFields DEF Places, DeleteCheckpoint
  <1> QED
    BY <1>1, <1>3, <1>2 DEF PostsFit, LockExcludes, Holding, StartedIsHidden, Started,
       ResumedByOne, Resuming

\* The graph is resumed, for the first time.
LEMMA InvokeGraphInv ==
  ASSUME BridgeInv, NEW p \in Posts, InvokeGraph(p) PROVE BridgeInv'
  <1> USE DEF BridgeInv
  <1>1. /\ post[p].at = "invoking" /\ saved /\ resumed' = resumed + 1
        /\ UNCHANGED <<saved, lock, kept, memory, processed, latched, unlocked, stranded>>
    BY DEF InvokeGraph, PostsFit
  <1>2. /\ PostTypes' /\ post'[p].at = "resumed"
        /\ \A q \in Posts \ {p} : post'[q] = post[q]
    BY GoesFields DEF Places, InvokeGraph
  <1>3. ~unlocked => Started /\ resumed = 0 /\ resumed' = 1
    BY <1>1 DEF ResumedByOne, Resuming, Started
  <1>4. ~unlocked => \A q \in Posts \ {p} : ~Resuming(q)
    BY <1>1 DEF ResumedByOne, Resuming
  <1> QED
    BY <1>1, <1>2, <1>3, <1>4 DEF PostsFit, LockExcludes, Holding, StartedIsHidden, Started,
       ResumedByOne, Resuming

\* A checkpoint expires; a lock does when no checkpoint is left behind it.
LEMMA ExpiryInv == BridgeInv /\ (CheckpointExpires \/ LockExpires) => BridgeInv'
  BY DEF CheckpointExpires, LockExpires, AtRest, BridgeInv, PostTypes, PostsFit,
         LockExcludes, Holding, StartedIsHidden, Started, ResumedByOne, Resuming

\* A restart forgets the requests and what was in memory, and leaves what Redis has.
LEMMA RestartApiInv == BridgeInv /\ RestartApi => BridgeInv'
  <1> SUFFICES ASSUME BridgeInv, RestartApi PROVE BridgeInv'
    OBVIOUS
  <1>1. /\ memory' = FALSE /\ UNCHANGED <<saved, lock, kept, resumed, unlocked>>
        /\ post' = [p \in Posts |-> IF post[p].at \in AtRest THEN post[p]
                                    ELSE [post[p] EXCEPT !.at = "refused"]]
    BY DEF RestartApi
  <1>2. PostTypes'
    BY <1>1 DEF BridgeInv, PostTypes, Places
  <1>3. \A p \in Posts : \/ post'[p] = post[p] /\ post[p].at \in AtRest
                         \/ post'[p].at = "refused" /\ post[p].at \notin AtRest
    BY <1>1 DEF BridgeInv, PostTypes
  <1> QED
    BY <1>1, <1>2, <1>3
    DEF AtRest, BridgeInv, PostsFit, LockExcludes, Holding, StartedIsHidden, Started,
        ResumedByOne, Resuming

\* Every step of the bridge preserves the invariant.
LEMMA BridgeStepInv == BridgeInv /\ [BridgeNext]_bridgeVars => BridgeInv'
  <1> SUFFICES ASSUME BridgeInv, [BridgeNext]_bridgeVars PROVE BridgeInv'
    OBVIOUS
  <1>1. CASE UNCHANGED bridgeVars
    BY <1>1, Zenon DEF bridgeVars, BridgeInv, PostTypes, PostsFit, LockExcludes, Holding,
       StartedIsHidden, Started, ResumedByOne, Resuming
  <1>2. CASE BridgeNext
    BY <1>2, SaveCheckpointInv, ExpiryInv, RestartApiInv, ReceiveInv, TakeLockInv,
       LoadCheckpointInv, CheckInv, ReleaseLockInv, DeleteCheckpointInv, InvokeGraphInv
    DEF BridgeNext, PostStep
  <1> QED
    BY <1>1, <1>2

\* A step of the services is one of the bridge or leaves it alone.
LEMMA BridgeSteps == [ServicesNext]_servicesVars => [BridgeNext]_bridgeVars
  BY DEF ServicesNext, servicesVars, Only, OnlyChat, OnlyQueue, OnlyLimiter, OnlySlots,
      OnlyAuthority

\* The invariant of the bridge holds whatever the services do.
LEMMA Bridge == ServicesSpec => []BridgeInv
  <1>1. ServicesInit => BridgeInv
    BY BridgeInitInv DEF ServicesInit
  <1> QED
    BY <1>1, BridgeStepInv, BridgeSteps, PTL DEF ServicesSpec

\* A call resumes its graph once, unless a request went on without the lock.
THEOREM BridgeResumesOnce == ServicesSpec => []ResumedOnce
  <1>1. BridgeInv => ResumedOnce
    BY DEF BridgeInv, ResumedByOne, ResumedOnce
  <1> QED
    BY <1>1, Bridge, PTL

\* Who may hold the lock: a request that still has to give it back, a call that
\* is resumed, or nobody that is left.
LockHasReason ==
  /\ \A p \in Posts : Resuming(p) => processed
  /\ \A p \in Posts : post[p].at = "locking" => post[p].redis
  /\ lock => \/ processed \/ stranded
             \/ \E p \in Posts : /\ post[p].at \in {"loading", "checking", "releasing"}
                                 /\ post[p].redis

\* Nobody has asked for the lock yet.
LEMMA LockInit == BridgeInit => LockHasReason
  BY DEF BridgeInit, LockHasReason, Resuming

\* A step of one request leaves it holding the lock with a reason.
LEMMA LockStep ==
  ASSUME PostTypes, LockHasReason, NEW p \in Posts, PostStep(p) PROVE LockHasReason'
  <1>1. CASE Receive(p)
    <2>1. /\ post[p].at = "new" /\ UNCHANGED <<lock, processed, stranded>>
      BY <1>1 DEF Receive
    <2>2. /\ post'[p].at \in {"locking", "loading", "refused"}
          /\ post'[p].at = "locking" => post'[p].redis = TRUE
          /\ \A q \in Posts \ {p} : post'[q] = post[q]
      BY <1>1 DEF Receive, Goes, PostTypes
    <2> QED
      BY <2>1, <2>2 DEF LockHasReason, Resuming
  <1>2. CASE TakeLock(p)
    <2>1. /\ post[p].at = "locking" /\ post[p].redis /\ UNCHANGED <<processed, stranded>>
      BY <1>2 DEF TakeLock, LockHasReason
    <2>2. CASE Goes(p, "loading")
      <3>1. post'[p].at = "loading" /\ post'[p].redis
            /\ \A q \in Posts \ {p} : post'[q] = post[q]
        BY <2>1, <2>2, GoesFields DEF Places
      <3> QED
        BY <2>1, <3>1 DEF LockHasReason, Resuming
    <2>3. CASE Goes(p, "refused") /\ lock' = lock
      <3>1. post'[p].at = "refused" /\ \A q \in Posts \ {p} : post'[q] = post[q]
        BY <2>3, GoesFields DEF Places
      <3> QED
        BY <2>1, <2>3, <3>1 DEF LockHasReason, Resuming
    <2> QED
      BY <1>2, <2>2, <2>3 DEF TakeLock
  <1>3. CASE LoadCheckpoint(p)
    <2>1. /\ post[p].at = "loading" /\ UNCHANGED <<lock, processed, stranded>>
      BY <1>3 DEF LoadCheckpoint
    <2>2. /\ post'[p].at = "checking" /\ post'[p].redis = post[p].redis
          /\ \A q \in Posts \ {p} : post'[q] = post[q]
      BY <1>3 DEF LoadCheckpoint, Goes, PostTypes
    <2> QED
      BY <2>1, <2>2 DEF LockHasReason, Resuming
  <1>4. CASE Check(p)
    <2>1. /\ post[p].at = "checking" /\ UNCHANGED <<lock, stranded>>
      BY <1>4 DEF Check
    <2>2. CASE Refuses(p) /\ UNCHANGED processed
      <3>1. /\ post'[p].at = IF post[p].redis THEN "releasing" ELSE "refused"
            /\ post'[p].redis = post[p].redis
            /\ \A q \in Posts \ {p} : post'[q] = post[q]
        BY <2>2, GoesFields DEF Refuses, Places
      <3> QED
        BY <2>1, <2>2, <3>1 DEF LockHasReason, Resuming
    <2>3. CASE InFlight /\ Goes(p, "refused") /\ UNCHANGED processed
      <3>1. post'[p].at = "refused" /\ \A q \in Posts \ {p} : post'[q] = post[q]
        BY <2>3, GoesFields DEF Places
      <3> QED
        BY <2>1, <2>3, <3>1 DEF LockHasReason, Resuming, InFlight
    <2>4. CASE processed' = TRUE
               /\ Goes(p, IF post[p].redis THEN "deleting" ELSE "invoking")
      <3>1. /\ post'[p].at \in {"deleting", "invoking"}
            /\ \A q \in Posts \ {p} : post'[q] = post[q]
        BY <2>4, GoesFields DEF Places
      <3> QED
        BY <2>4, <3>1 DEF LockHasReason
    <2> QED
      BY <1>4, <2>2, <2>3, <2>4 DEF Check
  <1>5. CASE ReleaseLock(p)
    <2>1. /\ UNCHANGED processed
          /\ (lock' = FALSE /\ UNCHANGED stranded) \/ stranded' = TRUE
      BY <1>5 DEF ReleaseLock
    <2>2. /\ post'[p].at = "refused" /\ \A q \in Posts \ {p} : post'[q] = post[q]
      BY <1>5, GoesFields DEF ReleaseLock, Places
    <2> QED
      BY <2>1, <2>2 DEF LockHasReason, Resuming
  <1>6. CASE DeleteCheckpoint(p) \/ InvokeGraph(p)
    <2>1. /\ processed /\ UNCHANGED <<lock, processed, stranded>>
      BY <1>6 DEF DeleteCheckpoint, InvokeGraph, LockHasReason, Resuming
    <2>2. /\ post'[p].at \in {"invoking", "resumed"}
          /\ \A q \in Posts \ {p} : post'[q] = post[q]
      BY <1>6, GoesFields DEF DeleteCheckpoint, InvokeGraph, Places
    <2> QED
      BY <2>1, <2>2 DEF LockHasReason
  <1> QED
    BY <1>1, <1>2, <1>3, <1>4, <1>5, <1>6 DEF PostStep

\* Every step of the bridge leaves a lock with its reason.
LEMMA LockHasReasonStep ==
  PostTypes /\ LockHasReason /\ [BridgeNext]_bridgeVars => LockHasReason'
  <1> SUFFICES ASSUME PostTypes, LockHasReason, [BridgeNext]_bridgeVars
               PROVE  LockHasReason'
    OBVIOUS
  <1>1. CASE SaveCheckpoint \/ CheckpointExpires \/ UNCHANGED bridgeVars
    BY <1>1 DEF SaveCheckpoint, CheckpointExpires, bridgeVars, LockHasReason, Resuming
  <1>2. CASE LockExpires
    BY <1>2 DEF LockExpires, LockHasReason, Resuming
  <1>3. CASE RestartApi
    <2>1. /\ stranded' = TRUE
          /\ \A p \in Posts : post'[p].at \in AtRest
      BY <1>3 DEF RestartApi, PostTypes, AtRest
    <2> QED
      BY <2>1 DEF LockHasReason, AtRest, Resuming
  <1> QED
    BY <1>1, <1>2, <1>3, LockStep DEF BridgeNext

\* A request that is refused does not keep the call from its owner.
THEOREM BridgeFreesLock == ServicesSpec => []LockFreedByRefused
  <1>1. ServicesInit => LockHasReason
    BY LockInit DEF ServicesInit
  <1>2. BridgeInv => PostTypes
    BY DEF BridgeInv
  <1>3. LockHasReason => LockFreedByRefused
    BY DEF LockHasReason, LockFreedByRefused, AtRest
  <1> QED
    BY <1>1, <1>2, <1>3, Bridge, LockHasReasonStep, BridgeSteps, PTL DEF ServicesSpec

-----------------------------------------------------------------------------
(* The rate limiter                                                        *)

\* What a bucket has allowed and still holds is its burst and the time it has
\* counted, with what was counted twice.
BucketsBounded ==
  /\ granted["memory"] + bucket["memory"].tokens <= Capacity + bucket["memory"].last
  /\ granted["redis"] + bucket["redis"].tokens
       <= Capacity + bucket["redis"].last + rewound

\* No bucket and no check is ahead of the clock.
ClockLeads ==
  /\ \A s \in Stores : bucket[s].last <= time
  /\ \A c \in Checks : call[c].now <= time

LimiterInv == LimiterTypeOK /\ BucketsBounded /\ ClockLeads

\* The smaller of two integers.
LEMMA MinOfTwo ==
  ASSUME NEW a \in Int, NEW b \in Int
  PROVE  Min({a, b}) \in {a, b} /\ Min({a, b}) <= a /\ Min({a, b}) <= b
  <1>1. \E x \in {a, b} : \A y \in {a, b} : x <= y
    <2>1. (a <= b /\ a <= a) \/ (b <= a /\ b <= b)
      OBVIOUS
    <2> QED
      BY <2>1, Zenon
  <1>2. Min({a, b}) \in {a, b} /\ \A y \in {a, b} : Min({a, b}) <= y
    BY <1>1, Zenon DEF Min
  <1> QED
    BY <1>2, Zenon

\* The larger one.
LEMMA MaxOfTwo ==
  ASSUME NEW a \in Int, NEW b \in Int
  PROVE  Max({a, b}) \in {a, b} /\ Max({a, b}) >= a /\ Max({a, b}) >= b
  <1>1. \E x \in {a, b} : \A y \in {a, b} : x >= y
    <2>1. (a >= b /\ a >= a) \/ (b >= a /\ b >= b)
      OBVIOUS
    <2> QED
      BY <2>1, Zenon
  <1>2. Max({a, b}) \in {a, b} /\ \A y \in {a, b} : Max({a, b}) >= y
    BY <1>1, Zenon DEF Max
  <1> QED
    BY <1>2, Zenon

\* A refill adds at most the time since the last one and never exceeds the burst.
LEMMA RefilledBounds ==
  ASSUME LimiterTypeOK, NEW s \in Stores, NEW now \in Nat
  PROVE  /\ Refilled(s, now) \in 0..Capacity
         /\ Refilled(s, now) <= bucket[s].tokens + Max({0, now - bucket[s].last})
         /\ Max({0, now - bucket[s].last}) \in Nat
         /\ Max({0, bucket[s].last - now}) \in Nat
         /\ Max({0, now - bucket[s].last}) + bucket[s].last
              = now + Max({0, bucket[s].last - now})
  <1>1. /\ bucket[s].tokens \in 0..Capacity /\ bucket[s].last \in Nat /\ Capacity \in Nat
    BY LimiterAssumption DEF LimiterTypeOK, LimiterAssumption
  <1> DEFINE more == Max({0, now - bucket[s].last})
             less == Max({0, bucket[s].last - now})
  <1>2. 0 \in Int /\ now - bucket[s].last \in Int /\ bucket[s].last - now \in Int
    BY <1>1
  <1>3. more \in {0, now - bucket[s].last} /\ more >= 0 /\ more >= now - bucket[s].last
    BY <1>2, MaxOfTwo, Zenon
  <1>4. less \in {0, bucket[s].last - now} /\ less >= 0 /\ less >= bucket[s].last - now
    BY <1>2, MaxOfTwo, Zenon
  <1> HIDE DEF more, less
  <1>5. more \in Nat /\ less \in Nat /\ more + bucket[s].last = now + less
    BY <1>1, <1>3, <1>4
  <1>6. Capacity \in Int /\ bucket[s].tokens + more \in Int
    BY <1>1, <1>5
  <1>7. /\ Min({Capacity, bucket[s].tokens + more}) \in {Capacity, bucket[s].tokens + more}
        /\ Min({Capacity, bucket[s].tokens + more}) <= Capacity
        /\ Min({Capacity, bucket[s].tokens + more}) <= bucket[s].tokens + more
    BY <1>6, MinOfTwo, Zenon
  <1>8. Refilled(s, now) = Min({Capacity, bucket[s].tokens + more})
    BY DEF Refilled, more
  <1>9. Refilled(s, now) \in 0..Capacity /\ Refilled(s, now) <= bucket[s].tokens + more
    BY <1>1, <1>5, <1>7, <1>8
  <1> QED
    BY <1>5, <1>9 DEF more, less

\* A check that spends keeps its bucket bounded; one that runs late says by how much.
LEMMA ConsumeInv ==
  ASSUME LimiterInv, NEW s \in Stores, NEW now \in 0..time, Consume(s, now),
         s = "memory" => now = time, time' = time
  PROVE  /\ bucket' \in [Stores -> [tokens : 0..Capacity, last : 0..MaxTime]]
         /\ granted' \in [Stores -> Nat] /\ rewound' \in Nat
         /\ BucketsBounded'
         /\ \A r \in Stores : bucket'[r].last <= time
  <1>1. /\ LimiterTypeOK /\ Capacity \in Nat /\ time \in Nat /\ time <= MaxTime
        /\ MaxTime \in Nat /\ now \in Nat /\ now <= time
    BY LimiterAssumption DEF LimiterInv, LimiterTypeOK, LimiterAssumption
  <1>2. /\ bucket \in [Stores -> [tokens : 0..Capacity, last : 0..MaxTime]]
        /\ granted \in [Stores -> Nat] /\ rewound \in Nat
    BY <1>1 DEF LimiterTypeOK
  <1>3. CASE UNCHANGED <<bucket, granted, rewound>>
    BY <1>2, <1>3 DEF LimiterInv, BucketsBounded, ClockLeads
  <1>4. CASE /\ Refilled(s, now) >= 1 /\ Spend(s, now)
             /\ granted' = [granted EXCEPT ![s] = @ + 1]
             /\ rewound' = rewound + Max({0, bucket[s].last - now})
    <2> DEFINE full == Refilled(s, now)
               more == Max({0, now - bucket[s].last})
               less == Max({0, bucket[s].last - now})
    <2>1. /\ full \in 0..Capacity /\ full <= bucket[s].tokens + more
          /\ more \in Nat /\ less \in Nat /\ more + bucket[s].last = now + less
      BY <1>1, RefilledBounds
    <2>2. /\ bucket' = [bucket EXCEPT ![s] = [tokens |-> full - 1, last |-> now]]
          /\ full >= 1 /\ rewound' = rewound + less
      BY <1>4 DEF Spend
    <2> HIDE DEF full, more, less
    <2>3. [tokens |-> full - 1, last |-> now] \in [tokens : 0..Capacity, last : 0..MaxTime]
      BY <1>1, <2>1, <2>2
    <2>4. /\ bucket' \in [Stores -> [tokens : 0..Capacity, last : 0..MaxTime]]
          /\ bucket'[s].tokens = full - 1 /\ bucket'[s].last = now
          /\ \A r \in Stores \ {s} : bucket'[r] = bucket[r]
      BY <1>2, <2>2, <2>3
    <2>5. /\ granted' \in [Stores -> Nat] /\ granted'[s] = granted[s] + 1
          /\ \A r \in Stores \ {s} : granted'[r] = granted[r]
          /\ rewound' \in Nat
      BY <1>2, <1>4, <2>1, <2>2
    <2>6. /\ granted[s] \in Nat /\ bucket[s].tokens \in Nat /\ bucket[s].last \in Nat
          /\ bucket[s].last <= time
      BY <1>2, <1>1 DEF LimiterInv, ClockLeads
    <2>7. granted'[s] + bucket'[s].tokens <= granted[s] + bucket[s].tokens + more
      BY <2>1, <2>2, <2>4, <2>5, <2>6
    <2>8. CASE s = "memory"
      <3>1. /\ granted["redis"] \in Nat /\ bucket["redis"].tokens \in Nat
            /\ bucket["redis"].last \in Nat
            /\ granted'["redis"] = granted["redis"] /\ bucket'["redis"] = bucket["redis"]
        BY <1>2, <1>1, <2>4, <2>5, <2>8 DEF Stores
      <3>2. less = 0 /\ now = time
        <4>1. 0 \in Int /\ bucket[s].last - now \in Int
          BY <1>1, <2>6
        <4>2. less \in {0, bucket[s].last - now}
          BY <4>1, MaxOfTwo, Zenon DEF less
        <4> QED
          BY <2>8, <4>2, <2>1, <2>6
      <3>3. granted'["memory"] + bucket'["memory"].tokens <= Capacity + bucket'["memory"].last
        <4>1. granted[s] + bucket[s].tokens <= Capacity + bucket[s].last
          BY <2>8 DEF LimiterInv, BucketsBounded
        <4>2. /\ granted'[s] \in Nat /\ bucket'[s].tokens \in Nat /\ bucket'[s].last = now
          BY <1>1, <2>1, <2>2, <2>4, <2>5
        <4>3. granted'[s] + bucket'[s].tokens <= Capacity + bucket'[s].last
          BY <1>1, <2>1, <2>6, <2>7, <4>1, <4>2, <3>2
        <4> QED
          BY <2>8, <4>3
      <3>4. rewound' = rewound
        BY <1>2, <2>2, <3>2
      <3>5. BucketsBounded'
        BY <3>1, <3>3, <3>4 DEF LimiterInv, BucketsBounded
      <3> QED
        BY <3>5, <2>4, <2>5, <1>1 DEF LimiterInv, ClockLeads
    <2>9. CASE s = "redis"
      <3>1. /\ granted'["memory"] = granted["memory"] /\ bucket'["memory"] = bucket["memory"]
        BY <2>4, <2>5, <2>9 DEF Stores
      <3>2. granted'["redis"] + bucket'["redis"].tokens
              <= Capacity + bucket'["redis"].last + rewound'
        <4>1. granted[s] + bucket[s].tokens <= Capacity + bucket[s].last + rewound
          BY <2>9 DEF LimiterInv, BucketsBounded
        <4>2. /\ granted'[s] \in Nat /\ bucket'[s].tokens \in Nat /\ bucket'[s].last = now
          BY <1>1, <2>1, <2>2, <2>4, <2>5
        <4>3. granted'[s] + bucket'[s].tokens <= Capacity + bucket'[s].last + rewound'
          BY <1>1, <1>2, <2>1, <2>2, <2>6, <2>7, <4>1, <4>2
        <4> QED
          BY <2>9, <4>3
      <3>3. BucketsBounded'
        BY <3>1, <3>2 DEF LimiterInv, BucketsBounded
      <3> QED
        BY <3>3, <2>4, <2>5, <1>1 DEF LimiterInv, ClockLeads
    <2> QED
      BY <2>8, <2>9 DEF Stores
  <1> QED
    BY <1>3, <1>4 DEF Consume

\* The buckets are full when the clock starts.
LEMMA LimiterInitInv == LimiterInit => LimiterInv
  BY LimiterAssumption
  DEF LimiterAssumption, LimiterInit, LimiterInv, LimiterTypeOK, BucketsBounded, ClockLeads,
      Stores

\* Every step of the limiter preserves the bound.
LEMMA LimiterStepInv == LimiterInv /\ [LimiterNext]_limiterVars => LimiterInv'
  <1> SUFFICES ASSUME LimiterInv, [LimiterNext]_limiterVars PROVE LimiterInv'
    OBVIOUS
  <1> USE LimiterAssumption DEF LimiterAssumption
  <1>1. /\ time \in 0..MaxTime /\ retryAfter \in 0..(MaxTime + Backoff)
        /\ call \in [Checks -> [at : {"idle", "evaluating"}, now : 0..MaxTime]]
        /\ \A c \in Checks : call[c].now \in 0..time
    BY DEF LimiterInv, LimiterTypeOK, ClockLeads
  <1>2. CASE UNCHANGED limiterVars
    BY <1>2 DEF limiterVars, LimiterInv, LimiterTypeOK, BucketsBounded, ClockLeads
  <1>3. CASE Tick
    BY <1>1, <1>3 DEF Tick, LimiterInv, LimiterTypeOK, BucketsBounded, ClockLeads
  <1>4. ASSUME NEW c \in Checks, Begin(c) PROVE LimiterInv'
    BY <1>1, <1>4 DEF Begin, LimiterInv, LimiterTypeOK, BucketsBounded, ClockLeads
  <1>5. ASSUME NEW c \in Checks, CheckInMemory(c) PROVE LimiterInv'
    <2>1. /\ time \in 0..time /\ "memory" \in Stores
      BY <1>1 DEF Stores
    <2>2. /\ Consume("memory", time) /\ UNCHANGED <<time, call>>
          /\ retryAfter' \in 0..(MaxTime + Backoff)
      BY <1>1, <1>5 DEF CheckInMemory
    <2> QED
      BY <1>1, <2>1, <2>2, ConsumeInv DEF LimiterInv, LimiterTypeOK, ClockLeads
  <1>6. ASSUME NEW c \in Checks, Evaluate(c) \/ EvaluationFails(c) PROVE LimiterInv'
    <2>1. /\ time \in 0..time /\ call[c].now \in 0..time
          /\ "memory" \in Stores /\ "redis" \in Stores
      BY <1>1 DEF Stores
    <2>2. /\ Consume("redis", call[c].now) \/ Consume("memory", time)
          /\ UNCHANGED time
          /\ call' = [call EXCEPT ![c] = [at |-> "idle", now |-> 0]]
          /\ retryAfter' \in 0..(MaxTime + Backoff)
      BY <1>1, <1>6 DEF Evaluate, EvaluationFails
    <2>3. /\ bucket' \in [Stores -> [tokens : 0..Capacity, last : 0..MaxTime]]
          /\ granted' \in [Stores -> Nat] /\ rewound' \in Nat
          /\ BucketsBounded'
          /\ \A r \in Stores : bucket'[r].last <= time
      BY <2>1, <2>2, ConsumeInv
    <2>4. /\ call' \in [Checks -> [at : {"idle", "evaluating"}, now : 0..MaxTime]]
          /\ \A d \in Checks : call'[d].now <= time
      BY <1>1, <2>2
    <2> QED
      BY <1>1, <2>2, <2>3, <2>4 DEF LimiterInv, LimiterTypeOK, ClockLeads
  <1> QED
    BY <1>2, <1>3, <1>4, <1>5, <1>6 DEF LimiterNext

\* A step of the services is one of the limiter or leaves it alone.
LEMMA LimiterSteps == [ServicesNext]_servicesVars => [LimiterNext]_limiterVars
  BY DEF ServicesNext, servicesVars, Only, OnlyChat, OnlyQueue, OnlyBridge, OnlySlots,
      OnlyAuthority

\* Neither bucket allows more than its burst, the time that has passed and, in
\* Redis, the time counted twice.
THEOREM LimiterBoundsAdmissions == ServicesSpec => []AdmissionsBounded
  <1>1. ServicesInit => LimiterInv
    BY LimiterInitInv DEF ServicesInit
  <1>2. LimiterInv => AdmissionsBounded
    <2> SUFFICES ASSUME LimiterInv PROVE AdmissionsBounded
      OBVIOUS
    <2>1. /\ \A s \in Stores : /\ granted[s] \in Nat /\ bucket[s].tokens \in Nat
                               /\ bucket[s].last \in Nat
          /\ rewound \in Nat /\ time \in Nat /\ Capacity \in Nat
      BY LimiterAssumption DEF LimiterInv, LimiterTypeOK, LimiterAssumption
    <2> QED
      BY <2>1 DEF LimiterInv, BucketsBounded, ClockLeads, AdmissionsBounded, Stores
  <1> QED
    BY <1>1, <1>2, LimiterStepInv, LimiterSteps, PTL DEF ServicesSpec

-----------------------------------------------------------------------------
(* The ingestion queue                                                     *)

QueueTypes ==
  /\ record \in [Tasks -> Statuses]
  /\ redisQueue \in Seq(Tasks)
  /\ enqueuing \in [Tasks -> {"new", "recording", "pushing", "accepted"}]
  /\ job \in [Workers -> Jobs]

\* A worker has a task exactly when it does something, and an outcome to save
\* when the pipeline has returned.
JobsFit ==
  \A w \in Workers :
    /\ job[w].at = "idle" <=> job[w].task = NoTask
    /\ job[w].at \in {"rereading", "saving"} => job[w].copy \in Ended

\* Who reads the entry of a task no fault has touched finds its record.
RecordBeforeEntry ==
  \A t \in Tasks \ hurt : enqueuing[t] \in {"pushing", "accepted"} => record[t] # "none"

Queued(t) == t \in ToSet(redisQueue)

Has(w, t) == job[w].task = t

\* A task is in one place: not yet enqueued, once in the queue, or with one worker.
OnePlace ==
  /\ \A i, j \in 1..Len(redisQueue) : redisQueue[i] = redisQueue[j] => i = j
  /\ \A t \in Tasks :
       /\ enqueuing[t] # "accepted" => ~Queued(t) /\ \A w \in Workers : ~Has(w, t)
       /\ Queued(t) => \A w \in Workers : ~Has(w, t)
       /\ \A w, v \in Workers : Has(w, t) /\ Has(v, t) => w = v

\* How far the record of a task can be, by where the task is.
RecordFollows ==
  /\ \A t \in Tasks :
       /\ enqueuing[t] \in {"new", "recording"} => record[t] = "none"
       /\ enqueuing[t] = "pushing" \/ Queued(t) => record[t] \in {"none", "queued"}
  /\ \A w \in Workers :
       /\ job[w].at \in {"fetching", "claiming"} =>
            record[job[w].task] \in {"none", "queued"}
       /\ job[w].at \in {"ingesting", "rereading", "saving"} =>
            record[job[w].task] \in {"none", "queued", "processing"}

\* A task that no fault has touched is somewhere, or ended.
NothingLost ==
  \A t \in Tasks \ hurt : enqueuing[t] = "accepted" =>
    Queued(t) \/ record[t] \in Ended \/ \E w \in Workers : Has(w, t)

QueueInv ==
  QueueTypes /\ JobsFit /\ RecordBeforeEntry /\ OnePlace /\ RecordFollows /\ NothingLost

\* What is in a queue after an entry is appended.
LEMMA AppendedSet ==
  ASSUME NEW q \in Seq(Tasks), NEW t \in Tasks
  PROVE  /\ Append(q, t) \in Seq(Tasks) /\ ToSet(Append(q, t)) = ToSet(q) \cup {t}
         /\ t \notin ToSet(q) /\ (\A i, j \in 1..Len(q) : q[i] = q[j] => i = j) =>
              \A i, j \in 1..Len(Append(q, t)) : Append(q, t)[i] = Append(q, t)[j] => i = j
  <1> DEFINE p == Append(q, t)
  <1>1. /\ p \in Seq(Tasks) /\ Len(p) = Len(q) + 1 /\ Len(q) \in Nat
        /\ \A i \in 1..Len(q) : p[i] = q[i]
        /\ p[Len(q) + 1] = t
    OBVIOUS
  <1>2. DOMAIN p = 1..Len(p) /\ DOMAIN q = 1..Len(q)
    BY <1>1
  <1> HIDE DEF p
  <1>3. ToSet(p) = {p[i] : i \in 1..Len(p)} /\ ToSet(q) = {q[i] : i \in 1..Len(q)}
    BY <1>2 DEF ToSet
  <1>4. \A i \in 1..Len(p) : i \in 1..Len(q) \/ i = Len(q) + 1
    BY <1>1
  <1>5. \A i \in 1..Len(q) : i \in 1..Len(p)
    BY <1>1
  <1>6. Len(q) + 1 \in 1..Len(p)
    BY <1>1
  <1>7. ToSet(p) = ToSet(q) \cup {t}
    BY <1>1, <1>3, <1>4, <1>5, <1>6
  <1>8. ASSUME t \notin ToSet(q), \A i, j \in 1..Len(q) : q[i] = q[j] => i = j,
               NEW i \in 1..Len(p), NEW j \in 1..Len(p), p[i] = p[j]
        PROVE  i = j
    <2>1. \A k \in 1..Len(q) : q[k] # t
      BY <1>3, <1>8
    <2> QED
      BY <1>1, <1>4, <1>8, <2>1
  <1> QED
    BY <1>1, <1>7, <1>8 DEF p

\* And after one is taken.
LEMMA TakenSet ==
  ASSUME NEW q \in Seq(Tasks), q # <<>>
  PROVE  /\ Tail(q) \in Seq(Tasks) /\ Head(q) \in Tasks
         /\ ToSet(q) = ToSet(Tail(q)) \cup {Head(q)}
         /\ (\A i, j \in 1..Len(q) : q[i] = q[j] => i = j) =>
              /\ Head(q) \notin ToSet(Tail(q))
              /\ \A i, j \in 1..Len(Tail(q)) : Tail(q)[i] = Tail(q)[j] => i = j
  <1> DEFINE p == Tail(q)
  <1>1. /\ p \in Seq(Tasks) /\ Len(q) \in Nat /\ Len(q) >= 1 /\ Len(p) = Len(q) - 1
        /\ \A i \in 1..Len(p) : p[i] = q[i + 1]
        /\ Head(q) = q[1] /\ q[1] \in Tasks
    OBVIOUS
  <1>2. DOMAIN p = 1..Len(p) /\ DOMAIN q = 1..Len(q)
    BY <1>1
  <1> HIDE DEF p
  <1>3. ToSet(p) = {p[i] : i \in 1..Len(p)} /\ ToSet(q) = {q[i] : i \in 1..Len(q)}
    BY <1>2 DEF ToSet
  <1>4. \A i \in 1..Len(q) : i = 1 \/ (i - 1 \in 1..Len(p) /\ p[i - 1] = q[i])
    BY <1>1
  <1>5. \A i \in 1..Len(p) : i + 1 \in 1..Len(q) /\ i + 1 # 1
    BY <1>1
  <1>6. ToSet(q) = ToSet(p) \cup {Head(q)}
    <2>1. ASSUME NEW x \in ToSet(q) PROVE x \in ToSet(p) \cup {Head(q)}
      <3>1. PICK i \in 1..Len(q) : x = q[i]
        BY <1>3, <2>1
      <3>2. CASE i = 1
        BY <1>1, <3>1, <3>2
      <3>3. CASE i - 1 \in 1..Len(p) /\ p[i - 1] = q[i]
        BY <1>3, <3>1, <3>3, Zenon
      <3> QED
        BY <1>4, <3>2, <3>3
    <2>2. ToSet(p) \cup {Head(q)} \subseteq ToSet(q)
      BY <1>1, <1>3, <1>5
    <2> QED
      BY <2>1, <2>2
  <1>7. ASSUME \A i, j \in 1..Len(q) : q[i] = q[j] => i = j
        PROVE  /\ Head(q) \notin ToSet(p)
               /\ \A i, j \in 1..Len(p) : p[i] = p[j] => i = j
    <2>1. \A i \in 1..Len(p) : p[i] # q[1]
      BY <1>1, <1>5, <1>7
    <2>2. ASSUME NEW i \in 1..Len(p), NEW j \in 1..Len(p), p[i] = p[j] PROVE i = j
      <3>1. i + 1 = j + 1
        BY <1>1, <1>5, <1>7, <2>2
      <3> QED
        BY <3>1
    <2> QED
      BY <1>1, <1>3, <2>1, <2>2
  <1> QED
    BY <1>1, <1>6, <1>7 DEF p

\* The order in which a task's status goes.
LEMMA RankOf ==
  /\ Rank("none") = 0 /\ Rank("queued") = 1 /\ Rank("processing") = 2
  /\ \A s \in Ended : Rank(s) = 3
  /\ \A s \in Statuses : Rank(s) \in 0..3
  BY DEF Rank, Ended, Statuses

\* No task has been enqueued.
LEMMA QueueInitInv == QueueInit => QueueInv
  <1> SUFFICES ASSUME QueueInit PROVE QueueInv
    OBVIOUS
  <1>1. /\ redisQueue \in Seq(Tasks) /\ ToSet(redisQueue) = {} /\ Len(redisQueue) = 0
        /\ NoTask \notin Tasks
    BY QueueAssumption DEF QueueInit, ToSet, QueueAssumption
  <1>2. \A w \in Workers : job[w] = Idle
    BY DEF QueueInit
  <1>3. QueueTypes
    BY <1>1 DEF QueueInit, QueueTypes, Statuses, Idle, Jobs
  <1> QED
    BY <1>1, <1>2, <1>3
    DEF QueueInit, QueueInv, JobsFit, RecordBeforeEntry, OnePlace, RecordFollows,
        NothingLost, Queued, Has, Idle

\* What the actions of the API process have in common: they are about one task,
\* and leave the workers and what is known of the other tasks.
LEMMA ApiStepInv ==
  ASSUME QueueInv, NEW t \in Tasks, Enqueue(t) \/ WriteRecord(t) \/ Push(t)
  PROVE  QueueInv'
  <1>1. /\ record \in [Tasks -> Statuses]
        /\ redisQueue \in Seq(Tasks)
        /\ enqueuing \in [Tasks -> {"new", "recording", "pushing", "accepted"}]
    BY DEF QueueInv, QueueTypes
  <1>2. job' = job
    BY DEF Enqueue, WriteRecord, Push
  <1>3. /\ hurt \subseteq hurt' /\ hurt' \subseteq hurt \cup {t}
        /\ \A o \in Tasks \ {t} : o \in hurt' <=> o \in hurt
    BY DEF Enqueue, WriteRecord, Push, LinkFault, NoLinkFault, FallBack
  <1>4. /\ record' \in [Tasks -> Statuses]
        /\ enqueuing' \in [Tasks -> {"new", "recording", "pushing", "accepted"}]
        /\ \A o \in Tasks \ {t} : /\ record'[o] = record[o]
                                  /\ enqueuing'[o] = enqueuing[o]
    BY <1>1 DEF Enqueue, WriteRecord, Push, FallBack, Statuses
  <1>5. \/ redisQueue' = redisQueue
        \/ /\ redisQueue' = Append(redisQueue, t)
           /\ enqueuing[t] = "pushing" /\ enqueuing'[t] = "accepted"
    BY <1>1 DEF Enqueue, WriteRecord, Push, FallBack
  <1>6. ~Queued(t) \/ enqueuing[t] = "accepted"
    BY DEF QueueInv, OnePlace
  <1>7. /\ redisQueue' \in Seq(Tasks)
        /\ \A o \in Tasks \ {t} : Queued(o)' <=> Queued(o)
        /\ Queued(t) => Queued(t)'
        /\ Queued(t)' => Queued(t) \/ (enqueuing[t] = "pushing" /\ enqueuing'[t] = "accepted")
        /\ \A i, j \in 1..Len(redisQueue') : redisQueue'[i] = redisQueue'[j] => i = j
    <2>1. \A i, j \in 1..Len(redisQueue) : redisQueue[i] = redisQueue[j] => i = j
      BY DEF QueueInv, OnePlace
    <2>2. CASE redisQueue' = redisQueue
      <3>1. /\ redisQueue' \in Seq(Tasks)
            /\ \A i, j \in 1..Len(redisQueue') : redisQueue'[i] = redisQueue'[j] => i = j
        BY <1>1, <2>1, <2>2
      <3>2. \A o : Queued(o)' <=> Queued(o)
        BY <2>2 DEF Queued
      <3> QED
        BY <3>1, <3>2
    <2>3. CASE /\ redisQueue' = Append(redisQueue, t)
               /\ enqueuing[t] = "pushing" /\ enqueuing'[t] = "accepted"
      <3>1. t \notin ToSet(redisQueue)
        BY <1>6, <2>3 DEF Queued
      <3>2. /\ redisQueue' \in Seq(Tasks)
            /\ ToSet(redisQueue') = ToSet(redisQueue) \cup {t}
            /\ \A i, j \in 1..Len(redisQueue') : redisQueue'[i] = redisQueue'[j] => i = j
        BY <1>1, <2>1, <2>3, <3>1, AppendedSet
      <3> QED
        BY <2>3, <3>2 DEF Queued
    <2> QED
      BY <1>5, <2>2, <2>3
  \* What the three actions do to the task.
  <1>8. \/ /\ enqueuing[t] = "new" /\ enqueuing'[t] \in {"recording", "accepted"}
           /\ record'[t] = record[t]
           /\ redisQueue' = redisQueue
           /\ enqueuing'[t] = "accepted" => t \in hurt'
        \/ /\ enqueuing[t] = "recording"
           /\ redisQueue' = redisQueue
           /\ \/ enqueuing'[t] = "pushing" /\ record'[t] = "queued"
              \/ /\ enqueuing'[t] = "accepted" /\ t \in hurt'
                 /\ record'[t] \in {record[t], "queued"}
        \/ /\ enqueuing[t] = "pushing" /\ enqueuing'[t] = "accepted"
           /\ record'[t] = record[t]
           /\ redisQueue' = Append(redisQueue, t) \/ t \in hurt'
    <2>1. CASE Enqueue(t)
      BY <1>1, <2>1 DEF Enqueue, FallBack, LinkFault
    <2>2. CASE WriteRecord(t)
      BY <1>1, <2>2 DEF WriteRecord, FallBack, LinkFault
    <2>3. CASE Push(t)
      BY <1>1, <2>3 DEF Push, FallBack, LinkFault
    <2> QED
      BY <2>1, <2>2, <2>3
  <1>9. QueueTypes' /\ JobsFit'
    BY <1>2, <1>4, <1>7 DEF QueueInv, QueueTypes, JobsFit
  <1>10. RecordBeforeEntry'
    BY <1>1, <1>3, <1>4, <1>8 DEF QueueInv, RecordBeforeEntry
  <1>11. \A w \in Workers : Has(w, t) => enqueuing[t] = "accepted"
    BY DEF QueueInv, OnePlace
  <1>12. OnePlace'
    BY <1>2, <1>4, <1>7, <1>8, <1>11 DEF QueueInv, OnePlace, Has
  <1>13. RecordFollows'
    <2>1. \A o \in Tasks : 
            /\ enqueuing'[o] \in {"new", "recording"} => record'[o] = "none"
            /\ enqueuing'[o] = "pushing" \/ Queued(o)' => record'[o] \in {"none", "queued"}
      BY <1>4, <1>6, <1>7, <1>8 DEF QueueInv, RecordFollows
    <2>2. \A w \in Workers : job[w].at # "idle" => record'[job[w].task] = record[job[w].task]
      <3> SUFFICES ASSUME NEW w \in Workers, job[w].at # "idle"
                   PROVE  record'[job[w].task] = record[job[w].task]
        OBVIOUS
      <3>1. job[w].task \in Tasks
        BY DEF QueueInv, QueueTypes, JobsFit, Jobs
      <3>2. job[w].task = t => enqueuing[t] = "accepted"
        BY <1>11 DEF Has
      <3> QED
        BY <1>4, <1>8, <3>1, <3>2
    <2> QED
      BY <1>2, <2>1, <2>2 DEF QueueInv, RecordFollows
  <1>14. NothingLost'
    <2>1. redisQueue' = Append(redisQueue, t) => Queued(t)'
      BY <1>1, AppendedSet DEF Queued
    <2>2. Queued(t)' \/ record'[t] \in Ended \/ (\E w \in Workers : Has(w, t)') \/ t \in hurt'
          \/ enqueuing'[t] # "accepted"
      BY <1>2, <1>3, <1>7, <1>8, <2>1 DEF QueueInv, NothingLost, Has
    <2>3. ASSUME NEW o \in Tasks \ {t}, o \notin hurt', enqueuing'[o] = "accepted"
          PROVE  Queued(o)' \/ record'[o] \in Ended \/ \E w \in Workers : Has(w, o)'
      BY <1>2, <1>3, <1>4, <1>7, <2>3 DEF QueueInv, NothingLost, Has
    <2> QED
      BY <2>2, <2>3 DEF NothingLost
  <1> QED
    BY <1>9, <1>10, <1>12, <1>13, <1>14 DEF QueueInv

\* What the steps of a worker that has a task, or keeps none, have in common: the
\* record of no other task changes, its own goes forward, and a task is only put
\* down when it has ended or a fault has touched it.
LEMMA WorkerFrame ==
  ASSUME QueueInv, NEW w \in Workers, NEW j \in Jobs,
         job' = [job EXCEPT ![w] = j],
         UNCHANGED <<redisQueue, enqueuing>>,
         hurt \subseteq hurt',
         record' \in [Tasks -> Statuses],
         \A t \in Tasks : \/ record'[t] = record[t]
                         \/ /\ Has(w, t) /\ record'[t] # "none"
                            /\ Rank(record'[t]) >= 2
                            /\ Rank(record[t]) <= Rank(record'[t]),
         \/ j.at = "idle" /\ j.task = NoTask
         \/ j.at # "idle" /\ j.task = job[w].task /\ j.task \in Tasks,
         j.at \in {"rereading", "saving"} => j.copy \in Ended,
         j.at \in {"fetching", "claiming"} => record'[j.task] \in {"none", "queued"},
         j.at \in {"ingesting", "rereading", "saving"} =>
           record'[j.task] \in {"none", "queued", "processing"},
         j.at = "idle" => \A t \in Tasks : Has(w, t) => t \in hurt' \/ record'[t] \in Ended
  PROVE  QueueInv'
  <1>1. /\ job'[w] = j /\ \A v \in Workers \ {w} : job'[v] = job[v]
        /\ job' \in [Workers -> Jobs]
    BY DEF QueueInv, QueueTypes
  <1>2. NoTask \notin Tasks
    BY QueueAssumption DEF QueueAssumption
  <1>3. QueueTypes' /\ JobsFit'
    BY <1>1, <1>2 DEF QueueInv, QueueTypes, JobsFit
  <1>4. \A t \in Tasks : record[t] # "none" => record'[t] # "none"
    OBVIOUS
  <1>5. RecordBeforeEntry'
    BY <1>4 DEF QueueInv, RecordBeforeEntry
  <1>6. \A t \in Tasks : /\ Queued(t)' <=> Queued(t)
                         /\ \A v \in Workers : Has(v, t)' => Has(v, t)
    BY <1>1, <1>2 DEF Queued, Has
  <1>7. OnePlace'
    BY <1>6 DEF QueueInv, OnePlace
  <1>8. \A t \in Tasks : Has(w, t) => enqueuing[t] = "accepted" /\ ~Queued(t)
    BY DEF QueueInv, OnePlace
  <1>9. ASSUME NEW v \in Workers \ {w}, job[v].at # "idle"
        PROVE  record'[job[v].task] = record[job[v].task]
    <2>1. job[v].task \in Tasks
      BY <1>9 DEF QueueInv, QueueTypes, JobsFit, Jobs
    <2>2. ~Has(w, job[v].task)
      BY <2>1 DEF QueueInv, OnePlace, Has
    <2> QED
      BY <2>1, <2>2
  <1>10. RecordFollows'
    <2>1. \A t \in Tasks :
            /\ enqueuing'[t] \in {"new", "recording"} => record'[t] = "none"
            /\ enqueuing'[t] = "pushing" \/ Queued(t)' => record'[t] \in {"none", "queued"}
      BY <1>6, <1>8 DEF QueueInv, RecordFollows
    <2>2. \A v \in Workers :
            /\ job'[v].at \in {"fetching", "claiming"} =>
                 record'[job'[v].task] \in {"none", "queued"}
            /\ job'[v].at \in {"ingesting", "rereading", "saving"} =>
                 record'[job'[v].task] \in {"none", "queued", "processing"}
      BY <1>1, <1>9 DEF QueueInv, RecordFollows
    <2> QED
      BY <2>1, <2>2 DEF RecordFollows
  <1>11. NothingLost'
    <2> SUFFICES ASSUME NEW t \in Tasks \ hurt', enqueuing[t] = "accepted"
                 PROVE  Queued(t)' \/ record'[t] \in Ended \/ \E v \in Workers : Has(v, t)'
      BY DEF NothingLost
    <2>1. Queued(t) \/ record[t] \in Ended \/ \E v \in Workers : Has(v, t)
      BY DEF QueueInv, NothingLost
    <2>2. CASE Queued(t)
      BY <1>6, <2>2
    <2>3. CASE record[t] \in Ended
      <3>1. record'[t] \in Ended
        <4>1. record[t] \in Statuses /\ record'[t] \in Statuses
          BY DEF QueueInv, QueueTypes
        <4>2. Rank(record[t]) = 3 /\ Rank(record'[t]) \in 0..3
          BY <2>3, <4>1, RankOf
        <4>3. Rank(record'[t]) = 3 => record'[t] \in Ended
          BY <4>1, RankOf DEF Statuses
        <4> QED
          BY <2>3, <4>2, <4>3
      <3> QED
        BY <3>1
    <2>4. ASSUME NEW v \in Workers, Has(v, t)
          PROVE  Has(v, t)' \/ record'[t] \in Ended
      BY <1>1, <2>4 DEF Has
    <2> QED
      BY <2>1, <2>2, <2>3, <2>4
  <1> QED
    BY <1>3, <1>5, <1>7, <1>10, <1>11 DEF QueueInv

\* A worker that does something has a task of its own, at its stage.
LEMMA WorkingTask ==
  ASSUME QueueInv, NEW w \in Workers, job[w].at # "idle"
  PROVE  /\ job[w].task \in Tasks /\ Has(w, job[w].task)
         /\ \A t \in Tasks : Has(w, t) => t = job[w].task /\ enqueuing[t] = "accepted"
         /\ record[job[w].task] \in Statuses
  BY DEF QueueInv, QueueTypes, JobsFit, Jobs, OnePlace, Has

\* A worker at rest has none.
LEMMA IdleJob == Idle \in Jobs /\ Idle.at = "idle" /\ Idle.task = NoTask
  BY DEF Idle, Jobs, Statuses

\* The worker takes the first entry of the queue, which nobody else has.
LEMMA PopInv ==
  ASSUME QueueInv, NEW w \in Workers, Pop(w) PROVE QueueInv'
  <1>1. /\ job[w].at = "idle" /\ redisQueue # <<>> /\ redisQueue' = Tail(redisQueue)
        /\ UNCHANGED <<record, enqueuing>>
        /\ hurt \subseteq hurt'
    BY DEF Pop, LinkFault, NoLinkFault
  <1>2. redisQueue \in Seq(Tasks)
        /\ \A i, k \in 1..Len(redisQueue) : redisQueue[i] = redisQueue[k] => i = k
    BY DEF QueueInv, QueueTypes, OnePlace
  <1>3. PICK t \in Tasks :
          /\ t = Head(redisQueue) /\ redisQueue' \in Seq(Tasks)
          /\ ToSet(redisQueue) = ToSet(redisQueue') \cup {t} /\ t \notin ToSet(redisQueue')
          /\ \A i, k \in 1..Len(redisQueue') : redisQueue'[i] = redisQueue'[k] => i = k
    <2>1. /\ Tail(redisQueue) \in Seq(Tasks) /\ Head(redisQueue) \in Tasks
          /\ ToSet(redisQueue) = ToSet(Tail(redisQueue)) \cup {Head(redisQueue)}
          /\ Head(redisQueue) \notin ToSet(Tail(redisQueue))
          /\ \A i, k \in 1..Len(Tail(redisQueue)) :
               Tail(redisQueue)[i] = Tail(redisQueue)[k] => i = k
      BY <1>1, <1>2, TakenSet
    <2> QED
      BY <1>1, <2>1, Zenon
  <1>4. /\ Queued(t) /\ ~Queued(t)' /\ \A o \in Tasks \ {t} : Queued(o)' <=> Queued(o)
    BY <1>3 DEF Queued
  <1>5. /\ enqueuing[t] = "accepted" /\ record[t] \in {"none", "queued"}
        /\ \A v \in Workers : ~Has(v, t)
    BY <1>3, <1>4 DEF QueueInv, OnePlace, RecordFollows
  <1>6. job[w].task = NoTask /\ NoTask \notin Tasks
    BY <1>1, QueueAssumption DEF QueueInv, JobsFit, QueueAssumption
  <1>7. \/ job' = [job EXCEPT ![w] = [at |-> "fetching", task |-> t, copy |-> "none"]]
        \/ job' = job /\ t \in hurt'
    BY <1>3 DEF Pop, LinkFault
  <1>8. /\ job' \in [Workers -> Jobs] /\ \A v \in Workers \ {w} : job'[v] = job[v]
        /\ \/ job'[w].at = "fetching" /\ job'[w].task = t
           \/ job'[w] = job[w] /\ t \in hurt'
    <2>1. [at |-> "fetching", task |-> t, copy |-> "none"] \in Jobs
      BY <1>3 DEF Jobs, Statuses
    <2> QED
      BY <1>7, <2>1 DEF QueueInv, QueueTypes
  <1>9. QueueTypes' /\ JobsFit'
    BY <1>1, <1>3, <1>6, <1>8 DEF QueueInv, QueueTypes, JobsFit
  <1>10. RecordBeforeEntry'
    BY <1>1 DEF QueueInv, RecordBeforeEntry
  <1>11. \A o \in Tasks \ {t} : \A v \in Workers : Has(v, o)' <=> Has(v, o)
    BY <1>6, <1>8 DEF Has
  <1>12. \A v \in Workers : Has(v, t)' => v = w
    BY <1>5, <1>8 DEF Has
  <1>13. OnePlace'
    <2>1. ASSUME NEW o \in Tasks \ {t}
          PROVE  /\ enqueuing'[o] # "accepted" => ~Queued(o)' /\ \A v \in Workers : ~Has(v, o)'
                 /\ Queued(o)' => \A v \in Workers : ~Has(v, o)'
                 /\ \A v, u \in Workers : Has(v, o)' /\ Has(u, o)' => v = u
      BY <1>1, <1>4, <1>11 DEF QueueInv, OnePlace
    <2>2. /\ enqueuing'[t] = "accepted" /\ ~Queued(t)'
          /\ \A v, u \in Workers : Has(v, t)' /\ Has(u, t)' => v = u
      BY <1>1, <1>4, <1>5, <1>12
    <2> QED
      BY <1>3, <2>1, <2>2 DEF OnePlace
  <1>14. RecordFollows'
    BY <1>1, <1>3, <1>4, <1>5, <1>8 DEF QueueInv, RecordFollows
  <1>15. NothingLost'
    <2>1. ASSUME NEW o \in Tasks \ {t}, o \notin hurt', enqueuing'[o] = "accepted"
          PROVE  Queued(o)' \/ record'[o] \in Ended \/ \E v \in Workers : Has(v, o)'
      BY <1>1, <1>4, <1>11, <2>1 DEF QueueInv, NothingLost
    <2>2. t \in hurt' \/ Has(w, t)'
      BY <1>8 DEF Has
    <2> QED
      BY <2>1, <2>2 DEF NothingLost
  <1> QED
    BY <1>9, <1>10, <1>13, <1>14, <1>15 DEF QueueInv

\* A task no fault has touched has a record when a worker looks for it.
LEMMA FetchInv ==
  ASSUME QueueInv, NEW w \in Workers, Fetch(w) PROVE QueueInv'
  <1>1. /\ job[w].at = "fetching" /\ hurt \subseteq hurt'
        /\ UNCHANGED <<record, redisQueue, enqueuing>>
    BY DEF Fetch, LinkFault, NoLinkFault
  <1>2. /\ job[w].task \in Tasks
        /\ \A t \in Tasks : Has(w, t) => t = job[w].task /\ enqueuing[t] = "accepted"
        /\ record[job[w].task] \in {"none", "queued"}
        /\ record \in [Tasks -> Statuses] /\ job[w] \in Jobs
    BY <1>1, WorkingTask DEF QueueInv, RecordFollows, QueueTypes
  <1>3. CASE job' = [job EXCEPT ![w].at = "claiming", ![w].copy = record[job[w].task]]
    <2> DEFINE j == [job[w] EXCEPT !.at = "claiming", !.copy = record[job[w].task]]
    <2>1. job' = [job EXCEPT ![w] = j]
      BY <1>3 DEF QueueInv, QueueTypes
    <2>2. j \in Jobs /\ j.at = "claiming" /\ j.task = job[w].task
      BY <1>2 DEF Jobs
    <2> HIDE DEF j
    <2> QED
      BY <1>1, <1>2, <2>1, <2>2, WorkerFrame
  <1>4. CASE Resting(w) /\ (record[job[w].task] = "none" \/ job[w].task \in hurt')
    <2>1. job[w].task \in hurt'
      BY <1>1, <1>2, <1>4, WorkingTask DEF QueueInv, RecordBeforeEntry
    <2>2. \A t \in Tasks : Has(w, t) => t \in hurt' \/ record'[t] \in Ended
      BY <1>2, <2>1
    <2>3. job' = [job EXCEPT ![w] = Idle]
      BY <1>4 DEF Resting
    <2> QED
      BY <1>1, <1>2, <2>2, <2>3, IdleJob, WorkerFrame
  <1> QED
    BY <1>3, <1>4 DEF Fetch, LinkFault

\* The worker's claim reaches the record, or a fault has touched the task.
LEMMA ClaimTaskInv ==
  ASSUME QueueInv, NEW w \in Workers, ClaimTask(w) PROVE QueueInv'
  <1> DEFINE t == job[w].task
             j == [job[w] EXCEPT !.at = "ingesting", !.copy = "processing"]
  <1>1. /\ job[w].at = "claiming" /\ hurt \subseteq hurt'
        /\ record' \in {record, [record EXCEPT ![t] = "processing"]}
        /\ UNCHANGED <<redisQueue, enqueuing>>
        /\ job' = [job EXCEPT ![w].at = "ingesting", ![w].copy = "processing"]
    BY DEF ClaimTask, Save, LinkFault, NoLinkFault
  <1>2. /\ t \in Tasks /\ Has(w, t)
        /\ record[t] \in {"none", "queued"}
        /\ record \in [Tasks -> Statuses] /\ job[w] \in Jobs
    BY <1>1, WorkingTask DEF QueueInv, RecordFollows, QueueTypes
  <1>3. job' = [job EXCEPT ![w] = j] /\ j \in Jobs /\ j.at = "ingesting" /\ j.task = t
    BY <1>1, <1>2 DEF QueueInv, QueueTypes, Jobs, Statuses
  <1> HIDE DEF j, t
  <1>4. /\ record' \in [Tasks -> Statuses] /\ record'[t] \in {"none", "queued", "processing"}
        /\ \A o \in Tasks : record'[o] = record[o] \/ (o = t /\ record'[t] = "processing")
    BY <1>1, <1>2 DEF Statuses
  <1>5. Rank(record[t]) <= 2 /\ Rank("processing") = 2 /\ "processing" # "none"
    BY <1>2, RankOf
  <1>6. \A o \in Tasks : \/ record'[o] = record[o]
                         \/ /\ Has(w, o) /\ record'[o] # "none" /\ Rank(record'[o]) >= 2
                            /\ Rank(record[o]) <= Rank(record'[o])
    BY <1>2, <1>4, <1>5
  <1> QED
    BY <1>1, <1>2, <1>3, <1>4, <1>6, WorkerFrame DEF t

\* The pipeline returns or raises, and the worker finds the task it has a copy of.
LEMMA IngestInv ==
  ASSUME QueueInv, NEW w \in Workers, Ingest(w) \/ Reread(w) PROVE QueueInv'
  <1>1. /\ job[w].at \in {"ingesting", "rereading"} /\ hurt' = hurt
        /\ UNCHANGED <<record, redisQueue, enqueuing>>
    BY DEF Ingest, Reread
  <1>2. /\ job[w].task \in Tasks
        /\ record[job[w].task] \in {"none", "queued", "processing"}
        /\ record \in [Tasks -> Statuses] /\ job[w] \in Jobs
        /\ job[w].at = "rereading" => job[w].copy \in Ended
    BY <1>1, WorkingTask DEF QueueInv, RecordFollows, QueueTypes, JobsFit
  <1>3. PICK j \in Jobs : /\ job' = [job EXCEPT ![w] = j]
                          /\ j.at \in {"rereading", "saving"} /\ j.copy \in Ended
                          /\ j.task = job[w].task
    <2>1. CASE Ingest(w)
      <3>1. PICK outcome \in Ended :
              job' = [job EXCEPT ![w].at = "rereading", ![w].copy = outcome]
        BY <2>1 DEF Ingest
      <3> DEFINE j == [job[w] EXCEPT !.at = "rereading", !.copy = outcome]
      <3>2. job' = [job EXCEPT ![w] = j] /\ j \in Jobs /\ j.at = "rereading"
            /\ j.copy \in Ended /\ j.task = job[w].task
        BY <1>2, <3>1 DEF QueueInv, QueueTypes, Jobs, Statuses
      <3> QED
        BY <3>2
    <2>2. CASE Reread(w)
      <3> DEFINE j == [job[w] EXCEPT !.at = "saving"]
      <3>1. job' = [job EXCEPT ![w] = j] /\ j \in Jobs /\ j.at = "saving"
            /\ j.copy \in Ended /\ j.task = job[w].task
        BY <1>2, <2>2 DEF Reread, QueueInv, QueueTypes, Jobs
      <3> QED
        BY <3>1
    <2> QED
      BY <2>1, <2>2
  <1> QED
    BY <1>1, <1>2, <1>3, WorkerFrame

\* The outcome is saved, or a fault has touched the task.
LEMMA EndTaskInv ==
  ASSUME QueueInv, NEW w \in Workers, EndTask(w) PROVE QueueInv'
  <1> DEFINE t == job[w].task
  <1>1. /\ job[w].at = "saving" /\ hurt \subseteq hurt' /\ job' = [job EXCEPT ![w] = Idle]
        /\ \/ record' = [record EXCEPT ![t] = job[w].copy]
           \/ record' = record /\ t \in hurt'
        /\ UNCHANGED <<redisQueue, enqueuing>>
    BY DEF EndTask, Save, LinkFault, NoLinkFault, Resting
  <1>2. /\ t \in Tasks /\ Has(w, t) /\ \A o \in Tasks : Has(w, o) => o = t
        /\ record[t] \in Statuses /\ job[w].copy \in Ended
        /\ record \in [Tasks -> Statuses]
    BY <1>1, WorkingTask DEF QueueInv, JobsFit, QueueTypes
  <1> HIDE DEF t
  <1>3. /\ record' \in [Tasks -> Statuses]
        /\ \A o \in Tasks : record'[o] = record[o] \/ (o = t /\ record'[t] \in Ended)
        /\ record'[t] \in Ended \/ t \in hurt'
    BY <1>1, <1>2 DEF Statuses
  <1>4. \A o \in Tasks : \/ record'[o] = record[o]
                         \/ /\ Has(w, o) /\ record'[o] # "none" /\ Rank(record'[o]) >= 2
                            /\ Rank(record[o]) <= Rank(record'[o])
    <2>1. record'[t] \in Ended =>
            record'[t] # "none" /\ Rank(record'[t]) = 3 /\ Rank(record[t]) \in 0..3
      BY <1>2, RankOf DEF Ended
    <2> QED
      BY <1>2, <1>3, <2>1
  <1>5. \A o \in Tasks : Has(w, o) => o \in hurt' \/ record'[o] \in Ended
    BY <1>2, <1>3
  <1> QED
    BY <1>1, <1>3, <1>4, <1>5, IdleJob, WorkerFrame

\* A crash touches the task the worker had.
LEMMA CrashWorkerInv ==
  ASSUME QueueInv, NEW w \in Workers, CrashWorker(w) PROVE QueueInv'
  <1>1. /\ hurt' = hurt \cup ({job[w].task} \cap Tasks) /\ job' = [job EXCEPT ![w] = Idle]
        /\ UNCHANGED <<record, redisQueue, enqueuing>>
    BY DEF CrashWorker, LinkFault, Resting
  <1>2. record \in [Tasks -> Statuses]
    BY DEF QueueInv, QueueTypes
  <1>3. \A t \in Tasks : Has(w, t) => t \in hurt' \/ record'[t] \in Ended
    BY <1>1 DEF Has
  <1> QED
    BY <1>1, <1>2, <1>3, IdleJob, WorkerFrame

\* Every step of the queue preserves the invariant.
LEMMA QueueStepInv == QueueInv /\ [QueueNext]_queueVars => QueueInv'
  <1> SUFFICES ASSUME QueueInv, [QueueNext]_queueVars PROVE QueueInv'
    OBVIOUS
  <1>1. ASSUME UNCHANGED <<record, redisQueue, enqueuing, job, hurt>>
        PROVE  QueueInv'
    BY <1>1
    DEF QueueInv, QueueTypes, JobsFit, RecordBeforeEntry, OnePlace, RecordFollows,
        NothingLost, Queued, Has
  <1>2. CASE UNCHANGED queueVars
    BY <1>1, <1>2 DEF queueVars
  <1>3. ASSUME NEW w \in Workers, Connect(w) PROVE QueueInv'
    BY <1>1, <1>3 DEF Connect
  <1>4. ASSUME NEW t \in Watched, PollReads(t) PROVE QueueInv'
    BY <1>1, <1>4 DEF PollReads, NoLinkFault, LinkFault
  <1>5. ASSUME NEW i \in DOMAIN polls, PollAnswers(i) PROVE QueueInv'
    BY <1>1, <1>5 DEF PollAnswers
  <1> QED
    BY <1>2, <1>3, <1>4, <1>5, ApiStepInv, PopInv, FetchInv, ClaimTaskInv, IngestInv, EndTaskInv,
       CrashWorkerInv
    DEF QueueNext, WorkerStep

\* A step of the services is one of the queue or leaves it alone.
LEMMA QueueSteps == [ServicesNext]_servicesVars => [QueueNext]_queueVars
  BY DEF ServicesNext, servicesVars, Only, OnlyChat, OnlyBridge, OnlyLimiter, OnlySlots,
      OnlyAuthority

\* The invariant of the queue holds whatever the services do.
LEMMA QueueKept == ServicesSpec => []QueueInv
  <1>1. ServicesInit => QueueInv
    BY QueueInitInv DEF ServicesInit
  <1> QED
    BY <1>1, QueueStepInv, QueueSteps, PTL DEF ServicesSpec

\* An accepted task no fault has touched is queued, held or ended.
THEOREM QueueLosesNothing == ServicesSpec => []NoTaskLost
  <1>1. QueueInv => NoTaskLost
    <2> SUFFICES ASSUME QueueInv, NEW t \in Tasks, enqueuing[t] = "accepted", t \notin hurt
                 PROVE  t \in ToSet(redisQueue) \cup Held \/ record[t] \in Ended
      BY DEF NoTaskLost
    <2>1. Queued(t) \/ record[t] \in Ended \/ \E w \in Workers : Has(w, t)
      BY DEF QueueInv, NothingLost
    <2> QED
      BY <2>1 DEF Queued, Has, Held
  <1> QED
    BY <1>1, QueueKept, PTL

\* What a task's record has been: what is read of it is that, also later.
HasBeen(t, status) ==
  IF record[t] = "none" THEN status \in {"none", "queued"}
  ELSE Rank(status) <= Rank(record[t]) /\ (status \in Ended => status = record[t])

SeenTypes == apiTasks \in [Tasks -> Statuses] /\ polls \in Seq(Polls)

\* The copy that answers at worst is nothing the record has not been.
CopyFollows ==
  \A t \in Tasks : /\ enqueuing[t] = "new" => apiTasks[t] = "none"
                   /\ HasBeen(t, apiTasks[t])

\* Nor is a read in flight, and it is not behind the copy unless it was overtaken.
ReadFits(poll) ==
  /\ enqueuing[poll.task] = "accepted"
  /\ record[poll.task] # "none" /\ HasBeen(poll.task, poll.reply)
  /\ poll.overtaken \/ Rank(apiTasks[poll.task]) <= Rank(poll.reply)

ReadsFollow == \A i \in 1..Len(polls) : ReadFits(polls[i])

\* The later of two reads of a task is not behind the earlier.
ReadsOrdered ==
  \A i, k \in 1..Len(polls) :
    i < k /\ polls[i].task = polls[k].task => Rank(polls[i].reply) <= Rank(polls[k].reply)

SeenInv == SeenTypes /\ CopyFollows /\ ReadsFollow /\ ReadsOrdered

\* The record of a task that has ended does not move, another one goes forward.
RecordMoves(t) ==
  \/ record'[t] = record[t]
  \/ /\ record[t] \notin Ended /\ record'[t] \in Statuses \ {"none"}
     /\ Rank(record[t]) <= Rank(record'[t])

LEMMA RecordGoesOn ==
  ASSUME QueueInv, [QueueNext]_queueVars, NEW t \in Tasks PROVE RecordMoves(t)
  <1>1. record \in [Tasks -> Statuses] /\ Rank(record[t]) \in 0..3
    BY RankOf DEF QueueInv, QueueTypes
  <1>2. CASE record' = record
    BY <1>2 DEF RecordMoves
  <1>3. ASSUME NEW o \in Tasks, WriteRecord(o) PROVE RecordMoves(t)
    <2>1. record[o] = "none" /\ record' \in {record, [record EXCEPT ![o] = "queued"]}
      BY <1>3 DEF WriteRecord, QueueInv, RecordFollows
    <2> QED
      BY <1>1, <2>1, RankOf DEF RecordMoves, Ended, Statuses
  <1>4. ASSUME NEW w \in Workers, NEW status \in {"processing"} \cup Ended,
               job[w].at \in {"claiming", "saving"},
               record' \in {record, [record EXCEPT ![job[w].task] = status]},
               Rank(record[job[w].task]) <= Rank(status)
        PROVE  RecordMoves(t)
    <2>1. record[job[w].task] \notin Ended
      BY <1>4 DEF QueueInv, RecordFollows, Ended
    <2> QED
      BY <1>1, <1>4, <2>1 DEF RecordMoves, Ended, Statuses
  <1>5. ASSUME NEW w \in Workers, ClaimTask(w) PROVE RecordMoves(t)
    <2>1. /\ job[w].at = "claiming"
          /\ record' \in {record, [record EXCEPT ![job[w].task] = "processing"]}
      BY <1>5 DEF ClaimTask, Save
    <2>2. record[job[w].task] \in {"none", "queued"}
      BY <2>1 DEF QueueInv, RecordFollows
    <2>3. Rank(record[job[w].task]) <= Rank("processing")
      BY <2>2, RankOf
    <2> QED
      BY <1>4, <2>1, <2>3
  <1>6. ASSUME NEW w \in Workers, EndTask(w) PROVE RecordMoves(t)
    <2>1. /\ job[w].at = "saving" /\ job[w].copy \in Ended
          /\ record' \in {record, [record EXCEPT ![job[w].task] = job[w].copy]}
      BY <1>6 DEF EndTask, Save, QueueInv, JobsFit
    <2>2. record[job[w].task] \in {"none", "queued", "processing"}
      BY <2>1 DEF QueueInv, RecordFollows
    <2>3. Rank(record[job[w].task]) <= Rank(job[w].copy)
      BY <2>1, <2>2, RankOf
    <2> QED
      BY <1>4, <2>1, <2>3
  <1> QED
    BY <1>2, <1>3, <1>5, <1>6
    DEF QueueNext, WorkerStep, queueVars, Enqueue, Push, PollReads, PollAnswers, Connect,
        Pop, Fetch, Ingest, Reread, CrashWorker

\* What a record has been it has been from then on.
LEMMA StillHasBeen ==
  ASSUME NEW t \in Tasks, RecordMoves(t), record[t] \in Statuses,
         NEW status \in Statuses, HasBeen(t, status)
  PROVE  HasBeen(t, status)' /\ (record[t] # "none" => record'[t] # "none")
  <1>1. Rank(status) \in 0..3 /\ Rank(record[t]) \in 0..3
    BY RankOf
  <1>2. CASE record'[t] = record[t]
    BY <1>2 DEF HasBeen
  <1>3. CASE /\ record[t] \notin Ended /\ record'[t] \in Statuses \ {"none"}
             /\ Rank(record[t]) <= Rank(record'[t])
    <2>1. Rank(record'[t]) \in 1..3
      BY <1>3, RankOf DEF Statuses, Ended
    <2>2. status \notin Ended /\ Rank(status) <= Rank(record'[t])
      <3>1. CASE record[t] = "none"
        BY <2>1, <3>1, RankOf DEF HasBeen, Ended
      <3>2. CASE record[t] # "none"
        BY <1>1, <1>3, <2>1, <3>2 DEF HasBeen
      <3> QED
        BY <3>1, <3>2
    <2> QED
      BY <1>3, <2>2 DEF HasBeen
  <1> QED
    BY <1>2, <1>3 DEF RecordMoves

\* What a step leaves of the reads in flight and the copies when it is not about them.
LEMMA SeenStands ==
  ASSUME QueueInv, SeenInv, [QueueNext]_queueVars, UNCHANGED <<apiTasks, polls>>,
         \A t \in Tasks : /\ enqueuing'[t] = "new" => enqueuing[t] = "new"
                          /\ enqueuing[t] = "accepted" => enqueuing'[t] = "accepted"
  PROVE  SeenInv'
  <1>1. /\ record \in [Tasks -> Statuses] /\ apiTasks \in [Tasks -> Statuses]
        /\ polls \in Seq(Polls)
    BY DEF QueueInv, QueueTypes, SeenInv, SeenTypes
  <1>2. \A t \in Tasks, status \in Statuses :
          HasBeen(t, status) =>
            HasBeen(t, status)' /\ (record[t] # "none" => record'[t] # "none")
    BY <1>1, RecordGoesOn, StillHasBeen
  <1>3. CopyFollows'
    <2> SUFFICES ASSUME NEW t \in Tasks
                 PROVE  /\ enqueuing'[t] = "new" => apiTasks'[t] = "none"
                        /\ HasBeen(t, apiTasks[t])'
      BY DEF CopyFollows
    <2>1. PICK s \in Statuses : s = apiTasks[t] /\ s = apiTasks'[t]
      BY <1>1
    <2>2. HasBeen(t, s) /\ (enqueuing[t] = "new" => s = "none")
      BY <2>1 DEF SeenInv, CopyFollows
    <2>3. HasBeen(t, s)'
      BY <1>2, <2>2
    <2> QED
      BY <2>1, <2>2, <2>3 DEF HasBeen
  <1>4. ReadsFollow'
    <2> SUFFICES ASSUME NEW i \in 1..Len(polls) PROVE ReadFits(polls[i])'
      BY DEF ReadsFollow
    <2>1. PICK p \in Polls : p = polls[i] /\ p = polls'[i]
      BY <1>1
    <2>2. ReadFits(p) /\ p.task \in Tasks /\ p.reply \in Statuses
      BY <2>1 DEF SeenInv, ReadsFollow, Polls
    <2>3. HasBeen(p.task, p.reply)' /\ record'[p.task] # "none"
      BY <1>2, <2>2 DEF ReadFits
    <2> QED
      BY <2>1, <2>2, <2>3 DEF ReadFits, HasBeen
  <1>5. SeenTypes' /\ ReadsOrdered'
    BY DEF SeenInv, SeenTypes, ReadsOrdered
  <1> QED
    BY <1>3, <1>4, <1>5 DEF SeenInv

\* A read that returns is at the end of the reads in flight, and brings the record.
LEMMA ReadInv ==
  ASSUME QueueInv, SeenInv, NEW t \in Tasks, enqueuing[t] = "accepted",
         record[t] # "none", UNCHANGED <<record, apiTasks, enqueuing>>,
         polls' = Append(polls, [task |-> t, reply |-> record[t], overtaken |-> FALSE])
  PROVE  SeenInv'
  <1> DEFINE p == [task |-> t, reply |-> record[t], overtaken |-> FALSE]
  <1>1. /\ record \in [Tasks -> Statuses] /\ apiTasks \in [Tasks -> Statuses]
        /\ polls \in Seq(Polls) /\ p \in Polls
    BY DEF QueueInv, QueueTypes, SeenInv, SeenTypes, Polls
  <1>2. /\ p.task = t /\ p.reply = record[t]
        /\ polls' = Append(polls, p)
    OBVIOUS
  <1> HIDE DEF p
  <1>3. /\ polls' \in Seq(Polls) /\ Len(polls') = Len(polls) + 1 /\ Len(polls) \in Nat
        /\ polls'[Len(polls) + 1] = p
        /\ \A i \in 1..Len(polls) : polls'[i] = polls[i]
    BY <1>1, <1>2
  <1>4. \A i \in 1..Len(polls') : i \in 1..Len(polls) \/ i = Len(polls) + 1
    BY <1>3
  <1>5. \A s \in Statuses : HasBeen(t, s) => Rank(s) <= Rank(record[t])
    BY DEF HasBeen
  <1>6. HasBeen(t, record[t]) /\ Rank(apiTasks[t]) <= Rank(record[t])
    <2>1. Rank(record[t]) \in 0..3
      BY <1>1, RankOf
    <2> QED
      BY <1>1, <1>5, <2>1 DEF HasBeen, SeenInv, CopyFollows
  <1>7. CopyFollows'
    BY DEF SeenInv, CopyFollows, HasBeen
  <1>8. ReadsFollow'
    <2> SUFFICES ASSUME NEW i \in 1..Len(polls') PROVE ReadFits(polls[i])'
      BY DEF ReadsFollow
    <2>1. CASE i \in 1..Len(polls)
      BY <1>3, <2>1 DEF SeenInv, ReadsFollow, ReadFits, HasBeen
    <2>2. CASE i = Len(polls) + 1
      BY <1>2, <1>3, <1>6, <2>2 DEF ReadFits, HasBeen
    <2> QED
      BY <1>4, <2>1, <2>2
  <1>9. ReadsOrdered'
    <2> SUFFICES ASSUME NEW i \in 1..Len(polls'), NEW k \in 1..Len(polls'), i < k,
                        polls'[i].task = polls'[k].task
                 PROVE  Rank(polls'[i].reply) <= Rank(polls'[k].reply)
      BY DEF ReadsOrdered
    <2>1. i \in 1..Len(polls) /\ polls'[i] = polls[i] /\ polls[i] \in Polls
      BY <1>1, <1>3
    <2>2. CASE k \in 1..Len(polls)
      BY <1>3, <2>1, <2>2 DEF SeenInv, ReadsOrdered
    <2>3. CASE k = Len(polls) + 1
      BY <1>2, <1>3, <1>5, <2>1, <2>3 DEF SeenInv, ReadsFollow, ReadFits, Polls
    <2> QED
      BY <1>4, <2>2, <2>3
  <1> QED
    BY <1>3, <1>7, <1>8, <1>9 DEF SeenInv, SeenTypes

\* A read is answered: the copy is what it brought, those made before it are
\* overtaken, and those made after it are not behind it.
LEMMA AnswerInv ==
  ASSUME QueueInv, SeenInv, NEW i \in DOMAIN polls, PollAnswers(i) PROVE SeenInv'
  <1> DEFINE t == polls[i].task
             n == Len(polls) - 1
             Source(k) == IF k < i THEN k ELSE k + 1
  <1>1. /\ record \in [Tasks -> Statuses] /\ apiTasks \in [Tasks -> Statuses]
        /\ polls \in Seq(Polls) /\ Len(polls) \in Nat /\ i \in 1..Len(polls)
        /\ \A k \in 1..Len(polls) : polls[k] \in Polls
    BY DEF QueueInv, QueueTypes, SeenInv, SeenTypes
  <1>2. /\ t \in Tasks /\ polls[i].reply \in Statuses /\ ReadFits(polls[i]) /\ n \in Nat
    BY <1>1 DEF SeenInv, ReadsFollow, Polls
  <1>3. /\ apiTasks' = [apiTasks EXCEPT ![t] = polls[i].reply]
        /\ polls' = [k \in 1..n |-> IF k < i THEN Overtaken(polls[k], t) ELSE polls[k + 1]]
        /\ UNCHANGED <<record, enqueuing>>
    BY DEF PollAnswers
  <1> HIDE DEF t, n
  <1>4. \A p \in Polls : /\ Overtaken(p, t) \in Polls
                         /\ Overtaken(p, t).task = p.task
                         /\ Overtaken(p, t).reply = p.reply
                         /\ Overtaken(p, t).overtaken <=> p.overtaken \/ p.task = t
    BY DEF Overtaken, Polls
  <1>5. \A k \in 1..n : /\ Source(k) \in 1..Len(polls) /\ Source(k) # i
                        /\ polls[Source(k)] \in Polls
                        /\ k < i => Source(k) < i
                        /\ ~(k < i) => i < Source(k)
    BY <1>1, <1>2 DEF n
  <1>6. /\ \A k \in 1..n : k < i => k \in 1..Len(polls)
        /\ \A k \in 1..n : ~(k < i) => k + 1 \in 1..Len(polls)
    BY <1>1, <1>2 DEF n
  <1>7. ASSUME NEW k \in 1..n PROVE polls'[k] \in Polls
    <2>1. CASE k < i
      <3>1. polls'[k] = Overtaken(polls[k], t) /\ polls[k] \in Polls
        BY <1>1, <1>3, <1>6, <2>1
      <3> QED
        BY <1>4, <3>1
    <2>2. CASE ~(k < i)
      BY <1>1, <1>3, <1>6, <2>2
    <2> QED
      BY <2>1, <2>2
  <1>8. polls' \in Seq(Polls) /\ Len(polls') = n
    BY <1>2, <1>3, <1>7
  <1>9. ASSUME NEW k \in 1..n
        PROVE  /\ polls'[k].task = polls[Source(k)].task
               /\ polls'[k].reply = polls[Source(k)].reply
               /\ polls'[k].overtaken <=> \/ polls[Source(k)].overtaken
                                          \/ k < i /\ polls[Source(k)].task = t
    <2>1. CASE k < i
      <3>1. /\ polls'[k] = Overtaken(polls[k], t) /\ polls[k] \in Polls
            /\ Source(k) = k
        BY <1>1, <1>3, <1>6, <2>1
      <3> HIDE DEF Source
      <3> QED
        BY <1>4, <2>1, <3>1
    <2>2. CASE ~(k < i)
      BY <1>3, <2>2
    <2> QED
      BY <2>1, <2>2
  <1>10. CopyFollows'
    <2> SUFFICES ASSUME NEW o \in Tasks
                 PROVE  /\ enqueuing[o] = "new" => apiTasks'[o] = "none"
                        /\ HasBeen(o, apiTasks[o])'
      BY <1>3 DEF CopyFollows
    <2>1. CASE o = t
      BY <1>1, <1>2, <1>3, <2>1 DEF ReadFits, HasBeen, t
    <2>2. CASE o # t
      BY <1>1, <1>3, <2>2 DEF SeenInv, CopyFollows, HasBeen
    <2> QED
      BY <2>1, <2>2
  <1>11. ReadsFollow'
    <2> SUFFICES ASSUME NEW k \in 1..n PROVE ReadFits(polls[k])'
      BY <1>8 DEF ReadsFollow
    <2> HIDE DEF Source
    <2>0. PICK m \in 1..Len(polls), p \in Polls : m = Source(k) /\ p = polls[m]
      BY <1>5
    <2>1. ReadFits(p)
      BY <2>0 DEF SeenInv, ReadsFollow
    <2> DEFINE o == p.task
               r == p.reply
    <2>2. polls'[k].task = o /\ polls'[k].reply = r /\ o \in Tasks
      BY <1>9, <2>0 DEF Polls
    <2>3. polls'[k].overtaken \/ Rank(apiTasks'[o]) <= Rank(r)
      <3>1. CASE o # t
        <4>1. apiTasks'[o] = apiTasks[o]
          BY <1>1, <1>3, <2>2, <3>1
        <4>2. p.overtaken => polls'[k].overtaken
          BY <1>9, <2>0
        <4> QED
          BY <2>1, <4>1, <4>2 DEF ReadFits
      <3>2. CASE o = t /\ k < i
        BY <1>9, <2>0, <3>2
      <3>3. CASE o = t /\ ~(k < i)
        <4>1. i < m /\ polls[i].task = polls[m].task
          BY <1>5, <2>0, <3>3 DEF t
        <4>2. Rank(polls[i].reply) <= Rank(r)
          BY <1>1, <2>0, <4>1 DEF SeenInv, ReadsOrdered
        <4> QED
          BY <1>1, <1>2, <1>3, <3>3, <4>2
      <3> QED
        BY <3>1, <3>2, <3>3
    <2>4. /\ enqueuing[o] = "accepted"
          /\ record[o] # "none" /\ HasBeen(o, r)
      BY <2>1 DEF ReadFits
    <2> HIDE DEF o, r
    <2> QED
      BY <1>3, <2>2, <2>3, <2>4 DEF ReadFits, HasBeen
  <1>12. ReadsOrdered'
    <2> SUFFICES ASSUME NEW k \in 1..n, NEW l \in 1..n, k < l,
                        polls'[k].task = polls'[l].task
                 PROVE  Rank(polls'[k].reply) <= Rank(polls'[l].reply)
      BY <1>8 DEF ReadsOrdered
    <2>1. Source(k) < Source(l)
      BY <1>1
    <2> HIDE DEF Source
    <2>2. PICK a \in 1..Len(polls), b \in 1..Len(polls) : a = Source(k) /\ b = Source(l)
      BY <1>5
    <2>3. /\ polls'[k].task = polls[a].task /\ polls'[k].reply = polls[a].reply
          /\ polls'[l].task = polls[b].task /\ polls'[l].reply = polls[b].reply
      BY <1>9, <2>2
    <2> QED
      BY <2>1, <2>2, <2>3 DEF SeenInv, ReadsOrdered
  <1>13. apiTasks' \in [Tasks -> Statuses]
    BY <1>1, <1>2, <1>3
  <1> QED
    BY <1>8, <1>10, <1>11, <1>12, <1>13 DEF SeenInv, SeenTypes

LEMMA SeenStepInv ==
  QueueInv /\ SeenInv /\ [QueueNext]_queueVars => SeenInv'
  <1> SUFFICES ASSUME QueueInv, SeenInv, [QueueNext]_queueVars PROVE SeenInv'
    OBVIOUS
  <1>1. ASSUME UNCHANGED <<apiTasks, polls, enqueuing>> PROVE SeenInv'
    BY <1>1, SeenStands
  <1>2. ASSUME NEW t \in Tasks, WriteRecord(t) \/ Push(t) PROVE SeenInv'
    <2>1. UNCHANGED <<apiTasks, polls>>
      BY <1>2 DEF WriteRecord, Push
    <2>2. \A o \in Tasks : /\ enqueuing'[o] = "new" => enqueuing[o] = "new"
                           /\ enqueuing[o] = "accepted" => enqueuing'[o] = "accepted"
      BY <1>2 DEF WriteRecord, Push, FallBack, QueueInv, QueueTypes
    <2> QED
      BY <2>1, <2>2, SeenStands
  <1>3. ASSUME NEW t \in Tasks, Enqueue(t) PROVE SeenInv'
    <2>1. /\ enqueuing[t] = "new" /\ record[t] = "none"
          /\ apiTasks' = [apiTasks EXCEPT ![t] = "queued"]
          /\ UNCHANGED <<record, polls>>
          /\ \A o \in Tasks \ {t} : enqueuing'[o] = enqueuing[o]
          /\ enqueuing'[t] # "new"
          /\ apiTasks \in [Tasks -> Statuses]
      BY <1>3
      DEF Enqueue, FallBack, QueueInv, QueueTypes, RecordFollows, SeenInv, SeenTypes
    <2>2. CopyFollows'
      BY <2>1 DEF SeenInv, CopyFollows, HasBeen
    <2>3. ReadsFollow'
      <3> SUFFICES ASSUME NEW i \in 1..Len(polls) PROVE ReadFits(polls[i])'
        BY <2>1 DEF ReadsFollow
      <3>0. polls[i] \in Polls
        BY DEF SeenInv, SeenTypes
      <3>1. polls[i].task \in Tasks /\ ReadFits(polls[i])
        BY <3>0 DEF SeenInv, ReadsFollow, Polls
      <3>2. polls[i].task # t
        BY <2>1, <3>1 DEF ReadFits
      <3> QED
        BY <2>1, <3>1, <3>2 DEF ReadFits, HasBeen
    <2> QED
      BY <2>1, <2>2, <2>3 DEF SeenInv, SeenTypes, ReadsOrdered, Statuses
  <1>4. ASSUME NEW t \in Watched, PollReads(t) PROVE SeenInv'
    <2>1. CASE polls' = polls
      BY <1>1, <1>4, <2>1 DEF PollReads
    <2>2. CASE polls' # polls
      BY <1>4, <2>2, ReadInv, QueueAssumption DEF PollReads, QueueAssumption
    <2> QED
      BY <2>1, <2>2
  <1>5. ASSUME NEW w \in Workers, WorkerStep(w) \/ CrashWorker(w) PROVE SeenInv'
    BY <1>1, <1>5
    DEF WorkerStep, Connect, Pop, Fetch, ClaimTask, Ingest, Reread, EndTask, CrashWorker
  <1>6. CASE UNCHANGED queueVars
    BY <1>1, <1>6 DEF queueVars
  <1> QED
    BY <1>2, <1>3, <1>4, <1>5, <1>6, AnswerInv DEF QueueNext

\* What is told of a task is what it has been, whatever the services do.
LEMMA SeenKept == ServicesSpec => []SeenInv
  <1>1. ServicesInit => SeenInv
    BY DEF ServicesInit, QueueInit, SeenInv, SeenTypes, CopyFollows, HasBeen, ReadsFollow,
        ReadsOrdered, Statuses
  <1> QED
    BY <1>1, QueueKept, SeenStepInv, QueueSteps, PTL DEF ServicesSpec

\* The copy goes back only by the answer of a read that was overtaken, and an
\* outcome it tells is the one in the record.
THEOREM QueueGoesBackOnlyByOverlap == ServicesSpec => SeenGoesBackOnlyByOverlap
  <1> DEFINE OnlyByOverlap(t) ==
        /\ Rank(apiTasks'[t]) < Rank(apiTasks[t]) =>
             \E i \in DOMAIN polls : /\ polls[i].task = t /\ polls[i].overtaken
                                     /\ polls[i].reply = apiTasks'[t]
        /\ apiTasks'[t] \in Ended => apiTasks'[t] = record[t]
  <1>1. ASSUME QueueInv, SeenInv, [QueueNext]_queueVars, NEW t \in Tasks
        PROVE  OnlyByOverlap(t)
    <2>1. apiTasks \in [Tasks -> Statuses] /\ Rank(apiTasks[t]) \in 0..3
      BY <1>1, RankOf DEF SeenInv, SeenTypes
    <2>2. \A s \in Ended : HasBeen(t, s) => s = record[t]
      BY DEF HasBeen, Ended
    <2>3. CASE apiTasks'[t] = apiTasks[t]
      BY <1>1, <2>1, <2>2, <2>3 DEF SeenInv, CopyFollows
    <2>4. ASSUME NEW o \in Tasks, Enqueue(o) PROVE OnlyByOverlap(t)
      <3>1. apiTasks[o] = "none" /\ apiTasks' = [apiTasks EXCEPT ![o] = "queued"]
        BY <1>1, <2>4 DEF Enqueue, SeenInv, CopyFollows
      <3>2. CASE o = t
        BY <2>1, <3>1, <3>2, RankOf DEF Ended
      <3> QED
        BY <2>1, <2>3, <3>1, <3>2
    <2>5. ASSUME NEW i \in DOMAIN polls, PollAnswers(i) PROVE OnlyByOverlap(t)
      <3>1. /\ polls[i] \in Polls /\ ReadFits(polls[i])
            /\ apiTasks' = [apiTasks EXCEPT ![polls[i].task] = polls[i].reply]
        BY <1>1, <2>5 DEF SeenInv, SeenTypes, ReadsFollow, PollAnswers
      <3>2. CASE polls[i].task = t
        <4>1. apiTasks'[t] = polls[i].reply /\ Rank(polls[i].reply) \in 0..3
          BY <2>1, <3>1, <3>2, RankOf DEF Polls
        <4>2. Rank(apiTasks'[t]) < Rank(apiTasks[t]) => polls[i].overtaken
          BY <2>1, <3>1, <3>2, <4>1 DEF ReadFits
        <4>3. apiTasks'[t] \in Ended => apiTasks'[t] = record[t]
          BY <2>2, <3>1, <3>2, <4>1 DEF ReadFits
        <4> QED
          BY <2>5, <3>2, <4>1, <4>2, <4>3
      <3> QED
        BY <2>1, <2>3, <3>1, <3>2
    <2> HIDE DEF OnlyByOverlap
    <2> QED
      BY <1>1, <2>3, <2>4, <2>5
      DEF QueueNext, WorkerStep, queueVars, WriteRecord, Push, PollReads, Connect, Pop,
          Fetch, ClaimTask, Ingest, Reread, EndTask, CrashWorker
  <1>2. QueueInv /\ SeenInv /\ [QueueNext]_queueVars =>
          [\A t \in Tasks : OnlyByOverlap(t)]_queueVars
    BY <1>1
  <1> QED
    BY <1>2, QueueKept, SeenKept, QueueSteps, PTL
    DEF ServicesSpec, SeenGoesBackOnlyByOverlap

\* How far a task is, by where it is: under the invariant it is in one place only.
StageFacts ==
  \A t \in Tasks :
    /\ enqueuing[t] = "new" => Stage(t) = "unsubmitted"
    /\ enqueuing[t] \in {"recording", "pushing"} => Stage(t) = "submitted"
    /\ Queued(t) => Stage(t) = "waiting"
    /\ \A w \in Workers : Has(w, t) =>
         /\ job[w].at \in {"fetching", "claiming"} => Stage(t) = "taken"
         /\ job[w].at = "ingesting" => Stage(t) = "working"
         /\ job[w].at \in {"rereading", "saving"} => Stage(t) = "judged"
    /\ enqueuing[t] = "accepted" /\ ~Queued(t) /\ (\A w \in Workers : ~Has(w, t)) =>
         Stage(t) = IF record[t] \in Ended THEN "ended" ELSE "lost"

LEMMA StageAt == QueueInv => StageFacts
  <1> SUFFICES ASSUME QueueInv, NEW t \in Tasks
               PROVE  /\ enqueuing[t] = "new" => Stage(t) = "unsubmitted"
                      /\ enqueuing[t] \in {"recording", "pushing"} => Stage(t) = "submitted"
                      /\ Queued(t) => Stage(t) = "waiting"
                      /\ \A w \in Workers : Has(w, t) =>
                           /\ job[w].at \in {"fetching", "claiming"} => Stage(t) = "taken"
                           /\ job[w].at = "ingesting" => Stage(t) = "working"
                           /\ job[w].at \in {"rereading", "saving"} => Stage(t) = "judged"
                      /\ enqueuing[t] = "accepted" /\ ~Queued(t)
                         /\ (\A w \in Workers : ~Has(w, t)) =>
                           Stage(t) = IF record[t] \in Ended THEN "ended" ELSE "lost"
    BY DEF StageFacts
  <1>1. /\ enqueuing[t] # "accepted" => ~Queued(t) /\ \A w \in Workers : ~Has(w, t)
        /\ Queued(t) => \A w \in Workers : ~Has(w, t)
        /\ \A w, v \in Workers : Has(w, t) /\ Has(v, t) => w = v
    BY DEF QueueInv, OnePlace
  <1>2. /\ enqueuing[t] = "new" => Stage(t) = "unsubmitted"
        /\ enqueuing[t] \in {"recording", "pushing"} => Stage(t) = "submitted"
    BY DEF Stage
  <1>3. Queued(t) => Stage(t) = "waiting"
    BY <1>1 DEF Stage, Queued
  <1>4. ASSUME NEW w \in Workers, Has(w, t)
        PROVE  /\ job[w].at \in {"fetching", "claiming"} => Stage(t) = "taken"
               /\ job[w].at = "ingesting" => Stage(t) = "working"
               /\ job[w].at \in {"rereading", "saving"} => Stage(t) = "judged"
    BY <1>1, <1>4 DEF Stage, Queued, Has
  <1>5. enqueuing[t] = "accepted" /\ ~Queued(t) /\ (\A w \in Workers : ~Has(w, t)) =>
          Stage(t) = IF record[t] \in Ended THEN "ended" ELSE "lost"
    BY DEF Stage, Queued, Has
  <1> QED BY <1>2, <1>3, <1>4, <1>5

\* The same of the next state.
LEMMA StageAtNext == QueueInv' => StageFacts'
  BY StageAt, PTL

\* A task that stays where it is, under the same status, stands still.
LEMMA StageStands ==
  ASSUME NEW t \in Tasks, enqueuing'[t] = enqueuing[t], Queued(t)' <=> Queued(t),
         record'[t] = record[t],
         \A w \in Workers : /\ Has(w, t)' <=> Has(w, t)
                            /\ Has(w, t) => job'[w].at = job[w].at
  PROVE  Stage(t)' = Stage(t)
  <1>1. \A ats : (\E w \in Workers : job'[w].task = t /\ job'[w].at \in ats)
                 <=> \E w \in Workers : job[w].task = t /\ job[w].at \in ats
    BY DEF Has
  <1> QED BY <1>1 DEF Stage, Queued

\* What is to be shown of a step that is about one task.
LEMMA PathMove ==
  ASSUME NEW t \in Tasks, \A o \in Tasks \ {t} : Stage(o)' = Stage(o),
         \/ Stage(t)' = Stage(t) /\ hurt' = hurt
         \/ /\ \/ Stage(t) = "unsubmitted" /\ Stage(t)' = "submitted"
               \/ Stage(t) = "submitted" /\ Stage(t)' = "waiting"
               \/ Stage(t) = "waiting" /\ Stage(t)' = "taken"
               \/ Stage(t) = "taken" /\ Stage(t)' = "working"
               \/ Stage(t) = "working" /\ Stage(t)' = "judged"
               \/ Stage(t) = "judged" /\ Stage(t)' = "ended"
            /\ hurt' \in {hurt, hurt \cup {t}}
         \/ /\ Stage(t) \in {"unsubmitted", "submitted", "waiting", "taken", "working",
                             "judged"}
            /\ Stage(t)' = "lost" /\ hurt' = hurt \cup {t}
  PROVE  [Path!PathNext]_(Path!pathVars)
  <1> DEFINE s  == [o \in Tasks |-> Stage(o)]
             s1 == [o \in Tasks |-> Stage(o)']
  <1>1. DOMAIN Path!After = {"unsubmitted", "submitted", "waiting", "taken", "working",
                                "judged"}
        /\ Path!After["unsubmitted"] = "submitted"
        /\ Path!After["submitted"] = "waiting"
        /\ Path!After["waiting"] = "taken"
        /\ Path!After["taken"] = "working"
        /\ Path!After["working"] = "judged"
        /\ Path!After["judged"] = "ended"
    BY DEF Path!After
  <1>2. s1 = [s EXCEPT ![t] = Stage(t)'] /\ s[t] = Stage(t)
    OBVIOUS
  <1>3. CASE Stage(t)' = Stage(t) /\ hurt' = hurt
    <2>1. s1 = s
      BY <1>3
    <2> QED BY <1>3, <2>1 DEF Path!pathVars
  <1>4. CASE /\ s[t] \in DOMAIN Path!After /\ Stage(t)' = Path!After[s[t]]
             /\ hurt' \in {hurt, hurt \cup {t}}
    BY <1>2, <1>4 DEF Path!PathNext, Path!Pass
  <1>5. CASE /\ s[t] \in DOMAIN Path!After /\ Stage(t)' = "lost"
             /\ hurt' = hurt \cup {t}
    BY <1>2, <1>5 DEF Path!PathNext, Path!Lose
  <1> QED BY <1>1, <1>2, <1>3, <1>4, <1>5

\* The API process takes a task on, or keeps it in a queue nobody drains.
LEMMA EnqueueMoves ==
  ASSUME QueueInv, QueueInv', NEW t \in Tasks, Enqueue(t) \/ WriteRecord(t) \/ Push(t)
  PROVE  [Path!PathNext]_(Path!pathVars)
  <1>1. /\ enqueuing[t] \in {"new", "recording", "pushing"} /\ job' = job
        /\ ~Queued(t) /\ \A w \in Workers : ~Has(w, t)
        /\ enqueuing \in [Tasks -> {"new", "recording", "pushing", "accepted"}]
        /\ record \in [Tasks -> Statuses] /\ redisQueue \in Seq(Tasks)
        /\ record[t] \in {"none", "queued"}
    BY DEF Enqueue, WriteRecord, Push, QueueInv, OnePlace, QueueTypes, RecordFollows
  <1>2. redisQueue' \in {redisQueue, Append(redisQueue, t)}
        /\ record' \in {record, [record EXCEPT ![t] = "queued"]}
        /\ enqueuing' \in {[enqueuing EXCEPT ![t] = s] : s \in {"recording", "pushing", "accepted"}}
    BY DEF Enqueue, WriteRecord, Push, FallBack
  <1>3. ToSet(redisQueue') \in {ToSet(redisQueue), ToSet(redisQueue) \cup {t}}
    BY <1>1, <1>2, AppendedSet
  <1>4. ASSUME NEW o \in Tasks \ {t} PROVE Stage(o)' = Stage(o)
    <2>1. /\ enqueuing'[o] = enqueuing[o] /\ record'[o] = record[o]
          /\ Queued(o)' <=> Queued(o)
          /\ \A w \in Workers : /\ Has(w, o)' <=> Has(w, o)
                                /\ Has(w, o) => job'[w].at = job[w].at
      BY <1>1, <1>2, <1>3 DEF Queued, Has
    <2> QED BY <2>1, StageStands
  <1>5. record'[t] \notin Ended /\ \A w \in Workers : ~Has(w, t)'
    BY <1>1, <1>2 DEF Ended, Has
  <1>6. /\ enqueuing[t] = "new" => Stage(t) = "unsubmitted"
        /\ enqueuing[t] # "new" => Stage(t) = "submitted"
        /\ enqueuing'[t] \in {"recording", "pushing"} => Stage(t)' = "submitted"
        /\ enqueuing'[t] = "accepted" /\ Queued(t)' => Stage(t)' = "waiting"
        /\ enqueuing'[t] = "accepted" /\ ~Queued(t)' => Stage(t)' = "lost"
    <2>1. StageFacts /\ StageFacts'
      BY StageAt, StageAtNext
    <2> QED BY <1>1, <1>5, <2>1 DEF StageFacts
  <1>7. CASE Enqueue(t)
    <2>1. /\ enqueuing[t] = "new" /\ ~Queued(t)'
          /\ \/ enqueuing'[t] = "recording" /\ hurt' = hurt
             \/ enqueuing'[t] = "accepted" /\ hurt' = hurt \cup {t}
      BY <1>1, <1>7 DEF Enqueue, FallBack, NoLinkFault, LinkFault, Queued
    <2> QED BY <1>4, <1>6, <2>1, PathMove
  <1>8. CASE WriteRecord(t)
    <2>1. /\ enqueuing[t] = "recording" /\ ~Queued(t)'
          /\ \/ enqueuing'[t] = "pushing" /\ hurt' = hurt
             \/ enqueuing'[t] = "accepted" /\ hurt' = hurt \cup {t}
      BY <1>1, <1>8 DEF WriteRecord, FallBack, NoLinkFault, LinkFault, Queued
    <2> QED BY <1>4, <1>6, <2>1, PathMove
  <1>9. CASE Push(t)
    <2>1. /\ enqueuing[t] = "pushing" /\ enqueuing'[t] = "accepted"
          /\ \/ redisQueue' = Append(redisQueue, t) /\ hurt' \in {hurt, hurt \cup {t}}
             \/ redisQueue' = redisQueue /\ hurt' = hurt \cup {t}
      BY <1>1, <1>9 DEF Push, FallBack, NoLinkFault, LinkFault
    <2>2. redisQueue' = Append(redisQueue, t) => Queued(t)'
      BY <1>1, AppendedSet DEF Queued
    <2>3. redisQueue' = redisQueue => ~Queued(t)'
      BY <1>1 DEF Queued
    <2> QED BY <1>4, <1>6, <2>1, <2>2, <2>3, PathMove
  <1> QED BY <1>7, <1>8, <1>9

\* The entry a worker pops was waiting; a lost reply loses it.
LEMMA PopMoves ==
  ASSUME QueueInv, QueueInv', NEW w \in Workers, Pop(w)
  PROVE  [Path!PathNext]_(Path!pathVars)
  <1>1. /\ job[w].at = "idle" /\ redisQueue # <<>> /\ redisQueue' = Tail(redisQueue)
        /\ UNCHANGED <<record, enqueuing>>
        /\ job \in [Workers -> Jobs]
        /\ job[w].task = NoTask /\ NoTask \notin Tasks
    BY QueueAssumption DEF Pop, QueueInv, QueueTypes, JobsFit, QueueAssumption
  <1>2. PICK t \in Tasks :
          /\ t = Head(redisQueue)
          /\ ToSet(redisQueue) = ToSet(redisQueue') \cup {t} /\ t \notin ToSet(redisQueue')
    <2>1. redisQueue \in Seq(Tasks)
          /\ \A i, k \in 1..Len(redisQueue) : redisQueue[i] = redisQueue[k] => i = k
      BY DEF QueueInv, QueueTypes, OnePlace
    <2>2. /\ Head(redisQueue) \in Tasks
          /\ ToSet(redisQueue) = ToSet(Tail(redisQueue)) \cup {Head(redisQueue)}
          /\ Head(redisQueue) \notin ToSet(Tail(redisQueue))
      BY <1>1, <2>1, TakenSet
    <2> QED BY <1>1, <2>2, Zenon
  <1>3. /\ Queued(t) /\ ~Queued(t)' /\ \A o \in Tasks \ {t} : Queued(o)' <=> Queued(o)
    BY <1>2 DEF Queued
  <1>4. /\ enqueuing[t] = "accepted" /\ record[t] \notin Ended
        /\ \A v \in Workers : ~Has(v, t)
    BY <1>3 DEF QueueInv, OnePlace, RecordFollows, Ended
  <1>5. \/ /\ job' = [job EXCEPT ![w] = [at |-> "fetching", task |-> t, copy |-> "none"]]
           /\ hurt' = hurt
        \/ job' = job /\ hurt' = hurt \cup {t}
    BY <1>2 DEF Pop, LinkFault, NoLinkFault
  <1>6. ASSUME NEW o \in Tasks \ {t} PROVE Stage(o)' = Stage(o)
    <2>1. \A v \in Workers : /\ Has(v, o)' <=> Has(v, o)
                             /\ Has(v, o) => job'[v].at = job[v].at
      BY <1>1, <1>5 DEF Has
    <2> QED BY <1>1, <1>3, <2>1, StageStands
  <1>7. StageFacts /\ StageFacts'
    BY StageAt, StageAtNext
  <1>8. Stage(t) = "waiting"
    BY <1>3, <1>7 DEF StageFacts
  <1>9. CASE job' = job /\ hurt' = hurt \cup {t}
    <2>1. \A v \in Workers : ~Has(v, t)'
      BY <1>4, <1>9 DEF Has
    <2>2. Stage(t)' = "lost"
      BY <1>1, <1>3, <1>4, <1>7, <2>1 DEF StageFacts
    <2> QED BY <1>6, <1>8, <1>9, <2>2, PathMove
  <1>10. CASE /\ job' = [job EXCEPT ![w] = [at |-> "fetching", task |-> t, copy |-> "none"]]
              /\ hurt' = hurt
    <2>1. Has(w, t)' /\ job'[w].at = "fetching"
      BY <1>1, <1>10 DEF Has
    <2>2. Stage(t)' = "taken"
      BY <1>7, <2>1 DEF StageFacts
    <2> QED BY <1>6, <1>8, <1>10, <2>2, PathMove
  <1> QED BY <1>5, <1>9, <1>10

\* A worker moves only the task it holds.
LEMMA HolderMovesOnly ==
  ASSUME QueueInv, NEW w \in Workers, NEW j \in Jobs, job' = [job EXCEPT ![w] = j],
         UNCHANGED <<redisQueue, enqueuing>>,
         NEW t \in Tasks, Has(w, t), j.task \in {t, NoTask},
         \A o \in Tasks \ {t} : record'[o] = record[o]
  PROVE  /\ \A o \in Tasks \ {t} : Stage(o)' = Stage(o)
         /\ enqueuing'[t] = "accepted" /\ ~Queued(t)' /\ job'[w] = j
         /\ j.task = NoTask => \A v \in Workers : ~Has(v, t)'
  <1>1. job'[w] = j /\ \A v \in Workers \ {w} : job'[v] = job[v]
    BY DEF QueueInv, QueueTypes
  <1>2. NoTask \notin Tasks
    BY QueueAssumption DEF QueueAssumption
  <1>3. /\ enqueuing[t] = "accepted" /\ ~Queued(t)
        /\ \A v \in Workers \ {w} : ~Has(v, t)
    BY DEF QueueInv, OnePlace
  <1>4. ASSUME NEW o \in Tasks \ {t} PROVE Stage(o)' = Stage(o)
    <2>1. /\ Queued(o)' <=> Queued(o)
          /\ \A v \in Workers : /\ Has(v, o)' <=> Has(v, o)
                                /\ Has(v, o) => job'[v].at = job[v].at
      BY <1>1, <1>2 DEF Queued, Has
    <2> QED BY <2>1, StageStands
  <1>5. j.task = NoTask => \A v \in Workers : ~Has(v, t)'
    BY <1>1, <1>2, <1>3 DEF Has
  <1> QED BY <1>1, <1>3, <1>4, <1>5 DEF Queued

\* A worker passes its task on to the next stage, records its end, or loses it to
\* a fault.
LEMMA HolderMoves ==
  ASSUME QueueInv, QueueInv', NEW w \in Workers,
         Fetch(w) \/ ClaimTask(w) \/ Ingest(w) \/ Reread(w) \/ EndTask(w) \/ CrashWorker(w),
         job[w].at # "idle"
  PROVE  [Path!PathNext]_(Path!pathVars)
  <1>0. PICK t \in Tasks : t = job[w].task
    BY WorkingTask
  <1>1. /\ t \in Tasks /\ Has(w, t) /\ job[w] \in Jobs /\ job \in [Workers -> Jobs]
        /\ record \in [Tasks -> Statuses]
        /\ enqueuing[t] = "accepted"
        /\ record[t] \in {"none", "queued", "processing"}
        /\ NoTask \notin Tasks
    BY <1>0, WorkingTask, QueueAssumption
    DEF QueueInv, QueueTypes, QueueAssumption, RecordFollows, Jobs
  <1>2. StageFacts /\ StageFacts'
    BY StageAt, StageAtNext
  <1>3. /\ job[w].at \in {"fetching", "claiming"} => Stage(t) = "taken"
        /\ job[w].at = "ingesting" => Stage(t) = "working"
        /\ job[w].at \in {"rereading", "saving"} => Stage(t) = "judged"
    BY <1>1, <1>2 DEF StageFacts
  <1>4. Stage(t) \in {"taken", "working", "judged"}
    BY <1>1, <1>3 DEF Jobs
  \* The worker keeps its task and is at the next stage of it.
  <1>5. ASSUME NEW j \in Jobs, job' = [job EXCEPT ![w] = j], j.task = t,
               UNCHANGED <<redisQueue, enqueuing>>,
               \A o \in Tasks \ {t} : record'[o] = record[o]
        PROVE  /\ \A o \in Tasks \ {t} : Stage(o)' = Stage(o)
               /\ j.at \in {"fetching", "claiming"} => Stage(t)' = "taken"
               /\ j.at = "ingesting" => Stage(t)' = "working"
               /\ j.at \in {"rereading", "saving"} => Stage(t)' = "judged"
    <2>1. /\ \A o \in Tasks \ {t} : Stage(o)' = Stage(o)
          /\ job'[w] = j
      BY <1>1, <1>5, HolderMovesOnly
    <2>2. Has(w, t)' /\ job'[w].at = j.at
      BY <1>5, <2>1 DEF Has
    <2> QED BY <1>1, <1>2, <2>1, <2>2 DEF StageFacts
  \* The worker gives its task up.
  <1>6. ASSUME job' = [job EXCEPT ![w] = Idle], UNCHANGED <<redisQueue, enqueuing>>,
               \A o \in Tasks \ {t} : record'[o] = record[o]
        PROVE  /\ \A o \in Tasks \ {t} : Stage(o)' = Stage(o)
               /\ Stage(t)' = IF record'[t] \in Ended THEN "ended" ELSE "lost"
    <2>1. /\ \A o \in Tasks \ {t} : Stage(o)' = Stage(o)
          /\ enqueuing'[t] = "accepted" /\ ~Queued(t)'
          /\ \A v \in Workers : ~Has(v, t)'
      BY <1>1, <1>6, IdleJob, HolderMovesOnly
    <2> QED BY <1>1, <1>2, <2>1 DEF StageFacts
  <1>7. CASE Fetch(w)
    <2>1. /\ job[w].at = "fetching"
          /\ UNCHANGED <<record, redisQueue, enqueuing>>
          /\ \/ job' = [job EXCEPT ![w].at = "claiming", ![w].copy = record[t]]
                /\ hurt' = hurt
             \/ record[t] = "none" /\ hurt' = hurt /\ job' = [job EXCEPT ![w] = Idle]
             \/ hurt' = hurt \cup {t} /\ job' = [job EXCEPT ![w] = Idle]
      BY <1>0, <1>7 DEF Fetch, LinkFault, NoLinkFault, Resting
    <2>2. CASE /\ job' = [job EXCEPT ![w].at = "claiming", ![w].copy = record[t]]
               /\ hurt' = hurt
      <3> DEFINE j == [job[w] EXCEPT !.at = "claiming", !.copy = record[t]]
      <3>1. job' = [job EXCEPT ![w] = j] /\ j \in Jobs /\ j.at = "claiming" /\ j.task = t
        BY <1>0, <1>1, <2>2 DEF Jobs
      <3> HIDE DEF j
      <3>2. /\ \A o \in Tasks \ {t} : Stage(o)' = Stage(o)
            /\ Stage(t)' = "taken"
        BY <1>5, <2>1, <3>1
      <3> QED BY <1>1, <1>3, <2>1, <2>2, <3>2, PathMove
    <2>3. CASE /\ record[t] = "none" \/ hurt' = hurt \cup {t}
               /\ hurt' \in {hurt, hurt \cup {t}}
               /\ job' = [job EXCEPT ![w] = Idle]
      <3>1. record[t] = "none" => t \in hurt
        BY <1>1 DEF QueueInv, RecordBeforeEntry
      <3>2. hurt' = hurt \cup {t}
        BY <2>3, <3>1
      <3>3. /\ \A o \in Tasks \ {t} : Stage(o)' = Stage(o)
            /\ Stage(t)' = "lost"
        BY <1>1, <1>6, <2>1, <2>3 DEF Ended
      <3> QED BY <1>1, <1>4, <3>2, <3>3, PathMove
    <2> QED BY <2>1, <2>2, <2>3
  <1>8. CASE ClaimTask(w)
    <2> DEFINE j == [job[w] EXCEPT !.at = "ingesting", !.copy = "processing"]
    <2>1. /\ job[w].at = "claiming" /\ UNCHANGED <<redisQueue, enqueuing>>
          /\ record' \in {record, [record EXCEPT ![t] = "processing"]}
          /\ hurt' \in {hurt, hurt \cup {t}}
          /\ job' = [job EXCEPT ![w].at = "ingesting", ![w].copy = "processing"]
      BY <1>0, <1>8 DEF ClaimTask, Save, LinkFault, NoLinkFault
    <2>2. job' = [job EXCEPT ![w] = j] /\ j \in Jobs /\ j.at = "ingesting" /\ j.task = t
      BY <1>0, <1>1, <2>1 DEF Jobs, Statuses
    <2>3. \A o \in Tasks \ {t} : record'[o] = record[o]
      BY <1>1, <2>1
    <2> HIDE DEF j
    <2>4. (\A o \in Tasks \ {t} : Stage(o)' = Stage(o)) /\ Stage(t)' = "working"
      BY <1>5, <2>1, <2>2, <2>3
    <2> QED BY <1>1, <1>3, <2>1, <2>4, PathMove
  <1>9. CASE Ingest(w)
    <2>1. PICK outcome \in Ended :
            job' = [job EXCEPT ![w].at = "rereading", ![w].copy = outcome]
      BY <1>9 DEF Ingest
    <2> DEFINE j == [job[w] EXCEPT !.at = "rereading", !.copy = outcome]
    <2>2. job' = [job EXCEPT ![w] = j] /\ j \in Jobs /\ j.at = "rereading" /\ j.task = t
      BY <1>0, <1>1, <2>1 DEF Jobs, Statuses
    <2>3. job[w].at = "ingesting" /\ UNCHANGED <<record, redisQueue, enqueuing, hurt>>
      BY <1>9 DEF Ingest
    <2> HIDE DEF j
    <2>4. (\A o \in Tasks \ {t} : Stage(o)' = Stage(o)) /\ Stage(t)' = "judged"
      BY <1>5, <2>2, <2>3
    <2> QED BY <1>1, <1>3, <2>3, <2>4, PathMove
  <1>10. CASE Reread(w)
    <2> DEFINE j == [job[w] EXCEPT !.at = "saving"]
    <2>1. /\ job[w].at = "rereading" /\ UNCHANGED <<record, redisQueue, enqueuing, hurt>>
          /\ job' = [job EXCEPT ![w].at = "saving"]
      BY <1>10 DEF Reread
    <2>2. job' = [job EXCEPT ![w] = j] /\ j \in Jobs /\ j.at = "saving" /\ j.task = t
      BY <1>0, <1>1, <2>1 DEF Jobs
    <2> HIDE DEF j
    <2>3. (\A o \in Tasks \ {t} : Stage(o)' = Stage(o)) /\ Stage(t)' = "judged"
      BY <1>5, <2>1, <2>2
    <2> QED BY <1>1, <1>3, <2>1, <2>3, PathMove
  <1>11. CASE EndTask(w)
    <2>1. /\ job[w].at = "saving" /\ UNCHANGED <<redisQueue, enqueuing>>
          /\ job' = [job EXCEPT ![w] = Idle]
          /\ \/ record' = [record EXCEPT ![t] = job[w].copy] /\ hurt' \in {hurt, hurt \cup {t}}
             \/ record' = record /\ hurt' = hurt \cup {t}
      BY <1>0, <1>11 DEF EndTask, Save, LinkFault, NoLinkFault, Resting
    <2>2. \A o \in Tasks \ {t} : record'[o] = record[o]
      BY <1>1, <2>1
    <2>3. job[w].copy \in Ended
      BY <2>1 DEF QueueInv, JobsFit
    <2>4. record'[t] \in Ended \/ (record'[t] \notin Ended /\ hurt' = hurt \cup {t})
      BY <1>1, <2>1, <2>3 DEF Ended
    <2>5. hurt' \in {hurt, hurt \cup {t}}
      BY <2>1
    <2>6. /\ \A o \in Tasks \ {t} : Stage(o)' = Stage(o)
          /\ Stage(t)' = IF record'[t] \in Ended THEN "ended" ELSE "lost"
      BY <1>6, <2>1, <2>2
    <2> QED BY <1>1, <1>3, <2>1, <2>4, <2>5, <2>6, PathMove
  <1>12. CASE CrashWorker(w)
    <2>1. /\ hurt' = hurt \cup {t} /\ job' = [job EXCEPT ![w] = Idle]
          /\ UNCHANGED <<record, redisQueue, enqueuing>>
      BY <1>0, <1>1, <1>12 DEF CrashWorker, LinkFault, Resting
    <2>2. /\ \A o \in Tasks \ {t} : Stage(o)' = Stage(o)
          /\ Stage(t)' = "lost"
      BY <1>1, <1>6, <2>1 DEF Ended
    <2> QED BY <1>1, <1>4, <2>1, <2>2, PathMove
  <1> QED BY <1>7, <1>8, <1>9, <1>10, <1>11, <1>12

\* A poll, a connection and the crash of an idle worker move no task.
LEMMA PathStands ==
  ASSUME QueueInv, \A t \in Tasks : Stage(t)' = Stage(t), hurt' = hurt
  PROVE  [Path!PathNext]_(Path!pathVars)
  BY DEF Path!pathVars

\* The queue implements TaskPath.
THEOREM QueueFollowsPath == ServicesSpec => ImplementsTaskPath
  <1>1. ServicesInit => Path!PathInit
    <2> SUFFICES ASSUME ServicesInit PROVE Path!PathInit
      OBVIOUS
    <2>1. \A t \in Tasks : Stage(t) = "unsubmitted"
      BY DEF ServicesInit, QueueInit, Stage
    <2> QED BY <2>1 DEF Path!PathInit, ServicesInit, QueueInit
  <1>2. QueueInv /\ QueueInv' /\ [QueueNext]_queueVars =>
          [Path!PathNext]_(Path!pathVars)
    <2> SUFFICES ASSUME QueueInv, QueueInv', [QueueNext]_queueVars
                 PROVE  [Path!PathNext]_(Path!pathVars)
      OBVIOUS
    <2>1. ASSUME UNCHANGED <<record, redisQueue, enqueuing, job, hurt>>
          PROVE  [Path!PathNext]_(Path!pathVars)
      <3>1. \A t \in Tasks : Stage(t)' = Stage(t)
        BY <2>1, StageStands DEF Queued, Has
      <3> QED BY <2>1, <3>1, PathStands
    <2>2. CASE UNCHANGED queueVars
      BY <2>1, <2>2 DEF queueVars
    <2>3. ASSUME \/ \E t \in Watched : PollReads(t)
                 \/ \E i \in DOMAIN polls : PollAnswers(i)
          PROVE  [Path!PathNext]_(Path!pathVars)
      BY <2>1, <2>3 DEF PollReads, PollAnswers, NoLinkFault, LinkFault
    <2>4. ASSUME NEW w \in Workers, Connect(w)
          PROVE  [Path!PathNext]_(Path!pathVars)
      BY <2>1, <2>4 DEF Connect
    <2>5. ASSUME NEW w \in Workers, CrashWorker(w), job[w].at = "idle"
          PROVE  [Path!PathNext]_(Path!pathVars)
      <3>1. /\ job[w].task = NoTask /\ NoTask \notin Tasks /\ job' = [job EXCEPT ![w] = Idle]
            /\ UNCHANGED <<record, redisQueue, enqueuing, hurt>>
            /\ job \in [Workers -> Jobs]
        BY <2>5, QueueAssumption
        DEF QueueInv, QueueTypes, JobsFit, QueueAssumption, CrashWorker, Resting, LinkFault
      <3>2. \A t \in Tasks, v \in Workers : /\ Has(v, t)' <=> Has(v, t)
                                            /\ Has(v, t) => job'[v].at = job[v].at
        BY <3>1, IdleJob DEF Has
      <3>3. \A t \in Tasks : Stage(t)' = Stage(t)
        BY <3>1, <3>2, StageStands DEF Queued
      <3> QED BY <3>1, <3>3, PathStands
    <2>6. ASSUME NEW w \in Workers, WorkerStep(w) \/ CrashWorker(w)
          PROVE  [Path!PathNext]_(Path!pathVars)
      <3>1. Fetch(w) \/ ClaimTask(w) \/ Ingest(w) \/ Reread(w) \/ EndTask(w) =>
              job[w].at # "idle"
        BY DEF Fetch, ClaimTask, Ingest, Reread, EndTask
      <3> QED BY <2>4, <2>5, <2>6, <3>1, PopMoves, HolderMoves DEF WorkerStep
    <2> QED BY <2>2, <2>3, <2>6, EnqueueMoves DEF QueueNext
  <1> QED
    BY <1>1, <1>2, QueueKept, QueueSteps, PTL
    DEF ServicesSpec, ImplementsTaskPath, Path!PathSpec

-----------------------------------------------------------------------------
(* The authority of a request                                              *)

\* What a good check leaves is no older than the clock since it says: a
\* revocation is seen by the first check after its answers are too old.
CheckBoundsRevocation ==
  /\ ~revoked => revokedFor = 0
  /\ revokedFor <= checkedFor + AnswerAge \/ checkedFor = FreshFor

AuthorityInv == AuthorityTypeOK /\ CheckBoundsRevocation

\* A request that has just arrived has been checked by nobody.
LEMMA AuthorityInitInv == AuthorityInit => AuthorityInv
  <1> SUFFICES ASSUME AuthorityInit PROVE AuthorityInv
    OBVIOUS
  <1>1. /\ checkedFor \in 0..FreshFor /\ waited \in 0..WatchPeriod /\ revokedFor \in 0..Long
        /\ effects \in 0..MaxActs /\ bytes \in 0..MaxActs
    BY AuthorityAssumption DEF AuthorityAssumption, AuthorityInit, Long
  <1>2. flow \in [Flows -> {"nothing", "effect", "bytes"}]
    BY DEF AuthorityInit
  <1> QED
    BY <1>1, <1>2 DEF AuthorityInit, AuthorityInv, AuthorityTypeOK, CheckBoundsRevocation

\* A flow's step only sets the clock of the last check back.
LEMMA FlowStepInv ==
  ASSUME AuthorityInv, NEW f \in Flows, FlowStep(f)
  PROVE  AuthorityInv'
  <1>1. checkedFor' = checkedFor \/ (checkedFor' = 0 /\ ActiveAnswer)
    BY DEF FlowStep, Asks, SendsAtOnce, RefusedAtOnce, Proceeds, IsRefused, Confirmed,
        Withheld, Denied, clocks
  <1>2. UNCHANGED <<watch, clocks>>
    BY DEF FlowStep, Asks, SendsAtOnce, RefusedAtOnce, Proceeds, IsRefused
  <1>3. CheckBoundsRevocation'
    BY <1>1, <1>2, AuthorityAssumption
    DEF AuthorityAssumption, AuthorityInv, AuthorityTypeOK, CheckBoundsRevocation,
        ActiveAnswer, clocks
  <1>4. AuthorityTypeOK'
    <2>1. flow' \in [Flows -> {"nothing", "effect", "bytes"}]
      BY DEF AuthorityInv, AuthorityTypeOK, FlowStep, Asks, SendsAtOnce, RefusedAtOnce,
          Proceeds, IsRefused, Withheld, HandlerStops, Performs, Sends
    <2>2. handler' \in {"none", "running", "over"} /\ denied' \in BOOLEAN
          /\ response' \in {"none", "open", "over"}
      BY DEF AuthorityInv, AuthorityTypeOK, FlowStep, Asks, SendsAtOnce, RefusedAtOnce,
          Proceeds, IsRefused, Withheld, HandlerStops, Performs, Sends, Confirmed, Denied
    <2>3. effects' \in 0..MaxActs /\ bytes' \in 0..MaxActs
      BY AuthorityAssumption
      DEF AuthorityAssumption, AuthorityInv, AuthorityTypeOK, FlowStep, Asks, SendsAtOnce,
          RefusedAtOnce, Proceeds, IsRefused, Withheld, Performs, Sends
    <2> QED
      BY <1>1, <1>2, <2>1, <2>2, <2>3, AuthorityAssumption
      DEF AuthorityAssumption, AuthorityInv, AuthorityTypeOK, clocks
  <1> QED
    BY <1>3, <1>4 DEF AuthorityInv

\* So does a step of the middleware.
LEMMA WatchStepInv ==
  ASSUME AuthorityInv, WatchStep
  PROVE  AuthorityInv'
  <1>1. checkedFor' = checkedFor \/ (checkedFor' = 0 /\ ActiveAnswer)
    BY DEF WatchStep, Arrives, IsAdmitted, NotAdmitted, NotRouted, Routed, WatchTimesOut,
        Rechecked, RecheckFails, WatchSeesEnd, Stop, Confirmed, Denied
  <1>2. UNCHANGED <<lapsed, revoked, revokedFor, effects, bytes>>
    BY DEF WatchStep, Arrives, IsAdmitted, NotAdmitted, NotRouted, Routed, WatchTimesOut,
        Rechecked, RecheckFails, WatchSeesEnd, clocks
  <1>3. CheckBoundsRevocation'
    BY <1>1, <1>2, AuthorityAssumption
    DEF AuthorityAssumption, AuthorityInv, AuthorityTypeOK, CheckBoundsRevocation,
        ActiveAnswer
  <1>4. AuthorityTypeOK'
    <2>1. waited' \in 0..WatchPeriod
      BY AuthorityAssumption
      DEF AuthorityAssumption, AuthorityInv, AuthorityTypeOK, WatchStep, Arrives, IsAdmitted,
          NotAdmitted, NotRouted, Routed, WatchTimesOut, Rechecked, RecheckFails,
          WatchSeesEnd, clocks
    <2>2. flow' \in [Flows -> {"nothing", "effect", "bytes"}]
      BY DEF AuthorityInv, AuthorityTypeOK, WatchStep, Arrives, IsAdmitted, NotAdmitted,
          NotRouted, Routed, WatchTimesOut, Rechecked, RecheckFails, WatchSeesEnd, Stop,
          HandlerStops
    <2>3. /\ watch' \in {"arriving", "admitting", "routing", "watching", "rechecking", "ended"}
          /\ handler' \in {"none", "running", "over"} /\ denied' \in BOOLEAN
          /\ response' \in {"none", "open", "over"}
      BY DEF AuthorityInv, AuthorityTypeOK, WatchStep, Arrives, IsAdmitted, NotAdmitted,
          NotRouted, Routed, WatchTimesOut, Rechecked, RecheckFails, WatchSeesEnd, Stop,
          HandlerStops, Confirmed, Denied
    <2>4. checkedFor' \in 0..FreshFor
      BY <1>1, AuthorityAssumption DEF AuthorityAssumption, AuthorityInv, AuthorityTypeOK
    <2>5. /\ lapsed' \in BOOLEAN /\ revoked' \in BOOLEAN /\ revokedFor' \in (0..Long)'
          /\ effects' \in 0..MaxActs /\ bytes' \in 0..MaxActs
      BY <1>2 DEF AuthorityInv, AuthorityTypeOK, Long
    <2> QED
      BY <2>1, <2>2, <2>3, <2>4, <2>5 DEF AuthorityTypeOK
  <1> QED
    BY <1>3, <1>4 DEF AuthorityInv

\* Every step keeps the invariant: both clocks advance together.
LEMMA AuthorityStepInv == AuthorityInv /\ [AuthorityNext]_authorityVars => AuthorityInv'
  <1> SUFFICES ASSUME AuthorityInv, [AuthorityNext]_authorityVars PROVE AuthorityInv'
    OBVIOUS
  <1>1. CASE HandlerEnds
    BY <1>1, AuthorityAssumption
    DEF AuthorityAssumption, AuthorityInv, AuthorityTypeOK, CheckBoundsRevocation, Long,
        HandlerEnds, HandlerStops, clocks
  <1>2. CASE TimePasses
    BY <1>2, AuthorityAssumption
    DEF AuthorityAssumption, AuthorityInv, AuthorityTypeOK, CheckBoundsRevocation, Long,
        TimePasses, Later
  <1>3. CASE Lapses \/ IsRevoked
    BY <1>3, AuthorityAssumption
    DEF AuthorityAssumption, AuthorityInv, AuthorityTypeOK, CheckBoundsRevocation, Long,
        Lapses, IsRevoked
  <1>4. CASE UNCHANGED authorityVars
    BY <1>4 DEF authorityVars, AuthorityInv, AuthorityTypeOK, CheckBoundsRevocation, Long
  <1>5. ASSUME NEW f \in Flows, FlowStep(f) PROVE AuthorityInv'
    BY <1>5, FlowStepInv
  <1>6. CASE WatchStep
    BY <1>6, WatchStepInv
  <1> QED
    BY <1>1, <1>2, <1>3, <1>4, <1>5, <1>6 DEF AuthorityNext

\* A step of the services is one of the request's authority or leaves it alone.
LEMMA AuthoritySteps == [ServicesNext]_servicesVars => [AuthorityNext]_authorityVars
  BY DEF ServicesNext, servicesVars, Only, OnlyChat, OnlyQueue, OnlyBridge, OnlyLimiter,
      OnlySlots

\* The invariant of the request's authority holds whatever the services do.
LEMMA AuthorityKept == ServicesSpec => []AuthorityInv
  <1>1. ServicesInit => AuthorityInv
    BY AuthorityInitInv DEF ServicesInit
  <1> QED
    BY <1>1, AuthorityStepInv, AuthoritySteps, PTL DEF ServicesSpec

\* Once a check of the request was denied, nothing of it is authorised any more.
THEOREM DenialStays == ServicesSpec => DenialIsFinal
  <1>1. AuthorityInv /\ [AuthorityNext]_authorityVars =>
          [denied => denied' /\ effects' = effects /\ bytes' = bytes]_authorityVars
    <2> SUFFICES ASSUME AuthorityNext, denied
                 PROVE  denied' /\ effects' = effects /\ bytes' = bytes
      OBVIOUS
    <2>1. ASSUME NEW f \in Flows, FlowStep(f)
          PROVE  denied' /\ effects' = effects /\ bytes' = bytes
      BY <2>1 DEF FlowStep, Asks, SendsAtOnce, RefusedAtOnce, Proceeds, IsRefused, Confirmed,
          Withheld, Denied, Barred
    <2>2. CASE WatchStep
      BY <2>2 DEF WatchStep, Arrives, IsAdmitted, NotAdmitted, NotRouted, Routed,
          WatchTimesOut, Rechecked, RecheckFails, WatchSeesEnd, Stop, Confirmed, Denied
    <2> QED
      BY <2>1, <2>2 DEF AuthorityNext, HandlerEnds, TimePasses, Lapses, IsRevoked
  <1> QED
    BY <1>1, AuthorityKept, AuthoritySteps, PTL DEF ServicesSpec, DenialIsFinal

\* What is done or sent after a revocation is so within the age of an answer,
\* and for messages the time a check serves.
THEOREM RevocationIsHeeded == ServicesSpec => RevocationHeeded
  <1>1. AuthorityInv /\ [AuthorityNext]_authorityVars =>
          [/\ effects' # effects /\ revoked => revokedFor <= AnswerAge
           /\ bytes' # bytes /\ revoked => revokedFor < FreshFor + AnswerAge]_authorityVars
    <2> SUFFICES ASSUME AuthorityInv, AuthorityNext, revoked
                 PROVE  /\ effects' # effects => revokedFor <= AnswerAge
                        /\ bytes' # bytes => revokedFor < FreshFor + AnswerAge
      OBVIOUS
    <2>1. ASSUME NEW f \in Flows, FlowStep(f)
          PROVE  /\ effects' # effects => revokedFor <= AnswerAge
                 /\ bytes' # bytes => revokedFor < FreshFor + AnswerAge
      <3>1. effects' # effects => revokedFor <= AnswerAge
        BY <2>1 DEF FlowStep, Asks, SendsAtOnce, RefusedAtOnce, Proceeds, IsRefused, Sends,
            Withheld, Confirmed, ActiveAnswer
      <3>2. bytes' # bytes => revokedFor <= AnswerAge \/ checkedFor < FreshFor
        BY <2>1 DEF FlowStep, Asks, SendsAtOnce, RefusedAtOnce, Proceeds, IsRefused,
            Performs, Withheld, Confirmed, ActiveAnswer, RecentlyChecked
      <3> QED
        BY <3>1, <3>2, AuthorityAssumption
        DEF AuthorityAssumption, AuthorityInv, AuthorityTypeOK, CheckBoundsRevocation
    <2>2. UNCHANGED <<effects, bytes>> \/ \E f \in Flows : FlowStep(f)
      BY DEF AuthorityNext, WatchStep, Arrives, IsAdmitted, NotAdmitted, NotRouted, Routed,
          WatchTimesOut, Rechecked, RecheckFails, WatchSeesEnd, HandlerEnds, TimePasses,
          Lapses, IsRevoked
    <2> QED
      BY <2>1, <2>2
  <1> QED
    BY <1>1, AuthorityKept, AuthoritySteps, PTL DEF ServicesSpec, RevocationHeeded

-----------------------------------------------------------------------------
(* The types of all the services                                           *)

\* What the queue's invariant does not say: the queue and the connections of a
\* process and the count of faults.
LEMMA QueueTypesStep ==
  QueueTypeOK /\ QueueInv /\ QueueTypes' /\ SeenTypes' /\ [QueueNext]_queueVars => QueueTypeOK'
  <1> SUFFICES ASSUME QueueTypeOK, QueueInv, QueueTypes', SeenTypes', [QueueNext]_queueVars
               PROVE  QueueTypeOK'
    OBVIOUS
  <1>1. /\ apiQueue \in Seq(Tasks) /\ connected \subseteq Workers
        /\ linkFaults \in 0..MaxLinkFaults /\ hurt \subseteq Tasks
        /\ redisQueue \in Seq(Tasks)
    BY DEF QueueTypeOK
  <1>2. ASSUME NEW touched, touched \subseteq Tasks, LinkFault(touched)
        PROVE  linkFaults' \in 0..MaxLinkFaults /\ hurt' \subseteq Tasks
    BY <1>1, <1>2, QueueAssumption DEF QueueAssumption, LinkFault
  <1>3. NoLinkFault => linkFaults' \in 0..MaxLinkFaults /\ hurt' \subseteq Tasks
    BY <1>1 DEF NoLinkFault
  <1> DEFINE Rest == /\ apiQueue' \in Seq(Tasks) /\ connected' \subseteq Workers
                     /\ linkFaults' \in 0..MaxLinkFaults /\ hurt' \subseteq Tasks
  <1>4. ASSUME NEW t \in Tasks, Enqueue(t) \/ WriteRecord(t) \/ Push(t) \/ PollReads(t)
        PROVE  Rest
    <2>1. NoLinkFault \/ LinkFault({t}) \/ LinkFault({})
      BY <1>4 DEF Enqueue, WriteRecord, Push, PollReads, FallBack
    <2>2. apiQueue' = apiQueue \/ apiQueue' = Append(apiQueue, t)
      BY <1>4 DEF Enqueue, WriteRecord, Push, PollReads, FallBack
    <2>3. connected' = connected
      BY <1>4 DEF Enqueue, WriteRecord, Push, PollReads
    <2>4. apiQueue' \in Seq(Tasks)
      BY <1>1, <2>2
    <2>5. linkFaults' \in 0..MaxLinkFaults /\ hurt' \subseteq Tasks
      BY <1>2, <1>3, <2>1
    <2> QED
      BY <1>1, <2>3, <2>4, <2>5
  <1>5. ASSUME NEW w \in Workers, WorkerStep(w) \/ CrashWorker(w) PROVE Rest
    <2>1. apiQueue' = apiQueue /\ connected' \subseteq connected \cup {w}
      BY <1>5 DEF WorkerStep, Connect, Pop, Fetch, ClaimTask, Ingest, Reread, EndTask,
          CrashWorker
    <2>2. redisQueue # <<>> => Head(redisQueue) \in Tasks
      BY <1>1
    <2>3. CASE Pop(w)
      BY <1>1, <1>2, <1>3, <2>1, <2>2, <2>3 DEF Pop
    <2>4. /\ job[w] \in Jobs
          /\ job[w].at \in {"fetching", "claiming", "saving"} => job[w].task \in Tasks
      <3>1. job[w] \in Jobs
        BY DEF QueueTypeOK
      <3> QED
        BY <3>1 DEF QueueInv, JobsFit, Jobs, Idle
    <2>5. CASE Fetch(w) \/ ClaimTask(w) \/ EndTask(w)
      BY <1>1, <1>2, <1>3, <2>1, <2>4, <2>5 DEF Fetch, ClaimTask, EndTask, Save
    <2>6. CASE Connect(w) \/ Ingest(w) \/ Reread(w)
      BY <1>1, <2>1, <2>6 DEF Connect, Ingest, Reread
    <2>7. CASE CrashWorker(w)
      <3>1. LinkFault({job[w].task} \cap Tasks)
        BY <2>7 DEF CrashWorker
      <3> QED
        BY <1>1, <1>2, <2>1, <3>1
    <2> QED
      BY <1>5, <2>3, <2>5, <2>6, <2>7 DEF WorkerStep
  <1>6. ASSUME UNCHANGED queueVars \/ \E i \in DOMAIN polls : PollAnswers(i) PROVE Rest
    BY <1>1, <1>6 DEF queueVars, PollAnswers
  <1>7. Rest
    BY <1>4, <1>5, <1>6, QueueAssumption DEF QueueAssumption, QueueNext
  <1> QED
    BY <1>7 DEF QueueTypes, SeenTypes, QueueTypeOK

\* The flags of the bridge and its counters.
LEMMA BridgeTypesStep ==
  BridgeTypeOK /\ PostTypes' /\ [BridgeNext]_bridgeVars => BridgeTypeOK'
  <1> SUFFICES ASSUME BridgeTypeOK, PostTypes', [BridgeNext]_bridgeVars PROVE BridgeTypeOK'
    OBVIOUS
  <1>1. /\ saved \in BOOLEAN /\ lock \in BOOLEAN /\ kept \in BOOLEAN /\ memory \in BOOLEAN
        /\ processed \in BOOLEAN /\ latched \in BOOLEAN /\ unlocked \in BOOLEAN
        /\ stranded \in BOOLEAN
        /\ resumed \in Nat /\ bridgeFaults \in 0..MaxBridgeFaults
    BY DEF BridgeTypeOK
  <1>2. BridgeFault \/ NoBridgeFault => bridgeFaults' \in 0..MaxBridgeFaults
    BY <1>1, BridgeAssumption DEF BridgeAssumption, BridgeFault, NoBridgeFault
  <1> DEFINE Flags == /\ saved' \in BOOLEAN /\ lock' \in BOOLEAN /\ kept' \in BOOLEAN
                      /\ memory' \in BOOLEAN /\ processed' \in BOOLEAN
                      /\ latched' \in BOOLEAN /\ unlocked' \in BOOLEAN
                      /\ stranded' \in BOOLEAN
             Counts == resumed' \in Nat /\ bridgeFaults' \in 0..MaxBridgeFaults
  <1>3. ASSUME SaveCheckpoint \/ CheckpointExpires \/ LockExpires \/ RestartApi
        PROVE  Flags /\ Counts
    <2>1. Flags
      BY <1>1, <1>3 DEF SaveCheckpoint, CheckpointExpires, LockExpires, RestartApi
    <2>2. Counts
      BY <1>1, <1>2, <1>3
      DEF SaveCheckpoint, CheckpointExpires, LockExpires, RestartApi, NoBridgeFault
    <2> QED
      BY <2>1, <2>2
  <1>4. ASSUME NEW p \in Posts, PostStep(p) PROVE Flags /\ Counts
    <2>1. ASSUME Receive(p) PROVE Flags /\ Counts
      <3>1. Flags
        BY <1>1, <2>1 DEF Receive
      <3>2. Counts
        BY <1>1, <1>2, <2>1 DEF Receive
      <3> QED
        BY <3>1, <3>2
    <2>2. ASSUME TakeLock(p) PROVE Flags /\ Counts
      <3>1. Flags
        BY <1>1, <2>2 DEF TakeLock
      <3>2. Counts
        BY <1>1, <1>2, <2>2 DEF TakeLock
      <3> QED
        BY <3>1, <3>2
    <2>3. ASSUME LoadCheckpoint(p) PROVE Flags /\ Counts
      <3>1. Flags
        BY <1>1, <2>3 DEF LoadCheckpoint
      <3>2. Counts
        BY <1>1, <1>2, <2>3 DEF LoadCheckpoint
      <3> QED
        BY <3>1, <3>2
    <2>4. ASSUME Check(p) PROVE Flags /\ Counts
      <3>1. Flags
        BY <1>1, <2>4 DEF Check
      <3>2. Counts
        BY <1>1, <1>2, <2>4 DEF Check, NoBridgeFault
      <3> QED
        BY <3>1, <3>2
    <2>5. ASSUME ReleaseLock(p) PROVE Flags /\ Counts
      <3>1. Flags
        BY <1>1, <2>5 DEF ReleaseLock
      <3>2. Counts
        BY <1>1, <1>2, <2>5 DEF ReleaseLock
      <3> QED
        BY <3>1, <3>2
    <2>6. ASSUME DeleteCheckpoint(p) PROVE Flags /\ Counts
      <3>1. Flags
        BY <1>1, <2>6 DEF DeleteCheckpoint
      <3>2. Counts
        BY <1>1, <1>2, <2>6 DEF DeleteCheckpoint
      <3> QED
        BY <3>1, <3>2
    <2>7. ASSUME InvokeGraph(p) PROVE Flags /\ Counts
      <3>1. Flags
        BY <1>1, <2>7 DEF InvokeGraph
      <3>2. Counts
        BY <1>1, <1>2, <2>7 DEF InvokeGraph, NoBridgeFault
      <3> QED
        BY <3>1, <3>2
    <2> QED
      BY <1>4, <2>1, <2>2, <2>3, <2>4, <2>5, <2>6, <2>7 DEF PostStep
  <1>5. ASSUME UNCHANGED bridgeVars PROVE Flags /\ Counts
    BY <1>1, <1>5 DEF bridgeVars
  <1>6. Flags /\ Counts
    BY <1>3, <1>4, <1>5 DEF BridgeNext
  <1> QED
    BY <1>6 DEF BridgeTypeOK, PostTypes

\* Every variable of every service keeps its type.
THEOREM ServicesTypeCorrect == ServicesSpec => []ServicesTypeOK
  <1>1. ServicesInit => ChatInv /\ LimiterInv /\ QueueTypeOK /\ BridgeTypeOK
    <2>1. QueueInit => QueueTypeOK
      <3>1. QueueInit => QueueTypes
        BY QueueInitInv DEF QueueInv
      <3> QED
        BY <3>1, QueueAssumption
        DEF QueueAssumption, QueueInit, QueueTypeOK, QueueTypes, Statuses
    <2>2. BridgeInit => BridgeTypeOK
      <3>1. BridgeInit => PostTypes
        BY BridgeInitInv DEF BridgeInv
      <3>2. BridgeInit => resumed \in Nat /\ bridgeFaults \in 0..MaxBridgeFaults
        BY BridgeAssumption DEF BridgeAssumption, BridgeInit
      <3>3. BridgeInit => {saved, lock, kept, memory, processed, latched, unlocked,
                           stranded} \subseteq BOOLEAN
        BY Zenon DEF BridgeInit
      <3> QED
        BY <3>1, <3>2, <3>3 DEF BridgeTypeOK, PostTypes
    <2> QED
      BY <2>1, <2>2, ChatInitInv, LimiterInitInv DEF ServicesInit
  <1>2. (QueueInv => QueueTypes) /\ (SeenInv => SeenTypes)
    BY DEF QueueInv, SeenInv
  <1>3. BridgeInv => PostTypes
    BY DEF BridgeInv
  <1>4. /\ ChatInv => ChatTypeOK
        /\ CustodyInv => SlotsTypeOK
        /\ LimiterInv => LimiterTypeOK
        /\ AuthorityInv => AuthorityTypeOK
    BY DEF ChatInv, CustodyInv, LimiterInv, AuthorityInv
  <1> QED
    BY <1>1, <1>2, <1>3, <1>4, ChatStepInv, ChatSteps, LimiterStepInv, LimiterSteps,
       QueueTypesStep, QueueSteps, QueueKept, SeenKept, BridgeTypesStep, BridgeSteps, Bridge,
       Custody, AuthorityKept, PTL
    DEF ServicesSpec, ServicesTypeOK
=============================================================================
