------------------------- MODULE AgentRuntimeProofs -------------------------
(***************************************************************************)
(* Proofs about AgentRuntime, for any set of runs and any iteration limit: *)
(* its type invariant, NoZombie, ToolsBounded and CancelHeeded; that each  *)
(* driver runs out of moves, and that a run follows its table of statuses. *)
(*                                                                         *)
(* Every action is about one run and leaves the parts of the others alone, *)
(* but for the task's status, which the invariant does not need.  So the   *)
(* inductive invariant is one predicate per run, RunInv(r), and a step is  *)
(* proved to keep that of its own run.                                     *)
(***************************************************************************)
EXTENDS AgentRuntime, TLAPS

Numbers == 1..MaxIterations + 1

AtWork == {"planning", "tool", "roundSave"}

Reached == {"absent", "created", "running", "paused_approval", "completed", "failed",
            "cancelled", "rejected"}

\* The drivers of a run follow one another: only the last one is at work, the
\* others have left the loop.  What is doomed belongs to an ended run.
InSequence(r) ==
  /\ \A k \in Numbers :
       /\ pc[<<r, k>>] = "none" <=> k > starts[r]
       /\ k < starts[r] => pc[<<r, k>>] \in {"lastSave", "over"}
       /\ <<r, k>> \in doomed => k <= starts[r] /\ Terminal(r)
  /\ registered[r] <= starts[r]

\* What the status of a run says of its last driver and of its gate.
StatusSays(r) ==
  /\ run[r] \in Reached
  /\ run[r] = "absent" <=> starts[r] = 0
  /\ run[r] = "created" => starts[r] = 1 /\ pc[<<r, 1>>] \in {"scheduled", "dropped"}
  /\ run[r] = "running" => pc[<<r, starts[r]>>] \in AtWork \cup {"raised"} /\ gate[r] # "pending"
  /\ run[r] = "paused_approval" =>
       IF gate[r] = "pending" THEN pc[<<r, starts[r]>>] \in {"lastSave", "over"}
       ELSE pc[<<r, starts[r]>>] \in {"approvedTool", "raised"}

\* What the place of a run's last driver says.
PlaceSays(r) ==
  \A k \in Numbers : k = starts[r] =>
    /\ pc[<<r, k>>] = "scheduled" => k = 1 /\ run[r] \in {"created"} \cup TerminalStatuses
    /\ pc[<<r, k>>] \in AtWork => run[r] \in {"running"} \cup TerminalStatuses
    /\ pc[<<r, k>>] = "approvedTool" =>
         k > 1 /\ run[r] \in {"paused_approval"} \cup TerminalStatuses /\ gate[r] # "pending"

\* Each tool call is answered by an iteration, and a resumption by a tool call.
Counted(r) ==
  /\ iteration[r] <= toolCalls[r] /\ toolCalls[r] <= MaxIterations
  /\ starts[r] <= toolCalls[r] + 1
  /\ starts[r] = 0 => toolCalls[r] = 0 /\ gate[r] = "none"
  /\ \A k \in Numbers : k = starts[r] =>
       /\ pc[<<r, k>>] \in {"scheduled", "planning"} =>
            toolCalls[r] = iteration[r] /\ iteration[r] < MaxIterations
       /\ pc[<<r, k>>] = "roundSave" => toolCalls[r] = iteration[r]
       /\ pc[<<r, k>>] \in {"tool", "approvedTool"} => toolCalls[r] = iteration[r] + 1
  /\ run[r] = "paused_approval" /\ gate[r] = "pending" =>
       toolCalls[r] = iteration[r] /\ iteration[r] < MaxIterations

\* Until its first gate a run is within the reach of a cancellation.
Reachable(r) ==
  starts[r] = 1 =>
    /\ pc[<<r, 1>>] \in AtWork \cup {"scheduled", "dropped"} => gate[r] = "none"
    /\ pc[<<r, 1>>] \in AtWork /\ <<r, 1>> \notin doomed => registered[r] = 1 /\ ~Terminal(r)

RunInv(r) ==
  InSequence(r) /\ StatusSays(r) /\ PlaceSays(r) /\ Counted(r) /\ Reachable(r)

RuntimeInv == TypeOK /\ \A r \in Runs : RunInv(r)

-----------------------------------------------------------------------------
(* A step of one run                                                       *)

\* The parts of all other runs are as they were.
Elsewhere(r) ==
  \A q \in Runs \ {r} :
    /\ run'[q] = run[q] /\ iteration'[q] = iteration[q] /\ starts'[q] = starts[q]
    /\ registered'[q] = registered[q] /\ gate'[q] = gate[q]
    /\ toolCalls'[q] = toolCalls[q]
    /\ \A k \in Numbers :
         pc'[<<q, k>>] = pc[<<q, k>>] /\ (<<q, k>> \in doomed' <=> <<q, k>> \in doomed)

\* The driver k of run r moves, nothing else about drivers changes.
LEMMA Moved ==
  ASSUME TypeOK, NEW r \in Runs, NEW k \in Numbers, NEW place \in Places,
         MoveTo(r, k, place)
  PROVE  /\ pc' \in [Drivers -> Places]
         /\ pc'[<<r, k>>] = place
         /\ \A q \in Runs, l \in Numbers :
              q # r \/ l # k => pc'[<<q, l>>] = pc[<<q, l>>]
  BY DEF TypeOK, MoveTo, Drivers, Numbers

\* It is enough that a step keeps the invariant of its own run.
LEMMA OwnRunSuffices ==
  ASSUME RuntimeInv, NEW r \in Runs, Elsewhere(r), TypeOK', RunInv(r)'
  PROVE  RuntimeInv'
<1> SUFFICES ASSUME NEW q \in Runs, q # r PROVE RunInv(q)'
  BY DEF RuntimeInv
<1>1. /\ run'[q] = run[q] /\ iteration'[q] = iteration[q] /\ starts'[q] = starts[q]
      /\ registered'[q] = registered[q] /\ gate'[q] = gate[q]
      /\ toolCalls'[q] = toolCalls[q]
      /\ \A k \in Numbers :
           pc'[<<q, k>>] = pc[<<q, k>>] /\ (<<q, k>> \in doomed' <=> <<q, k>> \in doomed)
  BY DEF Elsewhere
<1>2. RunInv(q) /\ starts[q] \in 0..MaxIterations + 1
  BY DEF RuntimeInv, TypeOK
<1>3. InSequence(q)'
  BY <1>1, <1>2 DEF RunInv, InSequence, Terminal
<1>4. StatusSays(q)'
  <2>1. run[q] \in {"running", "paused_approval", "created"} => starts[q] \in Numbers
    BY <1>2, RuntimeAssumption DEF RunInv, StatusSays, Numbers
  <2>2. 1 \in Numbers
    BY RuntimeAssumption DEF Numbers
  <2> QED BY <1>1, <1>2, <2>1, <2>2 DEF RunInv, StatusSays
<1>5. PlaceSays(q)'
  BY <1>1, <1>2 DEF RunInv, PlaceSays
<1>6. Counted(q)'
  BY <1>1, <1>2 DEF RunInv, Counted
<1>7. Reachable(q)'
  <2>1. 1 \in Numbers
    BY RuntimeAssumption DEF Numbers
  <2> QED BY <1>1, <1>2, <2>1 DEF RunInv, Reachable, Terminal
<1> QED BY <1>3, <1>4, <1>5, <1>6, <1>7 DEF RunInv

\* A driver at work, or scheduled, is the last one of its run.
LEMMA LastAtWork ==
  ASSUME RuntimeInv, NEW r \in Runs, NEW k \in Numbers,
         pc[<<r, k>>] \in AtWork \cup {"scheduled", "approvedTool"}
  PROVE  k = starts[r]
<1>1. starts[r] \in 0..MaxIterations + 1 /\ InSequence(r)
  BY DEF RuntimeInv, RunInv, TypeOK
<1>2. pc[<<r, k>>] \notin {"none", "lastSave", "over"}
  BY DEF AtWork
<1>3. ~(k > starts[r]) /\ ~(k < starts[r])
  BY <1>1, <1>2 DEF InSequence
<1> QED BY <1>1, <1>3, RuntimeAssumption DEF Numbers

\* A driver that moves on, the last one or on its way out, keeps the sequence.
LEMMA SequenceKept ==
  ASSUME RuntimeInv, NEW r \in Runs, NEW k \in Numbers, NEW place \in Places,
         pc'[<<r, k>>] = place, place # "none",
         \A q \in Runs, l \in Numbers :
            q # r \/ l # k => pc'[<<q, l>>] = pc[<<q, l>>],
         starts' = starts, k <= starts[r],
         k < starts[r] => place \in {"lastSave", "over"},
         \A l \in Numbers : <<r, l>> \in doomed' => <<r, l>> \in doomed,
         Terminal(r) => Terminal(r)',
         registered'[r] \in 0..starts[r]
  PROVE  InSequence(r)'
<1>1. InSequence(r) /\ starts[r] \in 0..MaxIterations + 1
  BY DEF RuntimeInv, RunInv, TypeOK
<1>2. ASSUME NEW l \in Numbers
      PROVE  /\ pc'[<<r, l>>] = "none" <=> l > starts'[r]
             /\ l < starts'[r] => pc'[<<r, l>>] \in {"lastSave", "over"}
  <2>1. CASE l = k
    BY <1>1, <2>1, RuntimeAssumption DEF Numbers
  <2>2. CASE l # k
    BY <1>1, <2>2 DEF InSequence
  <2> QED BY <2>1, <2>2
<1> QED BY <1>1, <1>2, RuntimeAssumption DEF InSequence

-----------------------------------------------------------------------------
(* The end of a round                                                      *)

\* What the three outcomes of a status write have in common: the status of a
\* run that has ended stays, and the driver leaves the loop.
LEMMA Concludes ==
  ASSUME TypeOK, NEW r \in Runs, NEW k \in Numbers,
         NEW status \in {"completed", "failed", "cancelled", "paused_approval"},
         run[r] \in {"running"} \cup TerminalStatuses,
         Conclude(r, k, status)
  PROVE  /\ run' = [run EXCEPT ![r] = IF run[r] = "running" THEN status ELSE run[r]]
         /\ \E place \in {"lastSave", "over"} : MoveTo(r, k, place)
         /\ registered' \in {registered, [registered EXCEPT ![r] = 0]}
         /\ task' \in TaskStatuses
         /\ saved' \in [Runs -> RunStatuses \cup {"absent"}]
         /\ stream' \in [Runs -> {"none", "open", "told"}]
<1>1. run[r] = "running" => MayBecome(run[r], status)
  <2>1. \A s \in TerminalStatuses \cup PausedStatuses : MayBecome("running", s)
    BY DEF MayBecome, RunTransitions, RunStatuses, FromActive, FromPaused, TerminalStatuses,
           PausedStatuses
  <2> QED BY <2>1 DEF TerminalStatuses, PausedStatuses
<1>2. run[r] # "running" /\ MayBecome(run[r], status) => run[r] = status
  <2>1. /\ RunTransitions["completed"] = {} /\ RunTransitions["failed"] = {}
        /\ RunTransitions["cancelled"] = {} /\ RunTransitions["rejected"] = {}
        /\ RunTransitions["timeout"] = {}
    BY DEF RunTransitions, RunStatuses, FromActive, FromPaused, TerminalStatuses,
           PausedStatuses
  <2> QED BY <2>1 DEF MayBecome, TerminalStatuses
<1>3. status \in TaskStatuses /\ status \in RunStatuses
  BY DEF TaskStatuses, RunStatuses, PausedStatuses, TerminalStatuses
<1>4. CASE MayBecome(run[r], status) /\ TaskMayBecome(task, status) /\ Settle(r, k, status)
  BY <1>1, <1>2, <1>3, <1>4 DEF Settle, BeginSave, reach, TypeOK
<1>5. CASE /\ MayBecome(run[r], status) /\ run' = [run EXCEPT ![r] = status]
           /\ Leave(r, k) /\ UNCHANGED <<task, saved>>
  BY <1>1, <1>2, <1>3, <1>5 DEF Leave, Unregister, TypeOK
<1>6. CASE ~MayBecome(run[r], status) /\ Leave(r, k) /\ UNCHANGED <<run, task, saved>>
  BY <1>1, <1>6 DEF Leave, Unregister, TypeOK
<1> QED BY <1>4, <1>5, <1>6 DEF Conclude

\* A driver at work that writes its run's outcome keeps the invariant.
LEMMA Concluding ==
  ASSUME RuntimeInv, NEW r \in Runs, NEW k \in Numbers, pc[<<r, k>>] \in AtWork,
         NEW status \in {"completed", "failed", "cancelled", "paused_approval"},
         Conclude(r, k, status),
         UNCHANGED <<iteration, starts, doomed, toolCalls>>,
         IF status = "paused_approval"
         THEN pc[<<r, k>>] = "planning" /\ gate' = [gate EXCEPT ![r] = "pending"]
         ELSE gate' = gate
  PROVE  RuntimeInv'
<1>1. k = starts[r]
  BY LastAtWork
<1>2. TypeOK /\ RunInv(r)
  BY DEF RuntimeInv
<1>3. run[r] \in {"running"} \cup TerminalStatuses
  BY <1>1, <1>2 DEF RunInv, PlaceSays
<1>4. PICK place \in {"lastSave", "over"} : MoveTo(r, k, place)
  BY <1>2, <1>3, Concludes
<1>5. /\ run' = [run EXCEPT ![r] = IF run[r] = "running" THEN status ELSE run[r]]
      /\ registered' \in {registered, [registered EXCEPT ![r] = 0]}
      /\ task' \in TaskStatuses
      /\ saved' \in [Runs -> RunStatuses \cup {"absent"}]
      /\ stream' \in [Runs -> {"none", "open", "told"}]
  BY <1>2, <1>3, Concludes
<1>6. /\ pc' \in [Drivers -> Places] /\ pc'[<<r, k>>] = place
      /\ \A q \in Runs, l \in Numbers : q # r \/ l # k => pc'[<<q, l>>] = pc[<<q, l>>]
  BY <1>2, <1>4, Moved DEF Places
<1>7. TypeOK'
  <2>1. run' \in [Runs -> RunStatuses \cup {"absent"}]
    BY <1>2, <1>5 DEF TypeOK, RunStatuses, TerminalStatuses, PausedStatuses
  <2>2. gate' \in [Runs -> {"none", "pending", "approved", "rejected"}]
    BY <1>2 DEF TypeOK
  <2>3. registered' \in [Runs -> 0..MaxIterations + 1]
    BY <1>2, <1>5, RuntimeAssumption DEF TypeOK
  <2> QED BY <1>2, <1>5, <1>6, <2>1, <2>2, <2>3 DEF TypeOK
<1>8. Elsewhere(r)
  BY <1>2, <1>5, <1>6 DEF Elsewhere, TypeOK
<1>9. run'[r] = (IF run[r] = "running" THEN status ELSE run[r])
  BY <1>2, <1>5 DEF TypeOK
<1>10. InSequence(r)'
  <2>1. Terminal(r) => Terminal(r)'
    BY <1>9 DEF Terminal, TerminalStatuses
  <2>2. registered'[r] \in 0..starts[r]
    BY <1>2, <1>5, RuntimeAssumption DEF RunInv, InSequence, TypeOK
  <2>3. place # "none" /\ k <= starts[r] /\ ~(k < starts[r])
    BY <1>1, <1>2, <1>4 DEF TypeOK, Numbers
  <2> QED BY <1>4, <1>6, <2>1, <2>2, <2>3, SequenceKept DEF Places
<1>11. StatusSays(r)'
  BY <1>1, <1>2, <1>3, <1>4, <1>5, <1>6, <1>9
  DEF RunInv, StatusSays, TypeOK, TerminalStatuses, Numbers, Reached
<1>12. PlaceSays(r)'
  BY <1>1, <1>6, <1>4 DEF PlaceSays, AtWork
<1>13. Counted(r)'
  <2>1. starts[r] # 0
    BY <1>1, RuntimeAssumption DEF Numbers
  <2>2. run'[r] = "paused_approval" => status = "paused_approval"
    BY <1>3, <1>9 DEF TerminalStatuses
  <2>3. status = "paused_approval" => toolCalls[r] = iteration[r] /\ iteration[r] < MaxIterations
    BY <1>1, <1>2 DEF RunInv, Counted
  <2> QED BY <1>1, <1>2, <1>4, <1>6, <2>1, <2>2, <2>3 DEF RunInv, Counted
<1>14. Reachable(r)'
  BY <1>1, <1>4, <1>6 DEF Reachable, AtWork
<1> QED BY <1>7, <1>8, <1>10, <1>11, <1>12, <1>13, <1>14, OwnRunSuffices DEF RunInv

\* A driver that leaves for good: it has saved, or its run has ended.
LEMMA Leaving ==
  ASSUME RuntimeInv, NEW r \in Runs, NEW k \in Numbers, MoveTo(r, k, "over"),
         pc[<<r, k>>] # "none", pc[<<r, k>>] = "lastSave" \/ Terminal(r),
         UNCHANGED <<task, run, iteration, starts, gate, saved, toolCalls>>,
         doomed' \in {doomed, doomed \ {<<r, k>>}},
         registered' \in {registered, [registered EXCEPT ![r] = 0]},
         stream' \in [Runs -> {"none", "open", "told"}]
  PROVE  RuntimeInv'
<1>1. TypeOK /\ RunInv(r) /\ starts[r] \in 0..MaxIterations + 1
  BY DEF RuntimeInv, TypeOK
<1>2. /\ pc' \in [Drivers -> Places] /\ pc'[<<r, k>>] = "over"
      /\ \A q \in Runs, l \in Numbers : q # r \/ l # k => pc'[<<q, l>>] = pc[<<q, l>>]
  BY <1>1, Moved DEF Places
<1>3. k <= starts[r]
  BY <1>1, RuntimeAssumption DEF RunInv, InSequence, Numbers
<1>4. TypeOK'
  <2>1. registered' \in [Runs -> 0..MaxIterations + 1]
    BY <1>1, RuntimeAssumption DEF TypeOK
  <2> QED BY <1>1, <1>2, <2>1 DEF TypeOK
<1>5. Elsewhere(r)
  BY <1>1, <1>2 DEF Elsewhere, TypeOK
<1>6. InSequence(r)'
  <2>1. registered'[r] \in 0..starts[r]
    BY <1>1, RuntimeAssumption DEF RunInv, InSequence, TypeOK
  <2>2. Terminal(r) => Terminal(r)'
    BY DEF Terminal
  <2> QED BY <1>2, <1>3, <2>1, <2>2, SequenceKept DEF Places
<1>7. StatusSays(r)'
  <2>1. starts[r] # 0 => starts[r] \in Numbers
    BY <1>1, RuntimeAssumption DEF Numbers
  <2>2. run[r] = "created" => starts[r] = 1 /\ k = 1 /\ pc[<<r, k>>] \in {"scheduled", "dropped"}
    BY <1>1, <1>3, RuntimeAssumption DEF RunInv, StatusSays, Numbers
  <2>3. starts[r] # k /\ starts[r] # 0 => pc'[<<r, starts[r]>>] = pc[<<r, starts[r]>>]
    BY <1>2, <2>1
  <2>4. ~Terminal(r) => pc[<<r, k>>] = "lastSave"
    OBVIOUS
  <2>5. run[r] \in {"running", "created", "paused_approval"} => ~Terminal(r)
    BY DEF Terminal, TerminalStatuses
  <2> QED BY <1>1, <1>2, <2>2, <2>3, <2>4, <2>5 DEF RunInv, StatusSays, AtWork
<1>8. PlaceSays(r)'
  BY <1>1, <1>2 DEF RunInv, PlaceSays, AtWork
<1>9. Counted(r)'
  BY <1>1, <1>2 DEF RunInv, Counted
<1>10. Reachable(r)'
  <2>1. 1 \in Numbers /\ (starts[r] = 1 => k = 1)
    BY <1>3, RuntimeAssumption DEF Numbers
  <2> QED BY <1>2, <2>1 DEF Reachable, AtWork
<1> QED BY <1>4, <1>5, <1>6, <1>7, <1>8, <1>9, <1>10, OwnRunSuffices DEF RunInv

-----------------------------------------------------------------------------
(* The steps of a driver                                                   *)

LEMMA CreateKeeps == ASSUME RuntimeInv, NEW r \in Runs, Create(r) PROVE RuntimeInv'
<1>1. TypeOK /\ RunInv(r) /\ 1 \in Numbers /\ starts[r] = 0
  <2>1. 1 \in Numbers
    BY RuntimeAssumption DEF Numbers
  <2> QED BY <2>1 DEF RuntimeInv, RunInv, StatusSays, Create
<1>2. /\ pc' \in [Drivers -> Places] /\ pc'[<<r, 1>>] = "scheduled"
      /\ \A q \in Runs, l \in Numbers : q # r \/ l # 1 => pc'[<<q, l>>] = pc[<<q, l>>]
  BY <1>1, Moved DEF Places, Create
<1>3. /\ run'[r] = "created" /\ starts'[r] = 1
      /\ UNCHANGED <<iteration, registered, doomed, gate, toolCalls>>
  BY <1>1 DEF Create, TypeOK, reach
<1>4. TypeOK'
  BY <1>1, <1>2, RuntimeAssumption DEF Create, TypeOK, RunStatuses, reach
<1>5. Elsewhere(r)
  BY <1>1, <1>2 DEF Create, Elsewhere, TypeOK, reach
<1>6. InSequence(r)'
  <2>1. registered[r] = 0 /\ \A l \in Numbers : <<r, l>> \notin doomed
    BY <1>1, RuntimeAssumption DEF RunInv, InSequence, TypeOK, Numbers
  <2>2. ASSUME NEW l \in Numbers
        PROVE  /\ pc'[<<r, l>>] = "none" <=> l > 1
               /\ ~(l < 1)
    BY <1>1, <1>2 DEF RunInv, InSequence, Numbers
  <2> QED BY <1>3, <2>1, <2>2 DEF InSequence
<1>7. StatusSays(r)' /\ PlaceSays(r)'
  BY <1>2, <1>3 DEF StatusSays, PlaceSays, Reached, AtWork
<1>8. Counted(r)' /\ Reachable(r)'
  BY <1>1, <1>2, <1>3, RuntimeAssumption DEF RunInv, Counted, Reachable, StatusSays, AtWork, TypeOK
<1> QED BY <1>4, <1>5, <1>6, <1>7, <1>8, OwnRunSuffices DEF RunInv

LEMMA StartKeeps == ASSUME RuntimeInv, NEW r \in Runs, Start(r) PROVE RuntimeInv'
<1>1. TypeOK /\ RunInv(r) /\ 1 \in Numbers
  BY RuntimeAssumption DEF RuntimeInv, Numbers
<1>2. starts[r] = 1 /\ run[r] = "created" /\ gate[r] = "none"
  <2>1. starts[r] = 1
    BY <1>1, LastAtWork DEF Start, At
  <2> QED BY <1>1, <2>1 DEF RunInv, PlaceSays, Reachable, Start, At, Terminal
<1>3. /\ pc' \in [Drivers -> Places] /\ pc'[<<r, 1>>] = "planning"
      /\ \A q \in Runs, l \in Numbers : q # r \/ l # 1 => pc'[<<q, l>>] = pc[<<q, l>>]
  BY <1>1, Moved DEF Places, Start
<1>4. /\ run'[r] = "running" /\ registered'[r] = 1
      /\ UNCHANGED <<iteration, starts, doomed, gate, toolCalls>>
  BY <1>1 DEF Start, TypeOK
<1>5. TypeOK'
  BY <1>1, <1>3, RuntimeAssumption DEF Start, TypeOK, RunStatuses, TaskStatuses
<1>6. Elsewhere(r)
  BY <1>1, <1>3 DEF Start, Elsewhere, TypeOK
<1>7. InSequence(r)'
  <2>1. Terminal(r) => Terminal(r)'
    BY DEF Start
  <2>2. registered'[r] \in 0..starts[r] /\ 1 <= starts[r] /\ ~(1 < starts[r])
    BY <1>2, <1>4
  <2> QED BY <1>1, <1>3, <1>4, <2>1, <2>2, SequenceKept DEF Places
<1>8. StatusSays(r)' /\ PlaceSays(r)'
  BY <1>2, <1>3, <1>4 DEF StatusSays, PlaceSays, Reached, AtWork
<1>9. Counted(r)'
  BY <1>1, <1>2, <1>3, <1>4 DEF RunInv, Counted, Start, At
<1>10. Reachable(r)'
  BY <1>2, <1>4 DEF Reachable, Terminal, TerminalStatuses
<1> QED BY <1>5, <1>6, <1>7, <1>8, <1>9, <1>10, OwnRunSuffices DEF RunInv

LEMMA StartRefusedKeeps ==
  ASSUME RuntimeInv, NEW r \in Runs, StartRefused(r) PROVE RuntimeInv'
<1>1. 1 \in Numbers /\ stream \in [Runs -> {"none", "open", "told"}]
  BY RuntimeAssumption DEF Numbers, RuntimeInv, TypeOK
<1> QED BY <1>1, Leaving DEF StartRefused, At, reach

\* An undelivered creation leaves the run as it was, without a driver.
LEMMA CreationWithheldKeeps ==
  ASSUME RuntimeInv, NEW r \in Runs, CreationWithheld(r) PROVE RuntimeInv'
<1>1. TypeOK /\ RunInv(r) /\ 1 \in Numbers /\ starts[r] = 1
  BY LastAtWork, RuntimeAssumption DEF RuntimeInv, Numbers, CreationWithheld, At
<1>2. /\ pc' \in [Drivers -> Places] /\ pc'[<<r, 1>>] = "dropped"
      /\ \A q \in Runs, l \in Numbers : q # r \/ l # 1 => pc'[<<q, l>>] = pc[<<q, l>>]
  BY <1>1, Moved DEF Places, CreationWithheld
<1>3. UNCHANGED <<task, run, iteration, starts, registered, stream, doomed, gate, saved,
                  toolCalls>>
  BY DEF CreationWithheld, reach
<1>4. TypeOK' /\ Elsewhere(r)
  BY <1>1, <1>2, <1>3 DEF TypeOK, Elsewhere
<1>5. run[r] \in {"created"} \cup TerminalStatuses
  BY <1>1 DEF RunInv, PlaceSays, CreationWithheld, At
<1>6. InSequence(r)'
  <2>1. Terminal(r) => Terminal(r)'
    BY <1>3 DEF Terminal
  <2>2. registered'[r] \in 0..starts[r] /\ 1 <= starts[r] /\ ~(1 < starts[r])
    BY <1>1, <1>3, RuntimeAssumption DEF RunInv, InSequence, TypeOK
  <2> QED BY <1>1, <1>2, <1>3, <2>1, <2>2, SequenceKept DEF Places
<1>7. StatusSays(r)' /\ PlaceSays(r)'
  BY <1>1, <1>2, <1>3, <1>5
  DEF RunInv, StatusSays, PlaceSays, AtWork, TerminalStatuses
<1>8. Counted(r)'
  BY <1>1, <1>2, <1>3, <1>5 DEF RunInv, Counted, TerminalStatuses
<1>9. Reachable(r)'
  BY <1>1, <1>2, <1>3 DEF RunInv, Reachable, AtWork, CreationWithheld, At
<1> QED BY <1>4, <1>6, <1>7, <1>8, <1>9, OwnRunSuffices DEF RunInv

\* A run whose request is stopped has ended, whatever its first driver did.
LEMMA AuthorityLostKeeps ==
  ASSUME RuntimeInv, NEW r \in Runs, AuthorityLost(r) PROVE RuntimeInv'
<1>1. TypeOK /\ RunInv(r) /\ 1 \in Numbers /\ starts[r] \in 0..MaxIterations + 1
  BY RuntimeAssumption DEF RuntimeInv, Numbers, TypeOK
<1>2. pc[<<r, 1>>] \in {"planning", "tool", "roundSave", "lastSave"} /\ 1 <= starts[r]
  BY <1>1, RuntimeAssumption DEF AuthorityLost, At, RunInv, InSequence
<1>3. /\ pc' \in [Drivers -> Places] /\ pc'[<<r, 1>>] = "over"
      /\ \A q \in Runs, l \in Numbers : q # r \/ l # 1 => pc'[<<q, l>>] = pc[<<q, l>>]
  BY <1>1, Moved DEF Places, AuthorityLost, Leave
<1>4. /\ run'[r] = (IF Terminal(r) THEN run[r] ELSE "cancelled") /\ Terminal(r)'
      /\ registered'[r] = 0
      /\ UNCHANGED <<iteration, starts, doomed, gate, toolCalls>>
  BY <1>1 DEF AuthorityLost, Leave, Unregister, TypeOK, Terminal, TerminalStatuses
<1>5. TypeOK'
  <2>1. run' \in [Runs -> RunStatuses \cup {"absent"}] /\ task' \in TaskStatuses
    BY <1>1 DEF AuthorityLost, TypeOK, RunStatuses, TaskStatuses, TerminalStatuses
  <2>2. registered' \in [Runs -> 0..MaxIterations + 1]
    BY <1>1, RuntimeAssumption DEF AuthorityLost, Leave, Unregister, TypeOK
  <2>3. stream' \in [Runs -> {"none", "open", "told"}]
    BY <1>1 DEF AuthorityLost, Leave, Unregister, TypeOK
  <2> QED BY <1>1, <1>3, <2>1, <2>2, <2>3 DEF AuthorityLost, TypeOK
<1>6. Elsewhere(r)
  BY <1>1, <1>3 DEF AuthorityLost, Leave, Unregister, TypeOK, Elsewhere
<1>7. InSequence(r)'
  <2>1. registered'[r] \in 0..starts[r] /\ starts' = starts /\ doomed' = doomed
    BY <1>1, <1>4
  <2>2. "over" \in Places
    BY DEF Places
  <2> QED BY <1>1, <1>2, <1>3, <1>4, <2>1, <2>2, SequenceKept
<1>8. run[r] # "absent" /\ run[r] \in Reached
  BY <1>1, <1>2 DEF RunInv, StatusSays
<1>9. StatusSays(r)' /\ PlaceSays(r)'
  BY <1>1, <1>2, <1>3, <1>4, <1>8
  DEF RunInv, StatusSays, PlaceSays, Terminal, TerminalStatuses, Reached, AtWork
<1>10. Counted(r)'
  BY <1>1, <1>3, <1>4 DEF RunInv, Counted, Terminal, TerminalStatuses
<1>11. Reachable(r)'
  BY <1>3, <1>4 DEF Reachable, AtWork
<1> QED BY <1>5, <1>6, <1>7, <1>9, <1>10, <1>11, OwnRunSuffices DEF RunInv

LEMMA PlannerEndsKeeps ==
  ASSUME RuntimeInv, NEW r \in Runs, NEW k \in Numbers, PlannerEnds(r, k)
  PROVE  RuntimeInv'
<1>1. PICK status \in {"completed", "failed"} : Conclude(r, k, status)
  BY DEF PlannerEnds
<1> QED BY <1>1, Concluding DEF PlannerEnds, At, AtWork

LEMMA PlannerPausesKeeps ==
  ASSUME RuntimeInv, NEW r \in Runs, NEW k \in Numbers, PlannerPauses(r, k)
  PROVE  RuntimeInv'
BY Concluding DEF PlannerPauses, At, AtWork

LEMMA PlannerCallsKeeps ==
  ASSUME RuntimeInv, NEW r \in Runs, NEW k \in Numbers, PlannerCalls(r, k)
  PROVE  RuntimeInv'
<1>1. TypeOK /\ RunInv(r) /\ k = starts[r] /\ pc[<<r, k>>] = "planning"
  BY LastAtWork DEF RuntimeInv, PlannerCalls, At, AtWork
<1>2. /\ pc' \in [Drivers -> Places] /\ pc'[<<r, k>>] = "tool"
      /\ \A q \in Runs, l \in Numbers : q # r \/ l # k => pc'[<<q, l>>] = pc[<<q, l>>]
  BY <1>1, Moved DEF Places, PlannerCalls
<1>3. /\ toolCalls'[r] = toolCalls[r] + 1
      /\ UNCHANGED <<run, iteration, starts, registered, doomed, gate>>
  BY <1>1 DEF PlannerCalls, TypeOK, reach
<1>4. TypeOK' /\ Elsewhere(r)
  BY <1>1, <1>2 DEF PlannerCalls, TypeOK, Elsewhere, reach
<1>5. InSequence(r)'
  <2>1. registered'[r] \in 0..starts[r] /\ k <= starts[r] /\ ~(k < starts[r])
    BY <1>1, <1>3, RuntimeAssumption DEF RunInv, InSequence, TypeOK
  <2>2. Terminal(r) => Terminal(r)'
    BY <1>3 DEF Terminal
  <2> QED BY <1>2, <1>3, <2>1, <2>2, SequenceKept DEF Places
<1>6. StatusSays(r)' /\ PlaceSays(r)'
  BY <1>1, <1>2, <1>3 DEF RunInv, StatusSays, PlaceSays, AtWork
<1>7. Counted(r)'
  <2>1. toolCalls[r] = iteration[r] /\ iteration[r] < MaxIterations
    BY <1>1 DEF RunInv, Counted
  <2>2. run[r] # "paused_approval"
    BY <1>1 DEF RunInv, PlaceSays, AtWork, TerminalStatuses
  <2>3. {iteration[r], toolCalls[r], starts[r], MaxIterations} \subseteq Nat
    BY <1>1, RuntimeAssumption DEF TypeOK
  <2>4. starts[r] <= toolCalls[r] + 1 /\ starts[r] # 0
    BY <1>1, RuntimeAssumption DEF RunInv, Counted, Numbers
  <2> QED BY <1>1, <1>2, <1>3, <2>1, <2>2, <2>3, <2>4 DEF Counted
<1>8. Reachable(r)'
  BY <1>1, <1>2, <1>3 DEF RunInv, Reachable, AtWork, Terminal
<1> QED BY <1>4, <1>5, <1>6, <1>7, <1>8, OwnRunSuffices DEF RunInv

LEMMA ToolReturnsKeeps ==
  ASSUME RuntimeInv, NEW r \in Runs, NEW k \in Numbers, ToolReturns(r, k)
  PROVE  RuntimeInv'
<1>1. TypeOK /\ RunInv(r) /\ k = starts[r] /\ pc[<<r, k>>] = "tool"
  BY LastAtWork DEF RuntimeInv, ToolReturns, At, AtWork
<1>2. /\ pc' \in [Drivers -> Places] /\ pc'[<<r, k>>] = "roundSave"
      /\ \A q \in Runs, l \in Numbers : q # r \/ l # k => pc'[<<q, l>>] = pc[<<q, l>>]
  BY <1>1, Moved DEF Places, ToolReturns
<1>3. /\ iteration'[r] = iteration[r] + 1
      /\ UNCHANGED <<run, toolCalls, starts, registered, doomed, gate>>
  BY <1>1 DEF ToolReturns, TypeOK, reach
<1>4. /\ toolCalls[r] = iteration[r] + 1 /\ toolCalls[r] <= MaxIterations
      /\ {iteration[r], toolCalls[r], starts[r], MaxIterations} \subseteq Nat
      /\ starts[r] <= toolCalls[r] + 1 /\ starts[r] # 0
  BY <1>1, RuntimeAssumption DEF RunInv, Counted, TypeOK, Numbers
<1>5. TypeOK'
  <2>1. iteration' \in [Runs -> 0..MaxIterations]
    BY <1>1, <1>4 DEF ToolReturns, TypeOK
  <2>2. saved' \in [Runs -> RunStatuses \cup {"absent"}]
    BY <1>1 DEF ToolReturns, BeginSave, TypeOK
  <2> QED BY <1>1, <1>2, <2>1, <2>2 DEF ToolReturns, TypeOK, reach
<1>6. Elsewhere(r)
  BY <1>1, <1>2 DEF ToolReturns, TypeOK, Elsewhere, reach
<1>7. InSequence(r)'
  <2>1. registered'[r] \in 0..starts[r] /\ k <= starts[r] /\ ~(k < starts[r])
    BY <1>1, <1>3, <1>4, RuntimeAssumption DEF RunInv, InSequence, TypeOK
  <2>2. Terminal(r) => Terminal(r)'
    BY <1>3 DEF Terminal
  <2> QED BY <1>2, <1>3, <2>1, <2>2, SequenceKept DEF Places
<1>8. StatusSays(r)' /\ PlaceSays(r)'
  BY <1>1, <1>2, <1>3 DEF RunInv, StatusSays, PlaceSays, AtWork
<1>9. Counted(r)'
  <2>1. run[r] # "paused_approval"
    BY <1>1 DEF RunInv, PlaceSays, AtWork, TerminalStatuses
  <2> QED BY <1>1, <1>2, <1>3, <1>4, <2>1 DEF Counted
<1>10. Reachable(r)'
  BY <1>1, <1>2, <1>3 DEF RunInv, Reachable, AtWork, Terminal
<1> QED BY <1>5, <1>6, <1>7, <1>8, <1>9, <1>10, OwnRunSuffices DEF RunInv

LEMMA RoundSavedKeeps ==
  ASSUME RuntimeInv, NEW r \in Runs, NEW k \in Numbers, RoundSaved(r, k)
  PROVE  RuntimeInv'
<1>1. TypeOK /\ RunInv(r) /\ k = starts[r] /\ pc[<<r, k>>] = "roundSave"
  BY LastAtWork DEF RuntimeInv, RoundSaved, At, AtWork
<1>2. ASSUME NEW status \in {"failed", "cancelled"}, Conclude(r, k, status)
      PROVE  RuntimeInv'
  BY <1>1, <1>2, Concluding DEF RoundSaved, AtWork
<1>3. CASE /\ iteration[r] < MaxIterations /\ run[r] # "cancelled"
           /\ MoveTo(r, k, "planning") /\ UNCHANGED <<task, run, reach, saved>>
  <2>1. /\ pc' \in [Drivers -> Places] /\ pc'[<<r, k>>] = "planning"
        /\ \A q \in Runs, l \in Numbers : q # r \/ l # k => pc'[<<q, l>>] = pc[<<q, l>>]
    BY <1>1, <1>3, Moved DEF Places
  <2>2. UNCHANGED <<run, iteration, toolCalls, starts, registered, doomed, gate>>
    BY <1>3 DEF RoundSaved, reach
  <2>3. TypeOK' /\ Elsewhere(r)
    BY <1>1, <1>3, <2>1 DEF RoundSaved, TypeOK, Elsewhere, reach
  <2>4. InSequence(r)'
    <3>1. registered'[r] \in 0..starts[r] /\ k <= starts[r] /\ ~(k < starts[r])
      BY <1>1, <2>2, RuntimeAssumption DEF RunInv, InSequence, TypeOK
    <3>2. Terminal(r) => Terminal(r)'
      BY <2>2 DEF Terminal
    <3> QED BY <2>1, <2>2, <3>1, <3>2, SequenceKept DEF Places
  <2>5. StatusSays(r)' /\ PlaceSays(r)'
    BY <1>1, <2>1, <2>2 DEF RunInv, StatusSays, PlaceSays, AtWork
  <2>6. Counted(r)'
    BY <1>1, <1>3, <2>1, <2>2 DEF RunInv, Counted
  <2>7. Reachable(r)'
    BY <1>1, <2>1, <2>2 DEF RunInv, Reachable, AtWork, Terminal
  <2> QED BY <2>3, <2>4, <2>5, <2>6, <2>7, OwnRunSuffices DEF RunInv
<1> QED BY <1>2, <1>3 DEF RoundSaved

LEMMA LastSavedKeeps ==
  ASSUME RuntimeInv, NEW r \in Runs, NEW k \in Numbers, LastSaved(r, k)
  PROVE  RuntimeInv'
<1>1. stream' \in [Runs -> {"none", "open", "told"}]
  BY DEF RuntimeInv, TypeOK, LastSaved, Leave, Unregister
<1> QED BY <1>1, Leaving DEF LastSaved, Leave, Unregister, At

LEMMA DeliveredKeeps ==
  ASSUME RuntimeInv, NEW r \in Runs, NEW k \in Numbers, Delivered(r, k)
  PROVE  RuntimeInv'
<1>1. stream' \in [Runs -> {"none", "open", "told"}]
  BY DEF RuntimeInv, TypeOK, Delivered, Leave, Unregister
<1>2. k <= starts[r] /\ Terminal(r) /\ starts[r] \in Nat
  BY RuntimeAssumption DEF RuntimeInv, RunInv, InSequence, Delivered, TypeOK
<1>3. pc[<<r, k>>] # "none"
  BY <1>2, RuntimeAssumption DEF RuntimeInv, RunInv, InSequence, Numbers
<1> QED BY <1>1, <1>2, <1>3, Leaving DEF Delivered, Leave, Unregister

\* A driver whose call raises leaves its run as it is: it was the last one.
LEMMA Raising ==
  ASSUME RuntimeInv, NEW r \in Runs, NEW k \in Numbers, MoveTo(r, k, "raised"),
         pc[<<r, k>>] \in {"planning", "tool", "approvedTool"},
         UNCHANGED <<task, run, iteration, starts, doomed, gate, saved, toolCalls>>,
         registered' \in {registered, [registered EXCEPT ![r] = 0]},
         stream' \in [Runs -> {"none", "open", "told"}]
  PROVE  RuntimeInv'
<1>1. TypeOK /\ RunInv(r) /\ k = starts[r] /\ starts[r] \in 0..MaxIterations + 1
  BY LastAtWork DEF RuntimeInv, TypeOK, AtWork
<1>2. /\ pc' \in [Drivers -> Places] /\ pc'[<<r, k>>] = "raised"
      /\ \A q \in Runs, l \in Numbers : q # r \/ l # k => pc'[<<q, l>>] = pc[<<q, l>>]
  BY <1>1, Moved DEF Places
<1>3. TypeOK'
  <2>1. registered' \in [Runs -> 0..MaxIterations + 1]
    BY <1>1, RuntimeAssumption DEF TypeOK
  <2> QED BY <1>1, <1>2, <2>1 DEF TypeOK
<1>4. Elsewhere(r)
  BY <1>1, <1>2 DEF Elsewhere, TypeOK
<1>5. InSequence(r)'
  <2>1. registered'[r] \in 0..starts[r] /\ k <= starts[r] /\ ~(k < starts[r])
    BY <1>1, RuntimeAssumption DEF RunInv, InSequence, TypeOK
  <2>2. Terminal(r) => Terminal(r)'
    BY DEF Terminal
  <2> QED BY <1>2, <2>1, <2>2, SequenceKept DEF Places
<1>6. StatusSays(r)'
  <2>1. run[r] # "created" /\ (run[r] = "paused_approval" => gate[r] # "pending")
    BY <1>1 DEF RunInv, StatusSays
  <2> QED BY <1>1, <1>2, <2>1 DEF RunInv, StatusSays
<1>7. PlaceSays(r)' /\ Counted(r)' /\ Reachable(r)'
  BY <1>1, <1>2 DEF RunInv, PlaceSays, Counted, Reachable, AtWork
<1> QED BY <1>3, <1>4, <1>5, <1>6, <1>7, OwnRunSuffices DEF RunInv

LEMMA CallRaisesKeeps ==
  ASSUME RuntimeInv, NEW r \in Runs, NEW k \in Numbers, CallRaises(r, k)
  PROVE  RuntimeInv'
<1>1. stream' \in [Runs -> {"none", "open", "told"}]
  BY DEF RuntimeInv, TypeOK, CallRaises, Unregister
<1> QED BY <1>1, Raising DEF CallRaises, Unregister, At

LEMMA ApprovedToolRaisesKeeps ==
  ASSUME RuntimeInv, NEW r \in Runs, NEW k \in Numbers, ApprovedToolRaises(r, k)
  PROVE  RuntimeInv'
<1>1. stream' \in [Runs -> {"none", "open", "told"}]
  BY DEF RuntimeInv, TypeOK, ApprovedToolRaises, reach
<1> QED BY <1>1, Raising DEF ApprovedToolRaises, reach, At

LEMMA ApprovedToolRefusedKeeps ==
  ASSUME RuntimeInv, NEW r \in Runs, NEW k \in Numbers, ApprovedToolRefused(r, k)
  PROVE  RuntimeInv'
<1>1. stream' \in [Runs -> {"none", "open", "told"}]
  BY DEF RuntimeInv, TypeOK, ApprovedToolRefused, reach
<1> QED BY <1>1, Leaving DEF ApprovedToolRefused, At, reach

LEMMA ApprovedToolReturnsKeeps ==
  ASSUME RuntimeInv, NEW r \in Runs, NEW k \in Numbers, ApprovedToolReturns(r, k)
  PROVE  RuntimeInv'
<1>1. TypeOK /\ RunInv(r) /\ k = starts[r] /\ pc[<<r, k>>] = "approvedTool"
  BY LastAtWork DEF RuntimeInv, ApprovedToolReturns, At
<1>2. /\ toolCalls[r] = iteration[r] + 1 /\ toolCalls[r] <= MaxIterations
      /\ {iteration[r], toolCalls[r], starts[r], MaxIterations} \subseteq Nat
      /\ starts[r] <= toolCalls[r] + 1 /\ starts[r] # 0
  BY <1>1, RuntimeAssumption DEF RunInv, Counted, TypeOK, Numbers
<1>3. run[r] = "paused_approval" /\ ~Terminal(r) /\ gate[r] # "pending"
  BY <1>1 DEF RunInv, PlaceSays, ApprovedToolReturns, Terminal
<1>4. /\ iteration'[r] = iteration[r] + 1 /\ registered'[r] = k
      /\ UNCHANGED <<toolCalls, starts, doomed, gate>>
  BY <1>1 DEF ApprovedToolReturns, TypeOK
<1>5. PICK place \in {"planning", "lastSave"} :
        /\ MoveTo(r, k, place)
        /\ run' = [run EXCEPT ![r] = IF place = "planning" THEN "running" ELSE "failed"]
        /\ place = "planning" => iteration[r] + 1 < MaxIterations
  BY <1>4 DEF ApprovedToolReturns
<1>6. /\ pc' \in [Drivers -> Places] /\ pc'[<<r, k>>] = place
      /\ \A q \in Runs, l \in Numbers : q # r \/ l # k => pc'[<<q, l>>] = pc[<<q, l>>]
  <2>1. place \in Places
    BY DEF Places
  <2> QED BY <1>1, <1>5, <2>1, Moved
<1>7. run'[r] = IF place = "planning" THEN "running" ELSE "failed"
  BY <1>1, <1>5 DEF TypeOK
<1>8. TypeOK'
  <2>1. iteration' \in [Runs -> 0..MaxIterations]
    BY <1>1, <1>2 DEF ApprovedToolReturns, TypeOK
  <2>2. saved' \in [Runs -> RunStatuses \cup {"absent"}]
    BY <1>1 DEF ApprovedToolReturns, BeginSave, TypeOK, RunStatuses, TerminalStatuses
  <2>3. registered' \in [Runs -> 0..MaxIterations + 1]
    BY <1>1 DEF ApprovedToolReturns, TypeOK, Numbers
  <2>4. task' \in TaskStatuses /\ run' \in [Runs -> RunStatuses \cup {"absent"}]
    BY <1>1, <1>5 DEF ApprovedToolReturns, TypeOK, TaskStatuses, RunStatuses, TerminalStatuses
  <2> QED BY <1>1, <1>6, <2>1, <2>2, <2>3, <2>4 DEF ApprovedToolReturns, TypeOK
<1>9. Elsewhere(r)
  BY <1>1, <1>5, <1>6 DEF ApprovedToolReturns, TypeOK, Elsewhere
<1>10. InSequence(r)'
  <2>1. registered'[r] \in 0..starts[r] /\ k <= starts[r] /\ ~(k < starts[r])
    BY <1>1, <1>2, <1>4
  <2> QED BY <1>3, <1>4, <1>6, <2>1, SequenceKept DEF Places
<1>11. StatusSays(r)' /\ PlaceSays(r)'
  BY <1>1, <1>2, <1>3, <1>4, <1>5, <1>6, <1>7
  DEF StatusSays, PlaceSays, AtWork, TerminalStatuses, Reached
<1>12. Counted(r)'
  BY <1>1, <1>2, <1>4, <1>5, <1>6, <1>7 DEF Counted
<1>13. Reachable(r)'
  BY <1>1, <1>2, <1>4 DEF RunInv, PlaceSays, Reachable
<1> QED BY <1>8, <1>9, <1>10, <1>11, <1>12, <1>13, OwnRunSuffices DEF RunInv

-----------------------------------------------------------------------------
(* The steps of the operator and of a client                               *)

LEMMA RequestCancelKeeps ==
  ASSUME RuntimeInv, NEW r \in Runs, RequestCancel(r) PROVE RuntimeInv'
<1>1. TypeOK /\ RunInv(r) /\ starts[r] # 0 /\ starts[r] \in Numbers
  BY RuntimeAssumption
  DEF RuntimeInv, RunInv, StatusSays, RequestCancel, TypeOK, Numbers
<1>2. /\ run'[r] = "cancelled" /\ Terminal(r)'
      /\ UNCHANGED <<iteration, toolCalls, starts, pc, registered, gate>>
  BY <1>1 DEF RequestCancel, TypeOK, reach, Terminal, TerminalStatuses
<1>3. /\ doomed \subseteq doomed'
      /\ doomed' \subseteq doomed \cup {<<r, registered[r]>>}
      /\ registered[r] # 0 => <<r, registered[r]>> \in doomed'
      /\ registered[r] = 0 => doomed' = doomed
  BY DEF RequestCancel
<1>4. registered[r] \in 0..starts[r] /\ starts[r] \in 0..MaxIterations + 1
  BY <1>1, RuntimeAssumption DEF RunInv, InSequence, TypeOK
<1>5. TypeOK'
  <2>1. run' \in [Runs -> RunStatuses \cup {"absent"}] /\ task' \in TaskStatuses
    BY <1>1 DEF RequestCancel, TypeOK, RunStatuses, TaskStatuses, TerminalStatuses
  <2>2. registered[r] # 0 => <<r, registered[r]>> \in Drivers
    BY <1>4, RuntimeAssumption DEF Drivers
  <2>3. doomed' \subseteq Drivers
    BY <1>1, <1>3, <2>2 DEF TypeOK
  <2> QED BY <1>1, <2>1, <2>3 DEF RequestCancel, TypeOK, reach
<1>6. Elsewhere(r)
  BY <1>1, <1>3 DEF RequestCancel, Elsewhere, TypeOK, reach
<1>7. InSequence(r)'
  BY <1>1, <1>2, <1>3, <1>4 DEF RunInv, InSequence
<1>8. StatusSays(r)' /\ PlaceSays(r)'
  BY <1>1, <1>2 DEF RunInv, StatusSays, PlaceSays, Reached, TerminalStatuses
<1>9. Counted(r)'
  BY <1>1, <1>2 DEF RunInv, Counted
<1>10. Reachable(r)'
  <2>1. ASSUME starts[r] = 1, pc[<<r, 1>>] \in AtWork, <<r, 1>> \notin doomed'
        PROVE  FALSE
    BY <1>1, <1>3, <2>1 DEF RunInv, Reachable
  <2> QED BY <1>1, <1>2, <2>1 DEF RunInv, Reachable
<1> QED BY <1>5, <1>6, <1>7, <1>8, <1>9, <1>10, OwnRunSuffices DEF RunInv

LEMMA ApproveResumesKeeps ==
  ASSUME RuntimeInv, NEW r \in Runs, ApproveResumes(r) PROVE RuntimeInv'
<1> DEFINE k == starts[r] + 1
<1>1. TypeOK /\ RunInv(r) /\ run[r] = "paused_approval" /\ gate[r] = "pending"
  BY DEF RuntimeInv, ApproveResumes, Decidable
<1>2. /\ {iteration[r], toolCalls[r], starts[r], MaxIterations} \subseteq Nat
      /\ toolCalls[r] = iteration[r] /\ iteration[r] < MaxIterations
      /\ starts[r] <= toolCalls[r] + 1 /\ starts[r] # 0
  BY <1>1, RuntimeAssumption DEF RunInv, StatusSays, Counted, TypeOK
<1>3. k \in Numbers /\ starts[r] \in Numbers /\ k > 1
  BY <1>2 DEF Numbers
<1>4. /\ pc' \in [Drivers -> Places] /\ pc'[<<r, k>>] = "approvedTool"
      /\ \A q \in Runs, l \in Numbers : q # r \/ l # k => pc'[<<q, l>>] = pc[<<q, l>>]
  BY <1>1, <1>3, Moved DEF Places, ApproveResumes
<1>5. /\ toolCalls'[r] = toolCalls[r] + 1 /\ starts'[r] = k /\ gate'[r] = "approved"
      /\ UNCHANGED <<run, iteration, registered, doomed>>
  BY <1>1 DEF ApproveResumes, TypeOK, reach
<1>6. TypeOK'
  <2>1. starts' \in [Runs -> 0..MaxIterations + 1]
    BY <1>1, <1>3, RuntimeAssumption DEF ApproveResumes, TypeOK, Numbers
  <2> QED BY <1>1, <1>4, <2>1 DEF ApproveResumes, TypeOK, reach
<1>7. Elsewhere(r)
  BY <1>1, <1>4 DEF ApproveResumes, Elsewhere, TypeOK, reach
<1>8. InSequence(r)'
  <2>1. pc[<<r, starts[r]>>] \in {"lastSave", "over"}
    BY <1>1 DEF RunInv, StatusSays
  <2>2. ASSUME NEW l \in Numbers
        PROVE  /\ pc'[<<r, l>>] = "none" <=> l > k
               /\ l < k => pc'[<<r, l>>] \in {"lastSave", "over"}
    <3>1. CASE l = k
      BY <1>2, <1>4, <3>1
    <3>2. CASE l < starts[r] \/ l = starts[r]
      BY <1>1, <1>2, <1>3, <1>4, <2>1, <3>2 DEF RunInv, InSequence, Numbers
    <3>3. CASE l > k
      BY <1>1, <1>2, <1>3, <1>4, <3>3 DEF RunInv, InSequence, Numbers
    <3> QED BY <1>2, <3>1, <3>2, <3>3 DEF Numbers
  <2>3. ASSUME NEW l \in Numbers, <<r, l>> \in doomed PROVE FALSE
    BY <1>1, <2>3 DEF RunInv, InSequence, Terminal, TerminalStatuses
  <2>4. registered[r] \in Nat /\ registered[r] <= k
    BY <1>1, <1>2, RuntimeAssumption DEF RunInv, InSequence, TypeOK
  <2> QED BY <1>5, <2>2, <2>3, <2>4 DEF InSequence
<1>9. StatusSays(r)' /\ PlaceSays(r)'
  BY <1>1, <1>2, <1>3, <1>4, <1>5 DEF StatusSays, PlaceSays, AtWork, Reached
<1>10. Counted(r)'
  BY <1>1, <1>2, <1>3, <1>4, <1>5 DEF Counted
<1>11. Reachable(r)'
  BY <1>3, <1>5 DEF Reachable
<1> QED BY <1>6, <1>7, <1>8, <1>9, <1>10, <1>11, OwnRunSuffices DEF RunInv

LEMMA ApproveIgnoredKeeps ==
  ASSUME RuntimeInv, NEW r \in Runs, ApproveIgnored(r) PROVE RuntimeInv'
<1>1. TypeOK /\ RunInv(r) /\ run[r] # "paused_approval" /\ gate[r] = "pending"
  BY DEF RuntimeInv, ApproveIgnored, Decidable
<1>2. gate'[r] = "approved" /\ UNCHANGED <<run, iteration, toolCalls, starts, pc, registered, doomed>>
  BY <1>1 DEF ApproveIgnored, TypeOK, reach
<1>3. TypeOK' /\ Elsewhere(r)
  BY <1>1 DEF ApproveIgnored, TypeOK, Elsewhere, reach
<1>4. InSequence(r)' /\ StatusSays(r)' /\ PlaceSays(r)'
  BY <1>1, <1>2 DEF RunInv, InSequence, StatusSays, PlaceSays, Terminal
<1>5. Counted(r)' /\ Reachable(r)'
  BY <1>1, <1>2 DEF RunInv, Counted, Reachable, Terminal
<1> QED BY <1>3, <1>4, <1>5, OwnRunSuffices DEF RunInv

LEMMA RejectKeeps ==
  ASSUME RuntimeInv, NEW r \in Runs, Reject(r) PROVE RuntimeInv'
<1>1. TypeOK /\ RunInv(r) /\ gate[r] = "pending"
  BY DEF RuntimeInv, Reject, Decidable
<1>2. /\ run'[r] = (IF Terminal(r) THEN run[r] ELSE "rejected") /\ gate'[r] = "rejected"
      /\ UNCHANGED <<iteration, toolCalls, starts, pc, registered, doomed>>
  BY <1>1 DEF Reject, TypeOK, reach
<1>3. starts[r] # 0 /\ Terminal(r)'
  BY <1>1, <1>2 DEF RunInv, Counted, Terminal, TerminalStatuses
<1>4. TypeOK'
  <2>1. run' \in [Runs -> RunStatuses \cup {"absent"}] /\ task' \in TaskStatuses
    BY <1>1 DEF Reject, TypeOK, RunStatuses, TaskStatuses, TerminalStatuses
  <2> QED BY <1>1, <2>1 DEF Reject, TypeOK, reach
<1>5. Elsewhere(r)
  BY <1>1 DEF Reject, Elsewhere, TypeOK, reach
<1>6. InSequence(r)'
  BY <1>1, <1>2, <1>3 DEF RunInv, InSequence
<1>7. StatusSays(r)'
  BY <1>1, <1>2, <1>3 DEF RunInv, StatusSays, Terminal, TerminalStatuses, Reached
<1>8. PlaceSays(r)'
  BY <1>1, <1>2, <1>3 DEF RunInv, PlaceSays, Terminal
<1>9. Counted(r)'
  BY <1>1, <1>2 DEF RunInv, Counted
<1>10. Reachable(r)'
  BY <1>1, <1>2 DEF RunInv, Reachable
<1> QED BY <1>4, <1>5, <1>6, <1>7, <1>8, <1>9, <1>10, OwnRunSuffices DEF RunInv

\* The invariant does not speak of streams beyond their type.
LEMMA StreamKeeps ==
  ASSUME RuntimeInv, NEW r \in Runs, Subscribe(r) \/ StreamCloses(r) PROVE RuntimeInv'
<1>1. UNCHANGED <<task, run, iteration, starts, pc, registered, doomed, gate, saved, toolCalls>>
  BY DEF Subscribe, StreamCloses
<1>2. stream' \in [Runs -> {"none", "open", "told"}]
  BY DEF Subscribe, StreamCloses, RuntimeInv, TypeOK
<1>3. TypeOK'
  BY <1>1, <1>2 DEF RuntimeInv, TypeOK
<1>4. ASSUME NEW q \in Runs PROVE RunInv(q)'
  BY <1>1 DEF RuntimeInv, RunInv, InSequence, StatusSays, PlaceSays, Counted, Reachable, Terminal
<1> QED BY <1>3, <1>4 DEF RuntimeInv

-----------------------------------------------------------------------------
(* Theorems                                                                *)

LEMMA RuntimeInvInit == Init => RuntimeInv
<1> SUFFICES ASSUME Init PROVE RuntimeInv
  OBVIOUS
<1>1. TypeOK
  BY RuntimeAssumption DEF Init, TypeOK, TaskStatuses, RunStatuses, Places, Drivers
<1>2. ASSUME NEW r \in Runs PROVE RunInv(r)
  <2>1. \A k \in Numbers : pc[<<r, k>>] = "none" /\ k > 0
    BY DEF Init, Drivers, Numbers
  <2>2. run[r] = "absent" /\ starts[r] = 0 /\ iteration[r] = 0 /\ toolCalls[r] = 0
        /\ registered[r] = 0 /\ gate[r] = "none" /\ doomed = {}
    BY DEF Init
  <2> QED BY <2>1, <2>2, RuntimeAssumption
      DEF RunInv, InSequence, StatusSays, PlaceSays, Counted, Reachable, Reached, Numbers
<1> QED BY <1>1, <1>2 DEF RuntimeInv

LEMMA RuntimeInvNext == RuntimeInv /\ [Next]_vars => RuntimeInv'
<1> SUFFICES ASSUME RuntimeInv, [Next]_vars PROVE RuntimeInv'
  OBVIOUS
<1>1. ASSUME NEW r \in Runs, RunAction(r) PROVE RuntimeInv'
  <2>1. ASSUME NEW k \in Numbers, DriverAction(r, k) PROVE RuntimeInv'
    BY <2>1, PlannerEndsKeeps, PlannerPausesKeeps, PlannerCallsKeeps, ToolReturnsKeeps,
       RoundSavedKeeps, LastSavedKeeps, DeliveredKeeps, ApprovedToolReturnsKeeps,
       ApprovedToolRefusedKeeps, CallRaisesKeeps, ApprovedToolRaisesKeeps
    DEF DriverAction
  <2> QED BY <1>1, <2>1, StartKeeps, StartRefusedKeeps DEF RunAction, Numbers
<1>2. ASSUME NEW r \in Runs, OperatorAction(r) \/ StreamCloses(r) PROVE RuntimeInv'
  BY <1>2, CreateKeeps, RequestCancelKeeps, ApproveResumesKeeps, ApproveIgnoredKeeps,
     RejectKeeps, StreamKeeps, AuthorityLostKeeps, CreationWithheldKeeps
  DEF OperatorAction
<1>3. CASE UNCHANGED vars
  BY <1>3
  DEF vars, RuntimeInv, TypeOK, RunInv, InSequence, StatusSays, PlaceSays, Counted, Reachable,
      Terminal
<1> QED BY <1>1, <1>2, <1>3 DEF Next

LEMMA RuntimeInvariant == Spec => []RuntimeInv
BY RuntimeInvInit, RuntimeInvNext, PTL DEF Spec

(* Every variable of the runtime keeps its type: in particular no run has  *)
(* more drivers or more iterations than max_iterations admits.             *)
THEOREM TypeCorrect == Spec => []TypeOK
BY RuntimeInvariant, PTL DEF RuntimeInv

(* A run that is to run is driven, and a paused one can be decided, unless *)
(* a call of its driver raised; a run that this stranded has no driver and *)
(* no gate any more.  For any number of runs that share the task and over  *)
(* every refused write.                                                    *)
THEOREM NoZombieCorrect == Spec => []NoZombie
<1>1. ASSUME RuntimeInv, NEW r \in Runs
      PROVE  /\ run[r] = "created" => Working(r, {"scheduled", "dropped"})
             /\ run[r] = "running" => Working(r, AtWork) \/ Raised(r)
             /\ run[r] = "paused_approval" =>
                  gate[r] = "pending" \/ Working(r, {"approvedTool"}) \/ Raised(r)
  <2>1. run[r] \in {"created", "running", "paused_approval"} =>
          starts[r] \in 1..MaxIterations + 1 /\ 1 \in 1..MaxIterations + 1
    <3>1. starts[r] \in 0..MaxIterations + 1 /\ (run[r] = "absent" <=> starts[r] = 0)
      BY <1>1 DEF RuntimeInv, RunInv, StatusSays, TypeOK
    <3> QED BY <3>1, RuntimeAssumption
  <2> QED BY <1>1, <2>1 DEF RuntimeInv, RunInv, StatusSays, Working, Raised, AtWork
<1>2. ASSUME RuntimeInv, NEW r \in Runs, ~Terminal(r), Raised(r)
      PROVE  gate[r] # "pending" /\ ~Working(r, AtWork \cup {"approvedTool"})
  <2>1. RunInv(r) /\ starts[r] \in 0..MaxIterations + 1
    BY <1>2 DEF RuntimeInv, TypeOK
  <2>2. PICK k \in Numbers : pc[<<r, k>>] = "raised"
    BY <1>2 DEF Raised, Working, Numbers
  <2>3. k = starts[r]
    <3>1. ~(k > starts[r]) /\ ~(k < starts[r])
      BY <2>1, <2>2 DEF RunInv, InSequence
    <3> QED BY <2>1, <3>1, RuntimeAssumption DEF Numbers
  <2>4. run[r] \in {"created", "running", "paused_approval"}
    <3>1. run[r] # "absent"
      BY <2>1, <2>3, RuntimeAssumption DEF RunInv, StatusSays, Numbers
    <3> QED BY <1>2, <2>1, <3>1 DEF RunInv, StatusSays, Reached, Terminal, TerminalStatuses
  <2>5. gate[r] # "pending"
    BY <2>1, <2>2, <2>3, <2>4 DEF RunInv, StatusSays
  <2>6. ASSUME NEW l \in Numbers, pc[<<r, l>>] \in AtWork \cup {"approvedTool"}
        PROVE  FALSE
    <3>1. l = starts[r]
      BY <1>2, <2>6, LastAtWork
    <3> QED BY <2>2, <2>3, <2>6, <3>1 DEF AtWork
  <2> QED BY <2>5, <2>6 DEF Working, Numbers
<1>3. RuntimeInv => NoZombie
  BY <1>1, <1>2 DEF NoZombie, Working, AtWork
<1> QED BY <1>3, RuntimeInvariant, PTL

(* max_iterations bounds the tools of a run, over all its resumptions.     *)
THEOREM ToolsBoundedCorrect == Spec => []ToolsBounded
<1>1. RuntimeInv => ToolsBounded
  BY DEF RuntimeInv, RunInv, Counted, ToolsBounded
<1> QED BY <1>1, RuntimeInvariant, PTL

(* A cancelled run that was never paused starts no tool.                   *)
THEOREM CancelHeededCorrect == Spec => CancelHeeded
<1>1. RuntimeInv /\ [Next]_vars =>
        [\A r \in Runs :
           toolCalls'[r] # toolCalls[r] /\ starts[r] = 1 => ~Terminal(r)]_vars
  <2> SUFFICES ASSUME RuntimeInv, Next, NEW q \in Runs, toolCalls'[q] # toolCalls[q],
                      starts[q] = 1
               PROVE  ~Terminal(q)
    OBVIOUS
  <2>1. CASE \E r \in Runs : ApproveResumes(r)
    <3>1. PICK r \in Runs : ApproveResumes(r)
      BY <2>1
    <3>2. q = r
      BY <3>1 DEF ApproveResumes, RuntimeInv, TypeOK
    <3> QED BY <3>1, <3>2 DEF ApproveResumes, Terminal, TerminalStatuses
  <2>2. CASE \E r \in Runs, k \in Numbers : PlannerCalls(r, k)
    <3>1. PICK r \in Runs, k \in Numbers : PlannerCalls(r, k)
      BY <2>2
    <3>2. q = r
      BY <3>1 DEF PlannerCalls, RuntimeInv, TypeOK
    <3>3. k = 1 /\ pc[<<q, 1>>] = "planning" /\ <<q, 1>> \notin doomed
      BY <3>1, <3>2, LastAtWork DEF PlannerCalls, At, AtWork
    <3> QED BY <3>3 DEF RuntimeInv, RunInv, Reachable, AtWork
  <2>3. toolCalls' # toolCalls
    OBVIOUS
  <2>4. ASSUME NEW r \in Runs, RunAction(r) PROVE \E k \in Numbers : PlannerCalls(r, k)
    BY <2>3, <2>4
    DEF RunAction, DriverAction, Start, StartRefused, PlannerEnds, PlannerPauses, ToolReturns,
        RoundSaved, LastSaved, Delivered, ApprovedToolReturns, ApprovedToolRefused, CallRaises,
        ApprovedToolRaises, Numbers
  <2>5. ASSUME NEW r \in Runs, OperatorAction(r) \/ StreamCloses(r) PROVE ApproveResumes(r)
    BY <2>3, <2>5
    DEF OperatorAction, Create, RequestCancel, ApproveIgnored, Reject, Subscribe, StreamCloses,
        AuthorityLost, CreationWithheld
  <2> QED BY <2>1, <2>2, <2>4, <2>5 DEF Next
<1> QED BY <1>1, RuntimeInvariant, PTL DEF Spec, CancelHeeded

-----------------------------------------------------------------------------
(* What a driver still has to do                                           *)

\* How far a place is from the end: a round takes a driver from the planner to
\* the tool and on to the round's checkpoint.
Rest(place) ==
  CASE place \in {"scheduled", "approvedTool"} -> 5
    [] place = "roundSave" -> 4
    [] place = "planning" -> 3
    [] place = "tool" -> 2
    [] OTHER -> 1

\* A bound on the moves a driver has left: those of the rounds its run may
\* still make, and of the one it is in.
ToGo(r, k) ==
  IF pc[<<r, k>>] \in {"none", "over"} THEN 0
  ELSE 4 * (MaxIterations - iteration[r]) + Rest(pc[<<r, k>>])

\* A driver that moves comes nearer to its end, and no step of another driver,
\* of the operator or of a client takes it further away.
Advances(r, k) ==
  pc[<<r, k>>] # "none" =>
    /\ ToGo(r, k)' <= ToGo(r, k)
    /\ pc'[<<r, k>>] # pc[<<r, k>>] => ToGo(r, k)' < ToGo(r, k)

DriversAdvance == [][\A r \in Runs, k \in Numbers : Advances(r, k)]_vars

LEMMA RestType == \A place \in Places : Rest(place) \in 1..5
BY DEF Rest, Places

LEMMA ToGoType ==
  ASSUME TypeOK, NEW r \in Runs, NEW k \in Numbers
  PROVE  ToGo(r, k) \in Nat
<1>1. pc[<<r, k>>] \in Places /\ iteration[r] \in 0..MaxIterations
  BY DEF TypeOK, Drivers, Numbers
<1> QED BY <1>1, RestType, RuntimeAssumption DEF ToGo

\* A move to a place that is nearer to the end, in the same round.
LEMMA MovesDown ==
  ASSUME TypeOK, NEW r \in Runs, NEW k \in Numbers, NEW place \in Places,
         MoveTo(r, k, place), iteration' = iteration,
         pc[<<r, k>>] \notin {"none", "over"},
         place \in {"none", "over"} \/ Rest(place) < Rest(pc[<<r, k>>])
  PROVE  ToGo(r, k)' < ToGo(r, k)
<1>1. pc[<<r, k>>] \in Places /\ iteration[r] \in 0..MaxIterations
  BY DEF TypeOK, Drivers, Numbers
<1>2. pc'[<<r, k>>] = place
  BY Moved
<1>3. Rest(place) \in 1..5 /\ Rest(pc[<<r, k>>]) \in 1..5
  BY <1>1, RestType
<1> QED BY <1>1, <1>2, <1>3, RuntimeAssumption DEF ToGo

\* The same where the move ends an iteration: it may go back to the planner.
LEMMA RoundsDown ==
  ASSUME TypeOK, NEW r \in Runs, NEW k \in Numbers, NEW place \in Places,
         MoveTo(r, k, place), iteration'[r] = iteration[r] + 1,
         pc[<<r, k>>] \notin {"none", "over"},
         Rest(place) < Rest(pc[<<r, k>>]) + 4
  PROVE  ToGo(r, k)' < ToGo(r, k)
<1>1. pc[<<r, k>>] \in Places /\ iteration[r] \in 0..MaxIterations
  BY DEF TypeOK, Drivers, Numbers
<1>2. pc'[<<r, k>>] = place
  BY Moved
<1>3. Rest(place) \in 1..5 /\ Rest(pc[<<r, k>>]) \in 1..5
  BY <1>1, RestType
<1>4. CASE place \in {"none", "over"}
  <2>1. ToGo(r, k)' = 0
    BY <1>2, <1>4 DEF ToGo
  <2>2. ToGo(r, k) > 0
    BY <1>1, <1>3, RuntimeAssumption DEF ToGo
  <2> QED BY <2>1, <2>2, <1>1, <1>3, RuntimeAssumption DEF ToGo
<1>5. CASE place \notin {"none", "over"}
  <2>1. ToGo(r, k)' = 4 * (MaxIterations - (iteration[r] + 1)) + Rest(place)
    BY <1>2, <1>5 DEF ToGo
  <2>2. ToGo(r, k) = 4 * (MaxIterations - iteration[r]) + Rest(pc[<<r, k>>])
    BY DEF ToGo
  <2> QED BY <1>1, <1>3, <2>1, <2>2, RuntimeAssumption
<1> QED BY <1>4, <1>5

\* A step in which one driver moves is an advance of every driver, if it is one
\* of the driver that moves.
LEMMA OneAdvances ==
  ASSUME TypeOK, TypeOK', NEW r \in Runs, NEW k \in Numbers, NEW place \in Places,
         MoveTo(r, k, place),
         \A q \in Runs : iteration'[q] >= iteration[q],
         pc[<<r, k>>] \in {"none", place} \/ ToGo(r, k)' < ToGo(r, k),
         NEW q \in Runs, NEW l \in Numbers
  PROVE  Advances(q, l)
<1>1. /\ pc'[<<r, k>>] = place
      /\ q # r \/ l # k => pc'[<<q, l>>] = pc[<<q, l>>]
  BY Moved
<1>2. /\ pc[<<q, l>>] \in Places /\ iteration[q] \in 0..MaxIterations
      /\ iteration'[q] \in 0..MaxIterations /\ iteration'[q] >= iteration[q]
  BY DEF TypeOK, Drivers, Numbers
<1>3. pc'[<<q, l>>] = pc[<<q, l>>] => ToGo(q, l)' <= ToGo(q, l)
  <2>1. Rest(pc[<<q, l>>]) \in 1..5
    BY <1>2, RestType
  <2> QED BY <1>2, <2>1, RuntimeAssumption DEF ToGo
<1>4. ToGo(q, l) \in Nat /\ ToGo(q, l)' \in Nat
  <2>1. ToGo(q, l) \in Nat
    BY ToGoType
  <2>2. pc'[<<q, l>>] \in Places
    BY DEF TypeOK, Drivers, Numbers
  <2>3. Rest(pc'[<<q, l>>]) \in 1..5
    BY <2>2, RestType
  <2> QED BY <1>2, <2>1, <2>3, RuntimeAssumption DEF ToGo
<1> QED BY <1>1, <1>3, <1>4 DEF Advances

\* So is one in which no driver moves and no round ends.
LEMMA NoneAdvances ==
  ASSUME TypeOK, UNCHANGED <<pc, iteration>>, NEW q \in Runs, NEW l \in Numbers
  PROVE  Advances(q, l)
<1>1. ToGo(q, l) \in Nat /\ ToGo(q, l)' = ToGo(q, l)
  BY ToGoType DEF ToGo
<1> QED BY <1>1 DEF Advances

\* Writing an outcome takes a driver to its last save, or out.
LEMMA ConcludeMoves ==
  ASSUME NEW r, NEW k, NEW status, Conclude(r, k, status)
  PROVE  \E place \in {"lastSave", "over"} : MoveTo(r, k, place)
BY DEF Conclude, Settle, Leave

LEMMA DriverAdvances ==
  ASSUME RuntimeInv, RuntimeInv', NEW r \in Runs, NEW k \in Numbers, DriverAction(r, k),
         NEW q \in Runs, NEW l \in Numbers
  PROVE  Advances(q, l)
<1>1. TypeOK /\ TypeOK'
  BY DEF RuntimeInv
<1> DEFINE here == pc[<<r, k>>]
<1>2. Rest("lastSave") = 1 /\ Rest("tool") = 2 /\ Rest("planning") = 3
      /\ Rest("roundSave") = 4 /\ Rest("approvedTool") = 5
  BY DEF Rest
<1>3. \A p \in Runs : iteration[p] \in 0..MaxIterations
  BY <1>1 DEF TypeOK
<1>4. ASSUME NEW place \in Places, MoveTo(r, k, place), iteration' = iteration,
             here \notin {"none", "over"}, place = "over" \/ Rest(place) < Rest(here)
      PROVE  Advances(q, l)
  <2>1. ToGo(r, k)' < ToGo(r, k)
    BY <1>1, <1>4, MovesDown
  <2>2. \A p \in Runs : iteration'[p] >= iteration[p]
    BY <1>3, <1>4, RuntimeAssumption
  <2> QED BY <1>1, <1>4, <2>1, <2>2, OneAdvances
<1>5. ASSUME NEW place \in Places, MoveTo(r, k, place),
             iteration' = [iteration EXCEPT ![r] = @ + 1],
             here \notin {"none", "over"}, Rest(place) < Rest(here) + 4
      PROVE  Advances(q, l)
  <2>1. iteration'[r] = iteration[r] + 1
    BY <1>1, <1>5 DEF TypeOK
  <2>2. ToGo(r, k)' < ToGo(r, k)
    BY <1>1, <1>5, <2>1, RoundsDown
  <2>3. \A p \in Runs : iteration'[p] >= iteration[p]
    BY <1>1, <1>3, <1>5, RuntimeAssumption DEF TypeOK
  <2> QED BY <1>1, <1>5, <2>2, <2>3, OneAdvances
<1>6. ASSUME NEW status, Conclude(r, k, status), iteration' = iteration,
             here \in {"planning", "roundSave"}
      PROVE  Advances(q, l)
  <2>1. PICK place \in {"lastSave", "over"} : MoveTo(r, k, place)
    BY <1>6, ConcludeMoves
  <2>2. place \in Places /\ (place = "over" \/ Rest(place) < Rest(here))
    BY <1>2, <1>6, <2>1 DEF Places
  <2> QED BY <1>4, <1>6, <2>1, <2>2
<1>7. CASE PlannerEnds(r, k) \/ PlannerPauses(r, k)
  BY <1>6, <1>7 DEF PlannerEnds, PlannerPauses, At
<1>8. CASE PlannerCalls(r, k)
  BY <1>2, <1>4, <1>8 DEF PlannerCalls, At, Places
<1>9. CASE ToolReturns(r, k)
  BY <1>2, <1>5, <1>9 DEF ToolReturns, At, Places
<1>10. CASE RoundSaved(r, k)
  <2>1. CASE \E status \in {"failed", "cancelled"} : Conclude(r, k, status)
    BY <1>6, <1>10, <2>1 DEF RoundSaved, At
  <2>2. CASE MoveTo(r, k, "planning")
    BY <1>2, <1>4, <1>10, <2>2 DEF RoundSaved, At, Places
  <2> QED BY <1>10, <2>1, <2>2 DEF RoundSaved
<1>11. CASE LastSaved(r, k) \/ ApprovedToolRefused(r, k)
  BY <1>4, <1>11 DEF LastSaved, ApprovedToolRefused, Leave, At, Places
<1>14. CASE CallRaises(r, k) \/ ApprovedToolRaises(r, k)
  <2>1. Rest("raised") = 1 /\ "raised" \in Places
    BY DEF Rest, Places
  <2> QED BY <1>2, <1>4, <1>14, <2>1 DEF CallRaises, ApprovedToolRaises, At
<1>12. CASE Delivered(r, k)
  <2>1. MoveTo(r, k, "over") /\ iteration' = iteration /\ here # "none"
    <3>1. InSequence(r) /\ <<r, k>> \in doomed
      BY <1>12 DEF Delivered, RuntimeInv, RunInv
    <3>2. starts[r] \in 0..MaxIterations + 1
      BY <1>1 DEF TypeOK
    <3> QED BY <1>12, <3>1, <3>2, RuntimeAssumption DEF Delivered, Leave, InSequence, Numbers
  <2>2. CASE here = "over"
    <3>1. \A p \in Runs : iteration'[p] >= iteration[p]
      BY <1>3, <2>1, RuntimeAssumption
    <3> QED BY <1>1, <2>1, <2>2, <3>1, OneAdvances DEF Places
  <2>3. CASE here # "over"
    BY <1>4, <2>1, <2>3 DEF Places
  <2> QED BY <2>2, <2>3
<1>13. CASE ApprovedToolReturns(r, k)
  <2>1. CASE MoveTo(r, k, "planning")
    BY <1>2, <1>5, <1>13, <2>1 DEF ApprovedToolReturns, At, Places
  <2>2. CASE MoveTo(r, k, "lastSave")
    BY <1>2, <1>5, <1>13, <2>2 DEF ApprovedToolReturns, At, Places
  <2> QED BY <1>13, <2>1, <2>2 DEF ApprovedToolReturns
<1> QED BY <1>7, <1>8, <1>9, <1>10, <1>11, <1>12, <1>13, <1>14 DEF DriverAction

\* Starting, creating, resuming or losing a run moves one driver at most.
LEMMA OthersAdvance ==
  ASSUME RuntimeInv, RuntimeInv', NEW r \in Runs,
         Start(r) \/ StartRefused(r) \/ OperatorAction(r) \/ StreamCloses(r),
         NEW q \in Runs, NEW l \in Numbers
  PROVE  Advances(q, l)
<1>1. TypeOK /\ TypeOK' /\ InSequence(r) /\ StatusSays(r) /\ Counted(r)
  BY DEF RuntimeInv, RunInv
<1>2. 1 \in Numbers /\ \A p \in Runs : iteration[p] \in 0..MaxIterations
  BY <1>1, RuntimeAssumption DEF TypeOK, Numbers
<1>3. iteration' = iteration
  BY DEF Start, StartRefused, OperatorAction, StreamCloses, Create, RequestCancel, ApproveResumes,
         ApproveIgnored, Reject, Subscribe, AuthorityLost, CreationWithheld
<1>4. \A p \in Runs : iteration'[p] >= iteration[p]
  BY <1>2, <1>3, RuntimeAssumption
<1>5. CASE Start(r) \/ StartRefused(r) \/ AuthorityLost(r) \/ CreationWithheld(r)
  <2>1. PICK place \in {"planning", "over", "dropped"} :
          /\ MoveTo(r, 1, place)
          /\ pc[<<r, 1>>] \notin {"none", "over"}
          /\ place = "over" \/ pc[<<r, 1>>] = "scheduled"
    BY <1>5 DEF Start, StartRefused, AuthorityLost, CreationWithheld, Leave, At
  <2>2. place \in Places /\ (place = "over" \/ Rest(place) < Rest(pc[<<r, 1>>]))
    BY <2>1 DEF Places, Rest
  <2>3. ToGo(r, 1)' < ToGo(r, 1)
    BY <1>1, <1>2, <1>3, <2>1, <2>2, MovesDown
  <2> QED BY <1>1, <1>2, <1>4, <2>1, <2>2, <2>3, OneAdvances
<1>6. CASE Create(r)
  <2>1. MoveTo(r, 1, "scheduled") /\ pc[<<r, 1>>] = "none"
    BY <1>1, <1>2, <1>6 DEF Create, StatusSays, InSequence
  <2> QED BY <1>1, <1>2, <1>4, <2>1, OneAdvances DEF Places
<1>7. CASE ApproveResumes(r)
  <2>1. /\ {toolCalls[r], starts[r], iteration[r], MaxIterations} \subseteq Nat
        /\ starts[r] <= toolCalls[r] + 1 /\ toolCalls[r] < MaxIterations
    BY <1>1, <1>7, RuntimeAssumption DEF ApproveResumes, Decidable, Counted, TypeOK
  <2>2. starts[r] + 1 \in Numbers /\ starts[r] + 1 > starts[r]
    BY <2>1 DEF Numbers
  <2>3. MoveTo(r, starts[r] + 1, "approvedTool") /\ pc[<<r, starts[r] + 1>>] = "none"
    BY <1>1, <1>7, <2>2 DEF ApproveResumes, InSequence
  <2> QED BY <1>1, <1>4, <2>2, <2>3, OneAdvances DEF Places
<1>8. CASE RequestCancel(r) \/ ApproveIgnored(r) \/ Reject(r) \/ Subscribe(r) \/ StreamCloses(r)
  BY <1>1, <1>8, NoneAdvances
  DEF RequestCancel, ApproveIgnored, Reject, Subscribe, StreamCloses
<1> QED BY <1>5, <1>6, <1>7, <1>8 DEF OperatorAction

(* The drivers of a run cannot go on for ever: each move of a driver, over  *)
(* rounds and resumptions, lowers a bound on the moves it has left, and no  *)
(* other step raises it.  What DriversEnd adds is that a driver always has  *)
(* a next move and is scheduled to make it.                                 *)
THEOREM DriversAdvanceCorrect == Spec => DriversAdvance
<1>1. RuntimeInv /\ RuntimeInv' /\ [Next]_vars =>
        [\A r \in Runs, k \in Numbers : Advances(r, k)]_vars
  <2> SUFFICES ASSUME RuntimeInv, RuntimeInv', Next, NEW q \in Runs, NEW l \in Numbers
               PROVE  Advances(q, l)
    OBVIOUS
  <2>1. PICK r \in Runs : RunAction(r) \/ OperatorAction(r) \/ StreamCloses(r)
    BY DEF Next
  <2>2. CASE \E k \in Numbers : DriverAction(r, k)
    BY <2>2, DriverAdvances
  <2>3. CASE Start(r) \/ StartRefused(r) \/ OperatorAction(r) \/ StreamCloses(r)
    BY <2>3, OthersAdvance
  <2> QED BY <2>1, <2>2, <2>3 DEF RunAction, Numbers
<1> QED BY <1>1, RuntimeInvariant, PTL DEF Spec, DriversAdvance

-----------------------------------------------------------------------------
(* The statuses a run goes through                                         *)

\* A status changes only as the run's own table allows, whether the code asks
\* the table first or writes the status and would see the write refused.
RunsFollowTable ==
  [][\A r \in Runs :
       run'[r] # run[r] =>
         (run[r] = "absent" /\ run'[r] = "created") \/ MayBecome(run[r], run'[r])]_vars

LEMMA TableEntries ==
  /\ MayBecome("created", "running")
  /\ \A s \in {"created", "running", "paused_approval"} : MayBecome(s, "cancelled")
  /\ \A s \in {"running", "failed", "rejected"} : MayBecome("paused_approval", s)
  /\ MayBecome("running", "rejected")
BY DEF MayBecome, RunTransitions, RunStatuses, FromActive, FromPaused, TerminalStatuses,
       PausedStatuses

LEMMA StatusMoves ==
  ASSUME RuntimeInv, NEW r \in Runs, RunAction(r) \/ OperatorAction(r) \/ StreamCloses(r),
         run' # run
  PROVE  \E to : /\ run' = [run EXCEPT ![r] = to]
                 /\ (run[r] = "absent" /\ to = "created") \/ MayBecome(run[r], to)
<1>1. TypeOK /\ RunInv(r) /\ starts[r] \in 0..MaxIterations + 1 /\ 1 \in Numbers
  BY RuntimeAssumption DEF RuntimeInv, TypeOK, Numbers
<1>2. run[r] \in Reached /\ (run[r] # "absent" /\ ~Terminal(r) =>
        run[r] \in {"created", "running", "paused_approval"})
  BY <1>1 DEF RunInv, StatusSays, Reached, Terminal, TerminalStatuses
<1>3. CASE \E k \in Numbers, status \in {"completed", "failed", "cancelled", "paused_approval"} :
             Conclude(r, k, status)
  BY <1>3 DEF Conclude, Settle
<1>4. CASE Start(r)
  <2>1. run[r] = "created"
    <3>1. starts[r] = 1
      BY <1>1, <1>4, LastAtWork DEF Start, At
    <3> QED BY <1>1, <1>4, <3>1 DEF Start, At, RunInv, PlaceSays, Terminal
  <2> QED BY <1>4, <2>1, TableEntries DEF Start
<1>5. CASE Create(r)
  BY <1>5 DEF Create
<1>6. CASE RequestCancel(r)
  BY <1>2, <1>6, TableEntries DEF RequestCancel
<1>7. CASE AuthorityLost(r)
  <2>1. run[r] # "absent"
    BY <1>1, <1>7 DEF AuthorityLost, At, RunInv, StatusSays, InSequence
  <2> QED BY <1>2, <1>7, <2>1, TableEntries DEF AuthorityLost
<1>8. CASE Reject(r)
  <2>1. run[r] \in {"running", "paused_approval"} /\ run' = [run EXCEPT ![r] = "rejected"]
    <3>1. gate[r] = "pending" /\ run[r] # "absent" /\ ~Terminal(r)
      BY <1>1, <1>8 DEF Reject, Decidable, RunInv, StatusSays, Counted
    <3>2. run[r] # "created"
      BY <1>1, <3>1 DEF RunInv, StatusSays, Reachable
    <3> QED BY <1>2, <1>8, <3>1, <3>2 DEF Reject
  <2> QED BY <2>1, TableEntries
<1>9. CASE \E k \in Numbers : ApprovedToolReturns(r, k)
  <2>1. PICK k \in Numbers : ApprovedToolReturns(r, k)
    BY <1>9
  <2>2. k = starts[r] /\ pc[<<r, k>>] = "approvedTool" /\ ~Terminal(r)
    BY <2>1, LastAtWork DEF ApprovedToolReturns, At
  <2>3. run[r] = "paused_approval"
    BY <1>1, <2>2 DEF RunInv, PlaceSays, Terminal
  <2> QED BY <2>1, <2>3, TableEntries DEF ApprovedToolReturns
<1>10. ASSUME NEW k \in Numbers, DriverAction(r, k)
       PROVE  \/ ApprovedToolReturns(r, k)
              \/ \E status \in {"completed", "failed", "cancelled", "paused_approval"} :
                   Conclude(r, k, status)
  BY <1>10
  DEF DriverAction, PlannerEnds, PlannerPauses, PlannerCalls, ToolReturns, RoundSaved, LastSaved,
      Delivered, ApprovedToolRefused, CallRaises, ApprovedToolRaises
<1>11. CASE StartRefused(r) \/ ApproveResumes(r) \/ ApproveIgnored(r) \/ Subscribe(r)
            \/ CreationWithheld(r) \/ StreamCloses(r)
  BY <1>11
  DEF StartRefused, ApproveResumes, ApproveIgnored, Subscribe, CreationWithheld, StreamCloses
<1> QED BY <1>3, <1>4, <1>5, <1>6, <1>7, <1>8, <1>9, <1>10, <1>11
        DEF RunAction, OperatorAction, Numbers

(* No status write of the runtime is one that RunState.__setattr__ would   *)
(* refuse: start, cancel, reject and the return of an approved tool do not *)
(* look at the table, and never meet a status that forbids the write.      *)
THEOREM RunsFollowTableCorrect == Spec => RunsFollowTable
<1>1. RuntimeInv /\ [Next]_vars =>
        [\A r \in Runs :
           run'[r] # run[r] =>
             (run[r] = "absent" /\ run'[r] = "created") \/ MayBecome(run[r], run'[r])]_vars
  <2> SUFFICES ASSUME RuntimeInv, Next, NEW q \in Runs, run'[q] # run[q]
               PROVE  (run[q] = "absent" /\ run'[q] = "created") \/ MayBecome(run[q], run'[q])
    OBVIOUS
  <2>1. PICK r \in Runs : RunAction(r) \/ OperatorAction(r) \/ StreamCloses(r)
    BY DEF Next
  <2>2. PICK to : /\ run' = [run EXCEPT ![r] = to]
                  /\ (run[r] = "absent" /\ to = "created") \/ MayBecome(run[r], to)
    BY <2>1, StatusMoves
  <2> QED BY <2>2 DEF RuntimeInv, TypeOK
<1> QED BY <1>1, RuntimeInvariant, PTL DEF Spec, RunsFollowTable
=============================================================================
