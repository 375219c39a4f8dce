--------------------------- MODULE IngestionQueue ---------------------------
(***************************************************************************)
(* The background ingestion queue: rag/tasks.py, enqueued by the API       *)
(* process and drained by the worker processes of worker.py.               *)
(*                                                                         *)
(* Redis holds a record and a queue entry of every task.  Each process     *)
(* keeps copies of the records it has handled, and falls back to them, or  *)
(* to a queue of its own, when a call to Redis raises.  Every action is    *)
(* one stretch of code between two awaits.                                 *)
(***************************************************************************)
EXTENDS Naturals, Sequences, SequencesExt

CONSTANTS
  Tasks,          \* the ingestion jobs of the clients
  Workers,        \* the worker processes
  Watched,        \* the tasks whose clients read their status
  MaxPolls,       \* bound on the reads of a status in flight at once
  NoTask,         \* the task of a worker that has none
  MaxLinkFaults   \* bound on calls to Redis that raise, and on worker crashes

ASSUME QueueAssumption ==
  NoTask \notin Tasks /\ Watched \subseteq Tasks /\ MaxPolls \in Nat /\ MaxLinkFaults \in Nat

VARIABLES
  record,      \* rag:ingest:task:<id> in Redis
  redisQueue,  \* rag:ingest:queue in Redis
  apiQueue,    \* the API process's _memory_queue
  apiTasks,    \* the API process's _memory_tasks: what a poll answers at worst
  enqueuing,   \* where the request of a task stands in enqueue
  polls,       \* the reads in flight, as they were made: [task, reply, overtaken]
  job,         \* what a worker does: [at, task, copy]
  connected,   \* the workers whose redis_client is set
  linkFaults,  \* faults so far
  hurt         \* history: the tasks a fault has touched

queueVars == <<record, redisQueue, apiQueue, apiTasks, enqueuing, polls, job,
               connected, linkFaults, hurt>>

Ended    == {"completed", "failed"}
Statuses == {"none", "queued", "processing"} \cup Ended
Rank(s)  == CASE s = "none" -> 0 [] s = "queued" -> 1 [] s = "processing" -> 2 [] OTHER -> 3

Idle == [at |-> "idle", task |-> NoTask, copy |-> "none"]

\* A read is overtaken when one of the same task made after it is answered before it.
Polls == [task : Tasks, reply : Statuses, overtaken : BOOLEAN]

Jobs == [at : {"idle", "fetching", "claiming", "ingesting", "rereading", "saving"},
         task : Tasks \cup {NoTask}, copy : Statuses]

QueueTypeOK ==
  /\ record \in [Tasks -> Statuses]
  /\ redisQueue \in Seq(Tasks)
  /\ apiQueue \in Seq(Tasks)
  /\ apiTasks \in [Tasks -> Statuses]
  /\ enqueuing \in [Tasks -> {"new", "recording", "pushing", "accepted"}]
  /\ polls \in Seq(Polls)
  /\ job \in [Workers -> Jobs]
  /\ connected \subseteq Workers
  /\ linkFaults \in 0..MaxLinkFaults
  /\ hurt \subseteq Tasks

QueueInit ==
  /\ record = [t \in Tasks |-> "none"]
  /\ redisQueue = <<>>
  /\ apiQueue = <<>>
  /\ apiTasks = [t \in Tasks |-> "none"]
  /\ enqueuing = [t \in Tasks |-> "new"]
  /\ polls = <<>>
  /\ job = [w \in Workers |-> Idle]
  /\ connected = {}
  /\ linkFaults = 0
  /\ hurt = {}

\* A fault that hits the given tasks.
LinkFault(touched) ==
  /\ linkFaults < MaxLinkFaults
  /\ linkFaults' = linkFaults + 1
  /\ hurt' = hurt \cup touched

NoLinkFault == UNCHANGED <<linkFaults, hurt>>

-----------------------------------------------------------------------------
(* The API process                                                         *)

\* Without Redis the task goes to the queue of this process.
FallBack(t) ==
  /\ apiQueue' = Append(apiQueue, t)
  /\ enqueuing' = [enqueuing EXCEPT ![t] = "accepted"]
  /\ LinkFault({t})

Enqueue(t) ==
  /\ enqueuing[t] = "new"
  /\ apiTasks' = [apiTasks EXCEPT ![t] = "queued"]
  /\ \/ /\ enqueuing' = [enqueuing EXCEPT ![t] = "recording"]
        /\ NoLinkFault
        /\ UNCHANGED apiQueue
     \/ FallBack(t)
  /\ UNCHANGED <<record, redisQueue, polls, job, connected>>

\* The record is written after the entry, or not at all.
WriteRecordSkipped(t) ==
  /\ enqueuing[t] = "recording"
  /\ enqueuing' = [enqueuing EXCEPT ![t] = "pushing"]
  /\ NoLinkFault
  /\ UNCHANGED <<record, redisQueue, apiQueue, apiTasks, polls, job, connected>>

WriteRecord(t) ==
  /\ enqueuing[t] = "recording"
  /\ \/ /\ record' = [record EXCEPT ![t] = "queued"]
        /\ enqueuing' = [enqueuing EXCEPT ![t] = "pushing"]
        /\ NoLinkFault
        /\ UNCHANGED apiQueue
     \/ /\ record' \in {record, [record EXCEPT ![t] = "queued"]}
        /\ FallBack(t)
  /\ UNCHANGED <<redisQueue, apiTasks, polls, job, connected>>

Push(t) ==
  /\ enqueuing[t] = "pushing"
  /\ \/ /\ redisQueue' = Append(redisQueue, t)
        /\ enqueuing' = [enqueuing EXCEPT ![t] = "accepted"]
        /\ NoLinkFault
        /\ UNCHANGED apiQueue
     \/ /\ redisQueue' \in {redisQueue, Append(redisQueue, t)}
        /\ FallBack(t)
  /\ UNCHANGED <<record, apiTasks, polls, job, connected>>

\* A read that raises puts back the status the task was enqueued with.
PollReadsEnqueued(t) ==
  /\ enqueuing[t] = "accepted"
  /\ Len(polls) < MaxPolls
  /\ \/ /\ record[t] # "none"
        /\ polls' = Append(polls, [task |-> t, reply |-> record[t], overtaken |-> FALSE])
        /\ NoLinkFault /\ UNCHANGED apiTasks
     \/ /\ apiTasks' = [apiTasks EXCEPT ![t] = "queued"]
        /\ LinkFault({}) /\ UNCHANGED polls
  /\ UNCHANGED <<record, redisQueue, apiQueue, enqueuing, job, connected>>

\* get_task for a client awaits the record.  The copy answers a read that raises
\* or finds none.
PollReads(t) ==
  /\ enqueuing[t] = "accepted"
  /\ Len(polls) < MaxPolls
  /\ \/ /\ record[t] # "none"
        /\ polls' = Append(polls, [task |-> t, reply |-> record[t], overtaken |-> FALSE])
        /\ NoLinkFault
     \/ LinkFault({}) /\ UNCHANGED polls
  /\ UNCHANGED <<record, redisQueue, apiQueue, apiTasks, enqueuing, job, connected>>

Overtaken(poll, t) == [poll EXCEPT !.overtaken = @ \/ poll.task = t]

\* What was read replaces the copy, whatever reads made later have put there.
PollAnswers(i) ==
  LET t == polls[i].task IN
  /\ apiTasks' = [apiTasks EXCEPT ![t] = polls[i].reply]
  /\ polls' = [k \in 1..(Len(polls) - 1) |->
                 IF k < i THEN Overtaken(polls[k], t) ELSE polls[k + 1]]
  /\ UNCHANGED <<record, redisQueue, apiQueue, enqueuing, job, connected, linkFaults, hurt>>

-----------------------------------------------------------------------------
(* A worker process                                                        *)

Resting(w) == job' = [job EXCEPT ![w] = Idle]

\* _get_redis pings until a client is acquired, once; a worker without one
\* finds nothing in its own queue, which only enqueue fills.
Connect(w) ==
  /\ w \notin connected
  /\ connected' = connected \cup {w}
  /\ UNCHANGED <<record, redisQueue, apiQueue, apiTasks, enqueuing, polls, job,
                 linkFaults, hurt>>

\* claim_next_task: LPOP, whose reply may be lost.
Pop(w) ==
  /\ w \in connected
  /\ job[w].at = "idle"
  /\ redisQueue # <<>>
  /\ redisQueue' = Tail(redisQueue)
  /\ \/ /\ job' = [job EXCEPT ![w] = [at |-> "fetching", task |-> Head(redisQueue),
                                       copy |-> "none"]]
        /\ NoLinkFault
     \/ LinkFault({Head(redisQueue)}) /\ UNCHANGED job
  /\ UNCHANGED <<record, apiQueue, apiTasks, enqueuing, polls, connected>>

\* get_task in claim_next_task: a task with neither record nor copy is dropped.
Fetch(w) ==
  LET t == job[w].task IN
  /\ job[w].at = "fetching"
  /\ \/ record[t] # "none" /\ NoLinkFault /\ job' = [job EXCEPT ![w].at = "claiming",
                                                               ![w].copy = record[t]]
     \/ record[t] = "none" /\ NoLinkFault /\ Resting(w)
     \/ LinkFault({t}) /\ Resting(w)
  /\ UNCHANGED <<record, redisQueue, apiQueue, apiTasks, enqueuing, polls, connected>>

\* _save_task suppresses what Redis raises: the copy in memory is kept.
Save(t, status) ==
  \/ record' = [record EXCEPT ![t] = status] /\ NoLinkFault
  \/ record' \in {record, [record EXCEPT ![t] = status]} /\ LinkFault({t})

ClaimTask(w) ==
  /\ job[w].at = "claiming"
  /\ Save(job[w].task, "processing")
  /\ job' = [job EXCEPT ![w].at = "ingesting", ![w].copy = "processing"]
  /\ UNCHANGED <<redisQueue, apiQueue, apiTasks, enqueuing, polls, connected>>

\* process_task: the pipeline returns or raises; copy is the outcome to save.
Ingest(w) ==
  /\ job[w].at = "ingesting"
  /\ \E outcome \in Ended :
       job' = [job EXCEPT ![w].at = "rereading", ![w].copy = outcome]
  /\ UNCHANGED <<record, redisQueue, apiQueue, apiTasks, enqueuing, polls, connected,
                 linkFaults, hurt>>

\* A failed ingestion is logged and not saved.
RereadFailed(w) ==
  /\ job[w].at = "rereading"
  /\ job' = [job EXCEPT ![w] = IF @.copy = "failed" THEN Idle ELSE [@ EXCEPT !.at = "saving"]]
  /\ UNCHANGED <<record, redisQueue, apiQueue, apiTasks, enqueuing, polls, connected,
                 linkFaults, hurt>>

\* get_task in complete_task and fail_task: this worker has a copy in any case.
Reread(w) ==
  /\ job[w].at = "rereading"
  /\ job' = [job EXCEPT ![w].at = "saving"]
  /\ UNCHANGED <<record, redisQueue, apiQueue, apiTasks, enqueuing, polls, connected,
                 linkFaults, hurt>>

EndTask(w) ==
  /\ job[w].at = "saving"
  /\ Save(job[w].task, job[w].copy)
  /\ Resting(w)
  /\ UNCHANGED <<redisQueue, apiQueue, apiTasks, enqueuing, polls, connected>>

\* The process is killed and started again.
CrashWorker(w) ==
  /\ LinkFault({job[w].task} \cap Tasks)
  /\ Resting(w)
  /\ connected' = connected \ {w}
  /\ UNCHANGED <<record, redisQueue, apiQueue, apiTasks, enqueuing, polls>>

-----------------------------------------------------------------------------
WorkerStep(w) ==
  Connect(w) \/ Pop(w) \/ Fetch(w) \/ ClaimTask(w) \/ Ingest(w) \/ Reread(w) \/ EndTask(w)

QueueNext ==
  \/ \E t \in Tasks : Enqueue(t) \/ WriteRecord(t) \/ Push(t)
  \/ \E t \in Watched : PollReads(t)
  \/ \E i \in DOMAIN polls : PollAnswers(i)
  \/ \E w \in Workers : WorkerStep(w) \/ CrashWorker(w)

QueueSpec == QueueInit /\ [][QueueNext]_queueVars

-----------------------------------------------------------------------------
Held == {job[w].task : w \in Workers} \cap Tasks

\* An accepted task that no fault has touched is queued, held by a worker, or
\* ended, whatever faults hit the other tasks: enqueue writes the record before
\* the queue entry, so that no worker pops a task it cannot load and drops it.
NoTaskLost ==
  \A t \in Tasks : enqueuing[t] = "accepted" /\ t \notin hurt =>
    t \in ToSet(redisQueue) \cup Held \/ record[t] \in Ended

\* The copy that answers a client whose read raises goes back in one case only:
\* two reads of the task overlapped, and the one made first is answered last.
\* An outcome the copy tells is the one in the record.
SeenGoesBackOnlyByOverlap ==
  [][\A t \in Tasks :
       /\ Rank(apiTasks'[t]) < Rank(apiTasks[t]) =>
            \E i \in DOMAIN polls : /\ polls[i].task = t /\ polls[i].overtaken
                                    /\ polls[i].reply = apiTasks'[t]
       /\ apiTasks'[t] \in Ended => apiTasks'[t] = record[t]]_queueVars

\* An accepted task that no fault touches is ingested or reported failed.
AcceptedTasksEnd ==
  \A t \in Tasks : enqueuing[t] = "accepted" ~> record[t] \in Ended \/ t \in hurt

\* How far a task is, read off where it is: a task nobody has or will take is lost.
Stage(t) ==
  LET HeldFor(places) == \E w \in Workers : job[w].task = t /\ job[w].at \in places IN
  IF enqueuing[t] = "new" THEN "unsubmitted"
  ELSE IF enqueuing[t] \in {"recording", "pushing"} THEN "submitted"
  ELSE IF t \in ToSet(redisQueue) THEN "waiting"
  ELSE IF HeldFor({"fetching", "claiming"}) THEN "taken"
  ELSE IF HeldFor({"ingesting"}) THEN "working"
  ELSE IF HeldFor({"rereading", "saving"}) THEN "judged"
  ELSE IF record[t] \in Ended THEN "ended"
  ELSE "lost"

Path == INSTANCE TaskPath WITH stage <- [t \in Tasks |-> Stage(t)], faulted <- hurt

\* The queue implements TaskPath: over any interleaving of the API process and
\* the workers, and any faults, no task is ingested twice or goes back, and none
\* is lost that no fault has hit.
ImplementsTaskPath == Path!PathSpec
=============================================================================
