---------------------------- MODULE ResumeBridge ----------------------------
(***************************************************************************)
(* The resume bridge (services/resume_bridge.py): a graph interrupted for  *)
(* a client-side tool waits as a checkpoint under its call_id, in Redis    *)
(* and in memory, and the first tool result posted for the call resumes    *)
(* it.                                                                     *)
(*                                                                         *)
(* One call_id and the requests that post a result for it, some of them    *)
(* from another tenant.  Every action is one stretch of code between two   *)
(* awaits.  Both keys expire 300 s after they are written, the lock after  *)
(* the checkpoint it was taken for.                                        *)
(***************************************************************************)
EXTENDS Naturals

CONSTANTS
  Posts,           \* the requests that post a result of the call
  OwnPosts,        \* those of the checkpoint's tenant
  MaxBridgeFaults  \* bound on calls to Redis that raise, and on restarts

ASSUME BridgeAssumption == OwnPosts \subseteq Posts /\ MaxBridgeFaults \in Nat

VARIABLES
  saved,         \* whether the graph has been interrupted and saved
  lock,          \* lock:tool_call:<id> in Redis
  kept,          \* checkpoint:<id> in Redis
  memory,        \* the checkpoint is in _memory_checkpoints
  processed,     \* the call is in _processed_call_ids
  latched,       \* _redis_available is FALSE, for the rest of the process
  post,          \* what a request does: [at, redis, found]
  resumed,       \* how often the graph was invoked with a result
  bridgeFaults,  \* faults so far
  unlocked,      \* history: a request went on without asking for the lock
  stranded       \* history: a lock may be left by a crash or a failed delete

bridgeVars == <<saved, lock, kept, memory, processed, latched, post, resumed,
                bridgeFaults, unlocked, stranded>>

Places == {"new", "locking", "loading", "checking", "releasing", "deleting",
           "invoking", "resumed", "refused"}

AtRest == {"new", "resumed", "refused"}

BridgeTypeOK ==
  /\ {saved, lock, kept, memory, processed, latched, unlocked, stranded} \subseteq BOOLEAN
  /\ post \in [Posts -> [at : Places, redis : BOOLEAN, found : BOOLEAN]]
  /\ resumed \in Nat
  /\ bridgeFaults \in 0..MaxBridgeFaults

BridgeInit ==
  /\ saved = FALSE /\ lock = FALSE /\ kept = FALSE /\ memory = FALSE
  /\ processed = FALSE /\ latched = FALSE
  /\ post = [p \in Posts |-> [at |-> "new", redis |-> FALSE, found |-> FALSE]]
  /\ resumed = 0
  /\ bridgeFaults = 0
  /\ unlocked = FALSE /\ stranded = FALSE

Goes(p, place) == post' = [post EXCEPT ![p].at = place]

BridgeFault == bridgeFaults < MaxBridgeFaults /\ bridgeFaults' = bridgeFaults + 1

NoBridgeFault == UNCHANGED bridgeFaults

\* save_checkpoint: always in memory, in Redis unless the write raises.
SaveCheckpoint ==
  /\ ~saved
  /\ saved' = TRUE
  /\ memory' = TRUE
  /\ \/ ~latched /\ kept' = TRUE /\ NoBridgeFault
     \/ kept' \in BOOLEAN /\ BridgeFault
  /\ UNCHANGED <<lock, processed, latched, post, resumed, unlocked, stranded>>

-----------------------------------------------------------------------------
(* resume_checkpoint                                                       *)

\* A processed call is a duplicate.  A client that cannot be acquired latches
\* Redis off for good, and a request goes on without a lock.  The call_id is
\* known from the interrupt that saved the checkpoint.
Receive(p) ==
  /\ saved
  /\ post[p].at = "new"
  /\ \/ processed /\ Goes(p, "refused") /\ NoBridgeFault /\ UNCHANGED <<latched, unlocked>>
     \/ /\ ~processed /\ ~latched
        /\ post' = [post EXCEPT ![p].at = "locking", ![p].redis = TRUE]
        /\ NoBridgeFault
        /\ UNCHANGED <<latched, unlocked>>
     \/ /\ ~processed /\ ~latched
        /\ BridgeFault
        /\ latched' = TRUE /\ unlocked' = TRUE
        /\ Goes(p, "loading")
     \/ /\ ~processed /\ latched
        /\ unlocked' = TRUE
        /\ Goes(p, "loading")
        /\ NoBridgeFault
        /\ UNCHANGED latched
  /\ UNCHANGED <<saved, lock, kept, memory, processed, resumed, stranded>>

\* SET NX; a lock call that raises counts as acquired.
TakeLock(p) ==
  /\ post[p].at = "locking"
  /\ \/ ~lock /\ lock' = TRUE /\ Goes(p, "loading") /\ NoBridgeFault /\ UNCHANGED unlocked
     \/ lock /\ Goes(p, "refused") /\ NoBridgeFault /\ UNCHANGED <<lock, unlocked>>
     \/ lock' \in {lock, TRUE} /\ unlocked' = TRUE /\ Goes(p, "loading") /\ BridgeFault
  /\ UNCHANGED <<saved, kept, memory, processed, latched, resumed, stranded>>

\* get_checkpoint's await: the record in Redis, unless the call raises.
LoadCheckpoint(p) ==
  /\ post[p].at = "loading"
  /\ \/ /\ post' = [post EXCEPT ![p].at = "checking", ![p].found = kept /\ ~latched]
        /\ NoBridgeFault
     \/ Goes(p, "checking") /\ BridgeFault
  /\ UNCHANGED <<saved, lock, kept, memory, processed, latched, resumed, unlocked, stranded>>

\* The record read, else what memory holds when the await is over.
Found(p) == post[p].found \/ memory

InFlight == \E p \in Posts : post[p].at \in {"deleting", "invoking"}

\* Only an unknown call gives the lock back.
RefusesKeeping(p) ==
  Goes(p, IF post[p].redis /\ ~Found(p) THEN "releasing" ELSE "refused")

\* No checkpoint, or that of another tenant: the lock taken is given back.
Refuses(p) == Goes(p, IF post[p].redis THEN "releasing" ELSE "refused")

\* A request in flight keeps its lock; the first one of the tenant goes on.
Check(p) ==
  /\ post[p].at = "checking"
  /\ \/ (~Found(p) \/ p \notin OwnPosts) /\ Refuses(p) /\ UNCHANGED <<processed, memory>>
     \/ /\ Found(p) /\ p \in OwnPosts /\ InFlight
        /\ Goes(p, "refused")
        /\ UNCHANGED <<processed, memory>>
     \/ /\ Found(p) /\ p \in OwnPosts /\ ~InFlight
        /\ processed' = TRUE
        /\ memory' = FALSE
        /\ Goes(p, IF post[p].redis THEN "deleting" ELSE "invoking")
  /\ UNCHANGED <<saved, lock, kept, latched, resumed, bridgeFaults, unlocked, stranded>>

ReleaseLock(p) ==
  /\ post[p].at = "releasing"
  /\ Goes(p, "refused")
  /\ \/ lock' = FALSE /\ NoBridgeFault /\ UNCHANGED stranded
     \/ lock' \in {lock, FALSE} /\ stranded' = TRUE /\ BridgeFault
  /\ UNCHANGED <<saved, kept, memory, processed, latched, resumed, unlocked>>

DeleteCheckpoint(p) ==
  /\ post[p].at = "deleting"
  /\ Goes(p, "invoking")
  /\ \/ kept' = FALSE /\ NoBridgeFault
     \/ kept' \in {kept, FALSE} /\ BridgeFault
  /\ UNCHANGED <<saved, lock, memory, processed, latched, resumed, unlocked, stranded>>

\* The lock is given back when the graph has run.
InvokeGraphReleasing(p) ==
  /\ post[p].at = "invoking"
  /\ resumed' = resumed + 1
  /\ lock' = FALSE
  /\ Goes(p, "resumed")
  /\ UNCHANGED <<saved, kept, memory, processed, latched, bridgeFaults, unlocked, stranded>>

\* The graph is invoked; whatever it raises, the result is acknowledged.
InvokeGraph(p) ==
  /\ post[p].at = "invoking"
  /\ resumed' = resumed + 1
  /\ Goes(p, "resumed")
  /\ UNCHANGED <<saved, lock, kept, memory, processed, latched, bridgeFaults, unlocked,
                 stranded>>

-----------------------------------------------------------------------------
(* Time and restarts                                                       *)

CheckpointExpires ==
  /\ kept
  /\ kept' = FALSE
  /\ UNCHANGED <<saved, lock, memory, processed, latched, post, resumed, bridgeFaults,
                 unlocked, stranded>>

\* The lock is set after the checkpoint and for as long: it outlives it, and
\* the short calls of the request that took it, but not the graph it invokes.
LockExpires ==
  /\ lock /\ ~kept
  /\ \A p \in Posts : post[p].at \in AtRest \cup {"invoking"}
  /\ lock' = FALSE
  /\ UNCHANGED <<saved, kept, memory, processed, latched, post, resumed, bridgeFaults,
                 unlocked, stranded>>

\* The process restarts: what it held in memory and its requests are gone.
RestartApi ==
  /\ BridgeFault
  /\ memory' = FALSE
  /\ processed' = FALSE
  /\ latched' = FALSE
  /\ stranded' = TRUE
  /\ post' = [p \in Posts |-> IF post[p].at \in AtRest THEN post[p]
                              ELSE [post[p] EXCEPT !.at = "refused"]]
  /\ UNCHANGED <<saved, lock, kept, resumed, unlocked>>

PostStep(p) ==
  \/ Receive(p) \/ TakeLock(p) \/ LoadCheckpoint(p) \/ Check(p)
  \/ ReleaseLock(p) \/ DeleteCheckpoint(p) \/ InvokeGraph(p)

BridgeNext ==
  \/ SaveCheckpoint \/ CheckpointExpires \/ LockExpires \/ RestartApi
  \/ \E p \in Posts : PostStep(p)

BridgeSpec == BridgeInit /\ [][BridgeNext]_bridgeVars

-----------------------------------------------------------------------------
\* However often its result is posted, a call resumes its graph once, over
\* restarts that forget the processed calls, checkpoint deletions that raise
\* and locks that expire, unless a request went on without the lock.
ResumedOnce == resumed > 1 => unlocked

\* A refused request does not keep the call from its owner: with nothing under
\* way the lock is only left by a resumed call, a crash or a failed release.
LockFreedByRefused ==
  lock /\ (\A p \in Posts : post[p].at \in AtRest) => processed \/ stranded
=============================================================================
