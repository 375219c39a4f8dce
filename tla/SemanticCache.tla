--------------------------- MODULE SemanticCache ----------------------------
(***************************************************************************)
(* The response cache (optimizer/semantic_cache.py): an exact tier keyed   *)
(* by the identity of a request, in Redis and in memory, and a semantic    *)
(* tier searched by similarity of the prompt, in Qdrant and in memory.     *)
(*                                                                         *)
(* An entry is the request its response was generated for.  The dimensions *)
(* compared alike by both tiers (model, provider, tools, response format,  *)
(* generation parameters, version) are constant here; those they treat     *)
(* differently are the fields of a request.  Entries leave a tier by TTL,  *)
(* eviction or restart, at any time.                                       *)
(***************************************************************************)
EXTENDS Naturals, Sequences, SequencesExt

CONSTANTS
  Requests,   \* [namespace, system, history, prompt, context]: what callers send
  Alike(_, _),\* prompts whose similarity reaches the threshold
  MaxSets     \* bound on responses stored

VARIABLES
  redisExact,    \* cache:exact:<namespace>:<identity> |-> entry, as a set of entries
  memoryExact,   \* _memory_exact
  points,        \* the Qdrant collection
  vectors,       \* _memory_vectors
  storing,       \* the call of set under way: [at, entry]
  sets,          \* responses stored so far
  hit            \* the last hit: [asked, served, tier]

cacheVars == <<redisExact, memoryExact, points, vectors, storing, sets, hit>>

NoSystem == ""

\* What the model is given of a conversation: get and set append the prompt
\* unless some message of the history has its text.
EffectiveMessages(q) ==
  IF q.prompt \in ToSet(q.history) THEN q.history ELSE Append(q.history, q.prompt)

\* _prior_context: the messages that precede the prompt.
PriorContext(q) ==
  LET messages == EffectiveMessages(q) IN
  IF Last(messages) = q.prompt THEN Front(messages) ELSE messages

\* compute_cache_identity: the prompt is there only through the messages.
Identity(q) ==
  [namespace |-> q.namespace, system |-> q.system, context |-> q.context,
   messages |-> EffectiveMessages(q)]

\* _is_compatible_for_semantic_hit: a missing system instruction matches any.
Compatible(entry, q) ==
  /\ PriorContext(entry) = PriorContext(q)
  /\ entry.context = q.context
  /\ entry.system = NoSystem \/ q.system = NoSystem \/ entry.system = q.system

\* An exact entry replaces the one with its identity.
Overwriting(tier, entry) ==
  {e \in tier : Identity(e) # Identity(entry)} \cup {entry}

NoHit == [asked |-> {}, served |-> {}, tier |-> "none"]

CacheTypeOK ==
  /\ \A tier \in {redisExact, memoryExact, points, vectors} : tier \subseteq Requests
  /\ storing \in [at : {"none", "redis", "qdrant", "memory"}, entry : {{}} \cup {{q} : q \in Requests}]
  /\ sets \in 0..MaxSets
  /\ hit.tier \in {"none", "exact", "semantic"}

CacheInit ==
  /\ redisExact = {} /\ memoryExact = {} /\ points = {} /\ vectors = {}
  /\ storing = [at |-> "none", entry |-> {}]
  /\ sets = 0
  /\ hit = NoHit

-----------------------------------------------------------------------------
(* set, between its awaits                                                 *)

SetBegins(q) ==
  /\ storing.at = "none"
  /\ sets < MaxSets
  /\ storing' = [at |-> "redis", entry |-> {q}]
  /\ sets' = sets + 1
  /\ UNCHANGED <<redisExact, memoryExact, points, vectors, hit>>

\* A tier that is unavailable or raises is skipped.
SetInRedis ==
  /\ storing.at = "redis"
  /\ \E q \in storing.entry : redisExact' \in {redisExact, Overwriting(redisExact, q)}
  /\ storing' = [storing EXCEPT !.at = "qdrant"]
  /\ UNCHANGED <<memoryExact, points, vectors, sets, hit>>

SetInQdrant ==
  /\ storing.at = "qdrant"
  /\ \E q \in storing.entry : points' \in {points, Overwriting(points, q)}
  /\ storing' = [storing EXCEPT !.at = "memory"]
  /\ UNCHANGED <<redisExact, memoryExact, vectors, sets, hit>>

SetInMemory ==
  /\ storing.at = "memory"
  /\ \E q \in storing.entry :
       /\ memoryExact' = Overwriting(memoryExact, q)
       /\ vectors' = vectors \cup {q}
  /\ storing' = [at |-> "none", entry |-> {}]
  /\ UNCHANGED <<redisExact, points, sets, hit>>

-----------------------------------------------------------------------------
(* get                                                                     *)

Answers(q, entry, tier) ==
  /\ hit' = [asked |-> {q}, served |-> {entry}, tier |-> tier]
  /\ UNCHANGED <<redisExact, memoryExact, points, vectors, storing, sets>>

\* Either exact store may be the one that answers: Redis is skipped when it is
\* unavailable.
GetExact(q) ==
  \E entry \in redisExact \cup memoryExact :
    Identity(entry) = Identity(q) /\ Answers(q, entry, "exact")

\* The semantic tier is searched when no exact store has answered; both of its
\* searches filter by namespace.
GetSemantic(q) ==
  /\ \A entry \in memoryExact : Identity(entry) # Identity(q)
  /\ \E entry \in points \cup vectors :
       /\ entry.namespace = q.namespace
       /\ Alike(entry.prompt, q.prompt)
       /\ Compatible(entry, q)
       /\ Answers(q, entry, "semantic")

\* TTL, eviction or a restart takes an entry from one store.
LoseEntry ==
  /\ \E q \in Requests :
       \/ q \in redisExact /\ redisExact' = redisExact \ {q} /\ UNCHANGED <<memoryExact, points, vectors>>
       \/ q \in memoryExact /\ memoryExact' = memoryExact \ {q} /\ UNCHANGED <<redisExact, points, vectors>>
       \/ q \in points /\ points' = points \ {q} /\ UNCHANGED <<redisExact, memoryExact, vectors>>
       \/ q \in vectors /\ vectors' = vectors \ {q} /\ UNCHANGED <<redisExact, memoryExact, points>>
  /\ UNCHANGED <<storing, sets, hit>>

CacheNext ==
  \/ \E q \in Requests : SetBegins(q) \/ GetExact(q) \/ GetSemantic(q)
  \/ SetInRedis \/ SetInQdrant \/ SetInMemory \/ LoseEntry

CacheSpec == CacheInit /\ [][CacheNext]_cacheVars

-----------------------------------------------------------------------------
\* "two requests sharing a cache identity are semantically equivalent with
\* respect to every dimension that affects the model's generation output"
\* (compute_cache_identity): an exact hit was generated for the same prompt.
ExactHitSamePrompt ==
  \A q \in hit.asked : \A entry \in hit.served :
    hit.tier = "exact" => entry.prompt = q.prompt
=============================================================================
