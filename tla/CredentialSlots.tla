-------------------------- MODULE CredentialSlots ---------------------------
(***************************************************************************)
(* The custody of tenants' provider keys (core/byok.py over the store of   *)
(* core/byok_storage.py), with the rotation of the master key that seals   *)
(* them (reencrypt_batch, driven by core/byok_migrate.py).                 *)
(*                                                                         *)
(* A slot holds one sealed record.  Every operation reads the record, may  *)
(* await a validation by the provider, and commits by compare-and-swap on  *)
(* the value it read; a commit may be applied although its reply is lost.  *)
(* Seals are randomised: no two of them have the same value, which the     *)
(* field seal stands for.                                                  *)
(***************************************************************************)
EXTENDS Naturals, FiniteSets

CONSTANTS
  Slots,          \* tenant and provider pairs
  Calls,          \* operations, each one called once
  Actors,         \* their callers
  Admins,         \* the callers that act as delegated administrators
  MaxPasses,      \* bound on migration passes
  MaxStoreFaults  \* bound on calls to the store that raise

ASSUME SlotsAssumption ==
  /\ Slots # {} /\ {"none", "scanning"} \cap Slots = {}
  /\ Actors # {} /\ Admins \subseteq Actors
  /\ MaxPasses \in Nat /\ MaxStoreFaults \in Nat

VARIABLES
  slot,         \* the record in each slot
  op,           \* an operation under way: [at, kind, slot, owner, kid, base]
  oldStopped,   \* the processes that seal with the old master are stopped
  pass,         \* the migration: [at, todo, base, clean, sound]; sound: it began
                \* with the old processes stopped
  passes,       \* passes begun
  retired,      \* the old master is in BYOK_RETIRED_KEY_IDS
  storeFaults,  \* faults so far
  gone          \* history: the keys that were active once and no more

slotVars == <<slot, op, oldStopped, pass, passes, retired, storeFaults, gone>>

Kinds   == {"store", "rotate", "validate", "revoke", "delete"}
Masters == {"old", "new"}

NoRecord == [status |-> "absent", key |-> 0, owner |-> 0, kid |-> "new", seal |-> <<>>]

PassNumbers == 1..MaxPasses

Seals == {<<c>> : c \in Calls} \cup {<<p, s>> : p \in PassNumbers, s \in Slots}

Records ==
  {NoRecord} \cup
  [status : {"active", "revoked"}, key : Calls, owner : Actors, kid : Masters, seal : Seals]

SlotsTypeOK ==
  /\ slot \in [Slots -> Records]
  /\ op \in [Calls -> [at : {"new", "committing", "ended"}, kind : Kinds, slot : Slots,
                       owner : Actors, kid : Masters, base : Records]]
  /\ pass \in [at : {"none", "scanning"} \cup Slots, todo : SUBSET Slots,
               base : Records, clean : BOOLEAN, sound : BOOLEAN]
  /\ passes \in 0..MaxPasses
  /\ storeFaults \in 0..MaxStoreFaults
  /\ gone \subseteq Calls
  /\ oldStopped \in BOOLEAN /\ retired \in BOOLEAN

\* An operation not begun or ended.
Idling(at) == [at |-> at, kind |-> "store", slot |-> CHOOSE s \in Slots : TRUE,
               owner |-> CHOOSE a \in Actors : TRUE, kid |-> "old", base |-> NoRecord]

SlotsInit ==
  /\ slot = [s \in Slots |-> NoRecord]
  /\ op = [c \in Calls |-> Idling("new")]
  /\ oldStopped = FALSE
  /\ pass = [at |-> "none", todo |-> {}, base |-> NoRecord, clean |-> FALSE, sound |-> FALSE]
  /\ passes = 0
  /\ retired = FALSE
  /\ storeFaults = 0
  /\ gone = {}

StoreFault == storeFaults < MaxStoreFaults /\ storeFaults' = storeFaults + 1

NoStoreFault == UNCHANGED storeFaults

\* _open: a process reads what was sealed with a master it is given.  The
\* processes of the new master are given the old one too, until it is retired.
Opens(kid, record) ==
  \/ record.kid = "new" /\ kid = "new"
  \/ record.kid = "old" /\ ~retired

\* The value in the store becomes v; the key that was active there may be gone.
Becomes(s, v) ==
  /\ slot' = [slot EXCEPT ![s] = v]
  /\ gone' = IF slot[s].status = "active" /\ ~(v.status = "active" /\ v.key = slot[s].key)
             THEN gone \cup {slot[s].key} ELSE gone

\* The store compares nothing.
CasBlind(s, expected, v) ==
  Becomes(s, v) /\ NoStoreFault

\* compare-and-swap: applied, refused, or raising, applied or not.
Cas(s, expected, v) ==
  \/ slot[s] = expected /\ Becomes(s, v) /\ (NoStoreFault \/ StoreFault)
  \/ slot[s] # expected /\ UNCHANGED <<slot, gone>> /\ NoStoreFault
  \/ StoreFault /\ UNCHANGED <<slot, gone>>

-----------------------------------------------------------------------------
(* Operations                                                              *)

\* What an operation may find: store_key creates a slot or replaces a record its
\* caller may manage; the others need one, and validate_stored_key an active one.
Admitted(kind, actor, kid, record) ==
  IF record = NoRecord THEN kind = "store"
  ELSE /\ Opens(kid, record)
       /\ actor = record.owner \/ actor \in Admins
       /\ kind = "validate" => record.status = "active"

\* The read of an operation; one not admitted ends with an error.  The first
\* writer of a slot owns it.
Call(c, kind, kid, s, a) ==
  /\ op[c].at = "new"
  /\ kid = "old" => ~oldStopped
  /\ op' = [op EXCEPT ![c] = IF Admitted(kind, a, kid, slot[s])
                             THEN [at |-> "committing", kind |-> kind, slot |-> s,
                                   owner |-> IF slot[s] = NoRecord THEN a ELSE slot[s].owner,
                                   kid |-> kid, base |-> slot[s]]
                             ELSE Idling("ended")]
  /\ UNCHANGED <<slot, oldStopped, pass, passes, retired, storeFaults, gone>>

\* What an operation commits: store_key and rotate_key the key they were given,
\* the owner of the record they replace kept.
Outcome(c) ==
  LET sealed == [op[c].base EXCEPT !.kid = op[c].kid, !.seal = <<c>>] IN
  CASE op[c].kind = "delete"   -> NoRecord
    [] op[c].kind = "revoke"   -> [sealed EXCEPT !.status = "revoked"]
    [] op[c].kind = "validate" -> sealed
    [] OTHER -> [sealed EXCEPT !.status = "active", !.key = c,
                               !.owner = op[c].owner]

Commit(c) ==
  /\ op[c].at = "committing"
  /\ Cas(op[c].slot, op[c].base, Outcome(c))
  /\ op' = [op EXCEPT ![c] = Idling("ended")]
  /\ UNCHANGED <<oldStopped, pass, passes, retired>>

-----------------------------------------------------------------------------
(* Rotation of the master key                                              *)

\* Every process restarts with the new master; what the old ones did ends.
StopOldWriters ==
  /\ ~oldStopped
  /\ oldStopped' = TRUE
  /\ op' = [c \in Calls |-> IF op[c].at = "committing" /\ op[c].kid = "old"
                            THEN Idling("ended") ELSE op[c]]
  /\ UNCHANGED <<slot, pass, passes, retired, storeFaults, gone>>

\* A pass from cursor 0.
StartPass ==
  /\ pass.at = "none"
  /\ passes < MaxPasses
  /\ passes' = passes + 1
  /\ pass' = [at |-> "scanning", todo |-> {s \in Slots : slot[s] # NoRecord},
              base |-> NoRecord, clean |-> TRUE, sound |-> oldStopped]
  /\ UNCHANGED <<slot, op, oldStopped, retired, storeFaults, gone>>

\* reencrypt_batch reads the next key: one sealed with the new master is current,
\* one deleted since the scan is skipped.
Inspect(s) ==
  /\ pass.at = "scanning" /\ s \in pass.todo
  /\ \/ /\ slot[s].kid = "new"
        /\ pass' = [pass EXCEPT !.todo = @ \ {s}]
        /\ NoStoreFault
     \/ /\ slot[s].kid = "old"
        /\ pass' = [pass EXCEPT !.at = s, !.base = slot[s]]
        /\ NoStoreFault
     \/ /\ pass' = [pass EXCEPT !.todo = @ \ {s}, !.clean = FALSE]
        /\ StoreFault
  /\ UNCHANGED <<slot, op, oldStopped, passes, retired, gone>>

\* An error is not counted against the pass.
DirtyIfConflict(s) == slot[s] # pass.base

\* A conflict or an error makes the pass one to repeat.
Dirty(s) == slot[s] # pass.base \/ storeFaults' # storeFaults

\* The record read is sealed with the new master and put back where it was.
Reseal(s) ==
  /\ pass.at = s
  /\ Cas(s, pass.base, [pass.base EXCEPT !.kid = "new", !.seal = <<passes, s>>])
  /\ pass' = [pass EXCEPT !.at = "scanning", !.todo = @ \ {s}, !.base = NoRecord,
                !.clean = @ /\ ~Dirty(s)]
  /\ UNCHANGED <<op, oldStopped, passes, retired>>

\* "Restart with cursor 0 after faults; repeat a complete clean pass with old
\* writers stopped before retirement."
FinishPass ==
  /\ pass.at = "scanning" /\ pass.todo = {}
  /\ retired' = (retired \/ (pass.clean /\ pass.sound))
  /\ pass' = [pass EXCEPT !.at = "none"]
  /\ UNCHANGED <<slot, op, oldStopped, passes, storeFaults, gone>>

SlotsNext ==
  \/ \E c \in Calls :
       \/ \E kind \in Kinds, kid \in Masters, s \in Slots, a \in Actors :
            Call(c, kind, kid, s, a)
       \/ Commit(c)
  \/ \E s \in Slots : Inspect(s) \/ Reseal(s)
  \/ StopOldWriters \/ StartPass \/ FinishPass

SlotsSpec == SlotsInit /\ [][SlotsNext]_slotVars

-----------------------------------------------------------------------------
\* A provider key that was revoked, replaced or deleted is never active again,
\* whatever operations, migration passes and lost replies overlap.
GoneStaysGone == \A s \in Slots : slot[s].status = "active" => slot[s].key \notin gone

\* A slot keeps the owner who first wrote it for as long as it holds a record.
OwnerKept ==
  [][\A s \in Slots : slot[s] # NoRecord /\ slot'[s] # NoRecord =>
       slot'[s].owner = slot[s].owner]_slotVars

\* The master is retired after a clean pass with its writers stopped, and then
\* no record needs it: no tenant loses its key.
RetiredIsUnused == retired => \A s \in Slots : slot[s].kid = "new"
=============================================================================
