----------------------------- MODULE SessionStore ------------------------------
(***************************************************************************)
(* What Redis holds of one session: the record kept by RedisSessionStore   *)
(* (pkg/session/redis_store.go) and the hot-state keys of RedisPersistence *)
(* (orchestrator/internal/persistence/redis.go).  Every key is written     *)
(* with a time to live; a pipeline of commands is one step here, two calls *)
(* are two.  UpdateTurn reads the record and writes it back whole, without *)
(* a transaction, while other clients save, delete or let it expire.       *)
(***************************************************************************)
EXTENDS Naturals, FiniteSets

CONSTANTS Client, \* goroutines and processes that use the store
          HotKey, \* turn, speaking, playout, state: written with their expiry
          Turn    \* active turns

NoRecord == "no record"

ASSUME StoreAssumption == Turn # {} /\ NoRecord \notin Turn

VARIABLES record,     \* the session's active turn in the record, or no record
          recordOld,  \* its time to live is nearly over
          hot,        \* each hot key: absent, or due to expire
          generation, \* the generation key: absent, due to expire, or for ever
          storeCall,  \* what each client is doing
          read,       \* the turn UpdateTurn is to write
          origin,     \* how the record came to exist: saved, or updated
          inFlight    \* an update was under way when the record last went

storeVars == <<record, recordOld, hot, generation, storeCall, read, origin, inFlight>>

StoreTypeOK ==
  /\ record \in Turn \cup {NoRecord} /\ recordOld \in BOOLEAN
  /\ hot \in [HotKey -> {"absent", "expiring"}]
  /\ generation \in {"absent", "expiring", "forever"}
  /\ storeCall \in [Client -> {"none", "write back", "set expiry"}] /\ read \in [Client -> Turn]
  /\ origin \in {"saved", "updated"} /\ inFlight \in BOOLEAN

StoreInit ==
  /\ record = NoRecord /\ recordOld = FALSE
  /\ hot = [k \in HotKey |-> "absent"] /\ generation = "absent"
  /\ storeCall = [c \in Client |-> "none"] /\ read \in [Client -> Turn]
  /\ origin = "saved" /\ inFlight = FALSE

HotKeys == <<hot, generation>>
Does(c, from, to) == storeCall[c] = from /\ storeCall' = [storeCall EXCEPT ![c] = to]
Updating == {c \in Client : storeCall[c] = "write back"}

--------------------------------------------------------------------------------
\* The session's record.  A call that fails changes nothing.
Save(c) ==
  /\ storeCall[c] = "none"
  /\ record' \in Turn /\ recordOld' = FALSE /\ origin' = "saved"
  /\ UNCHANGED <<HotKeys, storeCall, read, inFlight>>

RecordGone ==
  /\ record' = NoRecord /\ recordOld' = FALSE
  /\ inFlight' = (Updating # {})
  /\ UNCHANGED <<HotKeys, storeCall, read, origin>>

Delete(c) == storeCall[c] = "none" /\ record # NoRecord /\ RecordGone

ExtendTTL(c) ==
  /\ storeCall[c] = "none" /\ record # NoRecord /\ recordOld' = FALSE
  /\ UNCHANGED <<record, HotKeys, storeCall, read, origin, inFlight>>

\* Get: an expired record is not found either.
Found == record # NoRecord

\* Mutation: a session that is not found is taken for a new one.
UpdateTurnOfAny(c) ==
  /\ Does(c, "none", "write back") /\ \E t \in Turn : read' = [read EXCEPT ![c] = t]
  /\ UNCHANGED <<record, recordOld, HotKeys, origin, inFlight>>

UpdateTurn(c) ==
  /\ Found
  /\ Does(c, "none", "write back") /\ \E t \in Turn : read' = [read EXCEPT ![c] = t]
  /\ UNCHANGED <<record, recordOld, HotKeys, origin, inFlight>>

\* A plain SET: it does not ask whether the record is still there.
WriteBack(c) ==
  /\ Does(c, "write back", "none")
  /\ record' = read[c] /\ recordOld' = FALSE
  /\ origin' = IF record = NoRecord THEN "updated" ELSE origin
  /\ UNCHANGED <<HotKeys, read, inFlight>>

WriteBackFails(c) ==
  /\ Does(c, "write back", "none")
  /\ UNCHANGED <<record, recordOld, HotKeys, read, origin, inFlight>>

\* Redis's clock: a record neither saved nor extended for long enough goes.
RecordAges ==
  /\ record # NoRecord /\ ~recordOld /\ recordOld' = TRUE
  /\ UNCHANGED <<record, HotKeys, storeCall, read, origin, inFlight>>

RecordExpires == recordOld /\ RecordGone

--------------------------------------------------------------------------------
\* The hot state.
StoreHot ==
  /\ \E k \in HotKey : hot' = [hot EXCEPT ![k] = "expiring"]
  /\ UNCHANGED <<record, recordOld, generation, storeCall, read, origin, inFlight>>

\* HSet keeps the time to live a key has, and gives a new one none.
StoreGenerationID(c) ==
  /\ Does(c, "none", "set expiry")
  /\ generation' = IF generation = "absent" THEN "forever" ELSE generation
  /\ UNCHANGED <<record, recordOld, hot, read, origin, inFlight>>

SetGenerationExpiry(c) ==
  /\ Does(c, "set expiry", "none")
  /\ generation' = IF generation = "absent" THEN "absent" ELSE "expiring"
  /\ UNCHANGED <<record, recordOld, hot, read, origin, inFlight>>

\* The second call fails, or the process dies before it.
SetExpiryFails(c) ==
  /\ Does(c, "set expiry", "none")
  /\ UNCHANGED <<record, recordOld, HotKeys, read, origin, inFlight>>

\* HDel of the last provider's field removes the key.
ClearGenerationID ==
  /\ generation # "absent" /\ generation' = "absent"
  /\ UNCHANGED <<record, recordOld, hot, storeCall, read, origin, inFlight>>

HotExpires ==
  /\ \E k \in HotKey : hot[k] = "expiring" /\ hot' = [hot EXCEPT ![k] = "absent"]
  /\ UNCHANGED <<record, recordOld, generation, storeCall, read, origin, inFlight>>

GenerationExpires ==
  /\ generation = "expiring" /\ generation' = "absent"
  /\ UNCHANGED <<record, recordOld, hot, storeCall, read, origin, inFlight>>

\* Five keys, of which the session's record is not one.
DeleteHotState ==
  /\ hot' = [k \in HotKey |-> "absent"] /\ generation' = "absent"
  /\ UNCHANGED <<record, recordOld, storeCall, read, origin, inFlight>>

SaveRecord       == \E c \in Client : Save(c)
DeleteRecord     == \E c \in Client : Delete(c)
ExtendRecord     == \E c \in Client : ExtendTTL(c)
BeginUpdate      == \E c \in Client : UpdateTurn(c)
EndUpdate        == \E c \in Client : WriteBack(c) \/ WriteBackFails(c)
StoreGeneration  == \E c \in Client : StoreGenerationID(c)
ExpireGeneration == \E c \in Client : SetGenerationExpiry(c) \/ SetExpiryFails(c)

StoreNext ==
  \/ SaveRecord \/ DeleteRecord \/ ExtendRecord \/ BeginUpdate \/ EndUpdate
  \/ RecordAges \/ RecordExpires
  \/ StoreHot \/ StoreGeneration \/ ExpireGeneration \/ ClearGenerationID
  \/ HotExpires \/ GenerationExpires \/ DeleteHotState

StoreSpec == StoreInit /\ [][StoreNext]_storeVars

--------------------------------------------------------------------------------
\* A session that was deleted or has expired comes back only by a Save or by a
\* turn update that had read it before: an update begun afterwards finds
\* nothing and writes nothing (redis_store.go:105-123).
NoResurrection ==
  record # NoRecord => origin = "saved" \/ inFlight
================================================================================
