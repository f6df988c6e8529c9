------------------------------ MODULE MasterKey ------------------------------
(***************************************************************************)
(* The master key of the Linux build (dzc-platform/src/encryption.rs): a   *)
(* key is looked for in the secret service, which lasts, and behind it in  *)
(* the kernel's keyring, which ends with the session; a key found only     *)
(* there is written forward; one is made when both are empty.  Callers of  *)
(* one process share two caches and one lock.  The process may die at any  *)
(* step, the session may end, the keyring may lose its entry.              *)
(*                                                                         *)
(* A store may fail to answer at any time, and a write it refuses may have *)
(* reached it all the same.  A key that was made is one never seen before. *)
(* Other processes are left out, as MASTER_KEY_INIT_LOCK leaves them out.  *)
(***************************************************************************)
EXTENDS Integers, FiniteSets

CONSTANTS
  Callers,  \* threads that encrypt or decrypt
  Keys,     \* keys that may ever exist
  NoKey

ASSUME KeysAssumption == NoKey \notin Keys

VARIABLES
  service,    \* the key in the secret service
  keyring,    \* the key in the kernel's keyring
  cache,      \* MASTER_KEY
  recovered,  \* RECOVERED_KEY
  holder,     \* who has MASTER_KEY_INIT_LOCK
  call,       \* initialise_master_key, for each caller
  made,       \* keys that exist
  sealed,     \* history: keys of the rows this build has written
  handed,     \* history: keys this process has handed out
  warned      \* history: the key this process has found in the keyring only

stores == <<service, keyring>>
caches == <<cache, recovered>>
past == <<made, sealed, handed, warned>>
vars == <<stores, caches, holder, call, past>>

Idle == [at |-> "idle", writing |-> FALSE, key |-> NoKey]

\* An earlier build may have left its key in either place, or in none.
Init ==
  /\ \E old \in Keys :
       /\ service \in {old, NoKey} /\ keyring \in {old, NoKey}
       /\ made = {service, keyring} \ {NoKey}
  /\ cache = NoKey /\ recovered = NoKey /\ holder = {}
  /\ call = [c \in Callers |-> Idle]
  /\ sealed = {} /\ handed = {} /\ warned = NoKey

-----------------------------------------------------------------------------
(* One call of initialise_master_key.                                      *)

IsAt(c, step) == call[c].at = step
Go(c, step) == call' = [call EXCEPT ![c].at = step]
Take(c, step, k) == call' = [call EXCEPT ![c].at = step, ![c].key = k]

\* The call is over and has nothing, or has k, which it hands to its caller.
Fail(c) == call' = [call EXCEPT ![c] = Idle] /\ UNCHANGED handed
HandOut(c, k) ==
  /\ handed' = handed \cup {k}
  /\ call' = [call EXCEPT ![c] =
       IF @.writing THEN [@ EXCEPT !.at = "seal", !.key = k] ELSE Idle]

\* encrypt_platform asks for a key to write with, decrypt_value for one to read with.
Ask(c) ==
  /\ IsAt(c, "idle")
  /\ \E w \in BOOLEAN : call' = [call EXCEPT ![c] = [Idle EXCEPT !.at = "look", !.writing = w]]
  /\ UNCHANGED <<stores, caches, holder, past>>

\* The caches are looked at without the lock; a writer looks at the first only.
Look(c) ==
  /\ IsAt(c, "look")
  /\ \/ cache # NoKey /\ HandOut(c, cache)
     \/ cache = NoKey /\ ~call[c].writing /\ recovered # NoKey /\ HandOut(c, recovered)
     \/ /\ cache = NoKey /\ (call[c].writing \/ recovered = NoKey)
        /\ Go(c, "lock") /\ UNCHANGED handed
  /\ UNCHANGED <<stores, caches, holder, made, sealed, warned>>

Lock(c) ==
  /\ IsAt(c, "lock") /\ holder = {}
  /\ \/ cache # NoKey /\ HandOut(c, cache) /\ UNCHANGED holder
     \/ cache = NoKey /\ Go(c, "persistent") /\ holder' = {c} /\ UNCHANGED handed
  /\ UNCHANGED <<stores, caches, made, sealed, warned>>

\* Mutant: a store that does not answer counts as one that is empty.
UnreadableIsEmpty(c, step) == Go(c, step) /\ UNCHANGED <<holder, handed>>

\* StoreProbe::Unavailable
Unreadable(c, step) == Fail(c) /\ holder' = {}

\* probe_store of the secret service
ProbePersistent(c) ==
  /\ IsAt(c, "persistent")
  /\ \/ service # NoKey /\ Take(c, "publish", service) /\ UNCHANGED <<holder, handed>>
     \/ service = NoKey /\ Go(c, "legacy") /\ UNCHANGED <<holder, handed>>
     \/ Unreadable(c, "legacy")
  /\ UNCHANGED <<stores, caches, made, sealed, warned>>

\* probe_store of the keyring; MasterKeyRead::Missing is a key for a writer to make.
ProbeLegacy(c) ==
  /\ IsAt(c, "legacy")
  /\ \/ keyring # NoKey /\ Take(c, "forward", keyring) /\ UNCHANGED <<holder, handed>>
     \/ keyring = NoKey /\ call[c].writing /\ Go(c, "create") /\ UNCHANGED <<holder, handed>>
     \/ keyring = NoKey /\ ~call[c].writing /\ Fail(c) /\ holder' = {}
     \/ Unreadable(c, "create")
  /\ UNCHANGED <<stores, caches, made, sealed, warned>>

\* set_password of k: refused, and perhaps done nevertheless.
Refused(store, k) == {store, k}

\* The key found in the keyring is copied; when that fails, the warning says that
\* existing records stay readable this session.
WriteForward(c) ==
  /\ IsAt(c, "forward")
  /\ \/ service' = call[c].key /\ Go(c, "publish") /\ UNCHANGED warned
     \/ /\ service' \in Refused(service, call[c].key)
        /\ Go(c, "unpersisted") /\ warned' = call[c].key
  /\ UNCHANGED <<keyring, caches, holder, made, sealed, handed>>

\* Mutant: what was recovered is not offered.
NewKey == Keys \ made

\* The key persist_master_key writes: the recovered one, or a fresh one.
KeyToPersist == IF recovered # NoKey THEN {recovered} ELSE Keys \ made

\* persist_master_key, up to the first set_password; no store may open, and no
\* random bytes may come.
Create(c) ==
  /\ IsAt(c, "create")
  /\ \/ \E k \in KeyToPersist :
          /\ made' = made \cup {k}
          /\ \/ service' = k /\ Take(c, "second", k) /\ UNCHANGED <<holder, handed>>
             \/ service' \in Refused(service, k) /\ Fail(c) /\ holder' = {}
     \/ Fail(c) /\ holder' = {} /\ UNCHANGED <<service, made>>
  /\ UNCHANGED <<keyring, caches, sealed, warned>>

\* The second set_password, whose failure is not fatal
CreateSecond(c) ==
  /\ IsAt(c, "second")
  /\ keyring' \in {keyring, call[c].key}
  /\ Go(c, "publish")
  /\ UNCHANGED <<service, caches, holder, past>>

\* The key is durable: it goes into the cache, and the cache is the answer.
Publish(c) ==
  /\ IsAt(c, "publish")
  /\ cache' = (IF cache = NoKey THEN call[c].key ELSE cache)
  /\ HandOut(c, cache')
  /\ holder' = {}
  /\ UNCHANGED <<stores, recovered, made, sealed, warned>>

\* The key is not durable: a reader may have it, and it is remembered for readers; a
\* writer gets nothing.
KeepRecovered(c) ==
  /\ IsAt(c, "unpersisted")
  /\ \/ /\ ~call[c].writing
        /\ recovered' = (IF recovered = NoKey THEN call[c].key ELSE recovered)
        /\ HandOut(c, recovered')
     \/ call[c].writing /\ Fail(c) /\ UNCHANGED recovered
  /\ holder' = {}
  /\ UNCHANGED <<stores, cache, made, sealed, warned>>

\* encrypt_with_key has encrypted, and the row is written; or neither.
Seal(c) ==
  /\ IsAt(c, "seal")
  /\ sealed' \in {sealed, sealed \cup {call[c].key}}
  /\ call' = [call EXCEPT ![c] = Idle]
  /\ UNCHANGED <<stores, caches, holder, made, handed, warned>>

Call(c) ==
  \/ Ask(c) \/ Look(c) \/ Lock(c)
  \/ ProbePersistent(c) \/ ProbeLegacy(c) \/ WriteForward(c)
  \/ Create(c) \/ CreateSecond(c) \/ Publish(c) \/ KeepRecovered(c)
  \/ Seal(c)

-----------------------------------------------------------------------------
(* The world.                                                              *)

\* A process begins with nothing but the stores.
Restarted ==
  /\ cache' = NoKey /\ recovered' = NoKey /\ holder' = {}
  /\ call' = [c \in Callers |-> Idle]
  /\ handed' = {} /\ warned' = NoKey

Crashes == Restarted /\ UNCHANGED <<stores, made, sealed>>

\* The session ends and takes the keyring along.
Logout == Restarted /\ keyring' = NoKey /\ UNCHANGED <<service, made, sealed>>

\* KeyRevoked or KeyExpired, which read as NoEntry
Evict ==
  /\ keyring # NoKey
  /\ keyring' = NoKey
  /\ UNCHANGED <<service, caches, holder, call, past>>

Next ==
  \/ \E c \in Callers : Call(c)
  \/ Crashes \/ Logout \/ Evict

Spec == Init /\ [][Next]_vars

-----------------------------------------------------------------------------
Steps == {"idle", "look", "lock", "persistent", "legacy", "forward", "create",
          "second", "publish", "unpersisted", "seal"}

TypeOK ==
  /\ service \in Keys \cup {NoKey} /\ keyring \in Keys \cup {NoKey}
  /\ cache \in Keys \cup {NoKey} /\ recovered \in Keys \cup {NoKey}
  /\ holder \subseteq Callers
  /\ call \in [Callers -> [at : Steps, writing : BOOLEAN, key : Keys \cup {NoKey}]]
  /\ made \subseteq Keys /\ sealed \subseteq Keys /\ handed \subseteq Keys
  /\ warned \in Keys \cup {NoKey}

\* Every row that was written is under the key that the secret service holds, so
\* that it stays readable when process and session end: no store that fails to
\* answer, no write that fails and no second caller makes a key over it
\* (plan_master_key and the two caches of initialise_master_key).
SealedStaysReadable == sealed \subseteq {service}

\* "One process never hands two different keys to two callers", whatever it found
\* first and whatever has gone since (MASTER_KEY_INIT_LOCK, persist_master_key).
OneKeyHanded == \A k1, k2 \in handed : k1 = k2

\* "If this process already recovered a key, that is the key to persist": none is
\* made over one it has found in the keyring only (initialise_master_key).
RecoveredIsPersisted ==
  warned # NoKey /\ service # NoKey => service = warned
=============================================================================
