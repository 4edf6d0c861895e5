---------------------------- MODULE SecretManager ----------------------------
(***************************************************************************)
(* SecretManager (src/security/secrets.rs): the master key, the versions   *)
(* of the key and the secrets encrypted with them, behind one lock each.   *)
(*                                                                         *)
(* Every lock taken is a step; "holds" says which locks a thread has.  A   *)
(* key is the version it was made for and the rotation that made it, a     *)
(* secret the key it is encrypted with and the version it is labelled      *)
(* with.  Values, nonces and times are left out.                           *)
(***************************************************************************)
EXTENDS Integers, FiniteSets, FiniteSetsExt

CONSTANTS Threads,
          Names,           \* of secrets
          InEnvironment,   \* the names the environment has a value for
          MaxCalls,        \* bound on the calls made
          NoSecret

\* A secret that is missing is no secret.
ASSUME SecretAssumption ==
  NoSecret \notin
    [key : [version : Nat, maker : Threads \cup {"environment"}], version : Nat]

VARIABLES master_key, key_versions,
          secrets,         \* NoSecret for a name not in the store
          thread,          \* [op, at, name, key, version] of a thread
          holds,           \* the locks of a thread: <<lock, "read">> or <<lock, "write">>
          calls,
          overlapped       \* history: a rotation began while another was under way

secretVars == <<master_key, key_versions, secrets, thread, holds, calls, overlapped>>

Key(version, maker) == [version |-> version, maker |-> maker]
\* read_master_key, :66-90.
FirstKey == Key(1, "environment")
Resting == [op |-> "none", at |-> "idle", name |-> NoSecret, key |-> FirstKey, version |-> 1]

\* :114-130.
SecretInit ==
  /\ master_key = FirstKey
  /\ key_versions = [v \in {1} |-> FirstKey]
  /\ secrets = [n \in Names |-> NoSecret]
  /\ thread = [t \in Threads |-> Resting]
  /\ holds = [t \in Threads |-> {}]
  /\ calls = 0
  /\ overlapped = FALSE

----------------------------------------------------------------------------
(* Locks.                                                                   *)

\* A reader waits for the writer of a lock and a writer for everybody, the thread
\* itself included: the locks are not reentrant.
CanRead(lock) == \A t \in Threads : <<lock, "write">> \notin holds[t]
CanWrite(lock) == CanRead(lock) /\ \A t \in Threads : <<lock, "read">> \notin holds[t]

At(t, op, at) == thread[t].op = op /\ thread[t].at = at
Move(t, at) == thread' = [thread EXCEPT ![t].at = at]
Take(t, lock, mode) == holds' = [holds EXCEPT ![t] = @ \cup {<<lock, mode>>}]

\* The call returns and its guards are dropped.
Leave(t) ==
  /\ thread' = [thread EXCEPT ![t] = Resting]
  /\ holds' = [holds EXCEPT ![t] = {}]

Rotating == {t \in Threads : thread[t].op = "rotate"}

Begin(t, op, name) ==
  /\ At(t, "none", "idle") /\ calls < MaxCalls
  /\ calls' = calls + 1
  /\ thread' = [thread EXCEPT ![t].op = op, ![t].at = "begun", ![t].name = name]
  /\ overlapped' = (overlapped \/ (op = "rotate" /\ Rotating # {}))
  /\ UNCHANGED <<master_key, key_versions, secrets, holds>>

----------------------------------------------------------------------------
(* load_secret, :138-180, and store_secret, :282-298.                       *)

\* encrypt_secret_payload labels every secret version 1 (crypto.rs:159).
Encrypted == [key |-> master_key, version |-> 1]

Inserting(t) == thread[t].op = "store" \/ thread[t].name \in InEnvironment

LockMaster(t) ==
  /\ thread[t].op \in {"load", "store"} /\ thread[t].at = "begun"
  /\ CanRead("master_key")
  /\ Take(t, "master_key", "read")
  /\ Move(t, IF Inserting(t) THEN "insert" ELSE "find")
  /\ UNCHANGED <<master_key, key_versions, secrets, calls, overlapped>>

\* :141-155, :284-297; the master key is still held, and cannot have changed.
InsertSecret(t) ==
  /\ thread[t].at = "insert" /\ CanWrite("secrets")
  /\ secrets' = [secrets EXCEPT ![thread[t].name] = Encrypted]
  /\ Leave(t)
  /\ UNCHANGED <<master_key, key_versions, calls, overlapped>>

\* :158-159.
FindSecret(t) ==
  /\ At(t, "load", "find") /\ CanRead("secrets")
  /\ IF secrets[thread[t].name] = NoSecret THEN Leave(t)
     ELSE Take(t, "secrets", "read") /\ Move(t, "decrypt")
  /\ UNCHANGED <<master_key, key_versions, secrets, calls, overlapped>>

\* :160-173; whether it decrypts or not, the call returns.
DecryptFound(t) ==
  /\ At(t, "load", "decrypt") /\ CanRead("key_versions")
  /\ Leave(t)
  /\ UNCHANGED <<master_key, key_versions, secrets, calls, overlapped>>

\* :300-312.
RemoveSecret(t) ==
  /\ At(t, "remove", "begun") /\ CanWrite("secrets")
  /\ secrets' = [secrets EXCEPT ![thread[t].name] = NoSecret]
  /\ Leave(t)
  /\ UNCHANGED <<master_key, key_versions, calls, overlapped>>

\* needs_rotation, :268-280.
SecretsAge(t) ==
  /\ At(t, "age", "begun") /\ CanRead("secrets")
  /\ Leave(t)
  /\ UNCHANGED <<master_key, key_versions, secrets, calls, overlapped>>

----------------------------------------------------------------------------
(* rotate_secrets, :203-266.                                                *)

\* :206-214.
ReadVersion(t) ==
  /\ At(t, "rotate", "begun") /\ CanRead("key_versions")
  /\ LET version == Max(DOMAIN key_versions) + 1
     IN  thread' = [thread EXCEPT ![t].at = "master", ![t].version = version,
                                  ![t].key = Key(version, t)]
  /\ UNCHANGED <<master_key, key_versions, secrets, holds, calls, overlapped>>

\* Faulty variant: a copy of the master key is replaced.
ReplaceMasterCopy(t) ==
  /\ At(t, "rotate", "master") /\ CanWrite("master_key")
  /\ Move(t, "versions")
  /\ UNCHANGED <<master_key, key_versions, secrets, holds, calls, overlapped>>

\* :216-225, in one critical section.
ReplaceMaster(t) ==
  /\ At(t, "rotate", "master") /\ CanWrite("master_key")
  /\ master_key' = thread[t].key
  /\ Move(t, "versions")
  /\ UNCHANGED <<key_versions, secrets, holds, calls, overlapped>>

\* Faulty variant: the versions that came before are forgotten.
InsertVersionAlone(t) ==
  /\ At(t, "rotate", "versions") /\ CanWrite("key_versions")
  /\ key_versions' = [v \in {thread[t].version} |-> thread[t].key]
  /\ Take(t, "key_versions", "write")
  /\ Move(t, "secrets")
  /\ UNCHANGED <<master_key, secrets, calls, overlapped>>

\* :227-228; the lock is kept to the end.
InsertVersion(t) ==
  /\ At(t, "rotate", "versions") /\ CanWrite("key_versions")
  /\ key_versions' = [v \in DOMAIN key_versions \cup {thread[t].version} |->
                        IF v = thread[t].version THEN thread[t].key ELSE key_versions[v]]
  /\ Take(t, "key_versions", "write")
  /\ Move(t, "secrets")
  /\ UNCHANGED <<master_key, secrets, calls, overlapped>>

\* :231.
LockSecrets(t) ==
  /\ At(t, "rotate", "secrets") /\ CanWrite("secrets")
  /\ Take(t, "secrets", "write")
  /\ Move(t, "re-encrypt")
  /\ UNCHANGED <<master_key, key_versions, secrets, calls, overlapped>>

Stored == {n \in Names : secrets[n] # NoSecret}

\* Faulty variant: the last lock is asked for even when there is nothing to do.
ReEncryptEager(t) ==
  /\ At(t, "rotate", "re-encrypt")
  /\ CanRead("key_versions")
  /\ Leave(t)
  /\ UNCHANGED <<master_key, key_versions, secrets, calls, overlapped>>

\* :234-259.  A secret that decrypts with version 1 is encrypted anew; but the first
\* secret asks for key_versions, :238, which this thread holds for writing.
ReEncrypt(t) ==
  /\ At(t, "rotate", "re-encrypt")
  /\ Stored # {} => CanRead("key_versions")
  /\ secrets' = [n \in Names |->
       IF n \in Stored /\ secrets[n].key = key_versions[1]
       THEN [key |-> master_key, version |-> thread[t].version] ELSE secrets[n]]
  /\ Leave(t)
  /\ UNCHANGED <<master_key, key_versions, calls, overlapped>>

----------------------------------------------------------------------------
ThreadStep(t) ==
  \/ LockMaster(t) \/ InsertSecret(t) \/ FindSecret(t) \/ DecryptFound(t) \/ RemoveSecret(t)
  \/ SecretsAge(t)
  \/ ReadVersion(t) \/ ReplaceMaster(t) \/ InsertVersion(t) \/ LockSecrets(t) \/ ReEncrypt(t)

SecretNext ==
  \E t \in Threads :
    \/ ThreadStep(t)
    \/ \E op \in {"rotate", "age"} : Begin(t, op, NoSecret)
    \/ \E op \in {"load", "store", "remove"}, n \in Names : Begin(t, op, n)

SecretSpec == SecretInit /\ [][SecretNext]_secretVars

\* A thread that is not blocked goes on.
SecretFairness == \A t \in Threads : WF_secretVars(ThreadStep(t))

----------------------------------------------------------------------------
(* Properties.                                                              *)

\* decrypt_secret, :187-201, succeeds: the version a secret is labelled with is there.
Readable(s) == s.version \in DOMAIN key_versions /\ key_versions[s.version] = s.key

\* What is stored under the first key stays readable through every rotation, and
\* what is stored under a later one never is, as it is labelled version 1.
SecretsReadable == \A n \in Stored : Readable(secrets[n]) <=> secrets[n].key = FirstKey

\* Between rotations the master key is the latest version, with one exception: two
\* rotations that overlap may draw one number, or swap the order of their keys.
MasterIsLatest ==
  Rotating = {} /\ ~overlapped => master_key = key_versions[Max(DOMAIN key_versions)]

\* A rotation of an empty store ends, and nobody else is held up: every call ends
\* but for a rotation that finds a secret, and those that meet its locks (:238).
SelfLocked == \E t \in Threads : At(t, "rotate", "re-encrypt") /\ Stored # {}
CrossLocked == \E t, u \in Threads : At(t, "rotate", "secrets") /\ At(u, "load", "decrypt")

CallsEnd ==
  \A t \in Threads : thread[t].op # "none" ~> thread[t].op = "none" \/ SelfLocked \/ CrossLocked
=============================================================================
