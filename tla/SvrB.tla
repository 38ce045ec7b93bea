-------------------------------- MODULE SvrB --------------------------------
(***************************************************************************)
(* Forward secrecy for backups: one client that stores, restores and       *)
(* removes the key of its backup in several enclaves, and the two places   *)
(* where it keeps what it needs for that: the metadata uploaded with the   *)
(* backup, and the secret data saved on the device for the next backup.    *)
(*                                                                         *)
(* A key stands for a Backup4 with the password salt it was made with: an  *)
(* enclave gives the key it holds to who asks with the password of that    *)
(* key, and to nobody else.  A backup file can be decrypted with either    *)
(* key of its metadata.                                                    *)
(***************************************************************************)
EXTENDS Naturals, Sequences, FiniteSets, TLC

CONSTANTS Enclaves, First, MaxKeys

ASSUME SvrBAssumption == First \in Enclaves /\ MaxKeys \in Nat

VARIABLES stored,       \* the key each enclave holds, NoKey for none
          role,         \* of each enclave, in the configuration of the client
          secret_data,  \* the secret data for the next backup
          uploaded,     \* the metadata with the backup file: << >> or its two keys
          kept,         \* the uploaded backup should be restorable (history)
          op,           \* the operation in progress
          keys          \* how many keys were made

svrbVars == <<stored, role, secret_data, uploaded, kept, op, keys>>

NoKey == 0
Keys == 1 .. MaxKeys
Current == {e \in Enclaves : role[e] = "current"}
Previous == {e \in Enclaves : role[e] = "previous"}
Deployed == Current \cup Previous

NoData == [from |-> "none", key |-> NoKey]
FromBackup(k) == [from |-> "backup", key |-> k]
FromRestore(k) == [from |-> "restore", key |-> k]

NoOperation == [at |-> "idle", prev |-> NoKey, next |-> NoKey, wrote |-> "nothing", pending |-> {},
                attempts |-> {}, error |-> "none", unreached |-> FALSE]

SvrBInit ==
    /\ stored = [e \in Enclaves |-> NoKey]
    /\ role = [e \in Enclaves |-> IF e = First THEN "current" ELSE "future"]
    /\ secret_data = NoData /\ uploaded = << >> /\ kept = FALSE
    /\ op = NoOperation /\ keys = 0

-----------------------------------------------------------------------------
(* store_backup                                                            *)

\* create_new_backup_chain, whose result is saved.  Only for the first backup:
\* when there is none that can be lost.
CreateNewBackupChain ==
    /\ op.at = "idle" /\ secret_data = NoData /\ ~ kept /\ keys < MaxKeys
    /\ secret_data' = FromBackup(keys + 1) /\ keys' = keys + 1
    /\ UNCHANGED <<stored, role, uploaded, kept, op>>

\* Faulty variant: the new key is written, not that of the last backup.
StoreBackupNewKey ==
    /\ op.at = "idle" /\ secret_data # NoData /\ keys < MaxKeys
    /\ keys' = keys + 1
    /\ op' = [NoOperation EXCEPT !.at = "finalizing", !.pending = Current, !.wrote = "all",
                                 !.prev = keys + 1, !.next = secret_data.key]
    /\ UNCHANGED <<stored, role, secret_data, uploaded, kept>>

\* store_backup up to its first await.  Data from a restore writes nothing: "keep
\* what's currently in SVRB still in SVRB".
StoreBackup ==
    /\ op.at = "idle" /\ secret_data # NoData /\ keys < MaxKeys
    /\ keys' = keys + 1
    /\ op' = IF secret_data.from = "backup"
             THEN [NoOperation EXCEPT !.at = "finalizing", !.pending = Current, !.wrote = "all",
                                      !.prev = secret_data.key, !.next = keys + 1]
             ELSE [NoOperation EXCEPT !.at = "stored", !.prev = secret_data.key, !.next = keys + 1]
    /\ UNCHANGED <<stored, role, secret_data, uploaded, kept>>

\* Whether all enclaves that answered did write (history).
Wrote(written) == IF written THEN op.wrote ELSE "some"

\* One enclave answers finalize.  The status in the answer is not looked at, so
\* a write that was refused counts as done (and the backup before is no longer
\* kept).  After the last answer the previous enclaves are told to remove.
Finalize(e, written) ==
    /\ op.at = "finalizing" /\ e \in op.pending
    /\ stored' = [stored EXCEPT ![e] = IF written THEN op.prev ELSE @]
    /\ op' = IF op.pending = {e}
             THEN [op EXCEPT !.at = "removing", !.pending = Previous, !.wrote = Wrote(written)]
             ELSE [op EXCEPT !.pending = @ \ {e}, !.wrote = Wrote(written)]
    /\ kept' = (kept /\ written)
    /\ UNCHANGED <<role, secret_data, uploaded, keys>>

\* What is in flight when its future is dropped may still have been done by the
\* enclave, or not.
Land(landed, key) == stored' = [e \in Enclaves |-> IF e \in landed THEN key ELSE stored[e]]

\* finalize fails for one enclave: the others are dropped, and store_backup ends.
FinalizeFails(landed) ==
    /\ op.at = "finalizing" /\ op.pending # {}
    /\ Land(landed, op.prev)
    /\ op' = NoOperation
    /\ UNCHANGED <<role, secret_data, uploaded, kept, keys>>

\* Errors of remove are ignored; the enclave may have done it all the same.
RemovePrevious(e, removed) ==
    /\ op.at = "removing" /\ e \in op.pending
    /\ Land(IF removed THEN {e} ELSE {}, NoKey)
    /\ op' = [op EXCEPT !.pending = @ \ {e}]
    /\ UNCHANGED <<role, secret_data, uploaded, kept, keys>>

\* store_backup returns the metadata and the next secret data.
Stored ==
    /\ op.at = "removing" /\ op.pending = {}
    /\ op' = [op EXCEPT !.at = "stored"]
    /\ UNCHANGED <<stored, role, secret_data, uploaded, kept, keys>>

\* The client uploads the backup with its metadata ...
UploadBackup ==
    /\ op.at = "stored"
    /\ op' = [op EXCEPT !.at = "uploaded"]
    /\ uploaded' = <<op.prev, op.next>>
    /\ kept' = (kept \/ op.wrote = "all")
    /\ UNCHANGED <<stored, role, secret_data, keys>>

\* ... and only then saves the secret data for the next one.
SaveSecretData ==
    /\ op.at = "uploaded"
    /\ secret_data' = FromBackup(op.next)
    /\ op' = NoOperation
    /\ UNCHANGED <<stored, role, uploaded, kept, keys>>

-----------------------------------------------------------------------------
(* restore_backup                                                          *)

\* The metadata is fetched, and every pair of it is tried with every enclave.
RestoreBackup ==
    /\ op.at = "idle" /\ uploaded # << >>
    /\ op' = [NoOperation EXCEPT !.at = "restoring", !.attempts = Deployed \X {1, 2}]
    /\ UNCHANGED <<stored, role, secret_data, uploaded, kept, keys>>

Priority == <<"DecryptionError", "AttestationError", "Protocol", "RateLimited", "Service",
              "Connect", "AllConnectionAttemptsFailed", "RestoreFailed", "DataMissing", "none">>

Rank(error) == CHOOSE i \in DOMAIN Priority : Priority[i] = error

PrioritizeError(first, second) == IF Rank(first) =< Rank(second) THEN first ELSE second

\* restore_backup_attempt with an enclave that can be reached: it has the key of
\* the pair.
RestoreSucceeds(e, i) ==
    /\ op.at = "restoring" /\ <<e, i>> \in op.attempts
    /\ stored[e] = uploaded[i]
    /\ secret_data' = FromRestore(uploaded[i])
    /\ op' = NoOperation
    /\ UNCHANGED <<stored, role, uploaded, kept, keys>>

\* Faulty variant: the first failure ends the restore.
AttemptFailsFirst(e, i, error) ==
    /\ op' = [op EXCEPT !.error = PrioritizeError(@, error), !.attempts = @ \ {<<e, i>>},
                        !.unreached = @ \/ error \notin {"RestoreFailed", "DataMissing"},
                        !.at = "failed"]
    /\ UNCHANGED <<stored, role, secret_data, uploaded, kept, keys>>

AttemptFails(e, i, error) ==
    /\ op' = [op EXCEPT !.error = PrioritizeError(@, error), !.attempts = @ \ {<<e, i>>},
                        !.unreached = @ \/ error \notin {"RestoreFailed", "DataMissing"},
                        !.at = IF op.attempts = {<<e, i>>} THEN "failed" ELSE @]
    /\ UNCHANGED <<stored, role, secret_data, uploaded, kept, keys>>

\* It has another key, or none.
RestoreRefused(e, i) ==
    /\ op.at = "restoring" /\ <<e, i>> \in op.attempts
    /\ stored[e] # uploaded[i]
    /\ AttemptFails(e, i, IF stored[e] = NoKey THEN "DataMissing" ELSE "RestoreFailed")

\* It cannot be reached.
RestoreUnreached(e, i, error) ==
    /\ op.at = "restoring" /\ <<e, i>> \in op.attempts
    /\ AttemptFails(e, i, error)

\* The client is told.
RestoreReturns ==
    /\ op.at = "failed" /\ op' = NoOperation
    /\ UNCHANGED <<stored, role, secret_data, uploaded, kept, keys>>

-----------------------------------------------------------------------------
(* remove_backup, and what happens around the client                       *)

RemoveBackup ==
    /\ op.at = "idle"
    /\ kept' = FALSE
    /\ op' = [NoOperation EXCEPT !.at = "deleting", !.pending = Deployed]
    /\ UNCHANGED <<stored, role, secret_data, uploaded, keys>>

RemoveFrom(e, removed) ==
    /\ op.at = "deleting" /\ e \in op.pending
    /\ Land(IF removed THEN {e} ELSE {}, NoKey)
    /\ op' = IF op.pending = {e} THEN NoOperation ELSE [op EXCEPT !.pending = @ \ {e}]
    /\ UNCHANGED <<role, secret_data, uploaded, kept, keys>>

\* The app is stopped, or drops the call, at any time.  With wipe the device and
\* the secret data on it are lost.
Abandon(wipe, landed) ==
    /\ op.at # "idle" \/ (wipe /\ secret_data # NoData)
    /\ Land(landed, IF op.at = "finalizing" THEN op.prev ELSE NoKey)
    /\ op' = NoOperation
    /\ secret_data' = IF wipe THEN NoData ELSE secret_data
    /\ UNCHANGED <<role, uploaded, kept, keys>>

\* Versions of the client come with other enclaves.
AddEnclave(e) ==
    /\ op.at = "idle" /\ role[e] = "future"
    /\ role' = [role EXCEPT ![e] = "current"]
    /\ UNCHANGED <<stored, secret_data, uploaded, kept, op, keys>>

Demote(e) ==
    /\ op.at = "idle" /\ role[e] = "current" /\ Current # {e}
    /\ role' = [role EXCEPT ![e] = "previous"]
    /\ UNCHANGED <<stored, secret_data, uploaded, kept, op, keys>>

\* A previous enclave is given up, if it is not the only one with data.  That the
\* others have data is not enough: they may hold another key.
Retire(e) ==
    /\ op.at = "idle" /\ role[e] = "previous"
    /\ \E d \in Deployed \ {e} : stored[d] # NoKey
    /\ role' = [role EXCEPT ![e] = "retired"]
    /\ kept' = (kept /\ (stored[e] = NoKey \/ \E d \in Deployed \ {e} : stored[d] = stored[e]))
    /\ UNCHANGED <<stored, secret_data, uploaded, op, keys>>

\* Every key was used.
Stop == keys = MaxKeys /\ op.at = "idle" /\ UNCHANGED svrbVars

SvrBNext ==
    \/ CreateNewBackupChain \/ StoreBackup \/ Stored \/ UploadBackup \/ SaveSecretData
    \/ \E e \in Enclaves, b \in BOOLEAN :
          Finalize(e, b) \/ RemovePrevious(e, b) \/ RemoveFrom(e, b)
    \/ \E landed \in SUBSET op.pending :
          FinalizeFails(landed) \/ \E wipe \in BOOLEAN : Abandon(wipe, landed)
    \/ RestoreBackup \/ RestoreReturns
    \/ \E e \in Enclaves, i \in {1, 2} :
          \/ RestoreSucceeds(e, i) \/ RestoreRefused(e, i)
          \/ \E error \in {"RateLimited", "Connect"} : RestoreUnreached(e, i, error)
    \/ RemoveBackup
    \/ \E e \in Enclaves : AddEnclave(e) \/ Demote(e) \/ Retire(e)
    \/ Stop

SvrBSpec == SvrBInit /\ [][SvrBNext]_svrbVars

\* The enclaves other than the first one are interchangeable.
LaterEnclaves == Permutations(Enclaves \ {First})

-----------------------------------------------------------------------------
(* Properties                                                              *)

Errors == {"DecryptionError", "AttestationError", "Protocol", "RateLimited", "Service", "Connect",
           "AllConnectionAttemptsFailed", "RestoreFailed", "DataMissing", "none"}

Operations ==
    [at : {"idle", "finalizing", "removing", "stored", "uploaded", "restoring", "failed", "deleting"},
     prev : {NoKey} \cup Keys, next : {NoKey} \cup Keys, wrote : {"nothing", "some", "all"},
     pending : SUBSET Enclaves, attempts : SUBSET (Enclaves \X {1, 2}),
     error : Errors, unreached : BOOLEAN]

SvrBTypeOK ==
    /\ stored \in [Enclaves -> {NoKey} \cup Keys]
    /\ role \in [Enclaves -> {"future", "current", "previous", "retired"}]
    /\ secret_data \in {NoData} \cup [from : {"backup", "restore"}, key : Keys]
    /\ uploaded \in {<< >>} \cup (Keys \X Keys)
    /\ kept \in BOOLEAN /\ keys \in {NoKey} \cup Keys
    /\ op \in Operations

\* Some enclave that is asked holds a key of the metadata.
Recoverable(metadata) == \E e \in Deployed : stored[e] = metadata[1] \/ stored[e] = metadata[2]

\* "restore should succeed": wherever storing was interrupted, on whatever enclave
\* a write failed or was done unnoticed, and whenever the device was lost, the
\* backup uploaded last can be decrypted with what some enclave holds.
LatestRestorable == kept => Recoverable(uploaded)

\* restore_backup fails for an uploaded backup only if an enclave was not reached:
\* trying both keys with all enclaves finds it otherwise.
RestoreFindsIt == op.at = "failed" /\ kept => op.unreached

\* When store_backup returns and no write was refused, each current enclave alone is enough
\* to restore the backup that is about to be uploaded.
EachCurrentSuffices ==
    op.at = "stored" /\ op.wrote = "all" => \A e \in Current : stored[e] \in {op.prev, op.next}
=============================================================================
