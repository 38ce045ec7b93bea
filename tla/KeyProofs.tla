------------------------------ MODULE KeyProofs -------------------------------
(***************************************************************************)
(* Proofs about two components that must keep a key exactly as long as it  *)
(* is needed: SvrB, for any number of enclaves, backups, restores,         *)
(* interruptions and lost devices, and ReceiverChain, for every value of   *)
(* the limits.                                                             *)
(*                                                                         *)
(* That the latest backup can be restored needs how far the operation in   *)
(* progress has come in each enclave (SvrBInv); that a message is          *)
(* decrypted at most once needs how the chain index, the cached keys and   *)
(* the plaintexts fit together (IInv).                                     *)
(***************************************************************************)
EXTENDS ReceiverChain, SvrB, TLAPS

USE SMTT(30)

-----------------------------------------------------------------------------
(* Secure value recovery for backups                                       *)

HoldsKey(k) == \E e \in Deployed : stored[e] = k

Storing == {"finalizing", "removing", "stored", "uploaded"}

\* What is saved on the device is a key of the uploaded backup; if it came from a
\* restore then an enclave still holds it, so a backup that writes nothing is safe.
SavedInv ==
    kept =>
        /\ uploaded \in Keys \X Keys
        /\ Recoverable(uploaded)
        /\ secret_data # NoData => secret_data.key \in {uploaded[1], uploaded[2]}
        /\ secret_data.from = "restore" => HoldsKey(secret_data.key)

\* How far the operation in progress has come, in each enclave.
OpInv ==
    /\ op.at \in Storing => /\ secret_data # NoData /\ op.prev = secret_data.key
                            /\ op.prev \in Keys /\ op.next \in Keys
                            /\ op.wrote # "nothing" <=> secret_data.from = "backup"
                            /\ kept => op.wrote # "some"
    /\ op.at \in {"finalizing", "removing"} => op.wrote # "nothing"
    /\ op.at = "finalizing" => op.pending \subseteq Current
    /\ op.at = "finalizing" /\ op.wrote = "all" =>
           \A e \in Current \ op.pending : stored[e] = op.prev
    /\ op.at = "removing" => op.pending \subseteq Previous
    /\ op.at \in {"removing", "stored", "uploaded"} /\ op.wrote = "all" =>
           \A e \in Current : stored[e] = op.prev
    /\ op.at = "uploaded" => uploaded = <<op.prev, op.next>>
    /\ op.at = "deleting" => ~ kept
    /\ op.at \notin {"finalizing", "removing", "deleting"} => op.pending = {}

\* An attempt that would succeed is still to be answered, unless an enclave was
\* not reached.
RestoreInv ==
    /\ op.at = "restoring" => /\ uploaded \in Keys \X Keys
                              /\ op.attempts \subseteq Deployed \X {1, 2}
    /\ op.at \in {"restoring", "failed"} /\ ~ op.unreached =>
           \A e \in Deployed, i \in {1, 2} : stored[e] = uploaded[i] => <<e, i>> \in op.attempts
    /\ op.at = "failed" => op.attempts = {}

SvrBInv == SvrBTypeOK /\ Current # {} /\ SavedInv /\ OpInv /\ RestoreInv

\* The operation in progress is a record of its kind, and so is each that follows.
LEMMA IdleType == NoOperation \in Operations
BY DEF NoOperation, Operations, Errors

LEMMA OperationFields ==
    ASSUME NEW o \in Operations
    PROVE  /\ o.pending \subseteq Enclaves /\ o.attempts \subseteq Enclaves \X {1, 2}
           /\ o.wrote \in {"nothing", "some", "all"} /\ o.unreached \in BOOLEAN /\ o.error \in Errors
           /\ o.prev \in {NoKey} \cup Keys /\ o.next \in {NoKey} \cup Keys
BY DEF Operations

\* The error that is kept is one of the two.
LEMMA PrioritizeType ==
    ASSUME NEW a \in Errors, NEW b \in Errors PROVE PrioritizeError(a, b) \in Errors
BY DEF PrioritizeError

\* The deployed enclaves follow from the roles.
LEMMA RolesDecide ==
    ASSUME role' = role
    PROVE  Current' = Current /\ Previous' = Previous /\ Deployed' = Deployed
BY DEF Current, Previous, Deployed

\* An enclave is current or previous, not both.
LEMMA CurrentNotPrevious ==
    /\ Current \cap Previous = {} /\ Current \subseteq Deployed /\ Deployed \subseteq Enclaves
    /\ Previous \subseteq Deployed
BY DEF Current, Previous, Deployed

\* The initial state.
LEMMA InitHolds == SvrBInit => SvrBInv
<1> SUFFICES ASSUME SvrBInit PROVE SvrBInv
  OBVIOUS
<1>1. SvrBTypeOK
  BY SvrBAssumption, IdleType, Zenon DEF SvrBInit, SvrBTypeOK, NoKey
<1>2. First \in Current
  BY SvrBAssumption DEF SvrBInit, Current
<1> QED  BY <1>1, <1>2 DEF SvrBInit, SvrBInv, SavedInv, OpInv, RestoreInv, NoOperation, Storing

\* Steps that begin a backup or end one.
LEMMA StoreSteps ==
    ASSUME SvrBInv, CreateNewBackupChain \/ StoreBackup \/ Stored \/ UploadBackup \/ SaveSecretData
    PROVE  SvrBInv'
<1> USE RolesDecide, CurrentNotPrevious, SvrBAssumption
<1>1. CASE CreateNewBackupChain
  <2>1. SvrBTypeOK'
    BY <1>1 DEF CreateNewBackupChain, SvrBInv, SvrBTypeOK, Keys, NoKey, FromBackup
  <2> QED  BY <1>1, <2>1 DEF CreateNewBackupChain, SvrBInv, SavedInv, OpInv, RestoreInv, Storing,
                             Recoverable, HoldsKey, FromBackup
<1>2. CASE StoreBackup
  <2>1. secret_data.key \in Keys /\ keys + 1 \in Keys /\ secret_data.from \in {"backup", "restore"}
    BY <1>2 DEF StoreBackup, SvrBInv, SvrBTypeOK, Keys, NoKey
  <2>2. op' \in Operations
    BY <1>2, <2>1, Zenon DEF StoreBackup, NoOperation, Operations, Errors, Current
  <2>3. SvrBTypeOK'
    BY <1>2, <2>1, <2>2 DEF StoreBackup, SvrBInv, SvrBTypeOK
  <2>4. SavedInv' /\ Current' # {}
    BY <1>2 DEF StoreBackup, SvrBInv, SavedInv, Recoverable, HoldsKey
  <2>5. OpInv' /\ RestoreInv'
    BY <1>2, <2>1 DEF StoreBackup, OpInv, RestoreInv, Storing, NoOperation
  <2> QED  BY <2>3, <2>4, <2>5 DEF SvrBInv
<1>3. CASE Stored
  <2>1. op' \in Operations
    BY <1>3 DEF Stored, Operations, SvrBInv, SvrBTypeOK
  <2>2. op'.at = "stored" /\ op'.pending = {} /\ op'.prev = op.prev /\ op'.next = op.next
        /\ op'.wrote = op.wrote
    BY <1>3 DEF Stored, Operations, SvrBInv, SvrBTypeOK
  <2>3. SvrBTypeOK' /\ SavedInv' /\ Current' # {}
    BY <1>3, <2>1 DEF Stored, SvrBInv, SvrBTypeOK, SavedInv, Recoverable, HoldsKey
  <2>4. OpInv' /\ RestoreInv'
    BY <1>3, <2>2 DEF Stored, SvrBInv, OpInv, RestoreInv, Storing
  <2> QED  BY <2>3, <2>4 DEF SvrBInv
<1>4. CASE UploadBackup
  <2>1. op' \in Operations
    BY <1>4 DEF UploadBackup, Operations, SvrBInv, SvrBTypeOK
  <2>2. op'.at = "uploaded" /\ op'.pending = op.pending /\ op'.prev = op.prev
        /\ op'.next = op.next /\ op'.wrote = op.wrote
    BY <1>4 DEF UploadBackup, Operations, SvrBInv, SvrBTypeOK
  <2>3. secret_data # NoData /\ op.prev = secret_data.key /\ op.prev \in Keys /\ op.next \in Keys
        /\ (op.wrote # "nothing" <=> secret_data.from = "backup") /\ op.pending = {}
        /\ (kept => op.wrote # "some") /\ op.wrote \in {"nothing", "some", "all"}
        /\ secret_data.from \in {"backup", "restore"}
    BY <1>4, OperationFields DEF UploadBackup, SvrBInv, OpInv, Storing, SvrBTypeOK
  <2>4. SvrBTypeOK' /\ Current' # {}
    BY <1>4, <2>1, <2>3 DEF UploadBackup, SvrBInv, SvrBTypeOK
  <2>5. kept' => HoldsKey(op.prev)'
    <3>1. CASE op.wrote = "all"
      BY <1>4, <3>1 DEF UploadBackup, SvrBInv, OpInv, HoldsKey
    <3>2. CASE op.wrote # "all"
      <4>1. kept' => kept
        BY <1>4, <3>2, Zenon DEF UploadBackup
      <4>2. kept => secret_data.from = "restore"
        BY <2>3, <3>2
      <4> QED  BY <1>4, <2>3, <4>1, <4>2 DEF UploadBackup, SvrBInv, SavedInv, HoldsKey
    <3> QED  BY <3>1, <3>2
  <2>6. SavedInv'
    BY <1>4, <2>3, <2>5 DEF UploadBackup, SavedInv, Recoverable, HoldsKey
  <2>7. OpInv' /\ RestoreInv'
    BY <1>4, <2>2, <2>3, Zenon DEF UploadBackup, SvrBInv, OpInv, RestoreInv, Storing
  <2> QED  BY <2>4, <2>6, <2>7 DEF SvrBInv
<1>5. CASE SaveSecretData
  <2>1. op.next \in Keys /\ uploaded = <<op.prev, op.next>>
    BY <1>5 DEF SaveSecretData, SvrBInv, OpInv, Storing
  <2>2. SvrBTypeOK' /\ Current' # {}
    BY <1>5, <2>1, IdleType DEF SaveSecretData, SvrBInv, SvrBTypeOK, FromBackup
  <2>3. SavedInv'
    BY <1>5, <2>1 DEF SaveSecretData, SvrBInv, SavedInv, Recoverable, HoldsKey, FromBackup
  <2>4. OpInv' /\ RestoreInv'
    BY <1>5 DEF SaveSecretData, OpInv, RestoreInv, Storing, NoOperation
  <2> QED  BY <2>2, <2>3, <2>4 DEF SvrBInv
<1> QED  BY <1>1, <1>2, <1>3, <1>4, <1>5

\* Writes of the key of the last backup to current enclaves, noticed or not.
LEMMA WriteKeeps ==
    ASSUME SvrBInv, op.at = "finalizing", NEW landed \in SUBSET op.pending, Land(landed, op.prev),
           UNCHANGED <<role, uploaded>>, kept' => kept, secret_data' \in {secret_data, NoData}
    PROVE  SavedInv' /\ stored' \in [Enclaves -> {NoKey} \cup Keys]
<1> USE RolesDecide, CurrentNotPrevious
<1>1. landed \subseteq Current /\ op.prev = secret_data.key /\ op.prev \in Keys
      /\ secret_data # NoData /\ secret_data.from = "backup"
  BY DEF SvrBInv, OpInv, Storing
<1>2. stored' \in [Enclaves -> {NoKey} \cup Keys]
  BY <1>1 DEF Land, SvrBInv, SvrBTypeOK
<1>3. ASSUME kept PROVE Recoverable(uploaded)'
  <2>1. CASE landed = {}
    BY <1>3, <2>1 DEF Land, SvrBInv, SavedInv, Recoverable
  <2>2. CASE landed # {}
    <3>1. PICK e \in landed : TRUE
      BY <2>2
    <3>2. stored'[e] = op.prev /\ e \in Deployed'
      BY <1>1, <3>1 DEF Land
    <3> QED  BY <1>1, <1>3, <3>2 DEF SvrBInv, SavedInv, Recoverable
  <2> QED  BY <2>1, <2>2
<1>4. SavedInv'
  BY <1>1, <1>3 DEF SvrBInv, SavedInv, NoData
<1> QED  BY <1>2, <1>4

\* Removals from previous enclaves after all current ones were written.
LEMMA RemoveKeeps ==
    ASSUME SvrBInv, op.at = "removing", NEW landed \in SUBSET op.pending, Land(landed, NoKey),
           UNCHANGED <<role, uploaded>>, kept' => kept, secret_data' \in {secret_data, NoData}
    PROVE  /\ SavedInv' /\ stored' \in [Enclaves -> {NoKey} \cup Keys]
           /\ op.wrote = "all" => \A e \in Current : stored'[e] = op.prev
<1> USE RolesDecide, CurrentNotPrevious
<1>1. landed \subseteq Previous /\ op.prev = secret_data.key /\ op.prev \in Keys
      /\ secret_data # NoData /\ secret_data.from = "backup" /\ Current # {}
      /\ (op.wrote = "all" => \A e \in Current : stored[e] = op.prev)
  BY DEF SvrBInv, OpInv, Storing
<1>2. stored' \in [Enclaves -> {NoKey} \cup Keys]
  BY DEF Land, SvrBInv, SvrBTypeOK
<1>3. op.wrote = "all" => \A e \in Current : stored'[e] = op.prev
  BY <1>1 DEF Land
<1>4. ASSUME kept PROVE Recoverable(uploaded)'
  <2>1. op.wrote = "all"
    BY <1>4, OperationFields, Zenon DEF SvrBInv, SvrBTypeOK, OpInv, Storing
  <2> QED  BY <1>1, <1>3, <1>4, <2>1 DEF SvrBInv, SavedInv, Recoverable
<1>5. SavedInv'
  BY <1>1, <1>4 DEF SvrBInv, SavedInv, NoData
<1> QED  BY <1>2, <1>3, <1>5

\* Steps that write to an enclave or remove from it.
LEMMA EnclaveSteps ==
    ASSUME SvrBInv, NEW e \in Enclaves, NEW b \in BOOLEAN,
           Finalize(e, b) \/ RemovePrevious(e, b) \/ RemoveFrom(e, b)
    PROVE  SvrBInv'
<1> USE RolesDecide, CurrentNotPrevious
<1>1. CASE Finalize(e, b)
  <2>1. Land(IF b THEN {e} ELSE {}, op.prev)
    BY <1>1, Zenon DEF Finalize, Land, SvrBInv, SvrBTypeOK
  <2>2. SavedInv' /\ stored' \in [Enclaves -> {NoKey} \cup Keys]
    <3>1. (IF b THEN {e} ELSE {}) \in SUBSET op.pending
      BY <1>1 DEF Finalize
    <3> QED  BY <1>1, <2>1, <3>1, WriteKeeps, Zenon DEF Finalize
  <2>3. op' \in Operations
    BY <1>1, Zenon DEF Finalize, Wrote, SvrBInv, SvrBTypeOK, Operations
  <2>4. op'.prev = op.prev /\ op'.next = op.next /\ op'.wrote = Wrote(b)
        /\ \/ op.pending = {e} /\ op'.at = "removing" /\ op'.pending = Previous
           \/ op.pending # {e} /\ op'.at = "finalizing" /\ op'.pending = op.pending \ {e}
    BY <1>1 DEF Finalize, SvrBInv, SvrBTypeOK, Operations
  <2>5. Wrote(b) = "all" => \A d \in Current \ (op.pending \ {e}) : stored'[d] = op.prev
    BY <1>1, <2>1 DEF Finalize, Wrote, Land, SvrBInv, OpInv
  <2>6. Wrote(b) # "nothing" /\ (kept' => Wrote(b) # "some")
    BY <1>1, Zenon DEF Finalize, Wrote, SvrBInv, OpInv, Storing
  <2>7. OpInv'
    BY <1>1, <2>4, <2>5, <2>6 DEF Finalize, SvrBInv, OpInv, Storing
  <2> QED  BY <1>1, <2>2, <2>3, <2>4, <2>7 DEF Finalize, SvrBInv, SvrBTypeOK, RestoreInv
<1>2. CASE RemovePrevious(e, b)
  <2>1. PICK landed \in SUBSET op.pending : Land(landed, NoKey)
    BY <1>2 DEF RemovePrevious
  <2>2. /\ SavedInv' /\ stored' \in [Enclaves -> {NoKey} \cup Keys]
        /\ op.wrote = "all" => \A d \in Current : stored'[d] = op.prev
    BY <1>2, <2>1, RemoveKeeps DEF RemovePrevious
  <2>3. op' \in Operations
    BY <1>2 DEF RemovePrevious, SvrBInv, SvrBTypeOK, Operations
  <2>4. op'.prev = op.prev /\ op'.next = op.next /\ op'.wrote = op.wrote
        /\ op'.at = "removing" /\ op'.pending = op.pending \ {e}
    BY <1>2 DEF RemovePrevious, SvrBInv, SvrBTypeOK, Operations
  <2>5. OpInv'
    BY <1>2, <2>2, <2>4 DEF RemovePrevious, SvrBInv, OpInv, Storing
  <2> QED  BY <1>2, <2>2, <2>3, <2>4, <2>5 DEF RemovePrevious, SvrBInv, SvrBTypeOK, RestoreInv
<1>3. CASE RemoveFrom(e, b)
  <2>1. stored' \in [Enclaves -> {NoKey} \cup Keys] /\ ~ kept /\ ~ kept'
    BY <1>3 DEF RemoveFrom, Land, SvrBInv, SvrBTypeOK, OpInv
  <2>2. op' \in Operations
    BY <1>3, IdleType DEF RemoveFrom, SvrBInv, SvrBTypeOK, Operations
  <2>3. op' = NoOperation \/ op'.at = "deleting"
    BY <1>3 DEF RemoveFrom, SvrBInv, SvrBTypeOK, Operations
  <2>4. OpInv' /\ RestoreInv'
    BY <2>1, <2>3 DEF OpInv, RestoreInv, Storing, NoOperation
  <2> QED  BY <1>3, <2>1, <2>2, <2>4 DEF RemoveFrom, SvrBInv, SvrBTypeOK, SavedInv
<1> QED  BY <1>1, <1>2, <1>3

\* Calls that end early, with what was in flight done or not.
LEMMA InterruptedSteps ==
    ASSUME SvrBInv, NEW landed \in SUBSET op.pending,
           FinalizeFails(landed) \/ \E wipe \in BOOLEAN : Abandon(wipe, landed)
    PROVE  SvrBInv'
<1> USE RolesDecide, CurrentNotPrevious
<1>1. /\ op' = NoOperation /\ UNCHANGED <<role, uploaded, kept, keys>>
      /\ secret_data' \in {secret_data, NoData}
      /\ Land(landed, IF op.at = "finalizing" THEN op.prev ELSE NoKey)
  BY DEF FinalizeFails, Abandon
<1>2. SavedInv' /\ stored' \in [Enclaves -> {NoKey} \cup Keys]
  <2>1. CASE op.at = "finalizing"
    BY <1>1, <2>1, WriteKeeps
  <2>2. CASE op.at = "removing"
    BY <1>1, <2>2, RemoveKeeps
  <2>3. CASE op.at = "deleting"
    BY <1>1, <2>3 DEF Land, SvrBInv, SvrBTypeOK, OpInv, SavedInv
  <2>4. CASE op.at \notin {"finalizing", "removing", "deleting"}
    <3>1. stored' = stored
      BY <1>1, <2>4 DEF Land, SvrBInv, OpInv, SvrBTypeOK
    <3> QED  BY <1>1, <3>1 DEF SvrBInv, SvrBTypeOK, SavedInv, Recoverable, HoldsKey, NoData
  <2> QED  BY <2>1, <2>2, <2>3, <2>4
<1>3. SvrBTypeOK'
  BY <1>1, <1>2, IdleType DEF SvrBInv, SvrBTypeOK
<1>4. OpInv' /\ RestoreInv'
  BY <1>1 DEF OpInv, RestoreInv, Storing, NoOperation
<1> QED  BY <1>1, <1>2, <1>3, <1>4 DEF SvrBInv

\* A failed attempt goes; the others stay.
LEMMA FailedAttempt ==
    ASSUME SvrBInv, NEW e \in Enclaves, NEW i \in {1, 2}, NEW error \in Errors,
           op.at = "restoring", <<e, i>> \in op.attempts, AttemptFails(e, i, error),
           stored[e] # uploaded[i] \/ error \notin {"RestoreFailed", "DataMissing"}
    PROVE  SvrBInv'
<1> USE RolesDecide, CurrentNotPrevious
<1>1. op' \in Operations
  <2>1. op \in Operations
    BY DEF SvrBInv, SvrBTypeOK
  <2>2. PrioritizeError(op.error, error) \in Errors
    BY <2>1, OperationFields, PrioritizeType
  <2> QED  BY <2>1, <2>2, Zenon DEF AttemptFails, Operations
<1>2. /\ op'.pending = op.pending /\ op'.attempts = op.attempts \ {<<e, i>>}
      /\ op'.unreached = (op.unreached \/ error \notin {"RestoreFailed", "DataMissing"})
      /\ \/ op'.at = "restoring"
         \/ op'.at = "failed" /\ op'.attempts = {}
  BY DEF AttemptFails, SvrBInv, SvrBTypeOK, Operations
<1>3. SvrBTypeOK' /\ Current' # {} /\ SavedInv'
  BY <1>1 DEF AttemptFails, SvrBInv, SvrBTypeOK, SavedInv, Recoverable, HoldsKey
<1>4. OpInv'
  BY <1>2 DEF AttemptFails, SvrBInv, OpInv, Storing
<1>5. ASSUME ~ op'.unreached, NEW d \in Deployed, NEW j \in {1, 2}, stored[d] = uploaded[j]
      PROVE  <<d, j>> \in op'.attempts
  <2>1. ~ op.unreached /\ stored[e] # uploaded[i]
    BY <1>2, <1>5, Zenon
  <2>2. <<d, j>> \in op.attempts
    BY <1>5, <2>1, Zenon DEF SvrBInv, RestoreInv
  <2> QED  BY <1>2, <1>5, <2>1, <2>2
<1>6. RestoreInv'
  BY <1>2, <1>5 DEF AttemptFails, SvrBInv, RestoreInv
<1> QED  BY <1>3, <1>4, <1>6 DEF SvrBInv

\* Steps of a restore.
LEMMA RestoreSteps ==
    ASSUME SvrBInv, NEW e \in Enclaves, NEW i \in {1, 2},
           \/ RestoreBackup \/ RestoreReturns \/ RestoreSucceeds(e, i) \/ RestoreRefused(e, i)
           \/ \E error \in {"RateLimited", "Connect"} : RestoreUnreached(e, i, error)
    PROVE  SvrBInv'
<1> USE RolesDecide, CurrentNotPrevious
<1>1. CASE RestoreBackup
  <2>1. op' \in Operations
    BY <1>1, Zenon DEF RestoreBackup, NoOperation, Operations, Errors, NoKey
  <2>2. op'.at = "restoring" /\ op'.pending = {} /\ op'.attempts = Deployed \X {1, 2}
    BY <1>1 DEF RestoreBackup, NoOperation
  <2>3. SvrBTypeOK' /\ Current' # {} /\ SavedInv' /\ uploaded' \in Keys \X Keys
    BY <1>1, <2>1 DEF RestoreBackup, SvrBInv, SvrBTypeOK, SavedInv, Recoverable, HoldsKey
  <2>4. OpInv' /\ RestoreInv'
    BY <1>1, <2>2, <2>3 DEF RestoreBackup, OpInv, RestoreInv, Storing
  <2> QED  BY <2>3, <2>4 DEF SvrBInv
<1>2. CASE RestoreReturns
  <2>1. OpInv' /\ RestoreInv'
    BY <1>2 DEF RestoreReturns, OpInv, RestoreInv, Storing, NoOperation
  <2> QED  BY <1>2, <2>1, IdleType DEF RestoreReturns, SvrBInv, SvrBTypeOK, SavedInv, Recoverable, HoldsKey
<1>3. CASE RestoreSucceeds(e, i)
  <2>1. /\ op.at = "restoring" /\ <<e, i>> \in op.attempts /\ stored[e] = uploaded[i]
        /\ secret_data' = [from |-> "restore", key |-> uploaded[i]] /\ op' = NoOperation
        /\ UNCHANGED <<stored, role, uploaded, kept, keys>>
    BY <1>3 DEF RestoreSucceeds, FromRestore
  <2>2. e \in Deployed /\ uploaded \in Keys \X Keys /\ uploaded[i] \in Keys
    BY <2>1 DEF SvrBInv, RestoreInv
  <2>3. SvrBTypeOK' /\ Current' # {} /\ Deployed' = Deployed
    BY <2>1, <2>2, IdleType DEF SvrBInv, SvrBTypeOK
  <2>4. HoldsKey(uploaded[i])' /\ Recoverable(uploaded)'
    BY <2>1, <2>2, <2>3 DEF Recoverable, HoldsKey
  <2>5. SavedInv'
    BY <2>1, <2>2, <2>4, Zenon DEF SavedInv
  <2>6. OpInv' /\ RestoreInv'
    BY <2>1 DEF OpInv, RestoreInv, Storing, NoOperation
  <2> QED  BY <2>3, <2>5, <2>6 DEF SvrBInv
<1>4. CASE RestoreRefused(e, i)
  BY <1>4, FailedAttempt, Zenon DEF RestoreRefused, Errors
<1>5. ASSUME NEW error \in {"RateLimited", "Connect"}, RestoreUnreached(e, i, error) PROVE SvrBInv'
  BY <1>5, FailedAttempt, Zenon DEF RestoreUnreached, Errors
<1> QED  BY <1>1, <1>2, <1>3, <1>4, <1>5

\* The removal of a backup begins, or a version of the client has other enclaves.
LEMMA OtherSteps ==
    ASSUME SvrBInv,
           RemoveBackup \/ \E e \in Enclaves : AddEnclave(e) \/ Demote(e) \/ Retire(e)
    PROVE  SvrBInv'
<1>1. CASE RemoveBackup
  <2>1. op' \in Operations
    BY <1>1, CurrentNotPrevious, Zenon DEF RemoveBackup, NoOperation, Operations, Errors, NoKey
  <2>2. op'.at = "deleting"
    BY <1>1 DEF RemoveBackup, NoOperation
  <2> QED  BY <1>1, <2>1, <2>2, RolesDecide, Zenon
           DEF RemoveBackup, SvrBInv, SvrBTypeOK, SavedInv, OpInv, RestoreInv, Storing
<1>2. ASSUME NEW e \in Enclaves, AddEnclave(e) \/ Demote(e) PROVE SvrBInv'
  <2>1. SvrBTypeOK'
    BY <1>2 DEF AddEnclave, Demote, SvrBInv, SvrBTypeOK
  <2>2. Current' # {} /\ Deployed \subseteq Deployed'
    BY <1>2 DEF AddEnclave, Demote, SvrBInv, SvrBTypeOK, Current, Previous, Deployed
  <2>3. SavedInv'
    BY <1>2, <2>2, Zenon DEF AddEnclave, Demote, SvrBInv, SavedInv, Recoverable, HoldsKey
  <2>4. OpInv' /\ RestoreInv'
    BY <1>2 DEF AddEnclave, Demote, SvrBInv, OpInv, RestoreInv, Storing
  <2> QED  BY <2>1, <2>2, <2>3, <2>4, Zenon DEF SvrBInv
<1>3. ASSUME NEW e \in Enclaves, Retire(e) PROVE SvrBInv'
  <2>1. SvrBTypeOK'
    BY <1>3 DEF Retire, SvrBInv, SvrBTypeOK
  <2>2. Current' = Current /\ Deployed' = Deployed \ {e}
    BY <1>3 DEF Retire, SvrBInv, SvrBTypeOK, Current, Previous, Deployed
  <2>3. ASSUME kept', NEW k \in Keys, HoldsKey(k) PROVE HoldsKey(k)'
    <3>1. PICK d \in Deployed : stored[d] = k
      BY <2>3 DEF HoldsKey
    <3>2. k # NoKey
      BY DEF Keys, NoKey
    <3> QED  BY <1>3, <2>2, <2>3, <3>1, <3>2, Zenon DEF Retire, HoldsKey
  <2>4. ASSUME kept' PROVE Recoverable(uploaded)'
    <3>1. kept /\ uploaded \in Keys \X Keys /\ Recoverable(uploaded)
      BY <1>3, <2>4, Zenon DEF Retire, SvrBInv, SavedInv
    <3>2. HoldsKey(uploaded[1]) \/ HoldsKey(uploaded[2])
      BY <3>1 DEF Recoverable, HoldsKey
    <3>3. HoldsKey(uploaded[1])' \/ HoldsKey(uploaded[2])'
      BY <1>3, <2>3, <2>4, <3>1, <3>2 DEF Retire, HoldsKey
    <3> QED  BY <1>3, <3>3 DEF Retire, Recoverable, HoldsKey
  <2>5. SavedInv'
    BY <1>3, <2>3, <2>4 DEF Retire, SvrBInv, SavedInv, SvrBTypeOK, HoldsKey, NoData
  <2>6. OpInv' /\ RestoreInv'
    BY <1>3 DEF Retire, SvrBInv, OpInv, RestoreInv, Storing
  <2> QED  BY <2>1, <2>2, <2>5, <2>6 DEF SvrBInv
<1> QED  BY <1>1, <1>2, <1>3

\* The invariant holds in every reachable state.
THEOREM SvrBInvariant == SvrBSpec => []SvrBInv
<1>1. SvrBInv /\ [SvrBNext]_svrbVars => SvrBInv'
  <2> SUFFICES ASSUME SvrBInv, [SvrBNext]_svrbVars PROVE SvrBInv'
    OBVIOUS
  <2>1. CASE UNCHANGED svrbVars
    BY <2>1 DEF svrbVars, SvrBInv, SvrBTypeOK, SavedInv, OpInv, RestoreInv, Recoverable, HoldsKey, Current, Previous,
                Deployed
  <2>2. CASE CreateNewBackupChain \/ StoreBackup \/ Stored \/ UploadBackup \/ SaveSecretData
    BY <2>2, StoreSteps
  <2>3. CASE \E e \in Enclaves, b \in BOOLEAN :
                Finalize(e, b) \/ RemovePrevious(e, b) \/ RemoveFrom(e, b)
    BY <2>3, EnclaveSteps
  <2>4. CASE \E landed \in SUBSET op.pending :
                FinalizeFails(landed) \/ \E wipe \in BOOLEAN : Abandon(wipe, landed)
    BY <2>4, InterruptedSteps
  <2>5. CASE RestoreBackup \/ RestoreReturns
    BY <2>5, SvrBAssumption, RestoreSteps
  <2>6. CASE \E e \in Enclaves, i \in {1, 2} :
                \/ RestoreSucceeds(e, i) \/ RestoreRefused(e, i)
                \/ \E error \in {"RateLimited", "Connect"} : RestoreUnreached(e, i, error)
    BY <2>6, RestoreSteps
  <2>7. CASE RemoveBackup \/ \E e \in Enclaves : AddEnclave(e) \/ Demote(e) \/ Retire(e)
    BY <2>7, OtherSteps
  <2> QED  BY <2>1, <2>2, <2>3, <2>4, <2>5, <2>6, <2>7 DEF SvrBNext, Stop
<1> QED  BY <1>1, InitHolds, PTL DEF SvrBSpec

\* store_backup, restore_backup: the latest backup can be decrypted with what some
\* enclave holds, whatever was interrupted and whichever device was lost.
THEOREM LatestIsRestorable == SvrBSpec => []LatestRestorable
<1>1. SvrBInv => LatestRestorable
  BY DEF SvrBInv, SavedInv, LatestRestorable
<1> QED  BY <1>1, SvrBInvariant, PTL

\* restore_backup: it fails for such a backup only if an enclave was not reached.
THEOREM RestoreAlwaysFindsIt == SvrBSpec => []RestoreFindsIt
<1>1. SvrBInv => RestoreFindsIt
  BY Zenon DEF SvrBInv, SavedInv, RestoreInv, RestoreFindsIt, Recoverable
<1> QED  BY <1>1, SvrBInvariant, PTL

\* store_backup: after a write each current enclave holds a key of the metadata.
THEOREM EachCurrentIsEnough == SvrBSpec => []EachCurrentSuffices
<1>1. SvrBInv => EachCurrentSuffices
  BY DEF SvrBInv, OpInv, EachCurrentSuffices
<1> QED  BY <1>1, SvrBInvariant, PTL

-----------------------------------------------------------------------------
(* The message keys of a receiver chain                                    *)

(***************************************************************************)
(* A chain index x, n cached counters k and m delivered counters out that  *)
(* fit together, and the two ways a chain changes them.  Lengths are       *)
(* explicit so that no fact about sequences is needed.                     *)
(*                                                                         *)
(* That out holds no counter twice is not preserved by itself: a delivered *)
(* counter must be behind the index and out of the cache, and taking a     *)
(* counter must remove its only copy, which holds because the cache is     *)
(* sorted.  The cache also lies under a staircase: the counter at position *)
(* i is at least i + 1 behind the index, so one that is cut off at         *)
(* position max + 1 is more than max behind.                               *)
(***************************************************************************)

Counters(s, n) == \A i \in 1 .. n : s[i] \in Nat

Occurs(c, s, n) == \E i \in 1 .. n : s[i] = c

Sorted(k, n) == \A i, j \in 1 .. n : i < j => k[i] > k[j]

Staircase(x, k, n) == \A i \in 1 .. n : k[i] + i < x

Behind(x, out, m) == \A i \in 1 .. m : out[i] < x

Disjoint(k, n, out, m) == \A i \in 1 .. m, j \in 1 .. n : out[i] # k[j]

Distinct(out, m) == \A i, j \in 1 .. m : out[i] = out[j] => i = j

FarBehind(x, c, max) == (x - 1) - c > max

OnlyFarLost(x, k, n, out, m, max) ==
    \A c \in Nat : c < x => Occurs(c, out, m) \/ Occurs(c, k, n) \/ FarBehind(x, c, max)

Consistent(x, k, n, out, m, max) ==
    /\ Counters(k, n) /\ Counters(out, m)
    /\ Sorted(k, n)
    /\ Staircase(x, k, n)
    /\ Behind(x, out, m)
    /\ Disjoint(k, n, out, m)
    /\ Distinct(out, m)
    /\ OnlyFarLost(x, k, n, out, m, max)

\* o is out with c appended.
Appended(o, out, m, c) ==
    o[m + 1] = c /\ \A i \in 1 .. m : o[i] = out[i]

\* t, of length n, is k with position p removed.
Removed(t, n, k, p) ==
    \A i \in 1 .. n : t[i] = IF i < p THEN k[i] ELSE k[i + 1]

\* s, of length r, is the n counters k with the d counters from x on put in
\* front, newest first, and cut off at max.
Shifted(s, r, k, n, x, d, max) ==
    /\ r <= d + n
    /\ r < d + n => r = max
    /\ \A i \in 1 .. r : s[i] = IF i <= d THEN (x + d) - i ELSE k[i - d]

\* A sorted cache holds no counter twice.
LEMMA SortedDistinct ==
    ASSUME NEW k, NEW n \in Nat, Counters(k, n), Sorted(k, n)
    PROVE  \A i, j \in 1 .. n : k[i] = k[j] => i = j
BY DEF Counters, Sorted

\* Moving the counter at position p of the cache to the plaintexts keeps the
\* state consistent.
LEMMA MoveConsistent ==
    ASSUME NEW x \in Nat, NEW k, NEW n \in Nat, NEW out, NEW m \in Nat, NEW max \in Nat,
           NEW t, NEW o, NEW p \in 1 .. (n + 1),
           Consistent(x, k, n + 1, out, m, max),
           Removed(t, n, k, p), Appended(o, out, m, k[p])
    PROVE  Consistent(x, t, n, o, m + 1, max)
<1> USE DEF Removed, Appended
<1>1. Counters(t, n) /\ Counters(o, m + 1)
  BY DEF Consistent, Counters
<1>2. Sorted(t, n)
  BY DEF Consistent, Counters, Sorted
<1>3. Staircase(x, t, n)
  BY DEF Consistent, Counters, Staircase
<1>4. Behind(x, o, m + 1)
  BY DEF Consistent, Counters, Behind, Staircase
<1>5. \A j \in 1 .. n : t[j] # k[p]
  BY DEF Consistent, Counters, Sorted
<1>6. Disjoint(t, n, o, m + 1)
  BY <1>5 DEF Consistent, Disjoint
<1>7. Distinct(o, m + 1)
  BY DEF Consistent, Distinct, Disjoint
<1>8. OnlyFarLost(x, t, n, o, m + 1, max)
  <2> SUFFICES ASSUME NEW d \in Nat, d < x
               PROVE  Occurs(d, o, m + 1) \/ Occurs(d, t, n) \/ FarBehind(x, d, max)
    BY DEF OnlyFarLost
  <2>1. CASE Occurs(d, out, m)
    BY <2>1 DEF Occurs
  <2>2. CASE Occurs(d, k, n + 1)
    <3>1. PICK i \in 1 .. (n + 1) : k[i] = d
      BY <2>2 DEF Occurs
    <3>2. CASE i = p
      BY <3>1, <3>2 DEF Occurs
    <3>3. CASE i < p
      BY <3>1, <3>3 DEF Occurs
    <3>4. CASE i > p
      <4>1. i - 1 \in 1 .. n /\ ~ (i - 1 < p) /\ (i - 1) + 1 = i
        BY <3>4
      <4> QED BY <3>1, <4>1 DEF Occurs
    <3> QED BY <3>2, <3>3, <3>4
  <2>3. CASE FarBehind(x, d, max)
    BY <2>3
  <2> QED BY <2>1, <2>2, <2>3 DEF Consistent, OnlyFarLost
<1> QED BY <1>1, <1>2, <1>3, <1>4, <1>6, <1>7, <1>8 DEF Consistent

\* Advancing the chain over d skipped counters to counter c = x + d, and
\* delivering c, keeps the state consistent: what the limit cuts off the
\* cache is more than max behind.
LEMMA AdvanceConsistent ==
    ASSUME NEW x \in Nat, NEW k, NEW n \in Nat, NEW out, NEW m \in Nat, NEW max \in Nat,
           NEW d \in Nat, NEW s, NEW r \in Nat, NEW o,
           Consistent(x, k, n, out, m, max),
           Shifted(s, r, k, n, x, d, max), Appended(o, out, m, x + d)
    PROVE  Consistent(x + d + 1, s, r, o, m + 1, max)
<1> USE DEF Shifted, Appended
<1>1. Counters(s, r) /\ Counters(o, m + 1)
  BY DEF Consistent, Counters
<1>2. \A j \in 1 .. n : k[j] < x
  BY DEF Consistent, Counters, Staircase
<1>3. Sorted(s, r)
  <2> SUFFICES ASSUME NEW i \in 1 .. r, NEW j \in 1 .. r, i < j
               PROVE  s[i] > s[j]
    BY DEF Sorted
  <2>1. CASE j <= d
    BY <2>1
  <2>2. CASE i <= d /\ ~ (j <= d)
    <3>1. j - d \in 1 .. n
      BY <2>2
    <3> QED BY <1>2, <2>2, <3>1 DEF Consistent, Counters
  <2>3. CASE ~ (i <= d)
    <3>1. i - d \in 1 .. n /\ j - d \in 1 .. n /\ i - d < j - d
      BY <2>3
    <3> QED BY <2>3, <3>1 DEF Consistent, Sorted
  <2> QED BY <2>1, <2>2, <2>3
<1>4. Staircase(x + d + 1, s, r)
  <2> SUFFICES ASSUME NEW i \in 1 .. r
               PROVE  s[i] + i < x + d + 1
    BY DEF Staircase
  <2>1. CASE i <= d
    BY <2>1
  <2>2. CASE ~ (i <= d)
    <3>1. i - d \in 1 .. n
      BY <2>2
    <3>2. k[i - d] + (i - d) < x /\ k[i - d] \in Nat
      BY <3>1 DEF Consistent, Staircase, Counters
    <3> QED BY <2>2, <3>2
  <2> QED BY <2>1, <2>2
<1>5. Behind(x + d + 1, o, m + 1)
  BY DEF Consistent, Counters, Behind
<1>6. Disjoint(s, r, o, m + 1)
  <2> SUFFICES ASSUME NEW i \in 1 .. (m + 1), NEW j \in 1 .. r
               PROVE  o[i] # s[j]
    BY DEF Disjoint
  <2>1. CASE j <= d
    BY <2>1 DEF Consistent, Behind, Counters
  <2>2. CASE ~ (j <= d)
    <3>1. j - d \in 1 .. n
      BY <2>2
    <3>2. s[j] = k[j - d] /\ k[j - d] < x
      BY <1>2, <2>2, <3>1
    <3>3. CASE i = m + 1
      BY <3>1, <3>2, <3>3 DEF Consistent, Counters
    <3>4. CASE i \in 1 .. m
      BY <3>1, <3>2, <3>4 DEF Consistent, Disjoint
    <3> QED BY <3>3, <3>4
  <2> QED BY <2>1, <2>2
<1>7. Distinct(o, m + 1)
  BY DEF Consistent, Distinct, Behind, Counters
<1>8. OnlyFarLost(x + d + 1, s, r, o, m + 1, max)
  <2> SUFFICES ASSUME NEW c \in Nat, c < x + d + 1
               PROVE  \/ Occurs(c, o, m + 1) \/ Occurs(c, s, r)
                      \/ FarBehind(x + d + 1, c, max)
    BY DEF OnlyFarLost
  <2>1. CASE c = x + d
    BY <2>1 DEF Occurs
  <2>2. CASE x <= c /\ c < x + d
    <3>1. (x + d) - c \in 1 .. d /\ (x + d) - ((x + d) - c) = c
      BY <2>2
    <3>2. CASE (x + d) - c <= r
      <4> DEFINE i == (x + d) - c
      <4>1. i \in 1 .. r /\ i <= d /\ (x + d) - i = c
        BY <3>1, <3>2
      <4> HIDE DEF i
      <4>2. s[i] = c
        BY <4>1
      <4> QED BY <4>1, <4>2 DEF Occurs
    <3>3. CASE (x + d) - c > r
      BY <3>1, <3>3 DEF FarBehind
    <3> QED BY <3>1, <3>2, <3>3
  <2>3. CASE c < x /\ Occurs(c, out, m)
    BY <2>3 DEF Occurs
  <2>4. CASE c < x /\ Occurs(c, k, n)
    <3>1. PICK j \in 1 .. n : k[j] = c
      BY <2>4 DEF Occurs
    <3>2. CASE j + d <= r
      <4>1. j + d \in 1 .. r /\ ~ (j + d <= d) /\ (j + d) - d = j
        BY <3>2
      <4> QED BY <3>1, <4>1 DEF Occurs
    <3>3. CASE j + d > r
      <4>1. c + j < x
        BY <3>1 DEF Consistent, Staircase
      <4> QED BY <3>3, <4>1 DEF FarBehind
    <3> QED BY <3>2, <3>3
  <2>5. CASE c < x /\ FarBehind(x, c, max)
    BY <2>5 DEF FarBehind
  <2> QED BY <2>1, <2>2, <2>3, <2>4, <2>5 DEF Consistent, OnlyFarLost
<1> QED BY <1>1, <1>3, <1>4, <1>5, <1>6, <1>7, <1>8 DEF Consistent

------------------------------------------------------------------------------

\* Concatenation of sequences of counters.
LEMMA ConcatCounters ==
    ASSUME NEW s \in Seq(Nat), NEW t \in Seq(Nat)
    PROVE  /\ s \o t \in Seq(Nat)
           /\ Len(s \o t) = Len(s) + Len(t)
           /\ \A i \in 1 .. (Len(s) + Len(t)) :
                  (s \o t)[i] = IF i <= Len(s) THEN s[i] ELSE t[i - Len(s)]
OBVIOUS

\* What StoreSkippedKeys returns: the skipped counters, newest first, then
\* the keys cached before, cut off at MAX_MESSAGE_KEYS.
LEMMA StoreSkippedKeysProps ==
    ASSUME NEW cached \in Seq(Nat), NEW from \in Nat, NEW to \in Nat, from <= to
    PROVE  LET s == StoreSkippedKeys(cached, from, to)
               n == to - from
           IN  /\ s \in Seq(Nat)
               /\ Len(s) <= MAX_MESSAGE_KEYS
               /\ Len(s) <= n + Len(cached)
               /\ Len(s) < n + Len(cached) => Len(s) = MAX_MESSAGE_KEYS
               /\ \A i \in 1 .. Len(s) :
                      s[i] = IF i <= n THEN to - i ELSE cached[i - n]
<1> DEFINE n == to - from
           sk == SkippedCounters(from, to)
           all == sk \o cached
           m == IF Len(all) > MAX_MESSAGE_KEYS THEN MAX_MESSAGE_KEYS ELSE Len(all)
<1>1. n \in Nat
  OBVIOUS
<1>2. sk \in Seq(Nat) /\ Len(sk) = n /\ \A i \in 1 .. n : sk[i] = to - i
  <2>1. \A i \in 1 .. n : to - i \in Nat
    OBVIOUS
  <2> QED BY <1>1, <2>1 DEF SkippedCounters
<1>3. /\ all \in Seq(Nat) /\ Len(all) = n + Len(cached)
      /\ \A i \in 1 .. Len(all) : all[i] = IF i <= n THEN to - i ELSE cached[i - n]
  <2>1. /\ all \in Seq(Nat)
        /\ Len(all) = Len(sk) + Len(cached)
        /\ \A i \in 1 .. (Len(sk) + Len(cached)) :
               all[i] = IF i <= Len(sk) THEN sk[i] ELSE cached[i - Len(sk)]
    BY <1>2, ConcatCounters, Zenon
  <2> HIDE DEF sk, n, all
  <2> QED BY <1>1, <1>2, <2>1
<1>4. m \in Nat /\ m <= Len(all) /\ m <= MAX_MESSAGE_KEYS
      /\ (m < Len(all) => m = MAX_MESSAGE_KEYS)
  <2> HIDE DEF all
  <2> QED BY <1>3, LimitsAssumption
<1>5. StoreSkippedKeys(cached, from, to) = SubSeq(all, 1, m)
  BY DEF StoreSkippedKeys
<1>6. /\ SubSeq(all, 1, m) \in Seq(Nat)
      /\ Len(SubSeq(all, 1, m)) = m
      /\ \A i \in 1 .. m : SubSeq(all, 1, m)[i] = all[i]
  <2> HIDE DEF all, m
  <2> QED BY <1>3, <1>4
<1> HIDE DEF all, m
<1> QED BY <1>1, <1>3, <1>4, <1>5, <1>6

\* What TakeSkippedKey returns: the cache without the first position that
\* holds the counter (the only one: the cache holds no counter twice).
LEMMA TakeSkippedKeyProps ==
    ASSUME NEW cached \in Seq(Nat), NEW c \in Nat,
           \E i \in 1 .. Len(cached) : cached[i] = c,
           \A i, j \in 1 .. Len(cached) : cached[i] = cached[j] => i = j
    PROVE  \E p \in 1 .. Len(cached) :
             /\ cached[p] = c
             /\ TakeSkippedKey(cached, c) \in Seq(Nat)
             /\ Len(TakeSkippedKey(cached, c)) = Len(cached) - 1
             /\ \A i \in 1 .. (Len(cached) - 1) :
                  TakeSkippedKey(cached, c)[i] = IF i < p THEN cached[i] ELSE cached[i + 1]
<1>1. PICK p \in 1 .. Len(cached) : cached[p] = c
  OBVIOUS
<1>2. {i \in 1 .. Len(cached) : cached[i] = c} = {p}
  BY <1>1
<1>3. Min({p}) = p
  BY DEF Min
<1> DEFINE t == [j \in 1 .. Len(cached) - 1 |-> cached[IF j < p THEN j ELSE j + 1]]
<1>4. TakeSkippedKey(cached, c) = t
  BY <1>2, <1>3, Zenon DEF TakeSkippedKey
<1>5. Len(cached) - 1 \in Nat
  BY <1>1
<1>6. \A i \in 1 .. (Len(cached) - 1) : t[i] = IF i < p THEN cached[i] ELSE cached[i + 1]
  OBVIOUS
<1>7. t \in Seq(Nat) /\ Len(t) = Len(cached) - 1
  <2>1. ASSUME NEW i \in 1 .. (Len(cached) - 1)
        PROVE  cached[IF i < p THEN i ELSE i + 1] \in Nat
    <3> DEFINE j == IF i < p THEN i ELSE i + 1
    <3>1. j \in 1 .. Len(cached)
      BY <1>5
    <3> HIDE DEF j
    <3>2. cached[j] \in Nat
      BY <3>1
    <3> QED  BY <3>2 DEF j
  <2> QED  BY <1>5, <2>1
<1> HIDE DEF t
<1> QED BY <1>1, <1>4, <1>6, <1>7, Zenon

-----------------------------------------------------------------------------
\* The chain index, the cached keys and the plaintexts fit together.
ChainConsistent ==
    Consistent(chain.index, chain.keys, Len(chain.keys),
               plaintexts, Len(plaintexts), MAX_MESSAGE_KEYS)

\* The state of the receiver is consistent, and DuplicatedMessage is only
\* ever answered for messages delivered or far behind.
IInv ==
    /\ TypeOK
    /\ CacheBounded
    /\ chain.index <= sent
    /\ ChainConsistent
    /\ \A c \in rejected.DuplicatedMessage :
           Occurs(c, plaintexts, Len(plaintexts)) \/ FarBehind(chain.index, c, MAX_MESSAGE_KEYS)

\* What it says of the plaintexts.
LEMMA FitsTogether ==
    ASSUME IInv
    PROVE  /\ \A i \in 1 .. Len(plaintexts) :
                 /\ plaintexts[i] \in Nat /\ plaintexts[i] < chain.index
                 /\ \A j \in 1 .. Len(chain.keys) : plaintexts[i] # chain.keys[j]
           /\ AtMostOnce
           /\ \A c \in Nat : c < chain.index =>
                 \/ Occurs(c, plaintexts, Len(plaintexts))
                 \/ Occurs(c, chain.keys, Len(chain.keys))
                 \/ FarBehind(chain.index, c, MAX_MESSAGE_KEYS)
<1>1. Consistent(chain.index, chain.keys, Len(chain.keys),
                 plaintexts, Len(plaintexts), MAX_MESSAGE_KEYS)
  BY Zenon DEF IInv, ChainConsistent
<1>2. \A i \in 1 .. Len(plaintexts) : plaintexts[i] \in Nat /\ plaintexts[i] < chain.index
  BY <1>1, Zenon DEF Consistent, Counters, Behind
<1>3. \A i \in 1 .. Len(plaintexts), j \in 1 .. Len(chain.keys) : plaintexts[i] # chain.keys[j]
  BY <1>1, Zenon DEF Consistent, Disjoint
<1>4. AtMostOnce
  BY <1>1 DEF Consistent, Distinct, AtMostOnce
<1>5. \A c \in Nat : c < chain.index =>
          \/ Occurs(c, plaintexts, Len(plaintexts))
          \/ Occurs(c, chain.keys, Len(chain.keys))
          \/ FarBehind(chain.index, c, MAX_MESSAGE_KEYS)
  BY <1>1, Zenon DEF Consistent, OnlyFarLost
<1> QED BY <1>2, <1>3, <1>4, <1>5

LEMMA InitIInv == Init => IInv
BY LimitsAssumption
   DEF Init, IInv, ChainConsistent, TypeOK, CacheBounded, Consistent, Counters, Sorted, Staircase,
       Behind, Disjoint, Distinct, OnlyFarLost

\* The three outcomes of consume_message_key: a cached key is taken, the
\* chain advances, or the message is refused and nothing but the answer
\* changes.
LEMMA ReceiveCases ==
    ASSUME TypeOK, NEW c \in Nat, Receive(c)
    PROVE  \/ /\ c < chain.index
              /\ Occurs(c, chain.keys, Len(chain.keys))
              /\ chain' = [chain EXCEPT !.keys = TakeSkippedKey(chain.keys, c)]
              /\ plaintexts' = Append(plaintexts, c)
              /\ rejected' = rejected
           \/ /\ c >= chain.index
              /\ chain' = AdvanceChain(chain, c)
              /\ plaintexts' = Append(plaintexts, c)
              /\ rejected' = rejected
           \/ /\ c < chain.index
              /\ ~ Occurs(c, chain.keys, Len(chain.keys))
              /\ chain' = chain /\ plaintexts' = plaintexts
              /\ rejected' = [rejected EXCEPT !.DuplicatedMessage = @ \cup {c}]
           \/ /\ chain' = chain /\ plaintexts' = plaintexts
              /\ rejected' = [rejected EXCEPT !.InvalidMessage = @ \cup {c}]
<1>1. chain.index \in Nat
  BY DEF TypeOK
<1>2. CASE IsPast(chain, c) /\ HasSkippedKey(chain, c)
  BY <1>1, <1>2 DEF Receive, ConsumeMessageKey, IsPast, HasSkippedKey, Occurs
<1>3. CASE IsPast(chain, c) /\ ~ HasSkippedKey(chain, c)
  BY <1>1, <1>3, Zenon DEF Receive, ConsumeMessageKey, IsPast, HasSkippedKey, Occurs
<1>4. CASE ~ IsPast(chain, c) /\ TooFarAhead(chain, c, MAX_FORWARD_JUMPS)
  BY <1>1, <1>4, Zenon DEF Receive, ConsumeMessageKey
<1>5. CASE ~ IsPast(chain, c) /\ ~ TooFarAhead(chain, c, MAX_FORWARD_JUMPS)
  BY <1>1, <1>5 DEF Receive, ConsumeMessageKey, IsPast
<1> QED BY <1>2, <1>3, <1>4, <1>5

\* Taking a cached key preserves the invariant.
LEMMA TakeIInv ==
    ASSUME IInv, NEW c \in Nat, sent' = sent,
           c < chain.index,
           Occurs(c, chain.keys, Len(chain.keys)),
           chain' = [chain EXCEPT !.keys = TakeSkippedKey(chain.keys, c)],
           plaintexts' = Append(plaintexts, c),
           rejected' = rejected
    PROVE  IInv'
<1> DEFINE k == chain.keys
           t == TakeSkippedKey(chain.keys, c)
<1>1. chain.index \in Nat /\ k \in Seq(Nat) /\ plaintexts \in Seq(Nat)
  BY DEF IInv, TypeOK
<1>2. \A i, j \in 1 .. Len(k) : k[i] = k[j] => i = j
  <2>1. Counters(k, Len(k)) /\ Sorted(k, Len(k)) /\ Len(k) \in Nat
    BY <1>1 DEF IInv, ChainConsistent, Consistent
  <2> HIDE DEF k
  <2> QED BY <2>1, SortedDistinct
<1>3. PICK p \in 1 .. Len(k) :
         /\ k[p] = c
         /\ t \in Seq(Nat)
         /\ Len(t) = Len(k) - 1
         /\ \A i \in 1 .. (Len(k) - 1) : t[i] = IF i < p THEN k[i] ELSE k[i + 1]
  BY <1>1, <1>2, TakeSkippedKeyProps, Zenon DEF Occurs
<1>4. /\ chain'.index = chain.index /\ chain'.keys = t
      /\ chain' \in [index : Nat, keys : Seq(Nat)]
  BY <1>1, <1>3, Zenon DEF IInv, TypeOK
<1>5. /\ plaintexts' \in Seq(Nat) /\ Len(plaintexts') = Len(plaintexts) + 1
      /\ plaintexts'[Len(plaintexts) + 1] = c
      /\ \A i \in 1 .. Len(plaintexts) : plaintexts'[i] = plaintexts[i]
  BY <1>1
<1>6. Consistent(chain.index, k, Len(k), plaintexts, Len(plaintexts), MAX_MESSAGE_KEYS)
  BY DEF IInv, ChainConsistent, k
<1> DEFINE n == Len(t)
           m == Len(plaintexts)
<1>7. n \in Nat /\ m \in Nat /\ Len(k) = n + 1
  BY <1>1, <1>3
<1> HIDE DEF k, t, n, m
<1>8. Consistent(chain.index, t, n, plaintexts', m + 1, MAX_MESSAGE_KEYS)
  <2>1. Consistent(chain.index, k, n + 1, plaintexts, m, MAX_MESSAGE_KEYS)
    BY <1>6, <1>7 DEF m
  <2>2. p \in 1 .. (n + 1) /\ Len(k) - 1 = n
    BY <1>3, <1>7
  <2>3. Removed(t, n, k, p)
    BY <1>3, <2>2, Zenon DEF Removed
  <2>4. Appended(plaintexts', plaintexts, m, k[p])
    BY <1>3, <1>5 DEF m, Appended
  <2> QED BY <1>1, <1>7, <2>1, <2>2, <2>3, <2>4, LimitsAssumption, MoveConsistent, Zenon
<1>9. ChainConsistent'
  BY <1>4, <1>5, <1>8 DEF n, m, ChainConsistent
<1>10. TypeOK' /\ CacheBounded'
  <2>1. TypeOK'
    BY <1>1, <1>3, <1>4, <1>5, Zenon DEF IInv, TypeOK
  <2>2. Len(chain.keys) <= MAX_MESSAGE_KEYS
    BY DEF IInv, CacheBounded
  <2>3. CacheBounded'
    BY <1>1, <1>3, <1>4, <2>2, LimitsAssumption DEF CacheBounded, k
  <2> QED BY <2>1, <2>3
<1>11. \A d \in rejected'.DuplicatedMessage :
           Occurs(d, plaintexts', Len(plaintexts')) \/ FarBehind(chain'.index, d, MAX_MESSAGE_KEYS)
  <2> SUFFICES ASSUME NEW d \in rejected.DuplicatedMessage
               PROVE  Occurs(d, plaintexts', Len(plaintexts')) \/ FarBehind(chain.index, d, MAX_MESSAGE_KEYS)
    BY <1>4
  <2>1. Occurs(d, plaintexts, m) => Occurs(d, plaintexts', m + 1)
    BY <1>5, <1>7 DEF Occurs, m
  <2> QED BY <1>5, <2>1 DEF IInv, m
<1> QED BY <1>4, <1>9, <1>10, <1>11 DEF IInv

\* Advancing the chain preserves the invariant.
LEMMA AdvanceIInv ==
    ASSUME IInv, NEW c \in Nat, sent' = sent, c < sent,
           c >= chain.index,
           chain' = AdvanceChain(chain, c),
           plaintexts' = Append(plaintexts, c),
           rejected' = rejected
    PROVE  IInv'
<1> DEFINE x == chain.index
           k == chain.keys
           d == c - x
           s == StoreSkippedKeys(k, x, c)
           n == Len(k)
           r == Len(s)
           m == Len(plaintexts)
<1>1. x \in Nat /\ k \in Seq(Nat) /\ plaintexts \in Seq(Nat) /\ sent \in Nat
  BY DEF IInv, TypeOK
<1>2. /\ chain'.index = c + 1 /\ chain'.keys = s
      /\ s \in Seq(Nat) => chain' \in [index : Nat, keys : Seq(Nat)]
  <2>1. chain \in [index : Nat, keys : Seq(Nat)]
    BY DEF IInv, TypeOK
  <2>2. chain' = [chain EXCEPT !.keys = s, !.index = c + 1]
    BY DEF AdvanceChain
  <2> HIDE DEF s
  <2>3. chain'.index = c + 1
    BY <2>1, <2>2
  <2>4. chain'.keys = s
    BY <2>1, <2>2
  <2>5. ASSUME s \in Seq(Nat)
        PROVE  chain' \in [index : Nat, keys : Seq(Nat)]
    <3> DEFINE q == [chain EXCEPT !.keys = s]
    <3>1. q \in [index : Nat, keys : Seq(Nat)]
      BY <2>1, <2>5, Zenon
    <3>2. chain' = [q EXCEPT !.index = c + 1]
      BY <2>1, <2>2
    <3> HIDE DEF q
    <3>3. c + 1 \in Nat
      OBVIOUS
    <3> QED BY <3>1, <3>2, <3>3, Zenon
  <2> QED BY <2>3, <2>4, <2>5
<1>3. /\ plaintexts' \in Seq(Nat) /\ Len(plaintexts') = m + 1
      /\ Appended(plaintexts', plaintexts, m, c)
  BY <1>1 DEF Appended
<1>4. Consistent(x, k, n, plaintexts, m, MAX_MESSAGE_KEYS)
  BY DEF IInv, ChainConsistent
<1> HIDE DEF x, k, s
<1>5. x <= c
  BY DEF x
<1>6. /\ s \in Seq(Nat) /\ r <= MAX_MESSAGE_KEYS
      /\ r <= d + n
      /\ r < d + n => r = MAX_MESSAGE_KEYS
      /\ \A i \in 1 .. r : s[i] = IF i <= d THEN c - i ELSE k[i - d]
  BY <1>1, <1>5, StoreSkippedKeysProps DEF s
<1>7. n \in Nat /\ r \in Nat /\ m \in Nat /\ d \in Nat /\ x + d = c
  BY <1>1, <1>5, <1>6
<1> HIDE DEF d, n, r, m
<1>8. Consistent(c + 1, s, r, plaintexts', m + 1, MAX_MESSAGE_KEYS)
  <2>1. Shifted(s, r, k, n, x, d, MAX_MESSAGE_KEYS)
    BY <1>6, <1>7, Zenon DEF Shifted
  <2>2. Appended(plaintexts', plaintexts, m, x + d)
    BY <1>3, <1>7
  <2>3. Consistent(x + d + 1, s, r, plaintexts', m + 1, MAX_MESSAGE_KEYS)
    BY <1>1, <1>4, <1>7, <2>1, <2>2, LimitsAssumption, AdvanceConsistent, Zenon
  <2> QED BY <1>7, <2>3
<1>9. ChainConsistent'
  BY <1>2, <1>3, <1>8, Zenon DEF r, ChainConsistent
<1>10. TypeOK' /\ CacheBounded' /\ chain'.index <= sent'
  BY <1>1, <1>2, <1>3, <1>6 DEF IInv, TypeOK, CacheBounded, r
<1>11. \A e \in rejected'.DuplicatedMessage :
           Occurs(e, plaintexts', Len(plaintexts')) \/ FarBehind(chain'.index, e, MAX_MESSAGE_KEYS)
  <2> SUFFICES ASSUME NEW e \in rejected.DuplicatedMessage
               PROVE  Occurs(e, plaintexts', m + 1) \/ FarBehind(c + 1, e, MAX_MESSAGE_KEYS)
    BY <1>2, <1>3, Zenon
  <2>1. Occurs(e, plaintexts, m) => Occurs(e, plaintexts', m + 1)
    BY <1>3, <1>7 DEF Occurs, Appended
  <2>2. e \in Nat
    BY DEF IInv, TypeOK
  <2>3. FarBehind(x, e, MAX_MESSAGE_KEYS) => FarBehind(c + 1, e, MAX_MESSAGE_KEYS)
    BY <1>1, <1>5, <2>2, LimitsAssumption DEF FarBehind
  <2> QED BY <2>1, <2>3, Zenon DEF IInv, m, x
<1> QED BY <1>9, <1>10, <1>11 DEF IInv

\* Refusing a message preserves the invariant: DuplicatedMessage is answered
\* only for a counter behind the index whose key is not cached, and such a
\* counter was delivered or is far behind.
LEMMA DuplicateIInv ==
    ASSUME IInv, NEW c \in Nat, sent' = sent,
           c < chain.index,
           ~ Occurs(c, chain.keys, Len(chain.keys)),
           chain' = chain, plaintexts' = plaintexts,
           rejected' = [rejected EXCEPT !.DuplicatedMessage = @ \cup {c}]
    PROVE  IInv'
<1>1. Occurs(c, plaintexts, Len(plaintexts)) \/ FarBehind(chain.index, c, MAX_MESSAGE_KEYS)
  BY FitsTogether
<1>2. /\ rejected'.DuplicatedMessage = rejected.DuplicatedMessage \cup {c}
      /\ rejected' \in [DuplicatedMessage : SUBSET Nat, InvalidMessage : SUBSET Nat]
  BY DEF IInv, TypeOK
<1>3. TypeOK' /\ CacheBounded' /\ chain'.index <= sent'
  BY <1>2, Zenon DEF IInv, TypeOK, CacheBounded
<1>4. ChainConsistent'
  BY DEF IInv, ChainConsistent
<1>5. \A e \in rejected'.DuplicatedMessage :
           Occurs(e, plaintexts', Len(plaintexts')) \/ FarBehind(chain'.index, e, MAX_MESSAGE_KEYS)
  BY <1>1, <1>2 DEF IInv
<1> QED BY <1>3, <1>4, <1>5 DEF IInv

LEMMA InvalidIInv ==
    ASSUME IInv, NEW c \in Nat, sent' = sent,
           chain' = chain, plaintexts' = plaintexts,
           rejected' = [rejected EXCEPT !.InvalidMessage = @ \cup {c}]
    PROVE  IInv'
<1>1. /\ rejected'.DuplicatedMessage = rejected.DuplicatedMessage
      /\ rejected' \in [DuplicatedMessage : SUBSET Nat, InvalidMessage : SUBSET Nat]
  BY Zenon DEF IInv, TypeOK
<1>2. TypeOK' /\ CacheBounded' /\ chain'.index <= sent'
  BY <1>1, Zenon DEF IInv, TypeOK, CacheBounded
<1>3. ChainConsistent'
  BY DEF IInv, ChainConsistent
<1> QED BY <1>1, <1>2, <1>3 DEF IInv

LEMMA NextIInv == IInv /\ [Next]_vars => IInv'
<1> SUFFICES ASSUME IInv, [Next]_vars
             PROVE  IInv'
  OBVIOUS
<1>1. CASE Send
  <2>1. ChainConsistent'
    BY <1>1 DEF IInv, Send, ChainConsistent
  <2>2. TypeOK' /\ CacheBounded' /\ chain'.index <= sent'
    BY <1>1 DEF IInv, Send, TypeOK, CacheBounded
  <2> QED BY <1>1, <2>1, <2>2 DEF IInv, Send
<1>2. ASSUME NEW c \in 0 .. (sent - 1), Receive(c)
      PROVE  IInv'
  <2>1. c \in Nat /\ c < sent /\ sent' = sent
    BY <1>2 DEF IInv, TypeOK, Receive
  <2>2. TypeOK
    BY Zenon DEF IInv
  <2> QED BY <1>2, <2>1, <2>2, ReceiveCases, TakeIInv, AdvanceIInv, DuplicateIInv, InvalidIInv
<1>3. CASE UNCHANGED vars
  <2>1. ChainConsistent'
    BY <1>3, Zenon DEF IInv, vars, ChainConsistent
  <2>2. TypeOK' /\ CacheBounded' /\ chain'.index <= sent'
    BY <1>3 DEF IInv, vars, TypeOK, CacheBounded
  <2> QED BY <1>3, <2>1, <2>2, Zenon DEF IInv, vars
<1> QED BY <1>1, <1>2, <1>3 DEF Next

-----------------------------------------------------------------------------
\* Every reachable state satisfies the inductive invariant.
THEOREM Invariance == Spec => []IInv
BY InitIInv, NextIInv, PTL DEF Spec

\* consume_message_key keeps the receiver state well-typed.
THEOREM TypeCorrect == Spec => []TypeOK
<1>1. IInv => TypeOK
  BY DEF IInv
<1> QED BY <1>1, Invariance, PTL

\* No redelivery, reordering or eviction makes consume_message_key hand out
\* a message key twice.
THEOREM DeliveredAtMostOnce == Spec => []AtMostOnce
<1>1. IInv => AtMostOnce
  BY FitsTogether
<1> QED BY <1>1, Invariance, PTL

\* store_skipped_key never lets the cache exceed MAX_MESSAGE_KEYS.
THEOREM CacheStaysBounded == Spec => []CacheBounded
<1>1. IInv => CacheBounded
  BY DEF IInv
<1> QED BY <1>1, Invariance, PTL

\* The receiver state never holds, and can no longer derive, the key of a
\* message that it decrypted.
THEOREM ForwardSecret == Spec => []ForwardSecrecy
<1>1. ASSUME IInv, NEW c \in Delivered
      PROVE  c < chain.index /\ c \notin CachedCounters
  <2>1. PICK i \in 1 .. Len(plaintexts) : plaintexts[i] = c
    BY <1>1 DEF Delivered, Range
  <2>2. c < chain.index
    BY <1>1, <2>1, FitsTogether
  <2>3. \A j \in 1 .. Len(chain.keys) : chain.keys[j] # c
    BY <1>1, <2>1, FitsTogether
  <2> QED BY <2>2, <2>3 DEF CachedCounters, Range
<1>2. IInv => ForwardSecrecy
  BY <1>1 DEF ForwardSecrecy
<1> QED BY <1>2, Invariance, PTL

\* Only messages more than MAX_MESSAGE_KEYS behind become undecryptable.
THEOREM WindowIsRetained == Spec => []WindowRetained
<1>1. ASSUME IInv, NEW c \in LostCounters
      PROVE  (chain.index - 1) - c > MAX_MESSAGE_KEYS
  <2>1. /\ chain.index \in Nat /\ c \in 0 .. (chain.index - 1)
        /\ c \notin Delivered /\ c \notin CachedCounters
    BY <1>1 DEF IInv, TypeOK, LostCounters
  <2>2. c \in Nat /\ c < chain.index
    BY <2>1
  <2>3. ~ Occurs(c, plaintexts, Len(plaintexts)) /\ ~ Occurs(c, chain.keys, Len(chain.keys))
    BY <2>1 DEF Occurs, Delivered, CachedCounters, Range
  <2> QED BY <1>1, <2>2, <2>3, FitsTogether DEF FarBehind
<1>2. IInv => WindowRetained
  BY <1>1 DEF WindowRetained
<1> QED BY <1>2, Invariance, PTL

\* DuplicatedMessage is answered only for a message that was decrypted or
\* that is more than MAX_MESSAGE_KEYS behind.
THEOREM DuplicatesAreJustified == Spec => []DuplicateMeansDelivered
<1>1. IInv => DuplicateMeansDelivered
  BY DEF IInv, Occurs, FarBehind, DuplicateMeansDelivered, Delivered, Range
<1> QED BY <1>1, Invariance, PTL

-----------------------------------------------------------------------------
\* The receiver chain implements the channel that delivers every message at
\* most once, whatever the network does and whatever the limits are.
THEOREM Refinement == Spec => ImplementsOnceChannel
<1>1. Init => Channel!Init
  BY DEF Init, Channel!Init
<1>2. IInv /\ [Next]_vars => [Channel!Next]_<<0 .. (sent - 1), plaintexts>>
  <2> SUFFICES ASSUME IInv, [Next]_vars
               PROVE  \/ Channel!Next
                      \/ UNCHANGED <<0 .. (sent - 1), plaintexts>>
    OBVIOUS
  <2>1. sent \in Nat
    BY DEF IInv, TypeOK
  <2>2. CASE Send
    <3>1. sent \in 0 .. (sent' - 1) /\ sent \notin 0 .. (sent - 1)
      BY <2>1, <2>2 DEF Send
    <3>2. 0 .. (sent' - 1) = (0 .. (sent - 1)) \cup {sent}
      BY <2>1, <2>2 DEF Send
    <3> QED BY <2>2, <3>1, <3>2 DEF Send, Channel!Next, Channel!Send
  <2>3. ASSUME NEW c \in 0 .. (sent - 1), Receive(c)
        PROVE  \/ Channel!Next
               \/ UNCHANGED <<0 .. (sent - 1), plaintexts>>
    <3>1. c \in Nat /\ TypeOK /\ chain.index \in Nat /\ sent' = sent
      BY <2>1, <2>3 DEF IInv, TypeOK, Receive
    <3>2. \/ plaintexts' = plaintexts
          \/ /\ plaintexts' = Append(plaintexts, c)
             /\ c >= chain.index \/ Occurs(c, chain.keys, Len(chain.keys))
      BY <2>3, <3>1, ReceiveCases
    <3>3. CASE plaintexts' = plaintexts
      BY <3>1, <3>3
    <3>4. CASE plaintexts' = Append(plaintexts, c)
               /\ (c >= chain.index \/ Occurs(c, chain.keys, Len(chain.keys)))
      <4>1. c \notin Range(plaintexts)
        <5>1. c >= chain.index => c \notin Range(plaintexts)
          BY <3>1, FitsTogether DEF Range
        <5>2. Occurs(c, chain.keys, Len(chain.keys)) => c \notin Range(plaintexts)
          BY FitsTogether DEF Occurs, Range
        <5> QED BY <3>4, <5>1, <5>2
      <4>2. Channel!Receive
        BY <3>1, <3>4, <4>1 DEF Channel!Receive, Range, Channel!Range
      <4> QED BY <4>2 DEF Channel!Next
    <3> QED BY <3>2, <3>3, <3>4
  <2>4. CASE UNCHANGED vars
    BY <2>4 DEF vars
  <2> QED BY <2>2, <2>3, <2>4 DEF Next
<1> QED BY <1>1, <1>2, Invariance, PTL DEF Spec, ImplementsOnceChannel, Channel!Spec
==============================================================================
