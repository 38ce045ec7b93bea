# libsignal in TLA+

TLA+ models of the parts of libsignal whose correctness depends on the order in
which things happen, checked with TLC on small instances, and proofs with TLAPS
for all values of the constants. Paths below are relative to `src/rust` unless they
say otherwise.

## 1. The system and its parts

libsignal is a library. An application calls it with its stores and its network; it
runs tasks of its own only behind connections and asynchronous calls. What is hard to
test lies between calls and between tasks: messages are lost, delayed, reordered and
repeated; both parties start sessions at the same time; stores fail half-way through
a call; limits throw old state away; a connection ends while it is used; the app ends
between a write to a server and the record of it.

| part | source | modelled in |
| --- | --- | --- |
| Double Ratchet | `protocol/src/double_ratchet.rs`, `ratchet/keys.rs` | `DoubleRatchet`, `ReceiverChain`, `OnceChannel` |
| Triple Ratchet (with SPQR) | `protocol/src/triple_ratchet.rs` | `TripleRatchet`, `RatchetSession`, `TrialDecrypt` |
| session establishment | `protocol/src/session.rs`, `ratchet.rs`, `pqxdh.rs`, `handshake.rs` | `RatchetSession` (initial ratchets), `SessionManagement` (partly) |
| session record | `protocol/src/state/session.rs` | `SessionRecord`, `SessionArchive` |
| session management, stores | `protocol/src/session_management.rs`, `storage/inmem.rs` | `SessionManagement`, `TrialDecrypt` |
| group messages | `protocol/src/group_cipher.rs`, `sender_keys.rs` | `SenderKeys` |
| chat connection | `net/src/chat/ws.rs` | `ChatConnection`, `ChatService` |
| websocket | `net/infra/src/ws/connection.rs` | `WsConnection` |
| saved connection | `net/infra/src/route/connect/preconnect.rs` | `Preconnect` |
| failure records of connects | `net/src/connect_state.rs`, `net/infra/src/route/schedule.rs` | `ConnectState`, `NetworkChange` |
| registration | `net/chat/src/registration.rs`, `registration/service.rs` | `Registration` |
| key transparency | `keytrans/src`, `net/chat/src/api/keytrans` | `ImplicitTree`, `KeyTransparency`, `KeyTransCheck` |
| forward secrecy for backups | `net/src/svrb.rs`, `net/src/svrb`, `svrb/src` | `SvrB` |
| message backup | `message-backup/src/backup.rs`, `backup/` | `BackupRecipients`, `BackupChatItems`, `BackupBuilder`, `BackupFrames` |
| link cards | `links/src` | `LinksRegistry`, `LinksJob`, `LinksReceiver` |
| asynchronous calls | `bridge/shared/types/src/net/tokio.rs`, `src/java/.../CompletableFuture.java` | `AsyncContext`, `JavaFuture` |

Section 7 gives the reasons for what is left out. `PROJECT.json` lists every
component, the hazards of the code with the properties that cover them, and for every
definition the source lines it models.

## 2. The modules

Operators named "faulty variant" in a comment are not part of the models. Each is a
plausible mistake in the operator that follows it; with it in place, TLC finds the
property it belongs to violated.

### Messages

Keys are terms: a chain key is the secret it starts from and its index, a root key is
the sequence of secrets mixed into it. Two keys are equal exactly if they were
derived alike. A MAC verifies exactly with the key it was made with.

**DoubleRatchet** has the operators of `double_ratchet.rs` on ratchet states:
`EnsureReceiverChain` (with the DH ratchet step, and the oldest chain dropped beyond
`MAX_RECEIVER_CHAINS`), `ConsumeMessageKey` with its outcomes `Ok`,
`DuplicatedMessage` and `InvalidMessage`, `TakeSkippedKey`, `StoreSkippedKeys`.
A cached message key is its counter; the cache is a sequence with the newest first,
as in the code. The loop that skips keys is one operator: it inserts the skipped
counters in front and cuts the cache off at `MAX_MESSAGE_KEYS`, which is where the
insert-and-pop loop ends.

**ReceiverChain** is one sending chain and the receiver chain that follows it. The
network hands the receiver any message sent so far, any number of times.
**OnceChannel** is what this promises: a channel that delivers messages that were
sent, in any order, each at most once.

**TripleRatchet** adds `OutgoingTripleRatchet::encrypt` and `TripleRatchet::decrypt`.
SPQR is an external crate, modelled by its use: `send` numbers the message, `recv`
yields the key for a number once, unless it is further ahead than `max_jump` or further
behind than `max_ooo_keys`, the limits that `spqr_chain_params` sets. One epoch of SPQR is
modelled, which numbers all messages of a party; how the crate goes from one epoch to the
next, counts afresh and gives old ones up is left out. **RatchetSession** composes two parties with one
session. A decryption works on a copy that replaces the session only on success
(`Commit`). **TrialDecrypt** extends it by the objects a decryption works on
(section 4).

**SessionRecord** has the operators of `SessionRecord`; **SessionArchive** drives one
record through every sequence of the operations the library performs on it. It allows
slightly more than the library does: a session that fell out of the archive may be
created again.

**SessionManagement** composes two parties, their stores, the server's pre-key
bundles and the network. A call has the parameter `n`, the number of its store writes
that took effect, in the order of the code; with fewer than all of them the call
returns an error (a write failed) or nothing (the process died). Calls for one
address do not overlap: the stores are borrowed mutably for the duration of a call.
The ratchet is reduced to the number of messages sent and the set of counters
received, which is what it amounts to within its limits, as checked on the modules
above. A missing record is the fresh record. All sessions have the one version the
library creates.

**SenderKeys** is one sender of a distribution and one receiver. Creating a
distribution message for a stored key changes nothing, so the messages there may be
are derived from the chains.

### Connections

**ChatConnection** has the callers of `Chat::send`, `disconnect` and `is_connected`, the
task, the listener and its responders. Every `.await` ends a step; a caller may be
cancelled at each of its own. Request ids start anywhere and wrap around; a connection is
taken to end before it has used all 2^64 of them (`IdsLeft`). The websocket is seen
through the events it hands to the task; the server answers in any order, repeatedly or
never. **ChatService** is what the callers are promised: one verdict per request, no
answer from a connection that is down, no failure from one that is up, and no request that
outlives it.

**WsConnection** is `Connection::handle_next_event` with its three deadlines.
Instants are ages in ticks; they saturate where they no longer differ in anything the
code does. Time also passes while a frame is written, and between two calls.

**Preconnect** is the slot of `PreconnectingFactory` with the connects that save to it
and take from it. An attempt waits for the inner connector between two looks at the
slot and may be dropped at that point. **ConnectState** has the failure records,
copied by a connect when it starts and updated when it ends, the clock of the machine
and its sleep, and the network change that clears them. A connect ends with any
outcome it can report. **NetworkChange** watches besides when the attempts on record came
to an end (section 4).

**Registration** is the client with its lazy connection. Each connection has a task
with a queue. A call that loses its connection makes a new one and sends its request
again; any call may be dropped half-way. The server may execute what was sent at any
later time or never. The session is abstracted to the number of the execution that
produced it.

### Key transparency

**ImplicitTree** has the tree arithmetic and the search in it, **KeyTransparency** the monitoring data for one key and how an accepted answer changes it. Consistency and
inclusion proofs tie every answer to a prefix of one log, so an answer is given by the
size of the tree it was made for. **KeyTransCheck** is the check of one account:
distinguished head, monitor, search, store, with the log and the discoverability of the
number changing between the requests, which may fail. It begins with nothing stored or
with the data of an earlier check, and a check stores its result together with the
distinguished head it renewed, if it did. The log is honest there; one store belongs to
one account.

### Backups

**SvrB** is one client with several enclaves that become current, previous and retired,
the metadata uploaded with a backup and the secret data saved for the next one. The
app may end anywhere. A key stands for a Backup4 with its password salt. A write that
was under way when a call is dropped lands at that moment or not at all. The client
follows the documented flow: store, upload, save. Tries are not counted. The promise
`kept` begins with an upload and ends where the code has no means to keep it: an
enclave refuses a write, whose status nobody reads, or an enclave that alone holds the
key is given up.

**BackupFrames** feeds the same frames to the two methods of a `PartialBackup`:
ValidateOnly, which keeps ids, and Store, which keeps an `Arc`. **BackupBuilder** has
`add_frame` for each kind and the completion, **BackupChatItems** the rules for a chat
item, **BackupRecipients** recipients, their identifiers and the order of contacts.
What a conversion checks in one field alone is the Boolean `fields`. Revisions have two
levels.

### Link cards

**LinksJob** is the sender's job, which hands out one request at a time and takes
answers that may come late or twice. **LinksReceiver** recomputes the card from the
message. **LinksRegistry** is the registry both consult, with the load rules it has passed
and `Provider::match_url`: the host is rewritten once, a hash route is read from the
fragment, tracking parameters go, the first route that matches is taken, and the canonical
URL is put together from what was matched. The receiver matches that URL again, from the
start; parsing it resolves the dot segments of its path. A URL is a record of host, path,
query and fragment. A title is reduced to whether anything visible is left of it.

### Asynchronous calls

**AsyncContext** is the map of running tasks and their cancellation. **JavaFuture** adds
the Java future on several threads. `work[t]` is the call stack of a thread. App
threads hold a lock of their own over calls and in the functions they pass.

## 3. The runs

Each run asks its questions of one to three components. Where several share a run they
share no state: the MC module extends them, or extends one and instantiates the other; a
behaviour moves one of them, and the others stay in their initial state. The properties of
an instantiated one are given a name of their own in the MC module.

| run | instance | distinct states | checks |
| --- | --- | --- | --- |
| `ratchets` | one chain: 5 messages, cache and jump of 2; a session: 8 messages, 2 receiver chains | 86 314 | DuplicateMeansDelivered, SessionRootsInStep, DecryptableUntilDelivered, implements OnceChannel, EventuallyDelivered |
| `records` | archive of 2, 5 base keys; 3 sender chains of 2 ids, 2 states, 4 messages, last iteration 4; 3 enclaves, 3 keys | 1 054 217 | ArchivedNotPending, BaseKeysDistinct, HoldsMostRecent, SenderMessageOnce, SenderKeysRetained, LatestRestorable, RestoreFindsIt |
| `sessions` | archive of 1, one one-time pre-key each, the three situations of `MCBounds` | 394 689 | AtMostOnce, NoKeyReuse, OneTimeKeyErased, Retrievable |
| `links` | providers of every tier, 15 hosts, 30 links | 48 679 | RequestBudget, SameCard, OwnWords |
| `chat` | two calls and the keepalive, channel of 1, ids modulo 4 | 182 166 | OwnResponse, ReportsTheReason, ToldBeforeJoined, ServiceSpec |
| `backup_frames` | the frame sequences of `MCInputs`, of a remote backup | 42 586 | ReferencesCorrespond, MethodsAgree, RevisionsFitTheChat |
| `key_transparency` | tree of up to 7 entries, 2 versions; 2 checks, log of 4 | 772 555 | HonestAnswersAccepted, NewestVersionSeen, StoredFieldsVerified, SuccessIsComplete |
| `waiting` | websocket timeouts 2, 2 and 4; 2 calls, 4 connections, 2 faults, queue of 1; 3 futures, 2 native calls, 2 app threads | 289 872 | NeverGivesUpUnprobed, GivesUpOnSilence, RepeatsOnlyAfterLoss, CacheIsNewestReport, CallsReturn, ConsumersCalledOnce, CancelsOwnTask, ChainedCompletes |
| `connect` | 2 attempts, 2 routes, 3 connections; 2 connects, time 2, sleep 1 | 493 926 | TakenFreshForItsRoute, ForgottenForCause |
| `trial_decrypt_state` | the session of `ratchets` | | StateUnchangedOnFailure, violated (section 4) |
| `network_change` | 1 connect, 2 routes, time 3 | | LaterOutcomesKept, violated (section 4) |
| `links_level` | that of `links` | | SameLevel, violated (section 4) |

What they show:

* *A message is delivered at most once*: on one chain, for group messages while the
  receiver holds the chain, and across sessions, also when the session was evicted and
  its pre-key message comes again; then `mark_kyber_pre_key_used` refuses the base key.
* *Messages are lost only for a named reason.* DecryptableUntilDelivered, SenderKeysRetained
  and Retrievable say of every undelivered message that it can be decrypted now, or
  that a particular limit or event rules it out. Each reason is reached. In
  DecryptableUntilDelivered it is an equivalence: a message that was delivered, or that a
  limit gave up, is refused. "Interrupted" (in Retrievable) is a real cost of the order of
  writes in `message_decrypt_prekey`: a failure after the base key is marked as used and
  before the session is stored makes the message undecryptable for good. The order is needed all the same: with the session stored
  first, OneTimeKeyErased fails.
* *A session record forgets only the least recently used sessions*, never holds two of
  one base key, and never promotes one with stale pre-key items.
* *A chat connection answers each request once and with its own response*, and whoever
  learns of its end gets the reason of it, after the listener was told.
* *A websocket is given up only after a ping went unanswered*, for at least as long as the
  two timeouts are apart, less what the owner and the socket delayed; and one whose server
  has fallen silent is given up in the end, whatever is sent on it.
* *A saved connection is used only for its own route and before it expires*, however late
  it was saved, and a failed route is forgotten only because of a success, its age or a
  network change.
* *A registration request is repeated only when its connection is lost*, the client
  keeps the newest state it was told, and every call returns.
* *The backup uploaded last can be restored*, wherever storing was interrupted,
  and a restore fails to find it only if an enclave was out of reach. A write that an
  enclave refused is not noticed (`ppss_ops.rs:57`): from then on nothing is claimed.
* *Validator and importer agree* on which sequences of frames are a backup, and every
  reference in an accepted one leads to the frame it names. The purpose is a remote backup
  in this run; it matters only to rules about one item alone, on its expiration and on the
  attachment of a view-once message.
* *A key transparency client accepts an honest log*, sees the newest version of a key,
  and stores nothing it did not verify, while log and mappings change under a check.
* *A link card costs a bounded number of requests*, carries no words that another provider
  supplied, official pages of the own provider included, and shows sender and receiver the
  same. SameCard names what it leaves out, and each exception is reached: a title of
  which nothing is visible, a short link whose canonical URL is too long to be sent, an
  image of an official page (`finish` sends it, `classify` hides it), and links whose canonical URL
  is not matched as they were (`Settled`, see SameLevel in section 4).
* *A Java future calls what was chained to it once, with its outcome*, a chained one
  completes, and a cancellation that comes late stops no other task.

### Bounds

The limits of the code (2000 cached keys, 25 000 jumps, 5 chains, 40 archived sessions,
5 sender key states, timeouts) are constants. The runs give them values from 1 to 4, so
that every limit is reached and exceeded within the messages or sessions allowed. The
code only compares against them. What is proved holds for every value.

`Max…` constants bound the length of a behaviour and appear only in guards. Some runs
also leave out combinations of situations:

* `MCBounds` of `sessions`: three sessions switched and archived until they are evicted;
  failing writes and sessions that grow too old; a reinstallation. Their mixtures are
  covered by the proofs for three of the four properties.
* `Situations` of `chat`: a request of the server, and network changes with interface
  checks, are each combined with one call; two calls run without them.
* `Situations` of `key_transparency`: only checks of a contact overlap, and those ask
  for the same number and name. The code runs checks of the own account one at a time. A check
  may find the data of an earlier one stored.
* `OneAfterSleep` of `connect`: connects do not overlap on a machine that has slept.

Symmetry is used for sets of names that are only compared (chain ids, connects, checks
with numbers, enclaves other than the first) in runs that check no liveness over them.
Deadlock checking is off: the bounds end every behaviour, or the system may rightly stop.

### Fairness

* `ratchets`: a message that can still change the receiver's state is handed to it again
  in the end. The library does not retransmit; server and application do so until a
  message is acknowledged.
* `chat` (`ChatFairness`): tokio polls every future that can go on; `select!` picks at
  random among the branches that are ready, hence strong fairness of taking a request,
  taking a response and seeing the disconnect; the listener returns, a write ends.
  Nothing is assumed of the server.
* `waiting`, websocket (`WsFairness`): time passes, the owner calls `handle_next_event`
  again, and `select!` does not pass over a timer that is due for ever. That a write ends is
  an assumption about the socket: nothing in the code limits it, and no deadline is looked
  at meanwhile.
* `waiting`, registration (`CallFairness`): the call and the task of every connection are
  polled and timers fire. Nothing is assumed of the server. Two things are assumed of the
  network, because the code repeats a connect and a request without end: a connect succeeds
  or fails for good in the end, and connections are lost finitely often (`MaxFaults`). The
  inactivity timeout (90 s) is taken to be longer than a request waits to be put into the
  queue.
* `waiting`, futures (`FutureFairness`): threads run, the app releases its lock, a native
  call reports when it has ended, and a cancelled task ends because it is in a
  `tokio::select!` with its cancellation. ChainedCompletes is stated for uses without
  `thenCompose` and without functions that throw an `Error`: `thenCompose` does not pass a
  cancellation on to the second call, and an `Error` leaves the consumers after it without a
  result.

## 4. Comments the code does not keep

`session_management.rs:565` says "On failure, `state` is unchanged." The receiver chains
and the SPQR state are moved out of `state` and come back only after a success, so a
message that fails leaves a state without them (run `trial_decrypt_state`). It never
reaches a stored session: the callers try on a copy and drop it, which is the `Commit`
of RatchetSession. A model without it fails SessionRootsInStep.

`net/infra/src/route/schedule.rs:413` says of `reset` that it "Assumes those that completed
after the cutoff are still relevant." It compares the cutoff with the time an attempt
began. A failure that began before a network change and ended after it is forgotten, so its
route is tried again without the delay (run `network_change`).

`links/tests/receive.rs:188` says "Whatever a sender produces, a receiver on the same
registry lands on the same level". The receiver matches the canonical URL again. The load
rules let a host be rewritten to one that is rewritten in turn; then a route of the host in
the middle matches the link and not its canonical URL, and the receiver shows a generic card
where the sender had a branded or structured one (run `links_level`). The URLs that test
goes through are none of these.

## 5. What is proved

The proofs assume of the constants only the named ASSUMEs of the modules: limits are
natural numbers (where the code needs it, positive), and the values that stand for
"none" are none of the values they are told apart from. Bounds on the length of a
behaviour are arbitrary. Each invariance proof has the same shape: an invariant `IInv`
that implies the property, a lemma per action that the action keeps it, and a theorem
that puts them together. The inductive invariants were checked with TLC before they
were proved.

**KeyProofs** is about two components that must keep a key exactly as long as it is
needed. For every cache size, jump limit and number of messages, ReceiverChain satisfies
AtMostOnce, CacheBounded, ForwardSecrecy, WindowRetained and DuplicateMeansDelivered, and
implements OnceChannel. AtMostOnce is not inductive: it needs that a cached counter was
not delivered, that a counter is cached at most once, and that delivered counters are
below the chain's index. WindowRetained needs more. When the cache overflows its oldest
entry is dropped, and one must know that this entry is far behind. So the invariant says
that the cache is sorted, newest first, and that its i-th entry plus i is below the index
(a staircase). `ChainConsistent` collects this. Each outcome of `ConsumeMessageKey` has
its lemma: a cached key is taken, the chain advances, the message is a duplicate, or it is
refused. The refinement follows from AtMostOnce and `chain.index <= sent`.

Of SvrB: LatestRestorable, RestoreFindsIt and EachCurrentSuffices, for all sets of
enclaves and numbers of keys. The invariant says that what is saved on the device
is a key of the uploaded backup, which an enclave still holds if it came from a restore
(`SavedInv`); how far the operation in progress has come in each enclave (`OpInv`); and
that while a restore runs, an attempt that would succeed is still to be answered, unless
an enclave was out of reach (`RestoreInv`).

**SessionProofs** is about the session record and the session. For every archive limit and
set of base keys, SessionArchive satisfies ArchiveBounded, ArchivedNotPending,
BaseKeysDistinct and HoldsMostRecent. The inductive invariant adds that every base key in
the record was used before, so that a newly generated one differs from all of them. Each
record operator has a lemma that it keeps a record good and which base keys it can leave
behind. HoldsMostRecent speaks of `before`, a history variable: `before[b]` are the base
keys used before b was used last. A touch puts one base key after all others and leaves
the order among them alone, so the proof follows each operator through the order: what
moves to the front is the key that was touched, what is dropped is the last of a full
archive, and everything given up earlier is before that one.

Of RatchetSession: SessionRootsInStep, for any number of messages and receiver chains and
any network: one party's root key is always the other's with one more secret mixed in. By
itself this is not inductive. The invariant `RootsInv` adds that the chain a party sends
on was derived with its root key, that a message was authenticated with what was then the
root key of its sender, hence with a prefix of the present one, and that no two receiver
chains are for one ratchet key. A ratchet step mixes two secrets into a copy. Either the
first of them is what the peer had mixed in already, so that the step catches up with the
peer and goes one ahead of it, or the copy has left the peer's history. Then no message of
the peer verifies with it, and the copy is dropped (`Commit`). The proof needs that the
parties are two different ones (`PartyAssumption`).

**SenderKeysProofs**: SenderMessageOnce and SenderKeysRetained, for every number of chains,
messages and chain ids, every limit on states, cached keys, jumps and iterations. The
invariant `SenderIInv` says that what is sent and what is held belongs to a chain of the
sender, which uses no iteration twice (`OfChains`); that a record has one state per chain
id; and that the cached keys are sorted under the same kind of staircase as above, here
oldest first (`KeysInOrder`). With these, what was delivered by a chain that was never
given up is behind it and not cached (`DeliveredIsBehind`), and what was passed over is
cached unless it is too far behind (`PassedOverIsCached`).

**SessionManagementProofs**: AtMostOnce, NoKeyReuse and
OneTimeKeyErased, for all numbers of sessions, messages, failures and reinstallations,
every archive limit and every set of one-time pre-keys. None is inductive. A message that
arrives again after its session was evicted must not make a new session; that it cannot
depends on who started the session, on which installation of each side it is between and
on which one-time pre-key it used, and after an eviction no variable holds this. The
invariant says that such an origin exists for each base key (`\E o : Fits(o)`) and
that all there is of the session agrees with it: the sessions in both stores, the messages
on the network and the messages delivered. `Used(o, p, b)` says that p is past the one
time it could make a session from b: p started it, or belongs to a later installation, or
has the base key among those seen. A step that starts a session extends the origin by the
new base key (`Reorigin`); every other step keeps it. The calls are proved write by write:
`Sends`, `Receives` and `WritesOf` say what the store looks like after the n-th of a
call's writes, whichever call it is.

**ChatProofs** is about the websocket and the chat connection on it. Of WsConnection:
NeverGivesUpUnprobed and PingsSpaced for all timeouts with the ping timeout below the one
for giving up. The invariant relates the timer a call has armed to the ages of the last
frame sent and received.

Of ChatConnection: OwnResponse, ReportsTheReason and ToldBeforeJoined, for any number of
calls, any channel size, first id and number of ids, and that every step is one of
ChatService or leaves it alone (`ImplementsService`, the part of ServiceSpec without its
fairness). The invariant `ChatIInv` follows one request through the places it can be:
the queue, the write in progress, the requests in flight. It is in one of them at most
(`OnePlace`), and while it is in one, nothing was told to its caller (`Untold`); so a
verdict is never taken back or given twice, which is what the refinement needs. OwnResponse
depends on the ids: those given out are the ones from the first to the next, cyclically
(`Given`), and all requests that the server got or that are in flight have ids given out,
no two the same one (`UniqueIds`). The assertion in `record_send` that an id is new
follows. `Settled` says what each place of the task fixes: past its loop nothing is
written, the HTTP/2 connection is closed and the listener was called with Finished; when
the task exits, that call has returned; and the state is finished only after the task.

**ConnectProofs** is about both components of the run `connect`. Of Preconnect: OwnRoute,
TakenFreshForItsRoute and NewestIsKept, for all sets of attempts, routes and connections:
a connection never serves another route than its own, an expired one is not taken however
late it was saved, and a save never replaces a newer one. The invariant says that the stamp
in the slot is the age of the connection since it was made, wherever it has been meanwhile.

Of ConnectState: ForgottenForCause, for all cutoffs, routes and numbers of connects. A
connect ages the records out with the time it ended at, not with the time it reports at.
The invariant `StateInv` says that a connect's end is not in the future, so what is old
for it is old now.

**RegistrationProofs**: RepeatsOnlyAfterLoss and CacheIsNewestReport, for every queue
length and all bounds. A request passes from the call through the queue and the task to
the wire; the invariant says for each of these places that it is in no other
(`NotYetQueued`, `QueuedNotSent`, `SentHereOnly`), and that a call that waits without an
answer for a request that nobody holds any more has lost its connection
(`AbandonedOnLoss`). For the cache: what the current call causes is newer than all that
was received before (`NewerThanReceived`), which needs that the log only grows.

## 6. What is only model-checked

* Liveness (EventuallyDelivered, GivesUpOnSilence, CallsReturn, ChainedCompletes) and the fairness condition
  of ServiceSpec (a request does not outlive its connection): the prover has no rules for
  fairness and ENABLED.
* DecryptableUntilDelivered and Retrievable, which say of every message on its way that it can
  still be decrypted. DecryptableUntilDelivered needs the staircase of ReceiverChain for every
  receiver chain, how the chains of one party correspond to the sending chains the other
  has had, and which were given up; Retrievable needs the content of both stores for every
  point a call can stop at. No invariant for them has been worked out.
* The properties of JavaFuture, LinksJob, LinksReceiver, BackupFrames and KeyTransCheck: not
  proved so far. Those of BackupFrames and of the links rest on folds over sequences,
  about which the prover has no induction.
* ImplicitTree and KeyTransparency: their operators are recursive over the tree, and what
  a recursive definition computes cannot be proved here.

## 7. What is not modelled, and why

* Cryptography, formats and parsing (sealed sender envelopes, message formats,
  fingerprints, credentials, attestation, media, usernames, account keys): computations
  without behaviour over time, or algebra out of TLC's reach. In key transparency:
  signatures, VRF, prefix tree, commitments, auditor heads, timestamps and log tree
  proofs; in SVR-B: the OPRF.
* Message backup: decryption and framing of the file, canonical serialization and export
  work in one pass. In BackupFrames reactions have one sort order, and profile keys are
  left out of the order of contacts.
* One connect (routes, delays, TLS, proxies, DNS): ConnectState takes any outcome it can
  report. The DNS cache and the throttle act on one attempt each.
* Corrupt stored records: every record in the models decodes.
* Counter overflow in `ChainKey::next_chain_key`: 2^32 messages on one chain. Sender keys
  check for it, and that check is modelled.
* Sessions among devices of one account: they differ by an unlimited forward jump, which
  is a larger `MAX_FORWARD_JUMPS`.
* More than two parties: records and stores are kept per remote address, and nothing but
  the local pre-keys is shared among addresses.
* Chat APIs, CDSI, SVR2 and most of the bridges: stateless translation, or state that a
  service outside the repository keeps. The Swift and Node sides of asynchronous calls.
* The policy engine: pure functions on texts.
