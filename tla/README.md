# A TLA+ model of the access-security system

This directory models the server, the card reader firmware and the event view
of the access-control system in `src/`, checks the models with TLC on small
instances, and proves every safety property of the passing runs with TLAPS, for
every value of the constants. `PROJECT.json` lists components, runs, mutants, the map from
definitions to source lines, findings, hazards and theorems.

## The system

A card reader (ESP32, `hw_layer`) posts a scan, signed with a shared secret and
numbered with a counter it keeps in flash, to `POST /api/hw/uid` of the server.
The hardware service (`access_admin/service/hw_service`) seals the scan into a
frame and has it decided: in `remote` mode over HTTP by the decision endpoint on
a second port of the same process, in `local` mode by a call. The decision
engine (`access_decision`) has the frame checked and decrypted by the frame
handler (`access_core`), consults the anomaly detector, looks the card up in the
policy store (SQLite, `access_storage`), appends a row to a hash-chained audit
log in the same database, and pushes events to a bounded bus
(`runtime_events`) that the web interface polls. Administrators change readers,
door bindings, roles and cards, lift quarantines, verify the log, and export and
import the database.

| Component | State | Operations | Talks to |
|---|---|---|---|
| Replay window | highest number, set and deque of numbers, per reader | contains, remember, accept | frame handler |
| Anomaly detector | per reader: highest number, failure streak, quarantine | report..., unquarantine | engine, readers service |
| Frame handler | none of its own | handle: parse, reader, door, key version, replay, decrypt, time | window, store |
| Decision engine | none of its own | handleFrameBytes, checkAccessPolicy | all of the above, audit log, bus |
| Policy store | tables readers, reader_doors, door_roles, cards | queries and writes | engine, admin services |
| Audit log | rows, anchor, the open transaction | append, verify | engine, audit service, import |
| Event bus | deque, last id | push, getAfter, lastId | everybody, browser |
| App state | database file, pointers to store, log and engine, two mutexes | openOrCreate, import, export | all handlers |
| Hardware service | one job per request | processHwUid with three attempts | device, endpoint |
| Firmware | counter in RAM and flash, the scan under way | loop, postUidToServer, setup | hardware route |
| Frame codec | none | serialize, parse, to_bytes | hardware service, frame handler |
| Keys and sealing | the master key | derive keys, nonces and peppers; seal, open | hardware service, handler, engine, cards service |
| Configuration | settings, fixed until a restart | loadFromYaml | main, app state |

What is hard here: two mutexes (`m` for admin requests, `engineMutex` for
decisions) guard overlapping state; one SQLite connection serves all threads;
windows and quarantines live in memory only; the service retries a frame it may
already have had decided; both ends of a scan have timeouts; the browser polls
on a timer; the import replaces what the other threads are using; in local mode
two threads run the engine on the same windows under different mutexes; keys
rotate per reader while frames sealed and cards enrolled under the old version
are still about.

## Modules

| Module | Models | State and actions |
|---|---|---|
| `ReplayWindow` | class `ReplayWindow` | operators on a record of its members |
| `ReplayGuard` | `accept()` under an environment | any order (`Spec`) or increasing order with repetitions (`InOrderSpec`) |
| `ReplayPromise` | what a duplicate filter promises | accepted numbers; abstract |
| `AnomalyDetector` | `ProtocolAnomalyDetector` | operators on the state of one reader |
| `AccessStore` | `SqliteAccessStore` | operators on a record of relations |
| `DecisionEngine` | handler, engine, admin services | composes the three above; one action per SQL statement of a frame, one per admin operation, exceptions, restarts |
| `AuditLog` | `SqliteAuditLog`, `audit_verify` | one action per statement of an append, per row of a verification; admin writes, crashes, lost rows |
| `EventBus` | `EventBus`, `GET /api/events`, `events.js` | push, the two critical sections of the endpoint, timer, answer, failure, 401, reload, restart |
| `AppState` | `app_state.cpp`, `db_service.cpp` | the import step by step, scans, admin requests, export, restart |
| `HwPath` | `hw_layer.ino`, `hw_service.cpp` | composes window and detector with the device, the job, its posts, timeouts, reboots, restarts |
| `TwoHandlers` | `handleFrameBytes` on two threads | composes window and detector with two handlers; every use of the window has a first and a last step, every call into the detector is one |
| `FrameCodec` | `protocol_lib`: serializer, parser | operators on byte sequences, field sizes as parameters |
| `KeyManager` | `key_manager`, `crypto_lib` | ideal keys, nonces and sealing, over a log of all sealings |
| `Config` | `config_loader` | a file as nested functions, its defaults and refusals |
| `KeyedFrames` | a scan as bytes and keys | composes the three above with `AccessStore`: sealing, the network, handling, rotation, enrolment, restart with another file |
| `MC...` | | instances for TLC |
| `...Proofs` (`ReplayGuard`, `DecisionEngine`, `HwPath`, `AuditLog`, `EventBus`, `AppState`, `TwoHandlers`, `KeyedFrames`) | | theorems about the module of that name |

Abstractions. Cryptography is ideal. In `DecisionEngine` a tag verifies or not
and a nonce matches or not; in `AuditLog` a hash is the sequence of what it
covers; in `KeyedFrames` keys are terms, and a ciphertext opens exactly under the
key, cipher, nonce and associated data of a sealing in the log. The clock is a
free choice of the outcome of the timestamp check. A file is its content class, a
frame, outside `KeyedFrames`, its header fields and the verdicts of the symbolic
checks. `KeyedFrames` handles a frame in one step and leaves replay, quarantine
and time to `DecisionEngine`; `TwoHandlers` has one reader and a free policy. A
data race on a window (two uses that overlap, one of them a write) is a choice:
later lookups may answer anything, an insertion may be lost, the process may die. Event texts, JSON and
HTTP details are left out, statuses are kept where the caller branches on them.
In `HwPath` the engine is its effect on window and detector, with the other
checks as a free choice; `DecisionEngine` has it in full.

## Runs

Passing runs (each property has a mutant in `PROJECT.json` that breaks it):

| Run | Question |
|---|---|
| `replay_any_order` | Is the window consistent, and does it forget and refuse only with cause, in any order? |
| `replay_in_order` | With numbers in order, does it implement the abstract filter? (refinement) |
| `engine_frames` | Good, replayed, damaged, malformed frames, a release and a restart: what is granted and refused as a replay; is quarantine frozen, announced, audited, reached at the streak limit? |
| `engine_policy` | An administrator interleaved with a frame: is a grant justified by the policy, or at least by facts that each held, do frames end? |
| `two_handlers` | Two threads in the engine: can a number be granted again later, does a quarantine hold against the other thread's success, do honest frames ever look like an anomaly? |
| `keyed_frames` | Bytes through a damaging network, rotations, enrolments, other settings: is what opens what was sealed, when is a nonce repeated, does one rotation disturb anybody, does a new role count at once? |
| `audit_log` | Is the committed log one chain whatever fails, however the chain is switched, under one mutex and under two? When is the verifier exact, and when is an acknowledged write lost? |
| `events_poll` | With two polls and a limit below the capacity: are events shown in order and once until polls overlap, which are skipped, does the cursor recover from a restart? |
| `db_import` | Two imports, requests, failing disks, a restart: do store and file stay together, is what is served verified, is success true, is there a good backup of a damaged file, do imports end? |
| `hw_path` | All configurations, faults on both sides, a window that evicts: grants unique, door opened only by a grant, quarantine caused by the frame that brings it, every job ends? |

Runs that end in a violation show a disagreement between the code and what its
documentation says; each has a finding in `PROJECT.json` that quotes the line:

| Run | What the code does |
|---|---|
| `replay_reordered` | Eviction goes by insertion, so after reordering a number in the live range is accepted twice. |
| `import_under_traffic` | An import destroys store and engine while the endpoint (another mutex) or, between its two sections, an admin request uses them. |

Some properties are stated with the condition under which the code keeps them.
Without the condition each fails, which is worth knowing:

- `GrantJustified` demands that one state of the store permits the grant only for
  a frame without admin changes while it is handled; with them, only that each
  fact held at some time: the statements of a decision can see different states.
- `NoRegrantLater` speaks of frames that arrive after the grant. Two copies of a
  frame handled at the same time can both be granted, as the lookup and the
  insertion of the number are two steps around the decryption. It also excepts a
  data race on the window, which local mode makes possible as soon as the
  endpoint is used too (`m` against `engineMutex`), and the reordering of
  `replay_reordered`.
- `AnomalyHasCause` counts a number near 2^64 as a cause of its own: the sum
  with the threshold wraps, and the number looks like a rollback.
- `GrantedOnce` holds until a restart, which forgets the windows, and while a
  reader's frames are admitted in order (`reordered`, see `replay_reordered`). A
  copy that comes at once and one that comes after the eviction are both refused.
- `QuarantineHasCause` speaks of the very frame that brings the reader into
  quarantine. The service's own retry is a cause: the retry of a frame that was
  handled is a replay, and quarantines an honest reader (`hw_service.cpp:300`),
  although `protocol_anomaly_detector.hpp:17` speaks of the "same sequence number
  seen twice from one reader". Otherwise a number was handled before that is
  farther ahead than the threshold, or a whole window.
- `GrantedAtMostOnce` except for a scan that is posted again after the window was
  filled by later frames, one of them a scan with a lower number that it had
  overtaken (the reordering of `replay_reordered`, on the hardware path). It takes
  four scans and a window of 2 for that to happen; the run, with two scans and a
  window of 1, has the eviction but not the exception.
- `NonceRepeatsOnlyWithHeader`: `processHwUid` takes the number from the device's
  request and asks nobody whether it was used (`hw_service.cpp:284`). With
  deterministic nonces two requests with one number, for the same reader, door and
  millisecond, are sealed under the same nonce, and if the cards differ two
  plaintexts are. A signed request that is sent twice does this, and a device whose
  flash was erased may. What happens to the secrecy of the two is outside the
  model, whose ciphers are ideal.
- `VerifiedIsIntact` except after an append that followed a loss: `append` chains
  to the last row it finds and overwrites the anchor (`sqlite_audit_log.cpp:173`),
  so the loss of the last row is hidden by the next append. And it promises only
  the last unbroken run of appends to the chain: a row stored while the chain is
  off has a zero hash, so the chained row after it starts from zeros like the
  first row of a log. While the rows before it are there the log does not verify
  (`NoFalseAlarm` excludes it); once all of them are lost, the rest does.
  `src/README.md:268` calls any modification or truncation detectable.
- `AcceptedAsSealed` is byte for byte with `aad_mode: full`. With `none` the
  header is not authenticated; the reader and the key version still are if keys
  are derived per reader, and every field if deterministic nonces are checked.
- `RotationKeepsCards` for one rotation, with `allow_previous_key_version` under
  `frame_handler`. `src/README.md:42` promises "graceful migration without
  re-enrolling cards"; after a second rotation a card enrolled under the first
  version is unknown. The setting of the same name under `key_management` has no
  effect on the server.
- `RoleIsLatest` for an enrolment under the reader's current version. A card
  enrolled under a configured version ahead of the reader's is unknown to that
  reader until it follows; with the static pepper only rows of version 1 count,
  while cards are still enrolled under the configured version; and deleting one
  row of a card leaves its rows under other versions in force.
- `NoFalseAlarm` only under one mutex: with two, an append between the verifier's
  rows and its anchor is reported as tampering. One mutex is a property of the
  traffic, not of a mode: `main.cpp` starts the decision endpoint, which works under
  `engineMutex`, in local mode too, so it takes a local mode in which nobody posts
  there.
- `AckedWritesKept` under both: an admin write that was acknowledged is lost when
  it fell between BEGIN and COMMIT of an append that is then rolled back or cut
  short by a crash, and in no other way.
- `BackupHoldsPrevious` except when the copy aside failed, which `replaceDbFile`
  ignores, or was made of a damaged file: an import that fails half-way leaves a
  good backup, and the next import overwrites it with the half-copied file.
- `ServedVerified` and `OkMeansServed` only while imports do not overlap: all
  uploads share one temporary file name.
- `QuarantineFreezes` except for a restart, which forgets every quarantine.
- `ShownInOrder` until a tick of the timer starts a poll while another is
  outstanding (`events.js:66` does not wait), after which events are shown twice.
- `SkippedWithCause` names two ways to miss an event: it was pushed between the
  endpoint's two critical sections, or it came after the last event of an answer
  that was full, since the cursor moves to `last_id` and not to the last event. In
  every shipped configuration the limit (200, `events.js:45`) is below the capacity
  (1024), so a page opened on more than 200 events skips the rest.
- A frame of a quarantined reader is still decrypted, and its number remembered,
  before the quarantine is looked at (`tryDecrypt` precedes `DenyQuarantined`);
  a frame that does not parse is, with deterministic nonces, answered as
  quarantined (`DenyNonce` on the empty header). Both follow from the order of
  the actions and differ from the READMEs of the libraries.

### Bounds

- Windows have capacity 1 to 3 and the numbers run to a few more, so eviction,
  "too old" and re-delivery all happen; the theorems cover every capacity. In
  `engine_frames` and `hw_path` it is 1, so that within three frames a number is
  granted, evicted and delivered again.
- The detector's threshold is 0 to 2 and the streak limit 2, so both are reached
  within the 2 to 4 frames of a run. Sums of numbers wrap at `SeqModulus`, above
  the numbers used except in `two_handlers`.
- Two frames against two admin changes are enough to tear a decision (it makes
  three look-ups). Two readers: one of them is the reader 0 of a header that did
  not parse.
- Audit: two appenders, three appends, two crashes, two rows lost or changed: two
  transactions can collide, a verification can straddle an append, and the chain
  can be off for one append between two chained ones, with both rows before the
  last run lost.
- Two handlers: three frames out of seven (numbers 0 to 4 with a modulus of 5, one
  bad tag, one bad nonce), capacity 2, threshold 1, streak limit 2, one release: a
  third frame arrives after the first two were handled together, the window
  evicts, and number 4 wraps.
- Keyed frames: a byte has 4 values, a 32-bit field one byte and a 64-bit field
  two, so fields have boundaries and values wrap; two cards with plaintexts of
  different length; five scans at two readers, of which two frames are sealed: other
  numbers, and one number for other doors, other cards and twice the same; two
  events, each a damage to the bytes or a change (rotation, enrolment, deletion,
  restart): enough for a rotation with an enrolment under the new version, a
  rotation with a damaged frame, and two damages that could cancel out. Six files:
  three that differ as the profiles of `config/` do, one without associated data,
  one with the master key and the static pepper, one that is refused.
- Events: capacity 2, limit 1 and three pushes, so the deque overflows and answers
  are full; two polls that overlap at most once; one restart.
- Import: one upload per verdict of the checks, two imports, one scan, one
  restart.
- Hardware: two scans with two attempts each, one reboot, one restart and one
  release, with threshold 0 and a window of 1, so a retry, a late post, an
  overtaking scan and a number that was evicted all happen.

### Fairness

`TwoHandlers`, `KeyedFrames` and `AuditLog` are checked for safety only, without
fairness.

- `DecisionEngine`: weak fairness of the handler's steps: its thread runs, and
  nothing it waits for is held for ever. Frames and admin operations need not
  come.
- `EventBus`: the timer fires for ever, and polls do not fail at the same point
  for ever (strong fairness of each step of a poll, since each attempt is fresh).
- `AppState`: the thread of an import runs. Requests need not.
- `HwPath`: the thread of a job runs; `AttemptFails` is the read timeout of the
  HTTP client, so a job never depends on an answer coming.

Nothing is assumed about crashes, restarts, failures or administrators.
Deadlock is checked where the system goes on for ever; `AppState` and `HwPath`
may stop (the process has died, or the bounded scans are used up).

## Proofs

Every invariant and every action property of the passing runs is proved, for
every value of the constants: any number of readers, cards, threads, frames,
appends, imports, polls, failures, crashes and restarts, any capacity and limit.
The bounds on counters play no part in the arguments, except where a hypothesis is
named below. Each proof is the induction Init => I, I /\ [Next]_vars => I', I =>
property; the invariant I is a conjunction of named parts, stated over the values
they speak of so that a step that leaves those values alone keeps them at once.

`ReplayGuardProofs`: the type invariant, `WindowInv`,
`ForgottenOnlyWhenOvertaken`, `RefusedOnlyWithCause`, and for numbers in order
`NoDuplicateAccepted` and the refinement of `ReplayPromise`. The inductive
invariant ties the three members together (the deque lists the set without
repetition, within the capacity, below the maximum) and relates them to the
history of accepted numbers; in order, the deque is also increasing, so that
what is evicted is below the live range. Without that, `NoDuplicateAccepted` is
false, as `replay_reordered` shows.

`DecisionEngineProofs`: the type invariant, `BindingsHaveReaders`,
`QuarantineFreezes`, `QuarantineAnnounced`, `StreakQuarantines`,
`NoGrantInQuarantine`, `ReplayHasCause`, `GrantsAudited`, `GrantJustified` and
`GrantedOnce`. `StageOK` says what is known of the frame in flight at each stage
(a reason of "ok" means that the frame parsed, a card look-up has a payload and a
version), `StreakBounded` that outside quarantine the streak is below the limit,
`RowBeforeAnswer` that a frame about to be answered has its row. For
`GrantJustified`, `StageFacts` collects the facts the statements so far have
established: each held when its statement ran, and all of them still hold if the
administrator has changed nothing. For `ReplayHasCause`, `WindowsKnown` says that
a window holds only numbers of frames that were opened. For `GrantedOnce`,
`OnceOK` says that a granted number is in the window or below its live range, and
that a frame past the replay check has a number that was not granted; it uses the
window lemmas of the in-order case, frame by frame. Assumptions are those named in
the modules: a positive capacity, natural thresholds, initial databases that
satisfy their foreign key.

`HwPathProofs`: the type invariant, `AllowShownIfGranted` (a job whose verdict is
"allow" has a grant on record, and the device takes its verdict from a job),
`QuarantineHasCause` and `GrantedAtMostOnce`. `QuarantineHasCause` assumes that
numbers do not wrap (`MaxScans + RollbackThreshold < SeqModulus`). Its invariant
follows a number from the device to the detector: the counter in flash is the
counter in use and nothing beyond it is known to the server; a post under way
belongs to the current or an earlier attempt; a scan handled on its first attempt
has no post left and cannot get another one; window and detector know only handled
numbers. So a replay needs a second attempt and a rollback a number that was
overtaken. `GrantedAtMostOnce` has no hypothesis. `handled` is the sequence of
numbers in the order of handling, and `OnceInv` places the window in it: each number
of the deque was handled with as many others after it as follow it in the deque, and
either a lower number came after it or all that follow it are higher (`Placed`). So a
number that is evicted has seen the window filled; if none of the later numbers is
lower, they are `Window` different numbers above it, which do not fit into its live
range (`TooMany`), and it is too old from then on. After a restart none of the posts
of a granted scan is left.

`AuditLogProofs`: the type invariant, `TransactionsWhole`, `CommittedChain`,
`VerifiedIsIntact`, `NoFalseAlarm` and `AckedWritesKept`. The history variables
`within` and `undone` hold the admin writes inside the open transaction and those
that went with one; `WritesSeen` says that the connection still has all the
others. Apart from the properties themselves the invariant says where an append
stands (the connection is the committed database, or that plus the row, or plus
row and anchor, whatever other threads wrote meanwhile), and what the verifier has
seen: the rows before `vnext` are linked from zeros, so `vhash` is the sequence of
their events. As a hash determines all it covers, an anchor equal to `vhash` is
the hash of the last append to the chain, and its length is that of the run it
ends. That is what fixes the statement of `VerifiedIsIntact`: the attempt to prove
it for all appends failed at a chain that was off in between, and TLC then found
the two losses that hide it.

`EventBusProofs`: the type invariant, `BufferIsTail`, `SkippedWithCause` and
`ShownInOrder`, for any number of polls, any limit and any capacity. The history
variables are `between` and `cut`, the events that may be skipped for either
cause, and `overlaps`, which counts the polls started while another was
outstanding. What `getAfter` returns is characterised first: the loop is a
recursive function, and the lemmas about it (it lists the retained ids above the
cursor, in order, the first `Limit` of them) go by the least number of iterations
at which they would fail. `SkipOK` and `OrderOK` then relate an answer under way
to the page: its events are those between the cursor it was asked with and the
last id it carries.

`AppStateProofs`: the type invariant, `OpenOnFile`, `ServedVerified`,
`OkMeansServed` and `BackupHoldsPrevious`. The invariant has the owner of the
mutex (`LockOK`), what each stage of an import knows of the files (`StageOK`), that
while imports have not overlapped the temporary file belongs to the one that is
under way (`AloneOK`), and what a file can hold at all (`FilesOK`, `SourceOK`,
`BackupOK`). The history variable `unsaved` records that the last copy aside failed or
was made of a damaged file.

`TwoHandlersProofs`: the type invariant, `QuarantineHolds`, `NoRegrantLater` and
`AnomalyHasCause`. `HeldOK`: a job that arrived under quarantine and was not
overtaken by a release still finds the quarantine, because no report of the other
handler lifts one. `RememberedOK`: without race or reordering, a granted number
stays in the window or below its live range. `CauseOK`: every number the window
and the detector know was received, the streak is at most the number of wrong tags,
and a job under way accounts for one of the copies of its number, so a lookup that
finds it has found another copy.

`KeyedFramesProofs`, in three layers. Codec, for every size of a byte and of the
fields: `put_le` and `get_le` undo each other on integers that fit (`GetPut`,
`PutGet`, by the least byte at which they would differ); from there
`ParseSerialize` and `SerializeParse`: the parser accepts exactly the strings the
serializer writes, and returns what was written. Keys and nonces: derived keys are
injective in reader and version, fresh bytes of two sealings differ, a cipher uses
at least one byte of a nonce. State: `SealOK` says what an entry of the history
holds; `NonceMadeAt` that its nonce was made for one sealing: itself, if it is
random, and otherwise the first one whose nonce has the same input; `TagMadeAt` that
ciphertext and tag were made for a sealing of the same card. So equal nonces have
equal inputs, an input determines the header, and a tag determines the card, although
numbers, and with them nonces, may repeat. `WireOK` says that whatever was done to the
bytes, the integer fields hold bytes, `EnrolledOK` that the latest enrolment of a card
has its row. From these follow `NonceRepeatsOnlyWithHeader`, `AcceptedAsSealed`,
`RotationKeepsCards` and `RoleIsLatest`. The hypotheses are those of
`KeyedAssumption`: ids, versions, lengths, times and sequence numbers fit their
fields. Cryptography is ideal, as stated above.

Only model-checked: the liveness properties `EveryFrameEnds`, `CursorRecovers`,
`ImportsEnd` and `JobsEnd`, as the prover treats neither fairness nor ENABLED; and
the counterexamples of the two violations.

## Not modelled

- The cryptographic primitives themselves (libsodium), the reading of the key
  file, and what the server never calls: `sealWithSeq`, `isAcceptedKeyVersion`,
  `access_service`, the in-memory policy of the tests, `lastSeqByReader`.
- The storage and admin sections of the configuration, beyond the choices that
  are constants of the models (mode, capacity of the bus). A capacity of 0, which
  `config.cpp` accepts, makes `EventBus::push` pop an empty deque;
  `EventBusAssumption` excludes it.
- The JSON of the API and of the payload, authentication, the lists for the web
  interface and its forms.
- The write-ahead log of SQLite: an export of the file misses the rows that are
  still in it.

## Plan

Done: all modules of the table above; every safety property of the runs proved.

Next:

1. State and prove what connects the models: that the windows and detectors of
   `HwPath` and `TwoHandlers` take only steps that `DecisionEngine` takes.
2. A second abstract specification worth refining to: an append-only log for
   `AuditLog` while nothing is lost.
3. Shorter proofs where lemmas are repeated: the least-number argument and the
   window lemmas are stated in each module that uses them.
