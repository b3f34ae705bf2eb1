# A TLA+ model of the durable WASM engine

The repository is a Go engine that runs WASM guests durably: a guest calls the
host function `checkpoint`, the engine saves its linear memory, and after a
crash any node restores the memory and goes on. This directory models the
engine's state machine, checks it with TLC and proves the main results with
TLAPS. Source paths below are relative to the repository root; `PROJECT.json`
maps each definition to the lines it translates.

## Inventory

| Part | State | Operations | Model |
|---|---|---|---|
| Checkpoint and restore (`wasman.go`) | version, snapshot, deltas in the store; per session `meta.Version`, linear memory, `pageHashes` | restore in `ExecuteWithArgs`, host function `checkpoint` | `Checkpointing`, against `DurableMemory` |
| Operation log (`wasman.go`, `runner/runner.go`) | log in the store; `callIndex` per session; `currentStep` in guest memory | `host_call_api`, `host_get_time`, `TruncateOplog` at full snapshots | `OplogReplay` |
| Streams (`session.go`, `runner/runner.go`) | `downloadReader`, `downloadEOF`, `uploadBuffer` per session | `handleDownload`, `handleUpload`, guest `StreamReader`, `StreamWriter`, `RunTask` | `Streams` |
| Warm sessions (`wasman.go`) | `activeSessions`, named modules in the runtime | `RunBPMN` with and without keep-alive, `CloseInstance`, calls that overlap on one engine | `WarmSessions`, `OverlappingCalls` |
| Module registry and versions (`wasman.go`) | modules by hash in the store, `WasmHash` in the metadata, `compiledCache` under `cacheMu` per engine | `SaveWasm`, `LoadWasm`, the lookup at the start of a session, the hash a checkpoint stores | `ModuleVersions` |
| In-memory store (`memory_store.go`) | one record per instance | `Save`, `SaveDeltas`, `TruncateDeltas`, `SaveMetadata`, `SaveOplog`, `TruncateOplog`, `Delete` | `SnapshotStore` |
| S3 store (`s3_store.go`) | one object per record, the metadata's ETag held by the caller | the same methods as requests: conditional and unconditional puts, read and put back, `Delete` object by object | `S3Store`, against `RecordStore` |
| File store (`fs_store.go`) | one file per record, a mutex per store value | the same methods as reads, truncations, writes and removals of files | `FileStore`, against `RecordStore` |
| Active index (all stores) | one list, or one `active.json` per instance | `UpdateActiveIndex`, `LoadActiveIndex` with its pages and goroutines, `Delete` | `ActiveIndex` |
| Builder, compression, examples, guest stub | none that outlives a call | sequential glue, a library's data transformation, client programs | not modelled |

How the parts interact. Nodes (processes with one `Engine` each) share only the
store, one call at a time. A session reads metadata, snapshot and deltas; its
guest runs and calls back into the host (checkpoint, API call, stream), and the
host functions write to the store. The version in the metadata is the only
fence between nodes: `SaveMetadata` is a compare-and-swap, and every other
write is unconditional. The guest's memory survives a restart, its stack and
the session's fields (`callIndex`, stream buffers, `pageHashes`) do not.

What is hard here, and the property that makes each part correct:

- A checkpoint is a sequence of store calls (compare-and-swap, save, truncate),
  and a restore reads in three. Other nodes and crashes fall between them. A
  restore must rebuild exactly the last checkpoint, and no node may overwrite a
  checkpoint it has not seen.
- Only dirty pages are saved between full snapshots, judged by cached hashes.
- Log entries are found by an index that starts from 0 in each session. A
  response must go to the call it was recorded for.
- The search in the log, the API call and its recording are three steps, between
  which other sessions go on and each of which may fail.
- Streams keep state that no checkpoint covers. Reads must return whole
  documents, uploads must hold exactly what was written.
- A kept module is used without a restore. It must be no older than the
  version its session presents, and no session may leak. Calls that overlap on
  one engine take and drop each other's session and module.
- An instance outlives the module it was started with. Its memory must run
  under the module that wrote it, which must still be found, and an engine must
  not compile it over and over nor keep its lock.
- A store method is several file operations or several requests. What is left
  when it stops between two of them, or when another call falls there, must be
  limited to the record it was about.
- The bucket's index is listed in pages and read in parallel while it changes.

`PROJECT.json` lists each hazard with its line and the properties about it.

## Modules

`SnapshotStore` holds the store's operations as operators on the stored
values: `Overlay` for deltas over a snapshot, `SaveMetadataAccepts` for the
three conditions of the compare-and-swap, `SaveOplog` and `TruncateOplog`.
Version 0 stands for "no record". It is the base of the modules below, so what
their runs say about the store is said of one definition.

`Checkpointing` has any number of nodes, each with at most one session of the
instance. One action is one store call with the code around it: `Start` is
`LoadMetadata` up to `_start`, `LoadSnapshot` and `LoadDeltas` the two reads of
the restore, `CompareAndSwap`, `SaveFull`, `Truncate` and `SaveDirty` the
handler `checkpoint`, `Fenced` its refusal; `LoadSnapshotFails`,
`LoadDeltasFails` and `TruncateFails` are the errors that the code does not
report. `Write` and `Grow` are the guest's instructions, and any content change or
growth can happen between checkpoints. A page is one of a few contents and its
hash is its content (no collisions). `Crash` ends a session anywhere: process
death, a trap, a cancelled context and a failing store write (a panic in the
handler) look alike from the store.

Nothing is excluded from its behaviours. Four things that happen in them make a
restore inexact, the `Troubles`: `overlap`, `untruncated`, `load_error`,
`page_reuse`. Two history variables say whom they have reached: `harm` the
stored record, `doubt` each session. A session carries its doubt into what it
writes; a full snapshot with its truncation, and a delta checkpoint of a session
without doubt, set the record right again. The properties speak of records and
sessions that no trouble has reached. The other history variables (`durable`,
`durableVer`, `base`) are the newest checkpoint and which one each memory
descends from; no action reads any of them.

`DurableMemory` is the abstract specification of the same: one memory, and
sessions that get a copy (`Restore`), change it (`Work`), lose it (`Lose`) or make
it the memory, which puts an end to all other copies (`Write`). A session that has
gone astray has no copy, and nothing is known of what it writes (`Overwrite`);
`Damage` ends the promise and `Repair` begins it again. It has neither
versions nor pages, snapshots or deltas. `Implements` in `Checkpointing`
instantiates it with what a restore would give now (`StoredMemory`), with the
memories of the sessions that may still write or are writing and have met no
trouble (`Copies`), with those that have (`Astray`), and with `Sound`, that none
has reached the record. A copy is taken in the second read of the restore, the
other copies are lost in the compare-and-swap, and memory is written in
`SaveFull` or `SaveDirty`.

`OplogReplay` runs a workflow, a sequence of steps that are sequences of API
names, through `runner.Run`. Memory is abstracted to `currentStep`. A response
is the call it was produced for, so a wrong answer can be seen. `Search` is
`LoadOplog` without a matching entry, `Perform` the handler and `Record`
`SaveOplog`, one step each; `Replay` answers from the first matching entry;
`SearchFails`, `PerformFails`, `RecordFails` and `TruncateLogFails` are the
error paths, with the difference that `host_get_time` ignores a failing
`SaveOplog` and `host_call_api` does not. The guest is chosen at the beginning:
one that `resumes`, or one that starts over on each execution, as the guest of
the truncation test does; with a response that exceeds its buffer, or without.
`failed` records that `run()` has returned -1, which `ExecuteWithArgs` reports as
`(false, nil)`, like completion.

`Streams` runs a workflow of reads, writes and closes over one session at a
time. `ReadChunk`, `ReadEOF` and `ReadFails` are `handleDownload`; `Write`,
`Close` and `Flush` are `handleUpload` with the guest's writer; `ReadDocument`
is a decoder that stops before the end of file. Handlers are configured and
guest pointers valid: the checks for their absence change no state. What a
close must upload is stated without recursion: `Written` is the set of the
writes since the last close, and a body that is in order (`InOrder`) and has
these chunks is exactly that sequence (`IsOutput`).

`WarmSessions` is `RunBPMN` from `LoadMetadata` to its deferred function, one
call per engine at a time. Memory is abstracted to the checkpoint it descends
from and a checkpoint's save is one step, `Checkpointing` being about both.
`Leave` is the deferred function: whether module and session are dropped
depends on keep-alive and on the variable `err`, which several error returns
leave nil (`RestoreFails`, a part of `Reject`, `Complete` with a negative
result). `RestoreMisses` is a failing `Load` or `LoadDeltas`, after which the
guest runs unrestored. The caller chooses engine and keep-alive freely. `astray` is
history: the engines whose module was left to miss what the store has, by a failed
load, by being kept over a checkpoint of another engine, or by beginning or
restoring between another's compare-and-swap and save.

`OverlappingCalls` has calls of `ExecuteWithArgs`, of `RunBPMN` without
keep-alive and of `CloseInstance` for one instance on one engine, in any
interleaving of their accesses to `activeSessions`, to the runtime's table of
module names and to the store; `CompareAndSwap` and `SaveMemory` are the two
halves of a checkpoint. Session and module objects are named after the call that
made them, so that a call may use, close or delete another's. Each call is made
once. `astray` is as above.

`ModuleVersions` has engines built from different modules, sessions of several
instances on them, and crashes. `Begin` is `LoadMetadata` with the choice of the
module; `LookUp`, `LoadWasm`, `Lock` and `Compile` are the double-checked
lookup, with `CompileFails` and `LoadWasmFails` its error returns;
`Instantiate` fails when a guest of the instance has the module's name on that
engine; `Checkpoint` stores the engine's own hash. `writer` and `compiles` are
history: the module whose memory is stored, and how often an engine compiled.

`RecordStore` is the abstract specification of the stores over a bucket and over
files: metadata move by compare-and-swap only; a call changes one record, at
once, and what it adds to or cuts from is the record or a copy of it, as it was
at some time during the call or empty; a record that is being written is lost as
a whole when the writing stops; nothing else is forgotten except during
`Delete`. The modules above use the store with one operator of `SnapshotStore`
per step, as the in-memory store does under its mutex.

`S3Store` is the detailed one over a bucket: requests are atomic, calls are not,
and those of different clients overlap. `ReadDeltas`, `ReadLog` and
`ReadToTruncate` and the `Put...` actions are the two halves of `SaveDeltas`,
`SaveOplog` and `TruncateOplog`; the answer to a put may be lost after it was
carried out; `Stop` ends a client between any two requests. Any failing read or
removal may be a misread: `isNotFound` also looks for "404" and "not found" in
the text of the error, where the key stands too, and takes it for a missing
object. `Open`, `ReadDeltas` and `ReadLog` then go on from nothing, and
`PassObject` leaves the object behind while `Delete` goes on. Clients are any
callers of the interface, which is more than the engine does, except that memory
is saved after a successful `SaveMetadata` only, the order of the handler
`checkpoint`. `acked` and `stray` are history: the entries that `SaveOplog` has
acknowledged (while no other call was at the log), and the objects a `Delete`
passed over or a session put when the metadata were gone or going. `Implements`
instantiates `RecordStore` with what the calls under way have read for the
copies and no unfinished writes.

`FileStore` is the same interface over files. A method takes the mutex of its
store value (`Shared`: all clients have one value; otherwise each its own),
reads, computes the new content, and then `TruncateFile` and `FillFile` are the
two halves of `os.WriteFile`. `Crash` ends a process anywhere, with all clients
of its value; `FillFileFails` is a full disk; both leave the file that was being
written torn, whichever it is (`Stopped`). A torn file cannot be read, and
`ReadOrEmpty` is what `SaveDeltas` and `SaveOplog` make of that: nothing. The one
exception is the version: while `_meta.json` is torn nobody gets another, so that
`disk` keeps the number for the mapping. `PassFile` is an `os.Remove` whose error
`Delete` ignores. `Implements` instantiates `RecordStore` without copies, the
mutex being held, and with the files that are being filled for the unfinished
writes.

`ActiveIndex` applies the same updates to the list of the memory and the file
store and to the bucket's objects, whose keys include one that is no index entry
(`meta.json`). `UpdateGarbled` and `CompleteGarbled` are reports that are no JSON
object, which the lists refuse and the bucket does not look at; `UpdateFails`,
`CompleteFails` and `TearList` are failures of one of the two. One
`LoadActiveIndex` at a time runs on the bucket: `NextPage` per request, then one
goroutine per key (`Read`, `Send` into a channel with room for all) and the
receiving loop, which returns at the first error. Whether the list is kept to
compare (`mirrored`) or the bucket listed is chosen at the beginning: neither has
an influence on the other. The filter of a completed instance's entry (`Without`)
takes the kept positions by rank, the nth being the one with n - 1 below it. Its
specification is called `IndexSpec`, its state `indexVars` and so on, so that
`S3StoreProofs` can extend both modules about the bucket.

The `MC` modules give the workflows and the symmetry sets; the `Proofs` modules
hold the theorems. The definitions marked as mutants are wrong versions of the
definition after them, each of which one property is known to reject.

## Runs

Bounds are the constants named `Max...` and the sizes of the sets.

| Run | Shows |
|---|---|
| `checkpointing` | Two nodes: `TypeOK` and `OneWriterPerVersion`, which hold without exception; `RecoverExact`, `RestoreIsExact`, `NoLostUpdate` and `Implements`, the refinement of `DurableMemory`, of what no trouble has reached. |
| `checkpointing_crash` | Violation of `RecoversAfterCrash`: a session lost between `Save` and `TruncateDeltas`. |
| `checkpointing_overlap` | Violation of `RecoversAfterOverlap`: the write after a successful compare-and-swap is not fenced. |
| `oplog` | Two nodes, a guest that resumes and one that starts over, sessions one after the other and at once, an API name used twice, a response that may be too large: `TypeOK`, `RerunMatches`, `CompletedMeansPerformed`, `RecordedIsFound`, `OversizedStaysFailed`, and `EventuallyDone` under fairness. |
| `oplog_names` | Violation of `ResponseMatchesCall`: a resumed workflow that uses an API name in two steps. |
| `streams_exchanges` | Two steps of exchanges, lost sessions, failing uploads: `TypeOK`, `OneDocumentPerExchange`, `UploadsAreWhole`, `OutputsReachHandler`. |
| `warm_sessions` | Two engines, kept and unkept calls on either: `TypeOK`, `RunsOnLatest`, `NoLeak`. |
| `overlapping_calls` | Three calls of any kind on one engine: `NothingLeft` when all have returned; `RunsOnLatest` of the guests that share nothing. |
| `module_versions` | Two engines with an old and a new module, two sessions, two instances: `RegistryIsComplete`, `CompiledOnce`, `RunsItsModule`, and `LookupEnds` under fairness. |
| `s3_store` | Two clients on one bucket, calls overlapping, lost answers, failures, misreads, deletion: `TypeOK`, `AckedIsStored`, `NoGhostMemory`, and `Implements`, the refinement of `RecordStore`. |
| `file_store` | Two clients of one store value, crashes and full disks that tear any file: `VersionGrantedOnce`, `AckedIsStored`, and `Implements`. |
| `active_index` | Two instances that report, complete and are deleted, during a listing or with a list to compare: `ListingIsCurrent`, `MissingOnlyInRace`, `StoresAgree`, and `ListingEnds` under fairness. |

The three violations are disagreements between the code and its documentation;
`findings` in `PROJECT.json` quotes the lines.

Why the bounds are enough.

- `checkpointing` has full snapshots at versions 1 and 3 and deltas at 2 and 4:
  a snapshot with nothing to truncate, deltas over it, a snapshot with a
  truncation and a delta on top. One page that the module does not start with,
  and two contents, separate "not there", "grown", "restored" and "dirty"; that
  pages do not influence each other is the proofs' part. Every trouble occurs,
  alone and with others, and every way to set a record right.
- The two violations of `Checkpointing` take the code's period, 5.
- `oplog` has two steps and one failure, so at most four versions are taken in a
  behaviour without overlap and the bound never stops a workflow: liveness is
  not bought with the bound. Period 3 puts a truncation into the second attempt,
  and between two overlapping ones. One failure is one lost session or failing
  call, and the one retry that the Temporal example grants.
- `streams_exchanges` has nine documents for three lost sessions, two chunks
  each, an empty close, a read after a remembered end of file.
- `warm_sessions` has six versions over two engines: every kind of ending of a
  call followed by a call of the same and of the other engine.
- `s3_store` has two versions (created, replaced by the holder of the ETag), two
  pages and a log of two entries, so that a change that drops the rest of an
  object shows; two hashes tell metadata of one version but two lives apart.
- `file_store` has the same sizes; a client that lost the race for a version, one
  that comes back after a crash, and a second life all occur within two versions.
- `overlapping_calls` has one call more than the two that can meet, so that a
  third finds what they left; three versions are a first checkpoint, one by an
  overtaker and one more.
- `module_versions`: two versions are the first checkpoint and the one by an
  engine with another module, after which a third session restores. Two
  instances let two sessions on one engine miss the same module at once.
- `active_index` has two instances with two objects each and pages of one
  object, so up to four pages. One piece of information suffices for the run; two
  (which tell an old entry from a new one) were also checked, by symmetry without
  the liveness property.

Symmetry is used on nodes, engines, clients or calls only, which are
interchangeable, and in no run with a liveness property (`oplog`,
`module_versions`, `active_index`). Deadlock checking is off where the system
really stops: the workflow once completed (`OplogReplay`, `Streams`), the calls
once made (`OverlappingCalls`).

Fairness. In `OplogReplay` it is weak fairness of each node's session: a session
is a goroutine that runs until it returns, so one that can move does. And it is
weak fairness of `Retry`: a caller executes an instance again after
`ExecuteWithArgs` has returned an error (Temporal's retry policy in
`examples/temporal/host/main.go:34`), and not after it has returned
`(false, nil)`, which both examples take for completion
(`examples/camunda/host/main.go:112`) although `run()` may have returned -1
(`wasman.go:585`). `EventuallyDone` therefore ends with `done` or `failed`; it
also leaves out instances of which two sessions ran at once, since these may fence
each other. Nothing makes a particular action of a session fair, and failures are
limited only in number. `ModuleVersions` has the same for sessions,
and strong fairness of taking `cacheMu`: others may take it again and again, but
`sync.RWMutex` lets a waiting reader or writer in eventually. Engines may crash
for ever. `ActiveIndex` has weak fairness of the caller's loop and of each
goroutine, and none of the updates.

### What fails

Three things the documentation says are violated, and have a run of their own: an
exact restore after a crash, an OCC conflict for a late write, deterministic
replay. The other known failures are in the models too, and are the exceptions the
properties make. Each property says, in effect, that there are no others.

- `RecoverExact`, `RestoreIsExact`: besides a crash, a discarded error of
  `TruncateDeltas` has the same effect (`wasman.go:137`). A page that returns to
  the hashed content is not saved, because a full snapshot leaves `pageHashes` as
  they were (`wasman.go:156`): `page_reuse`. An error of `Load` or `LoadDeltas` is
  taken for a missing record (`wasman.go:487`): `load_error`.
- `RerunMatches`, `RecordedIsFound`: only for a guest that starts over. A resumed
  one gives a recorded call another index, so that it is made again or, when the
  name fits, answered with another call's response (`wasman.go:245`).
- `RunsOnLatest` of `WarmSessions`: an engine that went astray. A kept module is
  older than the metadata its session is given when calls of a kept instance go
  to two engines (`wasman.go:675`); a kept call whose memory could not be grown
  leaves its unrestored module for the next.
- `RunsOnLatest` of `OverlappingCalls`: calls that share. `RunBPMN` takes a module
  that another call has instantiated and not restored yet (`wasman.go:687`).
- `RunsItsModule` has the premise `hash = writer`: `checkpoint` stores the
  engine's own hash whatever module runs (`wasman.go:98`), so that one checkpoint
  of an older instance on a newer engine puts its memory under the newer module.
  `wasman_test.go:815`: "It should transparently compile and run wat1 module,
  loading it from store."
- `AckedIsStored` of `S3Store`: entries that were put while another call was
  between reading and putting back the log, of which one drops the other's
  (`s3_store.go:244`), and entries a later `SaveOplog` misread (`s3_store.go:223`).
  `NoGhostMemory`: objects that a `Delete` passed over (`s3_store.go:429`), or that
  a session put while or after its instance was deleted (`s3_store.go:168`).
- `AckedIsStored` and `Implements` of `FileStore`: a log, a map of deltas or a
  snapshot whose rewriting stops is lost as a whole, and the next write starts from
  nothing (`fs_store.go:78`, `:145`). A torn module file is there for good, since
  `SaveWasm` takes any file for the module (`fs_store.go:296`); no property is
  about it. All three properties of the run need `Shared`: two values over one
  directory both pass the compare-and-swap (`fs_store.go:219`).
- `StoresAgree`: instances of which list and bucket were told different things
  last, such as a report that is no JSON object (`memory_store.go:211`,
  `fs_store.go:338`, against `s3_store.go:439`) or a `Delete`, which leaves the
  lists alone (`memory_store.go:53`). The memory store also answers `null`, not
  `[]`, once its last instance has completed (`memory_store.go:216`).
- A workflow in `Streams` that writes an output in one step and closes it in
  another: `OutputsReachHandler`, with a restart between the two. An upload
  handler that fails is reported to the guest, but `StreamWriter.Close` discards
  the result and `RunTask` returns 0, which is why the property speaks of the
  handler's being called.

Seen while reading, without a model: a `Runner` used again after a failed `Run`
returns the old error and does not execute (`runner_builder.go:200`, against
`:160`); `ExecuteWithArgs` reports a negative result as completed
(`wasman.go:585`) where `RunBPMN` reports an error (`wasman.go:885`).

## Proofs

For any number of nodes, pages, versions and any workflow, from the named
assumptions on the constants in each module:

`CheckpointingProofs`, without further assumptions and under every failure

- `TypeCorrect` and `Fencing`. `OneWriterPerVersion` is not inductive: that the
  next version is new needs `NoneAhead`, no session's version exceeds the stored
  one.
- `LostUpdateFreedom`. `OrderInv` adds to fencing that a session with the stored
  version, in no doubt because of a failed load or an overlap, works on the
  newest checkpoint (`Descending`); that between `Save` and `TruncateDeltas` the
  snapshot is that session's memory (`Pending`), and that `harm` says so
  (`Marked`).
- `Recovery` and `ExactRestore`. `RecoveryInv` adds to `OrderInv` that memory only
  grows (`Allocated`), how far a restore has come (`Restoring`), what a running
  session's pages and hashes are to the newest checkpoint (`Following`), and that
  deltas are of version 2 and later (`Stored`), all of sessions in no doubt and
  with the stored version. The dirty-page argument is in `Following`: a page
  whose content has its recorded hash is stored as it is.
- `OneDurableMemory` (`Spec => Implements`) rests on the same invariant, by which
  what a restore would give is the newest checkpoint while nothing has gone
  wrong (`SoundIsDurable`). `StepRefines` has a case per action.

`OplogReplayProofs`, for any workflow, overlapping sessions and failing log reads

- `TypeCorrect`, without further assumptions.
- `RerunIsRight` and `CompletionIsReal`. `ReplayInv` says that log entries hold
  the response of a call with the name they carry (`LogSound`), and that
  everything before a session's position, before the stored `currentStep`, in
  the middle of recording and in a completed workflow is covered (`Positions`,
  `SavedSound`, `Recording`, `DoneSound`). `Covered` is what differs: for a guest
  that resumes, some call of that name has been performed; for one that starts
  over, the call itself. `RerunInv`: for the latter `callIndex` is the number of
  calls before its position (`IndexIsRank`), an entry carries the rank of the
  call whose response it holds (`LogRanked`), and until a truncation the log has
  every recorded call (`RecordedInLog`). Two calls of one rank are the same
  (`RankIdentifies`, by cardinality), so the log answers rightly
  (`RightAnswers`).
- `RerunFinds` from the same invariant: a search that succeeds does not miss what
  was recorded before it.
- `OversizedNeverCompletes`. `NotPastOversized`: no guest, running or saved, is
  behind a call whose response its buffer cannot take.

`StreamsProofs`, for any workflow and any length of documents

- `TypeCorrect`, with `Buffered`: the chunks in the buffer lie before the guest's
  position.
- `DocumentsAreWhole`. `Download`: a session has read nothing since the reset
  (`Untouched`), is in the middle of a read with the first part of a document in
  the guest and the others in the reader (`Reading`), or has read the document
  to its end (`Exhausted`).
- `UploadsWhole` and `OutputsArrive` assume `StepsClose`: a step closes what it
  writes. `BufferWhole`: the buffer is what the workflow has written since its
  last close, which for a new session is nothing because it begins with a step.
  `SentBefore` and `SentSaved`: the outputs before the guest's position, and
  those of the steps before the checkpoint, have been uploaded. Without
  `StepsClose` both fail ("What fails", above).

`WarmSessionsProofs`, for any callers

- `TypeCorrect` and `Leakless`. `NoLeak` needs `Equipped`: past binding a call has
  a session, past finding the module it has a module.
- `FencedOrLatest`. `LatestInv` adds to `Equipped` that every engine is `Sound`:
  its call is not ahead of the store; while another engine saves the last
  checkpoint (`OtherSaves`), a call that presents the stored version has gone
  astray or will still restore; and the module it has kept, or that of a call
  that presents the stored version, has the stored memory unless it has gone
  astray.

`OverlappingCallsProofs`, for any number of calls of any kinds

- `NothingLeaks` and `UnsharedIsCurrent` share one invariant. An active session
  has a `RunBPMN` under way that will delete it (`ActiveIsHeld`), a module that
  has the name has a call that will close it (`NameIsHeld`), sessions and modules
  of `ExecuteWithArgs` are its own (`SessionsApart`, `Unbound`, `ModulesApart`),
  nobody's version is ahead of the store (`NotAhead`), and an unshared call is
  sound (`Fresh`): while it saves, nobody else saves that version, and once it has
  restored with the stored version it has the stored memory or has gone astray.

`S3StoreProofs`, for calls that overlap as they like

- `TypeCorrect`.
- `AckedStays`. `AckedInv`: a client that is rewriting the log has read every
  entry that is acknowledged and has not been endangered by an overlap or a
  misread.
- `NoGhosts`. `GhostInv`: what a `Delete` has passed is gone or stray, and so is
  all memory that has no metadata.
- `Refinement`. A put is the abstract operation on the copy that the client has
  read, a conditional put that succeeds is a compare-and-swap of the version, a
  removal is one of the abstract store's, and everything else stutters.
- `IndexIsCurrent` and `IndexFailsInRace` are about `ActiveIndex`, whose
  `LoadActiveIndex` works on the same bucket, and need only its assumptions.
  `IndexInv`: what an object is, it has been since the call began
  (`ActiveIsSeen`); an instance that was listed had its object
  (`ListedWasThere`), one that the listing passed had none (`PassedWasMissing`);
  a goroutine's result was so when it read (`Answered`), and none is left of an
  earlier call (`NoGoroutine`). That a page leaves out no key up to its last is
  `PageIsWhole`, by counting the keys below each; that a page has a last key
  comes from `LeastNumber`, which rests on the well-foundedness of strict
  inclusion of finite sets.
- `IndexesAgree` is about its list. `AgreeInv`: the list has no two entries of one
  instance (`OneEach`), an entry is in the list exactly if it is what the bucket
  has of its instance, unless the two have diverged there, and an instance whose
  object is garbled has diverged. `StoresAgree` alone is not inductive: a later
  update must find the entries of a diverged instance once. `PutReplaces` and
  `WithoutKeeps` are what the two changes do to the entries. The second takes
  `Ranks`, that a finite set of positions has one of each rank: among those of at
  least that rank take the least; if its rank were larger, the last position
  before it would be another (`LastPosition`).

`FileStoreProofs`, for `Shared` and processes that may die in any write

- `VersionOnce`. `VersionInv`: granted versions do not exceed the one on disk, and
  the one being written is the next. It rests on `AcceptsCurrent`: metadata that
  cannot be read refuse everybody.
- `AckedStays` and `Refinement`. `TornInv`: a file is torn while it is written, and
  deltas and a log that stay torn are lost. `PendingInv`: what a call is about to
  write follows from what is on disk, and contains what was acknowledged. A call
  takes effect in `FillFile` (`FillRefines` is the case per file); a call that
  stops in the middle of it is the abstract `Lose`; the rest stutters or belongs
  to `Delete`.

`ModuleVersionsProofs`

- `TypeCorrect`, with `Bound`: a session under way has an engine that is up.
- `RegistryComplete`, with `Registered`: running engines and sessions have
  registered modules.
- `CompiledAtMostOnce`, with `CompileInv`: what was compiled is what is in the
  cache, and who is about to compile holds the lock and has looked.
- `RunsTheModule`, with `VersionInv`: no session is ahead of the store, and an
  up-to-date one has the module the metadata name or the one it checkpointed.

All invariants and action properties of the passing runs are proved, and the
three refinements. Only model-checked: `EventuallyDone`, `LookupEnds` and
`ListingEnds` (liveness under fairness is out of the prover's reach), and the
three violations. Beyond the constants' types two assumptions are left: `Shared`
(one mutex for all users of a file store) and `StepsClose` (of the workflow);
"What fails", above, says what happens without them.

## Not modelled

- A put of a dead process that reaches the bucket late, and a file that another
  process removes while it is being filled.
- Kept calls that overlap on one engine, and data races inside one `Session`:
  `OverlappingCalls` takes each access to a table as a step.
- `Checkpointing`, `OplogReplay` and `WarmSessions` assume an atomic store whose
  failing calls did nothing, or ended a session that did them; `S3Store` and
  `FileStore` say when that is so. `Delete` does not occur in them.
- The builder (setters with a sticky error before one call of
  `ExecuteWithArgs`), the examples (clients of the engine), the guest stub.
- Hash collisions of pages, sizes below a page, guest pointer checks, missing
  handlers, log messages, compression.

## Plan

Done, in order of importance: `SnapshotStore`, `Checkpointing` with proofs,
`OplogReplay` with proofs, `Streams` with proofs, `WarmSessions` with proofs,
`RecordStore` with `S3Store` and `FileStore` and both refinement proofs,
`ModuleVersions` with proofs, `OverlappingCalls` with proofs, `ActiveIndex` with
proofs, `DurableMemory` with the refinement proof of `Checkpointing`.

Next:

1. `DurableExecution`: `Checkpointing` composed with `OplogReplay`, so that the
   log and the memory are saved and lost together, kept sessions included;
   `OplogReplay`'s save of memory shown to be an abstraction of
   `Checkpointing`'s.
2. Kept calls in `OverlappingCalls`.
