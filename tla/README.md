# QDB in TLA+

QDB is an embedded persistent message queue in C: one process opens one
database file, pushes messages into named queues, pops them under leases, and
acknowledges them or gives them back. This directory holds TLA+ models of the
library, TLC configurations that check them on small instances, and proofs,
checked by TLAPS, that hold for every instance. Paths such as `src/qdb.c:469`
are relative to the root of the repository.

## The system

| Part | Code | What it does |
|---|---|---|
| Queue engine | `src/qdb.c` | `qdb_push`, `qdb_pop`, `qdb_pop_any`, `qdb_ack`, `qdb_nack`, `qdb_process_expired_leases`, `qdb_close`; each appends a record, persists the header, then changes memory |
| Open and recovery | `src/qdb.c`, `src/qdb_replay.c` | lock, delete a stale staging file, create or check the header, replay a `-wal` file, truncate, validate, replay the log |
| In-memory state | `src/qdb_state.c`, `src/qdb_state.h` | hash tables of messages, queues and leases; an intrusive FIFO list per queue |
| Record log, header | `src/qdb_io.c` | record = header, payload, commit marker, with an fsync before and after the marker; the file header holds `next_msg_id`, `log_end`, flags, CRC |
| Compaction | `src/qdb.c` | rewrites live messages into `<path>-compact`, renames it over the database, reopens |
| Statistics | `src/qdb.c` | `qdb_stats`, `qdb_queue_stats`, `qdb_queue_list`, `qdb_compact_recommended` |
| Platform layer | `src/qdb_platform.c` | files, sync, rename, lock and clock for POSIX and Windows |
| CRC-32 | `src/qdb_crc32.c` | checksum of headers and payloads |
| Public interface | `include/qdb.h` | the promises to callers |
| qdbtool | `tools/qdbtool.c` | command line around the library |
| Python binding | `python/qdb/_qdb.c` | wraps a handle, releases the GIL around calls |
| Examples, tests, fuzz, benchmarks | `examples/`, `tests/`, `fuzz/`, `benchmarks/` | callers of the library |

The library has no thread of its own. What makes it hard is that every call is
several durable steps, any of which can fail or be the last one before a
crash; that the same state change is written twice, once in the call and once
in the replay handler; that ids, offsets and leases handed to callers outlive
the process that issued them; and that several programs, and in Python several
threads, meet at one path.

## Modules

The models stand at five levels. Each keeps the whole control of its code and
takes the level below for granted in an abstract form.

| Module | Models |
|---|---|
| `QdbState` | records, tables and replay handlers, as operators: the data of the system |
| `QdbEngine` | the life of a handle over a file: open with recovery, calls, failures, crashes; the main safety properties |
| `QueueService` | the abstract specification: FIFO queues with leases, every operation atomic |
| `QdbCompact` | `qdb_compact` composed with the engine |
| `QdbTables` | the linked lists and hash chains under `QdbState`, pointer by pointer, and the expiry walk over them |
| `QdbStats` | the statistics calls, as operators over `QdbTables` |
| `QdbStorage` | the file under `QdbEngine`, write by write and sync by sync, with power loss and damage; WAL replay and log validation |
| `QdbPrograms` | qdbtool, the job_worker example and a long-running worker as processes on one path, with the lock file |
| `PyBinding` | the Python extension: threads that share `Database` objects and release the GIL |
| `MC...` | the instances TLC checks |
| `QdbEngineProofs` | the engine's inductive invariant, its preservation, the safety theorems |
| `QdbLogProofs` | what a replayed record does to a well-formed state; what holds of the file also when a handle is used again after an error |
| `QdbServiceProofs` | the order of deliveries, and that the engine implements `QueueService` |
| `QdbTablesProofs` | the inductive invariant of the lists and chains; the counters and the statistics |
| `QdbStorageProofs` | the layout of an undamaged file, what the scan reads from it, the WAL file |
| `QdbDamageProofs` | what becomes of a damaged file, and that every handle reads back what was appended |
| `QdbProgramsProofs` | exclusion by the lock file, and what becomes of the jobs |
| `PyBindingProofs` | ownership of handles in the binding |

### QdbState

A record keeps its type, ids and expiry; payload bytes and the name's encoding
are abstracted. The three hash tables are functions whose DOMAIN is the set of
keys a lookup finds. A queue's list is the sequence of ids from `pending_head`
to `pending_tail`, and `pending_count` is its length. The operators carry the
names of the C functions (`pending_append`, `lease_remove`, `replay_nack`).
`replay_check` gathers the tests each handler makes before it changes
anything; `replay_step` is what it then does; `replay_record` is one turn of
the loop of `qdb__replay_log`.

### QdbEngine

| Variable | Code |
|---|---|
| `disk` | the database file: none, shorter than a header, or a database with its records and the header's `log_end` and `next_msg_id` |
| `pc` | where the handle is: closed, replaying, idle, between append and header update, in the expiry walk |
| `db` | `struct qdb`: state, `next_msg_id`, `next_lease_id`, `log_end_offset` |
| `op` | the record whose header update is under way |
| `pos`, `todo` | progress of a replay, of an expiry walk |
| `stale` | the last call failed after its record became durable |
| `refused` | what an open refused as corrupt |

A mutating call is two actions: `qdb_push`, `qdb_pop`, ... make the checks and
the append; `FinishPush`, `FinishPop`, ... persist the header, change memory
and return. In between, the header update may fail (`HeaderFail`) or the
process die (`Crash`). An append that fails leaves nothing, a record without
its marker, or a complete record behind `log_end`. `FinishPushNoMem` is the
allocation failure of `qdb_push` after its record is durable (the other calls
allocate first). The wall clock is an input: each reading is any member of
`Times`, so it may jump in both directions. A walk over a hash table visits
its entries in any order.

The history variable `hist` maps n to what replaying the first n records of
the log yields. It is extended by each append and cut by each recovery, and is
the bridge between the file and memory: `Durable` is `hist[disk.log_end]`,
what the next open would rebuild if the process died now. The other history
variables record what callers were told (`pushed`, `handed`, `acking`,
`acked`, `returned`). No action of the engine reads any of them.

`RetryAfterError` says whether the caller goes on using a handle after a call
that failed behind its append. The comments in `qdb_push` require closing and
reopening (FALSE, under which the main properties hold); TRUE is checked too.

### QdbCompact

The staging file is written record by record (`CompactWrite`), in any order of
queues and of leases, with each list from head to tail. A failure at any point
gives it up (`CompactFail`, `CompactRenameFail`). `CompactRename` is the
rename and the beginning of the reopen; the reopen then uses the engine's
replay actions, and may fail (`ReopenFail`). `Windows` chooses the build that
closes the file before the rename. `PowerLoss` keeps the replaced file in
`prior` until the directory entry is durable; `RenameLost` brings it back.

### QdbTables and QdbStats

`next`, `prev`, `head`, `tail` are the fields of `qdb_message` and `qdb_queue`,
`bucket` and `lnext` the chains of the lease table, `live` the lease entries
that are allocated, `qchain` the chains of the queue table and `queue_count` the
number of its queues. A pointer is an id,
0 is NULL. The hash functions are constants, so that every collision pattern
can be chosen. An action is what a call does to the tables once its record is
durable; `LostPush` is a push that runs out of memory there.
`replay_lease` takes a message from any place of its list, as the replay of a
compacted log does. The walk of `qdb_process_expired_leases` (`walk`) moves
entry by entry and frees entries of the chain it stands in. `fifo` and `chain`
say what the lists ought to hold and are read by the properties only. The
message table is only searched and inserted into and stays a function.

`QdbStats` adds up the counters the way `qdb_stats`, `qdb_queue_stats`,
`qdb_queue_list` and `qdb_compact_recommended` do: `QueueWalk` is the loop over
buckets and chains, `Sums` the additions made on the way.

### QdbStorage

A file is a function from offsets to cells: the file header, the header of a
record, a payload byte or the marker byte. `cache` is what a program reads,
`media` what is on the disk, `dirty` the cells that may differ. A write may
stop half way; a failed sync leaves any part of the dirty cells on the media
and the rest lost; a power loss does the same and may mix old and new in a cell
longer than a byte; `Damage` changes a cell under the log end. `pc` walks
through `qdb__append_record` (body, sync, marker, sync) and
`qdb__header_update` (write, sync), which calls, `qdb_open`, `replay_wal`,
`validate_log` and `qdb_close` share (`for`), and through steps 3 to 8 of
`qdb_open`. The caller here does go on after errors.

`log` and `durable` are what was appended and how much of it a synced header
covers; `happened` remembers the events that excuse a refusal, or a log that is
not read back.

### QdbPrograms

Directory entries name files, so that a file can be removed or replaced while a
process has it open, and `flock` belongs to the open lock file. Each process is
at a step (`pc`) of its program: opening (check, open the lock file, lock,
delete a staging file, open or create the database, write a header), the calls
of the program, compaction (create, copy, rename, reopen), closing, and for the
demonstration the removal of its files. A library call is one step on the
contents of a file. Leases hold the time they have left.

The long-running worker is the loop of `examples/job_worker.c` without its cap
and without the removal at the end, as the comments of that file describe it.

### PyBinding

Code under the GIL is one action; a thread in a library call is at a point of
its own. `self->handle` is tested under the GIL and read again outside it, so
the second read may see either value when another thread closes. `Guarded`
objects are used according to the rule in the binding's documentation (one
handle per thread, or a lock), the others by any thread at any time.

### Abstractions and assumptions

Engine and compaction:

- Positions count records, not bytes. Bytes behind `log_end` are never read
  (`qdb_open` cuts them off), so a new append may be taken to replace them.
- The header patch is atomic, a completed fsync makes data durable, a crash
  loses no completed write and records in front of `log_end` are not damaged
  later; `QdbStorage` drops all four. Power loss is modelled in `QdbCompact`
  for the directory entry of the rename.
- One handle per file (the lock; `QdbPrograms`).
- Steps 3 to 6 of `qdb_open` (header, truncation, validation) are one action:
  each leaves a file that the same steps, repeated, take to the same result. A
  failure during the open is `Crash`.
- The staging file is never read by an open, only deleted or renamed, so its
  own torn header does not matter before the rename.
- A refused call (empty queue, unknown message, wrong lease, invalid argument)
  changes nothing and is not an action.
- On a handle without an open file calls only fail; such steps are left out.

Storage:

- The file header is one cell and a record header is one cell; either may be
  torn by a power loss, and a torn one fails its check. The CRC of a payload is
  the payload: CRC collisions are out of the model.
- Damage changes one cell, before a handle has met any other trouble. A type
  byte changes into an unknown type only.
- The header's `next_msg_id` and the limit `QDB_MAX_RECORD_PAYLOAD` are left
  out; the entry of a new file may be lost with the power only before its first
  header is synced.
- No code of the repository writes a `-wal` file; `WalAppears` is the writer
  that the open path is prepared for.

Programs:

- A failing call leaves the contents as they were; what a call that dies half
  way leaves is the engine's and the storage's subject. Files are read without
  errors except where a step says so.
- Unused files are interchangeable, so `CHOOSE` of one stands for the file that
  a creation returns.

Binding: addresses of objects and handles are not reused.

## Runs

`tlc -config <run>.cfg <module>`. Deadlock is checked in the runs on the
engine, on compaction, on redelivery and on the binding. It is off in `tables`
(ids run out), `storage` and `marker_damaged` (opens run out) and `programs`
(the programs end).

| Run | Module and instance | Checks |
|---|---|---|
| `engine` | `MCQdbEngine`: 2 queues (symmetric), 2 messages, 2 leases, log of 6; 1.3 million states | `TypeOK`, `MemoryIsReplay`, `Recoverable`, `PushDurable`, `AckFinal`, `IdsFresh`, `RetryCounted`, `FirstDeliveryFifo`, `PopAnyOldest`, `ImplementsService` |
| `retry` | `MCQdbEngine`: 1 queue, 3 messages, 2 leases, log of 5, a handle is used again after a failed call; 0.2 million states | `HeaderBehindLog`, `PayloadReachable`, `AppendOnly` |
| `compact` | `MCQdbCompact`: 1 queue, 2 messages, 2 leases, log of 4, Windows build; 0.8 million states | `MemoryIsReplay`, `PushDurable`, `IdsFresh`, `CompactEquivalent`, `ImplementsService` |
| `compact_power` | `MCQdbCompact`: 2 queues (symmetric), 2 messages, 1 lease, log of 3, POSIX build, power loss; 0.6 million states | `Recoverable`, `CompactEquivalent` |
| `tables` | `MCQdbTables`: 2 queues in one bucket, 3 messages, 4 leases in 2 buckets; 0.1 million states | `ListsAgree`, `ChainsAgree`, `WalkSafe`, `StatsTrue`, `ExpiryComplete` |
| `storage` | `MCQdbStorage`: 2 appends, 3 opens, 1 fault, 1 power loss, 1 damaged cell, a WAL file; 4.0 million states | `PromisedDurable`, `ReadsBack`, `RefusedForCause`, `CutOnlyDamage`, `WalOnce` |
| `programs` | `MCQdbPrograms`: 2 demonstrations and the tool, 1 kill, 1 failing call; 0.7 million states | `Exclusive`, `StagingSafe`, `JobsKept`, `ToolCreatesNothing`, `CompactFresh` |
| `redelivery` | `MCQdbPrograms`: a long-running worker and the tool, 2 kills, 1 failing call; 0.1 million states | `Redelivered` |
| `python` | `MCPyBinding`: 2 threads, 2 objects, 3 handles, 2 paths, 3 calls; 0.1 million states | `ClosedOnce`, `HeldByOne`, `DisciplinedUse`, `MessageFreed` |

What they show:

- Engine. `HeaderBehindLog`, `Recoverable` and `AppendOnly` are about the file
  alone; `MemoryIsReplay` and `PayloadReachable` relate memory to it;
  `PushDurable`, `AckFinal`, `IdsFresh` and `RetryCounted` relate it to what
  callers were told, at every instant, also between the steps of a call.
  `ImplementsService` is the refinement: read off the durable state, each step
  of the engine is one atomic queue operation or a stutter, and so is a
  compaction. `CompactEquivalent` says what a compaction keeps: live messages
  with queue, state, lease and expiry, the order of every queue, both counters.
- Tables. `ListsAgree` and `ChainsAgree` justify the sequences and functions of
  `QdbState`; `WalkSafe` and `ExpiryComplete` the set of due leases that the
  engine's expiry walk works off; `StatsTrue` the figures given to callers.
- Storage. `PromisedDurable` is what the engine assumes of an append and a
  header update, now for every order in which unsynced writes may reach the
  disk. `ReadsBack`: a handle reads what was appended, also after damage and the
  cut that `validate_log` makes for it; the exception is a WAL file that is
  replayed behind such a cut (see below). `RefusedForCause` and
  `CutOnlyDamage`: only damage, a torn header write or an unfinished creation
  makes `qdb_open` refuse the log, and only damage makes it shorten one.
  `WalOnce`: when the records of a WAL file are in the log exactly once.
- Programs. `Exclusive` and `StagingSafe` are conditional on `pulled`: the
  demonstration removes the lock file without holding it, and after that two
  processes can have a database open. `JobsKept` and `CompactFresh` have the
  same condition.
- Binding. The documented rule is sufficient (`DisciplinedUse`), and closing
  is safe without it (`ClosedOnce`, `HeldByOne`).

Why the bounds are enough. Two messages and two leases give a message that is
leased, returned and leased again beside another one, in the same queue or in
another; six records hold a push, two full lease cycles and an ack; the two
clock readings put a lease on each side of its expiry, and back. Three messages
(`retry`, `tables`) distinguish the head, the middle and the tail of a list,
and three leases in one bucket those of a chain. Queues meet only in
`qdb_pop_any`, in the order of the rewrite and in the queue table. With
compaction a log of four records is enough for an acked and a leased message,
and any number of compactions, calls and crashes may alternate. In the storage
run one record has a payload that ends in the marker byte, so that remains of a
longer record can look like the end of a shorter one; two appends and three
opens allow an attempt that fails, one over its remains, and a recovery after
either. Two demonstrations and a tool are the fewest processes with which one
removes files that a second has open and a third creates new ones.

Fairness. Only `redelivery` assumes any: a running process is scheduled, time
passes (the expiry of a lease comes), and the long-running worker is started
again when it has ended, which is what a supervisor does for it. Nobody need
start the tool. Kills and failing calls are bounded, so that some attempt is
not interrupted; leases are expired because the worker's loop calls
`qdb_process_expired_leases` in every turn, as job_worker.c does. The library
has no thread and promises no progress of its own.

## Where code and documentation disagree

Three runs check one statement of the documentation or of a comment each, and
TLC shows an execution of the code that contradicts it.

| Run | Statement | What the code does |
|---|---|---|
| `retry_corrupts` | `src/qdb.c:609-611`: a failed header update "leaves the database in a recoverable state" | a second pop on the same handle leases the message again; the log then has two LEASE records for it, and no open accepts it |
| `rename_lost` | `docs/design/compaction.md:60`, `:122`: the directory is synced, no data is lost | it is not synced; pushes acknowledged after a compaction can be lost with the power |
| `marker_damaged` | `docs/design/crash-recovery.md:16`, `docs/reliability.md:98`: a bit flip is detected, corrupt records are not silently discarded | a changed commit marker in the middle of the log is taken for an unfinished tail: that record and all later ones are cut off, and the open succeeds |

Others were met while modelling and have no run of their own:

- `docs/reliability.md:51-52`, `:72`: a committed record is replayed by the next
  open. One that the header does not cover yet is cut off (`src/qdb.c:344`). The
  call had not returned, so no promise to a caller is broken.
- `docs/design/crash-recovery.md:13`: full recovery after a kill at any point. A
  file killed before its first header write is refused as corrupt for ever
  (`OpenShort`, the "unfinished" of `RefusedForCause`).
- `docs/design/storage-model.md:142`: "The replay is idempotent." A process that
  dies after the header update and before it deletes the WAL file appends the
  WAL's records again at the next open (the "walkept" of `WalOnce`). A WAL file
  whose size cannot be read is deleted unread (`src/qdb.c:83`).
- The same line, with damage: if the WAL file could not be deleted and the open
  then cuts a damaged log, the next open appends the WAL's records where the cut
  was. If the header of the cut was not synced, a power loss can leave one of
  these records under the header of before the cut, in the place of another one
  (the "walcut" of `ReadsBack`).
- `validate_log` truncates the file before it updates the header
  (`src/qdb.c:186`). A crash in between leaves a log end past the end of the
  file, and every later open fails with `QDB_ERR_IO`. This takes a damaged log
  first (`CutOnlyDamage`).
- `include/qdb.h:418-420`: after a failed rename the handle remains valid. The
  Windows build has closed its file (`src/qdb.c:1108`).
- `src/qdb.c:1003-1005`: after a failed reopen calls return errors. They follow
  a NULL state pointer (`BrokenCall`); `include/qdb.h:425` tells callers not to
  make them.
- `docs/design/compaction.md:81`: the rebuild yields exactly the same state. The
  retry counts fall back to 0.
- `include/qdb.h:334-336` and `src/qdb.c:681-683`: the lowest queue head is
  always the oldest available message. A nack or an expiry appends at the tail,
  so this is true only as far as nothing was returned, which is what
  `PopAnyOldest` states.
- `include/qdb.h:619-620` and `docs/maintenance.md:105-109`: queues without
  messages stay in the handle until it is closed and reopened. They disappear
  in `qdb_compact`, which rebuilds the state.
- `tools/qdbtool.c:538`: no command creates a database. The check and the open
  are two steps; the comment at `:60` accepts the race, and `ToolCreatesNothing`
  says that nothing else makes the tool create one.
- `examples/job_worker.c:29-30`: flaky jobs succeed on retry. `process_job` is
  always told that it is the first delivery (`:136`), so they never do. "Queue
  empty - all jobs finished" (`:116`) may be printed while a lease is out, and
  the files are removed without the lock (`:167-169`).

## Proofs

`tlapm <module>` for the eight modules whose names end in `Proofs`. All of them
together take about an hour and a quarter.

| Module | Theorem | Property |
|---|---|---|
| `QdbEngineProofs` | `Invariance` | the inductive invariant `IInv` |
| | `TypeCorrect` | `TypeOK` |
| | `MemoryMatchesReplay` | `MemoryIsReplay` |
| | `AlwaysRecoverable` | `Recoverable` |
| | `PushesSurvive`, `AcksAreFinal` | `PushDurable`, `AckFinal` |
| | `IdsNeverReused`, `RetriesSurvive` | `IdsFresh`, `RetryCounted` |
| `QdbLogProofs` | `ReplayWellFormed`, `ReplayEffect` | what one more record does to a replayed state |
| | `FileInvariance` | the inductive invariant `FInv` |
| | `CommittedPrefix`, `PayloadsReachable` | `HeaderBehindLog`, `PayloadReachable` |
| | `LogAppendOnly` | `AppendOnly` |
| `QdbServiceProofs` | `ShapeInvariance` | the inductive invariant `SInv` |
| | `FirstDeliveryInOrder`, `PopAnyTakesOldest` | `FirstDeliveryFifo`, `PopAnyOldest` |
| | `EngineImplementsService` | `ImplementsService` |
| `QdbTablesProofs` | `TablesInvariant` | the inductive invariant `TInv` |
| | `ListsStayLinked`, `LeaseTableExact` | `ListsAgree`, `ChainsAgree` |
| | `WalkNeverDangles`, `ExpiryIsComplete` | `WalkSafe`, `ExpiryComplete` |
| | `CountersTrue`, `StatisticsTrue` | the invariant `Counted`, and `StatsTrue` |
| `QdbStorageProofs` | `LogLaidOut` | the inductive invariant `LInv` |
| | `PromisesKept` | `PromisedDurable` |
| | `NeverRefusedWithoutCause`, `NothingCutUndamaged` | `RefusedForCause`, `CutOnlyDamage` |
| | `WalReplayedOnce` | `WalOnce` |
| `QdbDamageProofs` | `EveryOpenReadsBack` | `ReadsBack` |
| `QdbProgramsProofs` | `OpenFilesAgree`, `FilesHoldJobs` | the inductive invariants `PInv` and `JInv` |
| | `LockExcludes`, `StagingIsSafe` | `Exclusive`, `StagingSafe` |
| | `NoJobLost`, `CompactionIsFresh` | `JobsKept`, `CompactFresh` |
| | `ToolNeverCreates` | `ToolCreatesNothing` |
| `PyBindingProofs` | `BindingInvariant` | the inductive invariant `PyInv` |
| | `NoDoubleClose`, `OneHolder`, `RuleSuffices` | `ClosedOnce`, `HeldByOne`, `DisciplinedUse` |
| | `PopFreesMessage` | `MessageFreed` |

The types of the other modules' variables are part of their invariants. The
constants are arbitrary; the named assumptions only give their types and keep
the values that stand for "none" or "bad" apart from the others. The theorems of
`QdbEngineProofs` and `QdbServiceProofs` assume `~RetryAfterError` as well, that
is, a handle is closed after a call that failed behind its append; without it
`Recoverable` is false (`retry_corrupts`). `QdbLogProofs` does without this
assumption.

**Engine.** None of the properties is inductive by itself: that memory equals a
replay after a call depends on the state before it being well formed (the lists
hold exactly the PENDING messages, the lease table exactly the LEASED ones), and
that a log replays depends on the append having been checked against a memory
that equals the replay. `IInv` therefore ties the three together:

- `LogOK`: every record up to the handle's `log_end` is committed, and the
  header is not ahead of it;
- `HistOK`: each `hist[i]` is `hist[i-1]` with record i applied, which passes
  its checks, and every `hist[n]` is `Sound` (well formed, leases below the
  counter). This states what replay computes one record at a time, so that no
  induction over the log is needed;
- `MsgsOK`: each message of each `hist[n]` has the offset of its own PUSH
  record, and is ACKED only if an ack was submitted;
- `MemoryOK`: for each value of `pc`, which `hist[n]` memory equals: the last
  covered one between append and header update, the newest when idle,
  `hist[pos]` during a replay; a stale handle only keeps its offsets right;
- `CallersOK`: what callers were told is in the durable state.

`ReplayWellFormed` and `ReplayEffect` (in `QdbLogProofs`) show that a record
passing its checks keeps a state well formed, removes no message, lowers no
retry count and leaves ACKED messages alone. `QdbEngineProofs` shows that append,
header update and memory change each re-establish the parts they touch, and
applies this to every action: those of a call (`CallInv`), of its end
(`FinishInv`), of an open (`OpenInv`) and the end of a handle (`CloseInv`).

**File.** `FInv` is the part of this that survives a caller who goes on after an
error: everything in front of the handle's `log_end` is complete, and an offset
kept in memory names the PUSH record of its message. It does not say that memory
equals a replay, which then is false.

**Service.** The mapping reads the abstract queues, leases and acked messages
off `hist[disk.log_end]`, so that a call takes effect when its header update
does, and a crash or a recovery changes nothing. `SInv` adds to `IInv` what the
mapping needs of the log: its PUSH records number the messages without a gap,
its LEASE records use fresh ids, and each state it replays to has the
never-returned messages of a list in the order of their ids. The last part also
gives the two properties on the order of delivery. There is one lemma for what
each type of record does to the abstract state, and one for each action.

**Tables.** Relinking one list is harmless for the others only if a message is
on the list of its own queue alone, and freeing a lease entry is harmless only
if one chain leads to it. `TInv` adds this to `ListsAgree` and `ChainsAgree`,
with the freshness of ids and, for the walk, that every due lease which is still
there lies in front of it and every one gone was counted. The first half of the
module proves what `pending_append`, `pending_remove`, `lease_insert` and
`lease_remove` do to a list or chain; the second has one lemma per call and per
step of the walk.

**Statistics.** The counters of a queue are changed one by one, in another
place than the lists and tables they describe. `Counted` says of each queue that
they are the length of its list, the number of its live leases and the number of
its ACKED messages. A sum along the queue table is the size of the union of what
its queues count, because the walk meets every queue once (`WalkMeetsAll`) and
no message belongs to two (`SumCounts`). Both are inductions, made as described
under Storage.

**Storage.** `LInv` says of a file whose media is not damaged that both copies
of it hold the records of `log`, one behind the other from offset 1; that only
the header and cells behind the log differ between them; that either header ends
behind one of the records, not before the last one promised, and the one on the
media not behind the one in the cache (`FileInv`); and how much of the record or
of the header under way is in the cache and on the media (`ProgramInv`). The two
syncs of an append are what makes this inductive: when the log grows, its new
record is on the media in full. It holds whatever the caller does after an
error, since each append starts again at `end`.

What the scan reads from such a file is an induction over its offsets. The
library's induction theorems take an operator as a parameter, which the
installed provers cannot instantiate; the module proves instead, from the
well-foundedness of the naturals, that a set with 0 and with the successor of
each member holds all of them (`Induct`), and makes each induction hypothesis
such a set. In the same way it proves that the recursive functions `ScanFrom`
and `Starts` satisfy their equations (`ScanDef`, `StartsFacts`). `WalOnce` has an
invariant of its own (`WalInv`), which holds with damage too.

**Damage.** After damage `LInv` says nothing. `DInv` says that the file is laid
out as before, or has no header and stays refused, or is `Hurt(p, m)`: the
records p in front of the damaged one are whole in both copies, and the damaged
one, which ended at m, is one the scan does not accept. Which cell was damaged
decides what happens to it (`Cuttable`, `Refused`). A record without its marker
or with a bad header is cut off by `validate_log`. One with a wrong byte in its
payload is refused at every open, and nothing writes over it. While the header
of the cut is in the cache only, a power loss brings the old log end back. The
rest of the invariant is about this: no mixture of the cells of before and of
after the cut makes the damaged record whole, as long as the records of a WAL
file are not appended where the cut was. When the header of the cut is synced,
and the file behind it truncated, it is laid out again and `Laid` takes over. A
handle gets past `validate_log` in a laid-out file only, so that it reads back
what was appended.

**Programs.** `PInv` says what a process has open at each step: past `flock` it
holds the lock of the lock file it has open, before it has no other file. While
nothing was pulled, every open lock file is the one the directory names, so two
holders would hold the same lock. `JInv` adds what the files hold: each pushed
job at most once, in the queue or under one lease; a process past its open works
on the file that the directory names until it renames another over it
(`Current`), and by exclusion no other process changes that file; the staging
file it renames has all its jobs, and no lease that was due.

**Binding.** `Ownership`: an open handle is in exactly one place, an object or a
thread that opens or closes. `Discipline`: a thread in a method of a guarded
object still has the right to it, so the handle it tested is still the object's.
`MessageFreed` is inductive as it stands.

Each of these invariants was checked by TLC on the instance of the component's
run before it was proved (in `DInv` with p ranging over the prefixes of `log`,
which `HurtLog` makes it).

Only model-checked:

- Everything about compaction (`CompactEquivalent`, and the engine's properties
  in `compact` and `compact_power`): the rewrite is a replay of a log that is
  built in any order.
- `Redelivered`: liveness under fairness.

## Not modelled

- CRC-32 and the encoding of integers and names: pure functions on bytes. Their
  users are modelled with checksums that never collide.
- A type byte damaged into another known type, damage of several cells at once,
  damage while a handle is open.
- The loss of directory entries other than that of a rename or a new file, such
  as the deletion of a WAL file.
- Argument checks, error messages, version strings and output formats.
- The Windows variants of the platform layer, except where `qdb_compact`
  differs.
- Attributes and exception types of the Python binding, which hold no state.
- The hello example, tests, fuzzers and benchmarks: callers of the library on a
  database of their own.
