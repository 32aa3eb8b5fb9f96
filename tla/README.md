# ZephyrDB: TLA+ specifications and proofs

ZephyrDB is an embedded database for Zephyr RTOS. One instance (`zdb_t`) offers a
key-value store on NVS or ZMS, time-series streams on a file system (or on FCB), and
documents on a file system, to any number of threads. This directory models the parts
of it in which threads, flash failures and power losses meet, model-checks them on small
instances with TLC, and proves invariants of them for all parameters with TLAPS.

## 1. Inventory of the system

| Component | State | Operations | What is hard | What makes it correct |
|---|---|---|---|---|
| Core (`zephyrdb_core.c`) | `db->lock` (a recursive `k_mutex`), health, listeners, statistics | init, deinit, lock/unlock, emit events, stats, cursor reset/close | the unlock publishes what a locked section deferred; faults are also detected without the lock | a fault degrades the health and is published, outside the lock and once |
| Key-value (`zephyrdb_kv.c`) | records in NVS/ZMS slots addressed by a hash of (namespace, key); a key index in RAM (`struct zdb_kv_ctx`) and its persisted copy; a slab of I/O blocks | set, get, delete, iter open/next/close, reset namespace, apply defaults | two keys in one slot; index and data are two flash writes; the index is loaded without the lock; walks go on between locked sections | the store is a map; every stored key can be enumerated, also after a power loss; the index fits its array |
| Time series on a file system (`zephyrdb_ts.c`) | per stream a slot with an ingest buffer and the segment window; segment files; `flush_pending`, `flush_done`, a work item | open (with recovery), close, append, batch append, flush async/sync, cursors, aggregates, consumed watermark | the work queue flushes behind the threads; torn writes; rollover; saturation of buffers; waiting for a flush; walks that go on between calls | an accepted sample is readable once and in order until rollover takes it; a walk covers what was stored; a consumer skips nothing; a flush that was waited for is complete; waiting ends |
| Time series on FCB (`zephyrdb_ts.c`) | flash circular buffer per stream | the same API | rotation while reading | as above |
| Documents (`zephyrdb_doc.c`) | handles with fields in RAM; `<id>.zdoc` and its staging file `<id>.zdoc.tmp` | create, open, field setters/getters, save, delete, close, query, export | stage-and-rename on two kinds of file system; power loss between two file system calls | an interrupted save leaves the old document or the new one; a delete is final; a query reports what is stored |
| zbus adapter, shell | none / the registered instance | publish; commands | nothing of their own | not stated |

Interactions. The three stores share `db->lock`. Every locked section ends in
`zdb_unlock_common()`, which takes the flush, rollover and health events the section
left behind and publishes them after the unlock. A time-series append that fills a buffer
submits a work item; the handler takes the lock, drains every stream and gives
`flush_done`, on which `zdb_ts_flush_sync()` waits. `zdb_init()` applies the table of
key-value defaults through the public set and get. The stores do not share data: they
meet only in the lock, which each module therefore models for itself, and in the health of
the instance, which only the time-series store worsens.

External parts, modelled from how the code uses them: NVS/ZMS (a record is written or
erased as a whole), LittleFS (rename replaces the destination), FAT (rename refuses an
existing one with `-EEXIST`), `k_mutex`, `k_sem`, `k_work`, `k_mem_slab`, the heap.

## 2. Modules

| Module | Content |
|---|---|
| `ZdbKvMap` | what the key-value API promises: a map that one request changes at one key, atomically |
| `ZdbKv` | the key-value store; its refinement mapping to `ZdbKvMap` is `Map` at the end |
| `ZdbTsLog` | what the time-series API promises: per stream a log of stored samples and of the newest ones, in RAM, and which end each loss may take from; a power loss may cost the end of the RAM part, shutting the instance down costs nothing |
| `ZdbTs` | the time-series store on a file system with rollover; its refinement mapping to `ZdbTsLog` is `Log` at the end |
| `ZdbTsRead` | extends `ZdbTs`: cursors, aggregates and the consumed watermark beside everything `ZdbTs` does |
| `ZdbDoc` | the document store |
| `ZdbDocQuery` | extends `ZdbDoc`: `zdb_doc_query()` as a function of the files |
| `ZdbCore` | the life of an instance, its lock, its health and the HEALTH event |
| `MCKv`, `MCTs`, `MCTsRead`, `MCDoc`, `MCCore` | instances for TLC: which thread makes which calls, slots, faults, symmetry |
| `ZdbKvProofs`, `ZdbKvIndexProofs` | theorems about `ZdbKv`: types, refinement, the index and the walks over it |
| `ZdbTsProofs`, `ZdbTsLogProofs`, `ZdbTsRetainProofs` | theorems about `ZdbTs`, each module on top of the one before: types, slots and flushes; the samples of a stream; rollover and refinement |
| `ZdbTsReadProofs` | theorems about `ZdbTsRead`, on top of `ZdbTsLogProofs`: counts, walks, aggregates, consumers |
| `ZdbDocProofs`, `ZdbCoreProofs` | theorems about `ZdbDoc` with `ZdbDocQuery`, and about `ZdbCore` |

A step of a module is what happens between two points that another thread or a power
loss can tell apart: taking or leaving the lock, a flash write, a read of shared state
without the lock. What a function does under the lock without a flash write in between
is one step. `Calls` (which thread makes which calls) and `Faults` (what may fail) are
constants, so that a configuration chooses the question; every failure is an action or a
disjunct of its own.

### Key-value store (`ZdbKv`)

A key stands for a (namespace, key) pair, `IdOf` for `zdb_kv_record_id()`, which need
not be injective. A slot is empty, holds foreign bytes (a record of an older format), or
a record that carries its key. `heap` holds every index context allocated since boot and
`kvCtx` is `db->kv_ctx`: two threads that both run the unlocked
`zdb_kv_ctx_get_or_alloc()` really get two. `job` is the walk or defaults pass a thread
is in, `op` the set, get or delete inside it, `ld` the locals of the index rebuild.
`CallSet` takes a slab block, `SetLock` is the lock and the pre-read with the collision
test, `CtxCheck`..`LoadEnd` the index lookup and rebuild, `SetTrack` the index write,
`SetWrite` the data write and `SetDrop` the cleanup after a failed one. `DeleteErase` and
`DeleteUnindex` are the two writes of a delete. `IterNext`/`IterGot` and
`ResetNext`/`ResetDeleted`/`ResetStale` are the walks, `Seed*` the defaults pass, run by
`zdb_init()`, by a reset or by itself. `unlisted`, `due` and `seen` are history variables
that only properties read.

### Time-series store (`ZdbTs`)

Samples are numbers in the order of the appends; a record is a sample or `Bad` when its
CRC fails. A segment file has a header or not, records, and possibly a partial record at
its end, behind which nothing is read back. `Readable(s)` joins what the files of a stream
give to a reader, oldest first; `Only(q, S)` is the part of `q` in `S`. `slots` is `ctx->streams[]`. All flushes
(from an append with a full buffer, from the close of the last handle, from the work
handler) run through `FlushWrite`, `StartSegment`, `DiscardOldest`, as in
`zdb_ts_flush_buffer_locked()`. `Unlock` is `zdb_unlock_common()` with the events it
takes. `OpenJoin`, `OpenClaim`, `OpenRecover` are the unlocked steps of `zdb_ts_open()`;
`SyncCheck`, `SyncTake`, `SyncWoken` those of `zdb_ts_flush_sync()` after it asked for
the flush. A single append looks up its slot before it takes the lock, a batch after; a
batch looks at the fill level after the unlock. Configuration modelled: file system
backend, rollover, eventing and recovery on open enabled, fixed-size records. `Deinit`
is `zdb_deinit()` with the `zdb_init()` after it, called while no call is in progress: the
queued flush is cancelled and every ingest buffer goes back to the slab as it is. The
constant `Deinits` says when an application calls it: with samples buffered (TRUE), with
none (FALSE), both, or not at all.

Two steps are coarser than the code. `OpenRecover` is the scan, the header, the walk and the
truncation of `zdb_ts_recover_stream()` in one step, though the code does them without the
lock; `SoloOpen` keeps other threads out meanwhile. `scan_segments` counts whole records in
the newest file, where `cur_seg_bytes` starts from the file size and so includes a partial
record that recovery then cuts off: the segment is sealed less than one record earlier.

### Readers of the time-series store (`ZdbTsRead`)

The timestamp of a sample is its number. `cur` holds `struct zdb_ts_cursor_ctx` per reader:
the segment window taken at the open (`lo`, `hi`), the file it stands on (`seg`, `view`,
`pos`), the offset in the ingest buffer (`ram`), `file_done`. `OpenAs` and `OpenFile` are
`zdb_ts_cursor_open_dir()`; a call of `zdb_cursor_next()` is `CursorNext`, then one
`ReadFile` per record or change of segment, without the lock, then `FindRam` (the slot is
looked up without the lock) and `ReadRam` (under it); backwards the RAM part comes first.
An aggregate is the same walk in a loop (`GoesOn`), COUNT of a whole stream is `count_all`.
A consumer (`Resume`, `Acknowledge`, `WriteMark`, `ClearMark`) is the one the comment of
`zdb_ts_watermark_set()` describes. Whether an open file handle shows what is appended to
the file afterwards depends on the file system: `live` is chosen at the start and both are
checked. `got`, `must`, `stored`, `calm`, `fresh`, `handled` and `cut` are history. A step of
`ZdbTs` is a step here with `Follow` for the cursors.

### Document store (`ZdbDoc`)

`live` and `tmp` are the two files of a document; a file is absent, `Partial` (it does
not parse) or a content. `Open` promotes a staging file when there is no live one. A save
is `CallSave`, `SaveStage`, `SaveRename`, on FAT with `SaveUnlink` before a second
rename; a delete is `CallDelete`, `DeleteLive`, `DeleteTmp`. `may` is history: for each
document what the next open may find, given which calls returned and which were
interrupted.

`ZdbDocQuery`: a query holds the lock from beginning to end and writes nothing, so it is an
operator, `Scans(q)`: the results it may have over the present files, for every order in
which the directory lists them and every allocation that may fail. A STRING field without
its copy (`Hollow`) meets no filter here; saved and parsed again it is the empty string in the
code and would meet a filter on that, which no run asks for. Its properties quantify
over all queries in every reachable state of `ZdbDoc`, that is at every moment a query can
get the lock, crash images and leftovers of failed calls included.

### Core (`ZdbCore`)

`zdb_health_check()` takes no lock and is called with the lock held (a record of the ingest
buffer) and without (a file walk, recovery): `Detect`, `Count`, `Check`, `SavePrev`,
`Degrade`, `Tell` are its accesses to the instance, from `ZDB_STAT_INC()` on, each a step.
`Lock`, `Take`, `Unlock`, `Emit` are a locked section and `zdb_unlock_common()`.
`zdb_ts_stats_reset()` clears the counters at any time. `heard` is what the listeners got
from this instance, with the mark whether the publishing thread owned the lock; `raced`
says that two threads found the instance healthy at once.

## 3. Runs

| Run | Instance | Checked |
|---|---|---|
| `kv_index` | 2 threads, 4 keys (two in one slot, one over foreign bytes), index of 2 entries, 1 power loss | `StoredKeysListed`, `IndexExact`, `IterationExact`, `ResetClears` |
| `kv_faults` | 2 threads, 2 keys in one slot, index of 1 entry, a slab that is too small, failing writes and heap, 1 power loss | `TypeOK`, `ImplementsMap` |
| `ts_log` | 2 threads of which one comes and goes and one waits for flushes, 1 stream, buffers of 2 and segments of 2 records, 5 samples, batches of 3, timeouts, 2 power losses, 1 rotten record, deinit when nothing is buffered | `SamplesKept`, `SlotsMatchHandles`, `FlushSyncCovers`, `RolloverRetains`, `ImplementsLog` |
| `ts_live` | 2 threads, 1 stream, buffers and segments of 1 record, batches of 2, timeouts, a failing write, header, unlink or submit, fair | `TypeOK`, `EventAccounting`, `SyncReturns`, `FlushHappens` |
| `ts_cursor` | 1 reader, 1 writer that comes and goes, 3 samples, segments of 1 record of which 2 are kept, buffer of 2, windows all and 2..3, both directions, cap 2 | `WalkComplete`, `WalkServesStored`, `WalkOrdered`, `AggregateHonest` |
| `ts_consumer` | 1 thread that appends and consumes beside the work queue, 3 samples, 1 power loss, deinit at any time, segments of 1 record of which 2 are kept, buffer of 2, 2 failures: a watermark write, a refused submit or a rotten record | `ConsumerSkipsNothing`, `WalkServesStored`, `CountExact` |
| `doc_crash` | 2 threads, 2 documents, 2 fields of which a handle holds 1, both file systems, 1 power loss; queries with and without filter, limit 0 and 1, capacity 0 to 2 | `TypeOK`, `StoredIntact`, `StagingTransient`, `QueryFindsStored`, `QueryCounts` |
| `core_health` | 3 threads, 3 faults, 1 reset of the counters, 1 re-initialisation, fair | `TypeOK`, `NoSilentFault`, `ListenersOutsideLock`, `ReportedOnce`, `FaultReported` |
| `kv_overwrite` | 1 thread, failing data writes | violates `StoredKeysListed` |
| `ts_deinit` | 1 thread that appends and never closes, deinit at any time | violates `DeinitKeepsSamples` |
| `ts_two_waiters` | 2 threads in `flush_sync` | violates `SyncReturns` |
| `ts_skip` | 1 thread that appends and consumes, 4 samples | violates `ConsumerNeverSkips` |

The four violations are disagreements between the code and its own comments or docs; they
are quoted under `findings` in `PROJECT.json`. In short: a failed overwrite unlists a
stored key; `zdb_deinit()` frees the ingest buffer of an open stream without writing it out,
though the header says that it closes the stream and that closing never discards data; of two
threads in `flush_sync` one may wait forever; a flush between two calls of a cursor lets a
consumer acknowledge samples it was never given.

Every run of the time-series store has one stream and opens it while no other thread is in a
call (`SoloOpen` is TRUE): `zdb_ts_open()` looks for its slot, claims it and recovers the files
without the lock. That a slot passes from one stream to another under a thread that looked
it up is therefore in no run; the theorems of section 4 cover any number of streams.

What the passing runs show, and under which assumptions:

* `StoredKeysListed`, `IndexExact`: no write fails, the slab has a block for every call
  and one for the rebuild, and the first `iter_open` or `reset_namespace` runs alone
  (`SoloFirstUse`, the assumption in the comment of `zdb_kv_ctx_get_or_alloc()`). The
  index is smaller than the set of keys, so that the full index is reached.
* `IterationExact`: the other thread stores keys and deletes none; a delete moves entries
  past the iterator.
* `ImplementsMap`: all failures but read errors. After a read error a set claims a slot
  that may hold another key.
* `SamplesKept`: no write or header fails; power losses tear writes and headers and rot
  is cut off by recovery. A failing write is written again, which doubles or shifts
  records: only `EventAccounting` and the bounds are checked there. What `gone` takes out of
  the comparison is what rollover discarded, what a bad record held, what recovery cut off
  behind one, and what only RAM held at a power loss or a deinit.
* `ImplementsLog`: as `SamplesKept`, for an application that lets nothing buffered stand when
  it calls `zdb_deinit()` (`TRUE \notin Deinits`). `SamplesKept` says that nothing is lost but
  what some step recorded as lost; `ImplementsLog` says what a step may lose: a close and a
  deinit nothing, a power loss a suffix of the ingest buffer and nothing that was flushed,
  rollover the old end beyond the samples it retains, recovery the new end of a damaged
  stream. With TRUE in `Deinits` it fails, for the reason `ts_deinit` shows.
* `EventAccounting`: the records of a flush whose write and close succeeded are in one total,
  with failing writes, headers, unlinks and submits around it. It does not say that the totals equal
  what storage got: see the divergence below.
* `FlushSyncCovers`: no write fails and no submit is refused; timeouts leave stale tokens.
* `SyncReturns`: one thread in `flush_sync`, and as long as no submit is refused. When that of
  one caller is, another one may wait for a flush nobody runs. `FlushHappens` holds all the
  same.
* `RolloverRetains`: while nothing failed. After a recovery that cut off bad records the
  counter of the segment is too high and the segment is sealed early.
* `SlotsMatchHandles`: with `SoloOpen`, and no header fails.
* `WalkComplete`: no flush or close ran into the walk since the open (`calm`); appends may
  run into a forward walk. After a reset only when the stream has one segment.
* `WalkServesStored`, `WalkOrdered`: whatever runs into the walk. `ts_cursor` has neither
  failures nor power loss, `ts_consumer` has both; one stream, see the hazard at
  `zephyrdb_ts.c:2540`.
* `AggregateHonest`: no flush ran into the scan and no bad record ended it; a peek at the
  cap that meets a bad record leaves the answer marked complete.
* `ConsumerSkipsNothing`: as long as no flush ran into a walk that was acknowledged;
  without that condition it is `ConsumerNeverSkips`, which fails.
* `StoredIntact`: one power loss; on LittleFS any call may fail, on FAT a rename over a
  free name and a write of the staging file may not.
* `QueryFindsStored`: a document that exists and matches is missed only by a query that was
  cut short, that could not allocate it, or on FAT after a power loss between the unlink and
  the rename of a save, until an open promotes the staging file.
* `ReportedOnce`: as long as no two threads found the instance healthy at once. Without a
  lock around `zdb_health_check()` they can, and then the change is published twice or as
  one from DEGRADED to DEGRADED. `NoSilentFault` holds all the same.

### Known divergences without a run

Found with the same modules, by changing a constant or a condition as said:

* `zdb_cursor_reset()` rewinds within the segment the cursor stands on
  (`zephyrdb_core.c:599-622`): after a walk over two segments the next one returns the last
  segment only. "Rewind a cursor to the start of its scan." (`zephyrdb.h:643`). `WalkComplete`
  without `c.fresh \/ c.lo = c.hi` fails.
* Backwards, "Records appended after the cursor is opened are not visible to it."
  (`zephyrdb.h:1152`): the ingest buffer is read by offset from its present end, so records
  appended since the open are returned, some twice. `WalkOrdered` without `calm` fails.
* A record returned by `zdb_cursor_next()` from the ingest buffer is "valid until the next
  cursor call" (`zephyrdb.h:1241`), but points into the buffer (`zephyrdb_ts.c:2568`) that
  other threads flush and refill.
* `zdb_ts_open()` claims its slot without the lock (`zephyrdb_ts.c:1669`), against "a single
  Zephyr mutex per instance, taken for the duration of each operation"
  (`docs/architecture.md:33-34`). `SlotsMatchHandles` fails with `SoloOpen` FALSE.
* `zdb_ts_flush_sync()` returns `ZDB_OK` for a flush that failed (`zephyrdb_ts.c:2126`);
  "@retval ZDB_ERR_IO Backend write failure." (`zephyrdb.h:1069-1073`). `FlushSyncCovers` fails
  with the fault "write".
* "so the bytes a listener sees match what actually reached storage" (`zephyrdb_ts.c:535-537`;
  "so `flushed_bytes` reflects what actually reached storage", `docs/api.md:150-153`): when a
  write fails part-way, or the close fails after a whole write (`zephyrdb_ts.c:521-529`),
  records are on storage that no total counts. They stay buffered, are written a second time
  and counted once. In `ts_live` such a flush is the last alternative of `FlushWrite`, with
  `PartWritten`; `EventAccounting` leaves it out.
* `zdb_doc_query()` with a buffer of capacity 0 counts all matches, like one with no buffer
  (`zephyrdb_doc.c:1597`), where the header promises the total only for a NULL
  `out_metadata` (`zephyrdb.h:1625-1627`). `QueryCounts` states what the code does.
* On FAT a failing second rename loses old and new document (`zephyrdb_doc.c:1044-1048`);
  "the stored document is unchanged" (`zephyrdb_doc.c:826-827`). `StoredIntact` fails with the
  fault "rename" on FAT.
* A power loss between the unlinks of a delete, after an earlier one left a staging file,
  brings a document back (`zephyrdb_doc.c:1131`); "so a later open cannot resurrect the
  document from it" (`zephyrdb_doc.c:1134-1135`). `StoredIntact` fails with two power losses.
* "Each change is reported once" (`zephyrdb.h:166`): see `ReportedOnce` above.

Bounds. Two threads and the work queue are the actors that can interfere; a third waiter
or setter meets the same guards. Capacities are 1 or 2, so that full and empty, first and
last entry are different cases and the limits are reached. Five samples in `ts_log` let
a stream fill two segments of two records and go on in a third, which discards the first,
with batches that end inside a segment, power losses and a deinit in between. Three samples in
`ts_cursor`, with segments of one record of which two are kept, let a walk meet sealed
segments, a discarded one and the buffer; the aggregate cap of two lies inside that.
`core_health` needs a third thread so that one can unlock between two that detect. `MaxFails`
bounds the failures of a behaviour, because a write that fails is repeated by every later flush; one is enough for the run to go on over
what it left behind, two in `ts_consumer` combine a bad record with a failing watermark write. Power losses are bounded because each repeats the
state space; two in `ts_log` include a loss during the recovery from the first. Symmetry
is used only in runs without liveness properties, over sets the specification treats
alike.

Fairness (`FairSpec` of `ZdbTs`). Weak fairness of the steps of a thread inside a call
and of the work handler: Zephyr runs ready threads, and no call blocks but on the lock and
the semaphore. Strong fairness of the steps that take the lock: `k_mutex` hands the lock
to its waiters when it is released, so a waiting thread is not passed over forever.
Nothing makes an application call the API, and no timeout has to expire. `FairSpec` of
`ZdbCore`: weak fairness of what a thread does on its way out of a call (`Finish`), none of
which blocks; nobody has to take the lock or detect a fault. Deadlock is not checked in
`core_health`, because an instance that was torn down may stay so.

Each property of a passing run has a mutant, a small change of a mapped definition that a
slip in the code could make (a dropped check, an off-by-one, a missing reset); TLC finds
the property violated with the mutant in place. The mutants stand before the definition
they change and are not used otherwise.

## 4. Proofs

Proved with TLAPS for every value of the constants that satisfies the named assumptions
(`KvConstants`, `TsConstants`, `DeinitConstants`, `DocConstants`, `QueryConstants`, `CoreConstants`; TLC evaluates them in
every run), and, where a theorem names more, under those. Each such assumption is a
condition the code needs, satisfied by the instance of the run that checks the same
property; what goes wrong without it is a finding or a known divergence above.

### Key-value store

* `ZdbKvProofs!TypeCorrect`: `Spec => []TypeOK`. `TypeOK` is not inductive: that a thread
  tracks its key in an allocated context needs to know that a thread beyond the index
  lookup has one, that the key of an operation in progress is a key, and that the entry of
  the defaults table a thread seeds exists. The inductive invariant `Shape` adds these
  relations between `pc`, `job`, `op` and `ld` (`Control`) and `RecordsWhole` (a record
  names its key, which the rebuild of the index needs) to `TypeOK`. One lemma per group of
  actions with one step per action, over lemmas for `Compact`, `find_entry`,
  `track_delete`, `Enter` and `Finish`.
* `ZdbKvProofs!MapImplemented`: `Spec => ImplementsMap`, that is: the store, with its
  slots shared by colliding keys, its index, its failing writes and its power losses, is
  the map of `ZdbKvMap`. Assumes that a read does not fail (`"read" \notin Faults`). Every
  step is mapped to one request taking effect at one key, or to a stutter. The invariant
  `MapInv` says that a set or delete between lock and unlock owns the lock, and that a set
  which passed the pre-read of its slot finds nobody else's record there.
* `ZdbKvIndexProofs!StoredKeysAreListed`, `IndexStaysExact`: `[]StoredKeysListed`,
  `[]IndexExact`, under `IndexAssumptions`: no failure, the first use alone
  (`SoloFirstUse`), a slab block for every thread and one for the rebuild, and nobody
  deletes beside a reset. The invariant follows a key from the index write to the data
  write and back, for the index in RAM and for its persisted copy, and what a rebuild in
  progress still has to read.
* `ZdbKvIndexProofs!IterationIsExact`, `ResetReallyClears`: `[]IterationExact`,
  `[]ResetClears`, under `WalkAssumptions`: besides, nobody deletes beside an iteration.
  `Walked` relates the position of an iterator to what it returned and to what is due;
  the invariant of a reset says that what it has still to visit is all that is left.

### Time-series store

All under `TsAssumptions`: streams are opened while no other thread is in a
call (`SoloOpen`: `zdb_ts_open()` takes no lock) and `open_count` does not saturate (no more
threads than `OpenCountMax`, 255 in the code).

In `ZdbTsProofs`:

* `TsTypeCorrect`: `[]TypeOK`, with the bounds that matter: an ingest buffer never holds
  more than its capacity, the slab never gives out more than its blocks.
* `FlushEventsAccount`: `[]EventAccounting`, whatever fails: the records of a flush whose write
  and close succeeded are in one total until the listeners get it. The records a failed one
  left in the file are in no total.
* `SlotsFollowHandles`: `[]SlotsMatchHandles`, if a header can always be written: an open
  that fails at the header has counted its handle already.
* `FlushSyncIsComplete`: `[]FlushSyncCovers`, if no write fails (`flush_sync` reports success
  for it, see above) and no submit is refused (which clears the flag of another caller).

One inductive invariant, `TsInv`, carries all four, because each needs that the slot an
actor looked up before it took the lock is still the slot of its stream. `ControlInv` says
who stands where and owns the lock; `PlaceInv` that the slot, the room in the buffer and the
segment an actor works on are what its place promises; `SlotInv` and `CountInv` that a
stream has one slot at most and that slots, handles and blocks agree; `HeaderInv` that a
recovery finds a header unless writing one failed; `EventInv` where a flushed record is on
its way to the listeners (a slot, the drain of the work handler); `SyncInv` that what a
thread in `flush_sync` is owed has left the buffers with the flag, or lies in a slot the
drain under way still comes to. TLC checked the parts on the instances of
`ts_live` and `ts_log` before they were proved. The sums over slots and threads
(`MapThenSumSet`) are handled by induction over the subsets of a finite set, stated for a
set instead of a predicate (`SubsetInduction`), which the provers can instantiate.

`ZdbTsLogProofs!SamplesAreKept`: `[]SamplesKept`, under `LogAssumptions`: besides, no write
and no header fails. A failed write is repeated behind what it left, which doubles records;
a failed header leaves a slot with a number no file stands behind. Records may go bad, and
power may go at any step, also inside a write or between a new file and its header.

* The property compares two things defined by recursion, the concatenation over all files
  of a stream (`Readable`) and the part of the log that is not lost (`Only`). The module
  first derives what the steps need of them: `Joined` builds the concatenation for any
  function from numbers to sequences, `SplitAt` and `PutStored` say that a change of one
  file changes one stretch of it, `OnlyCat`, `OnlySame`, `OnlyNone` how `Only` meets
  concatenation and loss. All are proved by induction over the numbers or over prefixes,
  for a set instead of a predicate (`SequenceInduction`).
* For each step a lemma (`AppendView`, `FlushView`, `DiscardView`, `RecoverView`,
  `RotView`, `EndView`...) says how stored samples, buffer and open slots of a stream
  change, without files: `Flushed` moves the buffer, `Discarded` takes a prefix of what is
  stored, `Recovered` a suffix, `Rotted` one sample, `Ended` a suffix of the buffer.
* `LogInv` over `TsInv` is the invariant. `KeptInv` is the property; `FileInv` says that a
  slot that scanned its files knows the newest one, which ends in a whole and sound record,
  so that a flush appends at the end of the log and not into the middle or behind a torn
  record; `HistInv` that the log is increasing and streams share no sample, so that what one
  stream loses is lost once and nowhere else.

`ZdbTsRetainProofs!RolloverKeeps`: `Spec => RolloverRetains`, whatever may fail; the property
itself speaks of the time before the first failure. `RetainInv` says, for that time, that the
files of a stream are numbered without a gap, all but the newest are full, none holds a bad
record, and that the slot counts no more records in the newest file than it has. A power loss
keeps this: what it tears is the newest file. `FilesStay` shows that no other step takes a
file away, `TotalAtLeast` adds up the files a discard leaves.

`ZdbTsRetainProofs!LogImplemented`: `Spec => ImplementsLog`, under `DrainedAssumptions`: besides
`LogAssumptions`, unlink and submit do not fail (each counts as damage in the refinement
mapping, and the log of `ZdbTsLog` has no step that damages nothing), and `zdb_deinit()` finds
nothing buffered (`TRUE \notin Deinits`), because it would drop what the log's `Shutdown` has
to store. The instance of `ts_log` satisfies these. The proof combines `LogInv`, `RetainInv` and one more invariant, `CloseInv`:
the thread that is about to release the last handle finds an empty buffer. The lemmas of
`ZdbTsLogProofs` already say what each step does to a stream; `StepMaps` turns each into the
step of the log of the same name, or into a stutter. `RetainInv` is needed twice: a recovery
that cuts something off has met a bad record, so the stream was damaged, and a discard in an
undamaged instance leaves `Retain` readable samples (`LeftReadable`).

`ZdbTsReadProofs`, about `ReadSpec` and under `LogAssumptions`, for any number of readers,
cursors, windows and consumers beside everything `ZdbTs` does:

* `CountIsExact`: `[]CountExact`. A step of a reader is no step of `ZdbTs`, and a consumer that
  writes its watermark owns the lock while it is in no call of `ZdbTs`; `MarkInv` says who
  does, and `StoreInvariant` carries `TsInv` and `LogInv` over to `ReadSpec` with it.
* `WalksAreComplete`: `[]WalkComplete`; `AggregatesAreHonest`: `[]AggregateHonest`. `ReadInv`
  follows every walk: for a cursor no flush ran into, what is due (`must`) is what it has
  returned followed by what is left to visit from where it stands, in the file it has open,
  the segments ahead and the ingest buffer, in its direction. One lemma per step of a reader
  shows that a record passes from one side to the other; one per step of `ZdbTs` that what is
  left only grows at its end, or that the walk is no longer calm.
* `ConsumersSkipNothing`: `[]ConsumerSkipsNothing`. `FeedInv` says that a consumer's walk began
  behind a mark up to which everything was handled or is gone, so that what it returned, in
  order and without a gap, closes up to the sample it acknowledges.

### Documents

* `ZdbDocProofs!TypeCorrect`: `Spec => []TypeOK`, with the part that matters: a live file
  is never partial, whatever fails and whenever power is lost. The invariant `Inv` adds
  `LockHeld` (a thread inside a save or delete owns the lock and has a target) and
  `Staged` (at the rename the staging file is what the save wrote), which the rename needs.
* `ZdbDocProofs!StagingRemoved`: `Spec => []StagingTransient`. `OneStaged` says that
  without a power loss the only staging file is that of a save about to rename it.
* `ZdbDocProofs!DocumentsSurvive`: `[]StoredIntact`, under `DocAssumptions`: one power loss at
  most, a staging file can be removed, and on FAT neither a rename over a free name nor a
  write fails. Each is needed: see the divergences above for a second power loss and for
  FAT. `Kept` says, for a document that no call is about to rename or to delete, that its
  live file, a staging file an open would promote, and the absence of both were promised;
  on LittleFS also that the absence of the live file alone was, so that a save that fails may
  drop what an interrupted one staged.
* `ZdbDocProofs!QueryCountsRight`: `Spec => []QueryCounts`, for a finite set of
  documents. It holds of the scan over any files, so it needs no invariant of the store.
* `ZdbDocProofs!QueryReportsStored`: `[]QueryFindsStored`, for a finite set of documents
  and under `DocAssumptions`, from `Inv` and `Kept` above: what the scan read is what an open
  would find. A query is a fold over a listing; `ScanFold` turns it into one step per entry
  and the induction is over the prefixes of the listing, with `Scanned` as its invariant:
  `Entries` says which documents of the prefix have been written, each once, and which may
  have been passed over, `Counts` how many matched and when the scan stops.

### Core

* `ZdbCoreProofs!TypeCorrect`, `FaultsNeverSilent`, `ListenersUnlocked`: `Spec` implies
  `[]TypeOK`, `[]NoSilentFault`, `[]ListenersOutsideLock`, for any number of threads. That a
  fault is not silent when every thread is idle says nothing of the steps before; `IInv`
  follows the news on its way: a fault is with a thread that is still detecting or has
  degraded the health (`FaultSeen`), and from then on a thread is about to tell, the flag is
  up, a thread holds a note, or the listeners have heard (`OnItsWay`); the flag is up only
  while somebody who will take it down owns the lock (`Deferred`, `LockPlaces`).
* `ZdbCoreProofs!ChangeReportedOnce`: `[]ReportedOnce`, with the invariant `Once`: without a
  race at most one of these stages holds the news at a time.

### Only model-checked

* `WalkServesStored` and `WalkOrdered`: they speak of walks that flushes and rollover run into,
  where `ReadInv` gives up, and `WalkOrdered` holds with one stream only (see the hazard at
  `zephyrdb_ts.c:2540`).
* `SyncReturns`, `FlushHappens`, `FaultReported`: liveness under fairness and `ENABLED` are
  outside the prover's reach.

## 5. Not modelled, and the plan

1. Proofs: the walks of `ZdbTsRead` that a flush or a rollover runs into.
2. Delta-encoded records with the rebase of a segment, as a codec checked against a
   reference over bounded timestamps; discarded-bytes accounting of rollover.
3. A stream without rollover (one file per stream), the other layout of the file backend.

Not modelled: the FCB backend, a compile-time alternative that passes records through to
Zephyr's FCB library, whose rotation and recovery are outside the repository; the
FlatBuffers export, whose builder is generated code; timestamps of documents and their
window in a query, the getters of fields, the export of the statistics.

Left out for good: record layouts, hashes and CRC arithmetic (a record matches or does
not), path building, formatting, argument checks that only return `ZDB_ERR_INVAL`, the
shell and the zbus adapter.
