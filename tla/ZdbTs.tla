--------------------------------- MODULE ZdbTs ---------------------------------
(***************************************************************************)
(* The time-series store of one zdb_t on a file system, with rollover:     *)
(* stream slots and their ingest buffers, append, close, flush on the work *)
(* queue and flush_sync() waiting for it, segment files, the discard of    *)
(* the oldest segment, the deferred flush events, and recovery on open     *)
(* after a power loss or after stored bytes went bad.                      *)
(*                                                                         *)
(* A sample is a number; a record is a sample, or Bad when its CRC fails.  *)
(* Records have one size (no delta encoding), so encoding always succeeds. *)
(* Sizes are counted in records.  A step is what happens between two       *)
(* points another thread or a power loss can tell apart.                   *)
(***************************************************************************)
EXTENDS Integers, Sequences, FiniteSets, SequencesExt

CONSTANTS
  Threads,         \* application threads
  Worker,          \* the thread of cfg->work_q
  Streams,         \* stream names
  MaxStreams,      \* CONFIG_ZDB_TS_MAX_STREAMS
  IngestBlocks,    \* blocks of the ingest slab
  Capacity,        \* records an ingest buffer holds
  OpenCountMax,    \* UINT8_MAX, where open_count saturates
  SegmentRecords,  \* CONFIG_ZDB_TS_ROLLOVER_SEGMENT_BYTES, in records
  MaxSegments,     \* CONFIG_ZDB_TS_ROLLOVER_MAX_SEGMENTS
  BatchSizes,      \* 1 for zdb_ts_append_i64(), more for a batch
  Calls,           \* the API calls each thread makes
  Faults,          \* which environment failures may happen
  SoloOpen,        \* a stream is opened while no other thread calls
  Deinits,         \* zdb_deinit() comes while samples are buffered (TRUE), while none are (FALSE)
  MaxSamples,      \* bound: samples appended
  MaxBoots,        \* bound: power losses
  MaxFails,        \* bound: failures, timeouts apart
  NoActor, NoStream, Bad

CallKinds == {"open", "close", "append", "flush_sync", "flush_async"}
FaultKinds == {"write", "header", "unlink", "submit", "rot", "timeout", "mark"}
Actors == Threads \cup {Worker}
Slots == 1..MaxStreams
Samples == 1..MaxSamples

ASSUME TsConstants ==
  /\ MaxStreams \in Nat \ {0}
  /\ IngestBlocks \in Nat /\ IngestBlocks >= MaxStreams  \* a BUILD_ASSERT
  /\ Capacity \in Nat \ {0}
  /\ OpenCountMax \in Nat \ {0}
  /\ SegmentRecords \in Nat \ {0}
  /\ MaxSegments \in Nat \ {0, 1}
  /\ BatchSizes \subseteq Nat \ {0}
  /\ Calls \in [Threads -> SUBSET CallKinds]
  /\ Faults \subseteq FaultKinds
  /\ SoloOpen \in BOOLEAN
  /\ MaxSamples \in Nat
  /\ MaxBoots \in Nat
  /\ MaxFails \in Nat
  /\ Worker \notin Threads
  /\ NoActor \notin Threads \cup {Worker}
  /\ NoStream \notin Streams
  /\ Bad \notin 1..MaxSamples
ASSUME DeinitConstants == Deinits \subseteq BOOLEAN

VARIABLES
  disk,      \* flash: per stream, its segment files by number
  slots,     \* RAM: ctx->streams[]
  blocks,    \* RAM: ingest slab blocks taken
  pending,   \* RAM: ctx->flush_pending
  sem,       \* RAM: count of ctx->flush_done, limit 1
  queued,    \* RAM: flush_work is on the work queue
  released,  \* RAM: ctx->released_flush_bytes
  lock,      \* owner of db->lock, or NoActor
  pc,        \* per actor: the next step it takes
  at,        \* per actor: the slot it works on, 0 for none
  hd,        \* per thread: the stream its handle is open on
  todo,      \* per thread: samples its append call still has to buffer
  batch,     \* per thread: that call is a batch
  drain,     \* the worker's locals: next slot, bytes of this slot, bytes flushed
  made,      \* samples handed to append so far
  boots,     \* power losses so far
  fails,     \* failures so far, timeouts apart
  log,       \* history: per stream, the samples accepted, in order
  gone,      \* history: samples rollover, recovery, rot, power loss, deinit or a failed close took
  owed,      \* history: per thread, what was buffered when its flush_sync began
  unheard    \* history: records of completed flushes that no flush event has reported yet

flushVars == <<pending, sem, queued>>
callVars == <<hd, todo, batch>>
sysVars == <<made, boots, fails>>
sampleVars == <<log, gone>>
vars == <<disk, slots, blocks, pending, sem, queued, released, lock, pc, at, hd, todo, batch, drain,
          made, boots, fails, log, gone, owed, unheard>>

--------------------------------------------------------------------------------
(* Files and slots. *)

(* A segment file: whether its header is there, its records, and whether a      *)
(* partial record follows them.                                                 *)
Segment == [hdr : BOOLEAN, recs : Seq(Samples \cup {Bad}), torn : BOOLEAN]
EmptyFile == [hdr |-> FALSE, recs |-> <<>>, torn |-> FALSE]
NewSegment == [EmptyFile EXCEPT !.hdr = TRUE]

(* File n of stream s is written. *)
Put(s, n, f) ==
  [disk EXCEPT ![s] = [i \in DOMAIN disk[s] \cup {n} |-> IF i = n THEN f ELSE disk[s][i]]]
(* File n of stream s, as fs_open() with FS_O_CREATE finds it. *)
FileAt(s, n) == IF n \in DOMAIN disk[s] THEN disk[s][n] ELSE EmptyFile

Slot == [used : BOOLEAN, name : Streams \cup {NoStream}, count : Nat, buf : Seq(Samples),
         scanned : BOOLEAN, cur : Nat, oldest : Nat, bytes : Nat, pend : Nat]
FreeSlot == [used |-> FALSE, name |-> NoStream, count |-> 0, buf |-> <<>>, scanned |-> FALSE,
             cur |-> 0, oldest |-> 0, bytes |-> 0, pend |-> 0]

(* A header that could not be written: no file, an empty one or part of a header. *)
HeaderFails(s, n) == {disk} \cup {Put(s, n, [EmptyFile EXCEPT !.torn = b]) : b \in BOOLEAN}

(* A flush that could not be completed: some of the records are in the file,    *)
(* and possibly part of the next one; all of them, when only the close failed.  *)
PartWritten(sl) ==
  LET f == FileAt(sl.name, sl.cur)
      Part(n, b) == IF f.torn THEN f ELSE [f EXCEPT !.recs = f.recs \o SubSeq(sl.buf, 1, n),
                                                    !.torn = b /\ n < Len(sl.buf)]
  IN  {disk} \cup UNION {{Put(sl.name, sl.cur, Part(n, b)) : b \in BOOLEAN} : n \in 0..Len(sl.buf)}

Open(s) == {i \in Slots : slots[i].used /\ slots[i].name = s}
Lowest(S) == CHOOSE i \in S : \A j \in S : i <= j
Highest(S) == CHOOSE i \in S : \A j \in S : i >= j
slot_find(s) == IF Open(s) = {} THEN 0 ELSE Lowest(Open(s))

--------------------------------------------------------------------------------
(* The lock, and the events it defers. *)

Pend(sl) == MapThenSumSet(LAMBDA i : sl[i].pend, Slots)

(* zdb_unlock_common(): the slots become sl, what they and the slots released   *)
(* meanwhile (rl) recorded is reported together with the n records the caller   *)
(* reports by itself.                                                           *)
Unlock(sl, rl, n) ==
  /\ lock' = NoActor
  /\ slots' = [i \in Slots |-> [sl[i] EXCEPT !.pend = 0]]
  /\ released' = 0
  /\ unheard' = unheard - Pend(sl) - rl - n

(* The environment fails in the given way. *)
Fault(kind) == kind \in Faults /\ fails < MaxFails /\ fails' = fails + 1

Go(a, place) == pc' = [pc EXCEPT ![a] = place]

Calling(t) == pc[t] # "idle"
Opening(t) == pc[t] \in {"join", "claim", "recover"}
MayCall(t, c) ==
  /\ ~Calling(t)
  /\ c \in Calls[t]
  /\ SoloOpen => \A u \in Threads : ~Opening(u)
  /\ (SoloOpen /\ c = "open") => \A u \in Threads : ~Calling(u)

--------------------------------------------------------------------------------
(* zdb_ts_open(), which takes no lock *)

(* slot_claim() looks for the stream, then for a free slot; with neither, the   *)
(* call returns ZDB_ERR_BUSY.                                                   *)
CallOpen(t) ==
  /\ MayCall(t, "open")
  /\ hd[t] = NoStream
  /\ \E s \in Streams :
       LET free == {i \in Slots : ~slots[i].used}
       IN  /\ \/ /\ slot_find(s) # 0
                 /\ at' = [at EXCEPT ![t] = slot_find(s)]
                 /\ Go(t, "join")
              \/ /\ slot_find(s) = 0 /\ free # {}
                 /\ at' = [at EXCEPT ![t] = Lowest(free)]
                 /\ Go(t, "claim")
           /\ hd' = [hd EXCEPT ![t] = s]
  /\ UNCHANGED <<disk, slots, blocks, flushVars, released, lock, todo, batch, drain, sysVars,
                 sampleVars, owed, unheard>>

(* Mutant: the second handle is not counted. *)
OpenJoinUncounted(t) ==
  /\ pc[t] = "join"
  /\ Go(t, "recover")
  /\ UNCHANGED <<disk, slots, blocks, flushVars, released, lock, at, callVars, drain, sysVars,
                 sampleVars, owed, unheard>>
(* One handle more on the slot that was found. *)
OpenJoin(t) ==
  /\ pc[t] = "join"
  /\ slots' = IF slots[at[t]].count < OpenCountMax THEN [slots EXCEPT ![at[t]].count = @ + 1]
              ELSE slots
  /\ Go(t, "recover")
  /\ UNCHANGED <<disk, blocks, flushVars, released, lock, at, callVars, drain, sysVars,
                 sampleVars, owed, unheard>>

(* The slot that was free is wiped and gets an ingest buffer, if there is one. *)
OpenClaim(t) ==
  /\ pc[t] = "claim"
  /\ IF blocks < IngestBlocks
     THEN /\ slots' = [slots EXCEPT ![at[t]] = [FreeSlot EXCEPT !.used = TRUE, !.name = hd[t],
                                                               !.count = 1]]
          /\ blocks' = blocks + 1
          /\ Go(t, "recover")
          /\ UNCHANGED <<hd, at>>
     ELSE /\ slots' = [slots EXCEPT ![at[t]] = FreeSlot]
          /\ hd' = [hd EXCEPT ![t] = NoStream]
          /\ at' = [at EXCEPT ![t] = 0]
          /\ Go(t, "idle")
          /\ UNCHANGED blocks
  /\ UNCHANGED <<disk, flushVars, released, lock, todo, batch, drain, sysVars, sampleVars, owed,
                 unheard>>

(* scan_segments(): the window of segment numbers, and the newest file, which   *)
(* gets a header when it is empty.  cur_seg_bytes is the size of that file less *)
(* its header; here it counts whole records, and a partial one at the end of    *)
(* the file, which the recovery behind it cuts off, is not counted.             *)
Window(s) == IF DOMAIN disk[s] = {} THEN {0} ELSE DOMAIN disk[s]
scan_segments(sl, s, f) ==
  IF sl.scanned THEN sl
  ELSE [sl EXCEPT !.scanned = TRUE, !.oldest = Lowest(Window(s)), !.cur = Highest(Window(s)),
                  !.bytes = Len(f.recs)]

(* Mutant: the last good record is cut off too. *)
GoodPrefixShort(recs) == IF recs = <<>> THEN 0 ELSE Len(recs) - 1
(* Records of the longest prefix whose CRCs hold. *)
GoodPrefix(recs) ==
  Highest({n \in 0..Len(recs) : \A i \in 1..n : recs[i] # Bad})

(* Record j lies behind a bad one, where the recovery walk does not get. *)
BehindBad(recs, j) == \E i \in 1..(j - 1) : recs[i] = Bad

(* recover_stream(): the newest segment ends before its first bad or partial    *)
(* record.  It reports the one record its walk stopped in, which stays below    *)
(* CONFIG_ZDB_TS_MAX_RECOVERY_TRUNCATE_BYTES, so that zdb_ts_open() goes on.    *)
(* The scan, the header, the walk and the truncation are several file           *)
(* operations without the lock, and one step here: with SoloOpen no other       *)
(* thread is in a call meanwhile, and a power loss between two of them leaves   *)
(* the files as before the step, with or without the new header.                *)
OpenRecover(t) ==
  /\ pc[t] = "recover"
  /\ LET s == hd[t]
         i == slot_find(s)
         n == IF i # 0 /\ slots[i].scanned THEN slots[i].cur ELSE Highest(Window(s))
         old == FileAt(s, n)
         f == IF old = EmptyFile THEN NewSegment ELSE old
         good == GoodPrefix(f.recs)
         lost == {f.recs[j] : j \in {k \in 1..Len(f.recs) : BehindBad(f.recs, k)}} \ {Bad}
     IN  \/ /\ i # 0
            /\ f.hdr
            /\ disk' = Put(s, n, [f EXCEPT !.recs = SubSeq(f.recs, 1, good), !.torn = FALSE])
            /\ slots' = [slots EXCEPT ![i] = scan_segments(@, s, f)]
            /\ gone' = gone \cup lost
            /\ UNCHANGED <<hd, fails>>
         \/ /\ \/ (i = 0 \/ ~f.hdr) /\ UNCHANGED <<disk, fails>>
               \/ old = EmptyFile /\ Fault("header") /\ disk' \in HeaderFails(s, n)
            /\ hd' = [hd EXCEPT ![t] = NoStream]
            /\ UNCHANGED <<slots, gone>>
  /\ Go(t, "idle")
  /\ at' = [at EXCEPT ![t] = 0]
  /\ UNCHANGED <<blocks, flushVars, released, lock, todo, batch, drain, made, boots, log,
                 owed, unheard>>

--------------------------------------------------------------------------------
(* flush_buffer_locked(), for the actor that holds the lock *)

(* The buffer goes to the newest segment in one write. Records behind a         *)
(* partial one are out of step and never read back.  A failing write or close   *)
(* leaves what it wrote, and no total counts it: neither pending_flush_bytes    *)
(* nor unheard, which is about completed flushes.                               *)
FlushWrite(a) ==
  /\ pc[a] = "write"
  /\ LET sl == slots[at[a]]
         f == FileAt(sl.name, sl.cur)
         bytes == sl.bytes + Len(sl.buf)
     IN  \/ /\ sl.buf = <<>>
            /\ Go(a, "flushed")
            /\ UNCHANGED <<disk, slots, unheard, fails>>
         \/ /\ sl.buf # <<>>
            /\ disk' = Put(sl.name, sl.cur,
                           IF f.torn THEN f ELSE [f EXCEPT !.recs = f.recs \o sl.buf])
            /\ slots' = [slots EXCEPT ![at[a]] = [sl EXCEPT !.buf = <<>>, !.bytes = bytes,
                                                            !.pend = sl.pend + Len(sl.buf)]]
            /\ unheard' = unheard + Len(sl.buf)
            /\ Go(a, IF bytes >= SegmentRecords THEN "roll" ELSE "flushed")
            /\ UNCHANGED fails
         \/ /\ sl.buf # <<>>
            /\ Fault("write")
            /\ disk' \in PartWritten(sl)
            /\ Go(a, "flush_failed")
            /\ UNCHANGED <<slots, unheard>>
  /\ UNCHANGED <<blocks, flushVars, released, lock, at, callVars, drain, made, boots, sampleVars,
                 owed>>

(* Mutant: one segment too few is kept. *)
TooManyByOne(sl) == sl.cur - sl.oldest + 1 >= MaxSegments
TooMany(sl) == sl.cur - sl.oldest + 1 > MaxSegments

(* start_segment(): the number moves on before the header is there. *)
StartSegment(a) ==
  /\ pc[a] = "roll"
  /\ LET sl == [slots[at[a]] EXCEPT !.cur = @ + 1, !.bytes = 0]
     IN  /\ slots' = [slots EXCEPT ![at[a]] = sl]
         /\ \/ /\ disk' = Put(sl.name, sl.cur, NewSegment)
               /\ Go(a, IF TooMany(sl) THEN "discard" ELSE "flushed")
               /\ UNCHANGED fails
            \/ /\ Fault("header")
               /\ disk' \in HeaderFails(sl.name, sl.cur)
               /\ Go(a, "flush_failed")
  /\ UNCHANGED <<blocks, flushVars, released, lock, at, callVars, drain, made, boots, sampleVars,
                 owed, unheard>>

(* One round of the loop that discards the oldest segment. *)
DiscardOldest(a) ==
  /\ pc[a] = "discard"
  /\ LET sl == slots[at[a]]
         s == sl.name
         next == [sl EXCEPT !.oldest = sl.oldest + 1]
     IN  \/ /\ disk' = [disk EXCEPT ![s] = [n \in DOMAIN @ \ {sl.oldest} |-> @[n]]]
            /\ gone' = gone \cup (Range(FileAt(s, sl.oldest).recs) \ {Bad})
            /\ slots' = [slots EXCEPT ![at[a]] = next]
            /\ Go(a, IF TooMany(next) THEN "discard" ELSE "flushed")
            /\ UNCHANGED fails
         \/ /\ Fault("unlink")
            /\ Go(a, "flush_failed")
            /\ UNCHANGED <<disk, slots, gone>>
  /\ UNCHANGED <<blocks, flushVars, released, lock, at, callVars, drain, made, boots, log, owed,
                 unheard>>

--------------------------------------------------------------------------------
(* zdb_ts_append_i64() and zdb_ts_append_batch_i64() *)

(* Samples appended, or still to be appended by a call in progress. *)
Taken == made + MapThenSumSet(LAMBDA t : todo[t], Threads)

(* zdb_ts_append_i64() looks its slot up before it takes the lock; there is     *)
(* none for a stale handle.                                                     *)
CallAppend(t) ==
  /\ MayCall(t, "append")
  /\ hd[t] # NoStream
  /\ \E n \in BatchSizes :
       /\ Taken + n <= MaxSamples
       /\ todo' = [todo EXCEPT ![t] = n]
       /\ batch' = [batch EXCEPT ![t] = n > 1]
       /\ n = 1 => slot_find(hd[t]) # 0
       /\ at' = [at EXCEPT ![t] = IF n = 1 THEN slot_find(hd[t]) ELSE 0]
  /\ Go(t, "append")
  /\ UNCHANGED <<disk, slots, blocks, flushVars, released, lock, hd, drain, sysVars,
                 sampleVars, owed, unheard>>

Full(sl) == Len(sl.buf) + 1 > Capacity

(* Mutant: the room for the next sample is not counted in. *)
RoomLate(sl) == IF Len(sl.buf) > Capacity THEN "write" ELSE "flushed"
(* A full buffer is flushed before the next sample is encoded into it. *)
Room(sl) == IF Full(sl) THEN "write" ELSE "flushed"

(* A batch looks its slot up under the lock, and returns if there is none. *)
AppendLock(t) ==
  /\ pc[t] = "append"
  /\ lock = NoActor
  /\ LET i == IF batch[t] THEN slot_find(hd[t]) ELSE at[t]
     IN  /\ at' = [at EXCEPT ![t] = i]
         /\ IF i # 0
            THEN lock' = t /\ Go(t, Room(slots[i])) /\ UNCHANGED <<todo, batch>>
            ELSE /\ todo' = [todo EXCEPT ![t] = 0]
                 /\ batch' = [batch EXCEPT ![t] = FALSE]
                 /\ Go(t, "idle")
                 /\ UNCHANGED lock
  /\ UNCHANGED <<disk, slots, blocks, flushVars, released, hd, drain, sysVars, sampleVars,
                 owed, unheard>>

(* The sample is buffered; the last one of the call leaves the lock and, with   *)
(* a full buffer, asks for a flush.                                             *)
AppendBuffer(t) ==
  /\ pc[t] = "flushed" /\ todo[t] > 0
  /\ LET i == at[t]
         sl == [slots EXCEPT ![i].buf = Append(@, made + 1)]
     IN  /\ made' = made + 1
         /\ log' = [log EXCEPT ![hd[t]] = Append(@, made + 1)]
         /\ todo' = [todo EXCEPT ![t] = @ - 1]
         /\ IF todo[t] > 1
            THEN /\ slots' = sl
                 /\ Go(t, Room(sl[i]))
                 /\ UNCHANGED <<lock, released, at, unheard>>
            ELSE /\ Unlock(sl, released, 0)
                 /\ at' = [at EXCEPT ![t] = IF batch[t] THEN i ELSE 0]
                 /\ Go(t, CASE batch[t] -> "full"
                            [] ~batch[t] /\ Full(sl[i]) -> "async"
                            [] OTHER -> "idle")
  /\ UNCHANGED <<disk, blocks, flushVars, hd, batch, drain, boots, fails, gone, owed>>

(* A batch looks after the unlock whether the buffer is full. *)
BatchFull(t) ==
  /\ pc[t] = "full"
  /\ Go(t, IF Full(slots[at[t]]) THEN "async" ELSE "idle")
  /\ at' = [at EXCEPT ![t] = 0]
  /\ batch' = [batch EXCEPT ![t] = FALSE]
  /\ UNCHANGED <<disk, slots, blocks, flushVars, released, lock, hd, todo, drain, sysVars,
                 sampleVars, owed, unheard>>

(* The flush failed: the rest of the call is refused. *)
AppendFails(t) ==
  /\ pc[t] = "flush_failed" /\ todo[t] > 0
  /\ todo' = [todo EXCEPT ![t] = 0]
  /\ batch' = [batch EXCEPT ![t] = FALSE]
  /\ Unlock(slots, released, 0)
  /\ Go(t, "idle")
  /\ at' = [at EXCEPT ![t] = 0]
  /\ UNCHANGED <<disk, blocks, flushVars, hd, drain, sysVars, sampleVars, owed>>

--------------------------------------------------------------------------------
(* zdb_ts_close() *)

(* Mutant: the buffer of the last handle is not flushed. *)
CallCloseUnflushed(t) ==
  /\ MayCall(t, "close")
  /\ hd[t] # NoStream
  /\ lock = NoActor
  /\ LET i == slot_find(hd[t])
     IN  IF i = 0
         THEN /\ hd' = [hd EXCEPT ![t] = NoStream]
              /\ UNCHANGED <<lock, pc, at>>
         ELSE /\ lock' = t
              /\ at' = [at EXCEPT ![t] = i]
              /\ Go(t, "flushed")
              /\ UNCHANGED hd
  /\ UNCHANGED <<disk, slots, blocks, flushVars, released, todo, batch, drain, sysVars,
                 sampleVars, owed, unheard>>
CallClose(t) ==
  /\ MayCall(t, "close")
  /\ hd[t] # NoStream
  /\ lock = NoActor
  /\ LET i == slot_find(hd[t])
     IN  IF i = 0
         THEN /\ hd' = [hd EXCEPT ![t] = NoStream]
              /\ UNCHANGED <<lock, pc, at>>
         ELSE /\ lock' = t
              /\ at' = [at EXCEPT ![t] = i]
              /\ Go(t, IF slots[i].count <= 1 THEN "write" ELSE "flushed")
              /\ UNCHANGED hd
  /\ UNCHANGED <<disk, slots, blocks, flushVars, released, todo, batch, drain, sysVars,
                 sampleVars, owed, unheard>>

(* slot_release(): what the slot owes the listeners outlives it; what a failed  *)
(* flush left in its buffer does not.                                           *)
CloseRelease(t) ==
  /\ t \in Threads
  /\ pc[t] \in {"flushed", "flush_failed"} /\ todo[t] = 0
  /\ LET i == at[t]
         sl == slots[i]
     IN  IF sl.count > 1
         THEN /\ Unlock([slots EXCEPT ![i].count = @ - 1], released, 0)
              /\ UNCHANGED <<blocks, gone>>
         ELSE /\ Unlock([slots EXCEPT ![i] = FreeSlot], released + sl.pend, 0)
              /\ blocks' = blocks - 1
              /\ gone' = gone \cup Range(sl.buf)
  /\ hd' = [hd EXCEPT ![t] = NoStream]
  /\ Go(t, "idle")
  /\ at' = [at EXCEPT ![t] = 0]
  /\ UNCHANGED <<disk, flushVars, todo, batch, drain, sysVars, log, owed>>

--------------------------------------------------------------------------------
(* zdb_ts_flush_async(), alone, from an append and from zdb_ts_flush_sync() *)

CallFlushAsync(t) ==
  /\ MayCall(t, "flush_async")
  /\ hd[t] # NoStream
  /\ Go(t, "async")
  /\ UNCHANGED <<disk, slots, blocks, flushVars, released, lock, at, callVars, drain, sysVars,
                 sampleVars, owed, unheard>>

(* Stale tokens are drained before the flush is asked for. *)
CallFlushSync(t) ==
  /\ MayCall(t, "flush_sync")
  /\ hd[t] # NoStream
  /\ sem' = 0
  /\ owed' = [owed EXCEPT ![t] = UNION {Range(slots[i].buf) : i \in Slots}]
  /\ Go(t, "sync_async")
  /\ UNCHANGED <<disk, slots, blocks, pending, queued, released, lock, at, callVars, drain,
                 sysVars, sampleVars, unheard>>

(* Mutant: the flag is set and no work item submitted. *)
FlushAsyncUnqueued(t) ==
  /\ pc[t] \in {"async", "sync_async"}
  /\ lock = NoActor
  /\ pending' = TRUE
  /\ Go(t, IF pc[t] = "async" THEN "idle" ELSE "sync_check")
  /\ UNCHANGED <<disk, slots, blocks, sem, queued, released, lock, at, callVars, drain, sysVars,
                 sampleVars, owed, unheard>>
FlushAsync(t) ==
  /\ pc[t] \in {"async", "sync_async"}
  /\ lock = NoActor
  /\ LET next == IF pc[t] = "async" THEN "idle" ELSE "sync_check"
     IN  \/ pending /\ Go(t, next) /\ UNCHANGED <<pending, queued, fails>>
         \/ /\ ~pending
            /\ pending' = TRUE
            /\ \/ queued' = TRUE /\ Go(t, next) /\ UNCHANGED fails
               \/ Fault("submit") /\ Go(t, "unpend") /\ UNCHANGED queued
  /\ UNCHANGED <<disk, slots, blocks, sem, released, lock, at, callVars, drain, made, boots,
                 sampleVars, owed, unheard>>

(* The work queue refused the item: the flag is cleared after the unlock. *)
FlushNotQueued(t) ==
  /\ pc[t] = "unpend"
  /\ pending' = FALSE
  /\ owed' = [owed EXCEPT ![t] = {}]
  /\ Go(t, "idle")
  /\ UNCHANGED <<disk, slots, blocks, sem, queued, released, lock, at, callVars, drain, sysVars,
                 sampleVars, unheard>>

SyncCheck(t) ==
  /\ pc[t] = "sync_check"
  /\ Go(t, IF pending THEN "sync_take" ELSE "synced")
  /\ UNCHANGED <<disk, slots, blocks, flushVars, released, lock, at, callVars, drain, sysVars,
                 sampleVars, owed, unheard>>

(* Mutant: the stale token is drained after the flush was asked for. *)
SyncTakeDrains(t) ==
  /\ pc[t] = "sync_take"
  /\ sem' = 0
  /\ Go(t, "sync_wait")
  /\ UNCHANGED <<disk, slots, blocks, pending, queued, released, lock, at, callVars, drain,
                 sysVars, sampleVars, owed, unheard>>
SyncTake(t) ==
  /\ pc[t] = "sync_take"
  /\ sem' = 0
  /\ Go(t, IF sem = 1 THEN "sync_woken" ELSE "sync_wait")
  /\ UNCHANGED <<disk, slots, blocks, pending, queued, released, lock, at, callVars, drain,
                 sysVars, sampleVars, owed, unheard>>

SyncTimeout(t) ==
  /\ pc[t] = "sync_wait"
  /\ "timeout" \in Faults
  /\ owed' = [owed EXCEPT ![t] = {}]
  /\ Go(t, "idle")
  /\ UNCHANGED <<disk, slots, blocks, flushVars, released, lock, at, callVars, drain, sysVars,
                 sampleVars, unheard>>

(* A token was given: another flush in flight makes it ZDB_ERR_BUSY. *)
SyncWoken(t) ==
  /\ pc[t] = "sync_woken"
  /\ Go(t, IF pending THEN "idle" ELSE "synced")
  /\ owed' = [owed EXCEPT ![t] = IF pending THEN {} ELSE @]
  /\ UNCHANGED <<disk, slots, blocks, flushVars, released, lock, at, callVars, drain, sysVars,
                 sampleVars, unheard>>

(* zdb_ts_flush_sync() returns ZDB_OK. *)
SyncReturn(t) ==
  /\ pc[t] = "synced"
  /\ owed' = [owed EXCEPT ![t] = {}]
  /\ Go(t, "idle")
  /\ UNCHANGED <<disk, slots, blocks, flushVars, released, lock, at, callVars, drain, sysVars,
                 sampleVars, unheard>>

--------------------------------------------------------------------------------
(* flush_work_handler() *)

WorkerStart ==
  /\ pc[Worker] = "idle"
  /\ queued
  /\ queued' = FALSE
  /\ Go(Worker, "work")
  /\ UNCHANGED <<disk, slots, blocks, pending, sem, released, lock, at, callVars, drain,
                 sysVars, sampleVars, owed, unheard>>

WorkerLock ==
  /\ pc[Worker] = "work"
  /\ lock = NoActor
  /\ lock' = Worker
  /\ drain' = [next |-> 1, bytes |-> 0, sum |-> 0]
  /\ Go(Worker, "drain")
  /\ UNCHANGED <<disk, slots, blocks, flushVars, released, at, callVars, sysVars, sampleVars,
                 owed, unheard>>

(* Mutant: the drain starts with the second slot. *)
WaitingSkips == {i \in Slots : i > drain.next /\ slots[i].used /\ slots[i].buf # <<>>}
Waiting == {i \in Slots : i >= drain.next /\ slots[i].used /\ slots[i].buf # <<>>}

DrainNext ==
  /\ pc[Worker] = "drain"
  /\ Waiting # {}
  /\ LET i == Lowest(Waiting)
     IN  /\ at' = [at EXCEPT ![Worker] = i]
         /\ drain' = [drain EXCEPT !.next = i + 1, !.bytes = Len(slots[i].buf)]
  /\ Go(Worker, "write")
  /\ UNCHANGED <<disk, slots, blocks, flushVars, released, lock, callVars, sysVars, sampleVars,
                 owed, unheard>>

(* Mutant: the slot reports what the handler reports. *)
DrainDoneTwice ==
  /\ pc[Worker] \in {"flushed", "flush_failed"}
  /\ drain' = IF pc[Worker] = "flushed" THEN [drain EXCEPT !.sum = drain.sum + drain.bytes]
              ELSE drain
  /\ Go(Worker, "drain")
  /\ at' = [at EXCEPT ![Worker] = 0]
  /\ UNCHANGED <<disk, slots, blocks, flushVars, released, lock, callVars, sysVars, sampleVars,
                 owed, unheard>>
(* A stream that was flushed is reported by the handler and not by the slot; a  *)
(* failing one keeps its data.                                                  *)
DrainDone ==
  /\ pc[Worker] \in {"flushed", "flush_failed"}
  /\ IF pc[Worker] = "flushed"
     THEN /\ drain' = [drain EXCEPT !.sum = drain.sum + drain.bytes]
          /\ slots' = [slots EXCEPT ![at[Worker]].pend = 0]
     ELSE UNCHANGED <<drain, slots>>
  /\ Go(Worker, "drain")
  /\ at' = [at EXCEPT ![Worker] = 0]
  /\ UNCHANGED <<disk, blocks, flushVars, released, lock, callVars, sysVars, sampleVars,
                 owed, unheard>>

(* k_sem_give(): a waiting thread gets the token, else the count becomes 1. *)
WorkerEnd ==
  /\ pc[Worker] = "drain"
  /\ Waiting = {}
  /\ pending' = FALSE
  /\ LET waiters == {t \in Threads : pc[t] = "sync_wait"}
     IN  \/ /\ waiters = {}
            /\ sem' = 1
            /\ Go(Worker, "idle")
         \/ \E t \in waiters :
              /\ pc' = [pc EXCEPT ![Worker] = "idle", ![t] = "sync_woken"]
              /\ UNCHANGED sem
  /\ Unlock(slots, released, drain.sum)
  /\ drain' = [next |-> 1, bytes |-> 0, sum |-> 0]
  /\ UNCHANGED <<disk, blocks, queued, at, callVars, sysVars, sampleVars, owed>>

--------------------------------------------------------------------------------
(* The environment *)

(* What a power loss can leave of the file system: a write in progress may have *)
(* stored part of its records, a new segment may lack its header.               *)
CrashImages ==
  {disk}
  \cup (UNION {PartWritten(slots[at[a]]) : a \in {b \in Actors : pc[b] = "write"}})
  \cup {Put(slots[at[a]].name, slots[at[a]].cur + 1, EmptyFile) :
          a \in {b \in Actors : pc[b] = "roll"}}

OnDisk(d) == UNION {UNION {Range(d[s][n].recs) : n \in DOMAIN d[s]} : s \in Streams}
Buffered == UNION {Range(slots[i].buf) : i \in Slots}

(* The context is gone, with the slots and what their ingest buffers hold. *)
RamLost ==
  /\ gone' = gone \cup (Buffered \ OnDisk(disk'))
  /\ slots' = [i \in Slots |-> FreeSlot]
  /\ blocks' = 0
  /\ pending' = FALSE
  /\ sem' = 0
  /\ queued' = FALSE
  /\ released' = 0
  /\ lock' = NoActor
  /\ pc' = [a \in Actors |-> "idle"]
  /\ at' = [a \in Actors |-> 0]
  /\ hd' = [t \in Threads |-> NoStream]
  /\ todo' = [t \in Threads |-> 0]
  /\ batch' = [t \in Threads |-> FALSE]
  /\ drain' = [next |-> 1, bytes |-> 0, sum |-> 0]
  /\ owed' = [t \in Threads |-> {}]
  /\ unheard' = 0
  /\ UNCHANGED <<made, fails, log>>

PowerLoss ==
  /\ boots < MaxBoots
  /\ boots' = boots + 1
  /\ disk' \in CrashImages
  /\ RamLost

(* zdb_deinit(), and zdb_init() again, while no call is in progress: a queued   *)
(* flush is cancelled, a running one is waited for, and the ingest buffers go   *)
(* back to their slab as they are: what they hold is not written out.           *)
Deinit ==
  /\ \A a \in Actors : pc[a] = "idle"
  /\ (Buffered # {}) \in Deinits
  /\ UNCHANGED <<disk, boots>>
  /\ RamLost

(* A stored record of a stream nobody has open goes bad. *)
Rot(s) ==
  /\ Fault("rot")
  /\ Open(s) = {}
  /\ \E n \in DOMAIN disk[s] :
       \E j \in 1..Len(disk[s][n].recs) :
          /\ disk[s][n].recs[j] # Bad
          /\ disk' = [disk EXCEPT ![s][n].recs[j] = Bad]
          /\ gone' = gone \cup {disk[s][n].recs[j]}
  /\ UNCHANGED <<slots, blocks, flushVars, released, lock, pc, at, callVars, drain, made, boots,
                 log, owed, unheard>>

Init ==
  /\ disk = [s \in Streams |-> <<>>]
  /\ slots = [i \in Slots |-> FreeSlot]
  /\ blocks = 0
  /\ pending = FALSE
  /\ sem = 0
  /\ queued = FALSE
  /\ released = 0
  /\ lock = NoActor
  /\ pc = [a \in Actors |-> "idle"]
  /\ at = [a \in Actors |-> 0]
  /\ hd = [t \in Threads |-> NoStream]
  /\ todo = [t \in Threads |-> 0]
  /\ batch = [t \in Threads |-> FALSE]
  /\ drain = [next |-> 1, bytes |-> 0, sum |-> 0]
  /\ made = 0
  /\ boots = 0
  /\ fails = 0
  /\ log = [s \in Streams |-> <<>>]
  /\ gone = {}
  /\ owed = [t \in Threads |-> {}]
  /\ unheard = 0

FlushStep(a) == FlushWrite(a) \/ StartSegment(a) \/ DiscardOldest(a)

(* The steps of a call, once it is made; those that wait for the lock apart. *)
InCall(t) ==
  \/ OpenJoin(t) \/ OpenClaim(t) \/ OpenRecover(t)
  \/ FlushStep(t) \/ AppendBuffer(t) \/ BatchFull(t) \/ AppendFails(t)
  \/ CloseRelease(t)
  \/ FlushNotQueued(t) \/ SyncCheck(t) \/ SyncTake(t) \/ SyncWoken(t) \/ SyncReturn(t)
WaitsForLock(t) == AppendLock(t) \/ FlushAsync(t)

Call(t) ==
  \/ CallOpen(t) \/ CallAppend(t) \/ CallClose(t) \/ CallFlushAsync(t) \/ CallFlushSync(t)

WorkerStep == WorkerStart \/ FlushStep(Worker) \/ DrainNext \/ DrainDone \/ WorkerEnd

(* A step in which the instance stays up. *)
UpNext ==
  \/ \E t \in Threads : Call(t) \/ InCall(t) \/ WaitsForLock(t) \/ SyncTimeout(t)
  \/ WorkerStep
  \/ WorkerLock
  \/ \E s \in Streams : Rot(s)

Next == UpNext \/ PowerLoss \/ Deinit

Spec == Init /\ [][Next]_vars

(* A thread inside a call goes on, the work queue runs what it holds, and       *)
(* k_mutex hands db->lock to every waiter in turn.  Nobody has to make a call,  *)
(* no timeout has to expire.                                                    *)
Fairness ==
  /\ \A t \in Threads : WF_vars(InCall(t)) /\ SF_vars(WaitsForLock(t))
  /\ WF_vars(WorkerStep) /\ SF_vars(WorkerLock)

FairSpec == Spec /\ Fairness

--------------------------------------------------------------------------------
(* Properties *)

Places == {"idle", "join", "claim", "recover", "append", "full", "write", "roll", "discard",
           "flushed", "flush_failed", "async", "sync_async", "unpend", "sync_check", "sync_take",
           "sync_wait", "sync_woken", "synced", "work", "drain"}

(* Type invariant: every variable stays in its range, an ingest buffer never     *)
(* holds more than its capacity, the slab never gives out more than it has.      *)
TypeOK ==
  /\ DOMAIN disk = Streams
  /\ \A s \in Streams : \A n \in DOMAIN disk[s] : n \in Nat /\ disk[s][n] \in Segment
  /\ slots \in [Slots -> Slot]
  /\ \A i \in Slots : Len(slots[i].buf) <= Capacity
  /\ blocks \in 0..IngestBlocks
  /\ pending \in BOOLEAN /\ sem \in 0..1 /\ queued \in BOOLEAN /\ released \in Nat
  /\ lock \in Actors \cup {NoActor}
  /\ pc \in [Actors -> Places]
  /\ at \in [Actors -> 0..MaxStreams]
  /\ hd \in [Threads -> Streams \cup {NoStream}]
  /\ todo \in [Threads -> Nat] /\ batch \in [Threads -> BOOLEAN]
  /\ drain \in [next : Nat, bytes : Nat, sum : Nat]
  /\ made \in 0..MaxSamples /\ boots \in 0..MaxBoots /\ fails \in 0..MaxFails
  /\ log \in [Streams -> Seq(Samples)]
  /\ gone \subseteq Samples
  /\ owed \in [Threads -> SUBSET Samples]
  /\ unheard \in Int

(* The members of q that are in S, in their order: SelectSeq, written so that   *)
(* it can be reasoned about.                                                    *)
Only(q, S) ==
  LET only[i \in 0..Len(q)] ==
        IF i = 0 THEN <<>>
        ELSE IF q[i] \in S THEN Append(only[i - 1], q[i]) ELSE only[i - 1]
  IN  only[Len(q)]

(* The samples of stream s a reader finds in its segment files, in file order:  *)
(* a file without a header is not read.                                         *)
Read(f) == IF f.hdr THEN Only(f.recs, Samples) ELSE <<>>
Readable(s) ==
  LET read[n \in Nat] == IF n = 0 THEN Read(FileAt(s, 0)) ELSE read[n - 1] \o Read(FileAt(s, n))
  IN  read[Highest(Window(s))]
InRam(s) == IF slot_find(s) = 0 THEN <<>> ELSE slots[slot_find(s)].buf

(* Every sample append accepted is readable, from storage or from the ingest    *)
(* buffer, once and in the order of the appends, unless it is gone: discarded   *)
(* by rollover, stored in a record that went bad, cut off behind one by         *)
(* recovery, or in RAM only when the power failed or zdb_deinit() was called    *)
(* (which its documentation does not allow: DeinitKeepsSamples).  Across        *)
(* flushes of any thread, segment boundaries, closes, power losses, deinits and *)
(* recoveries.                                                                  *)
SamplesKept ==
  \A s \in Streams : Readable(s) \o InRam(s) = Only(log[s], Samples \ gone)

(* ZDB_TS_EVENT_FLUSH: every record of a flush whose write and close both       *)
(* succeeded is reported once, also when the rollover behind the write fails,   *)
(* when the slot is released, and when the work handler flushed it: until then  *)
(* it is recorded in its slot, in what a released slot left behind, or in the   *)
(* handler's total, in one of them, and whenever the lock is free nothing is    *)
(* left to report.  What a write or close that failed put into the file is in   *)
(* no total; the records stay buffered and count when a later flush completes,  *)
(* so that the totals may be less than what storage got.                        *)
EventAccounting ==
  /\ unheard = Pend(slots) + released + drain.sum
  /\ lock = NoActor => unheard = 0

Handles(s) == {t \in Threads : hd[t] = s /\ pc[t] \notin {"join", "claim"}}

(* A stream has a slot, exactly one, as long as a handle is open on it; the     *)
(* slot counts its handles and holds the only ingest block the stream has.      *)
SlotsMatchHandles ==
  /\ \A s \in Streams :
        /\ Handles(s) = {} => Open(s) = {}
        /\ Handles(s) # {} =>
              \E i \in Slots : Open(s) = {i} /\ slots[i].count = Cardinality(Handles(s))
  /\ blocks = Cardinality({i \in Slots : slots[i].used})

(* Rollover: when a segment is discarded, what stays on storage is at least     *)
(* what the sealed segments of the configured complement hold, across power     *)
(* losses and as long as nothing failed.  (Recovery that cuts records off does  *)
(* not count them out of cur_seg_bytes: the cut segment is sealed early.)       *)
RolloverRetains ==
  [][\A s \in Streams :
       (fails = 0 /\ DOMAIN disk[s] \ DOMAIN disk'[s] # {}) =>
          MapThenSumSet(LAMBDA n : Len(disk'[s][n].recs), DOMAIN disk'[s])
             >= (MaxSegments - 1) * SegmentRecords]_vars

(* zdb_deinit() "Closes any active TS stream", and "closing never discards      *)
(* data" (zephyrdb.h): in a step that is no power loss, which boots counts, a   *)
(* stream leaves its slot only with its buffered samples stored.                *)
DeinitKeepsSamples ==
  [][boots' = boots =>
       \A s \in Streams : (Open(s) # {} /\ Open(s)' = {}) =>
          Range(InRam(s)) \subseteq Range(Readable(s))']_vars

(* The promise of ZdbTsLog, read from the segment files and the ingest buffers: *)
(* a flush, by whichever thread, stores exactly what was in RAM, a close leaves *)
(* nothing there, a power loss costs nothing that was flushed, a deinit nothing *)
(* at all, and rollover and recovery take only from their own end of the log.   *)
(* For applications that flush or close before zdb_deinit() (TRUE \notin        *)
(* Deinits); for the others the deinit breaks it, see DeinitKeepsSamples.       *)
Log == INSTANCE ZdbTsLog WITH
  stored <- [s \in Streams |-> Readable(s)],
  ram <- [s \in Streams |-> InRam(s)],
  open <- {s \in Streams : Open(s) # {}},
  damaged <- fails > 0,
  outages <- boots,
  Retain <- (MaxSegments - 1) * SegmentRecords

ImplementsLog == Log!Spec

(* zdb_ts_flush_sync(): when it returns ZDB_OK, nothing that was buffered when   *)
(* it was called is still only in RAM.                                          *)
FlushSyncCovers == \A t \in Threads : pc[t] = "synced" => owed[t] \cap Buffered = {}

(* zdb_ts_flush_sync() with K_FOREVER returns, unless the work queue refuses a  *)
(* submit: another caller may then wait for a flush nobody runs.                *)
SyncReturns ==
  [](\A u \in Threads : pc[u] # "unpend") =>
     \A t \in Threads : pc[t] = "sync_async" ~> pc[t] = "idle"

(* zdb_ts_flush_async(): a flush that was asked for runs to its end, so that     *)
(* flush_pending never stays set, which would refuse every later flush.         *)
FlushHappens == pending ~> ~pending
================================================================================
