------------------------------- MODULE ZdbTsRead -------------------------------
(***************************************************************************)
(* The readers of the time-series store ZdbTs: cursors in both directions  *)
(* over segment files and ingest buffer, aggregates on top of them, and    *)
(* the consumed watermark with the consumer zephyrdb.h describes, all of   *)
(* them beside threads that append, flush, roll over and close.            *)
(*                                                                         *)
(* The timestamp of a sample is its number.  A cursor takes the lock only  *)
(* while it looks into the ingest buffer; its file part runs beside        *)
(* everything else, one record or one change of segment per step.          *)
(***************************************************************************)
EXTENDS ZdbTs

CONSTANTS
  Readers,       \* threads that read
  Modes,         \* what the readers do with their cursors
  Windows,       \* <<from, to>> windows; <<0, 0>> is everything
  Descends,      \* the directions walked: descending or not
  LiveViews,     \* what an open file handle shows, see live
  CursorBlocks,  \* blocks of the cursor slab
  MaxAggPoints   \* CONFIG_ZDB_TS_MAX_AGG_POINTS

(* "walk": an application walks, and may rewind; "feed": it forwards what it    *)
(* reads and acknowledges it in the watermark; "sum" and "count": a call of     *)
(* zdb_ts_query_aggregate(), the first one capped.                              *)
ModeKinds == {"walk", "feed", "sum", "count"}

ASSUME ReadConstants ==
  /\ Readers \subseteq Threads
  /\ Modes \subseteq ModeKinds
  /\ Windows \subseteq Nat \X Nat
  /\ Descends \subseteq BOOLEAN
  /\ LiveViews \subseteq BOOLEAN
  /\ CursorBlocks \in Nat
  /\ MaxAggPoints \in Nat \ {0}

VARIABLES
  live,     \* an open file handle shows what others append (or its size at fs_open())
  cur,      \* per reader: its cursor, struct zdb_ts_cursor_ctx
  place,    \* per reader: the next step of its call
  mark,     \* flash: per stream the watermark, 0 when none is stored or it fails its CRC
  handled,  \* history: samples a consumer has delivered
  cut       \* history: a consumer acknowledged a walk that a flush ran into

readVars == <<live, cur, place, mark, handled, cut>>

(* The fields of the last line are history: what the walk returned, what the    *)
(* stream held when the walk began, what of it was stored, whether the stream   *)
(* kept still since the open, and whether the walk began with the open.         *)
NoCursor ==
  [s |-> NoStream, mode |-> "walk", desc |-> FALSE, win |-> <<0, 0>>, lo |-> 0, hi |-> 0,
   seg |-> 0, open |-> FALSE, view |-> EmptyFile, size |-> 0, pos |-> 0, done |-> FALSE,
   ram |-> 0, slot |-> 0, last |-> "none",
   got |-> <<>>, must |-> <<>>, stored |-> {}, calm |-> TRUE, fresh |-> TRUE]

Used(r) == cur[r].s # NoStream
MayRead(r) == place[r] = "idle" /\ ~Calling(r)
At(r, p) == place' = [place EXCEPT ![r] = p]
SetCursor(r, c) == cur' = [cur EXCEPT ![r] = c]

(* zdb_ts_window_match(): an upper end of 0 is none. *)
Matches(w, x) == w = <<0, 0>> \/ (x >= w[1] /\ (w[2] # 0 => x <= w[2]))

(* What stream s holds in window w, in the order of the walk. *)
Content(s, w, desc) ==
  LET all == Only(Readable(s) \o InRam(s), {x \in Samples : Matches(w, x)})
  IN  IF desc THEN Reverse(all) ELSE all

--------------------------------------------------------------------------------
(* Opening a cursor *)

(* zdb_ts_cursor_open_dir() up to the file: a slab block, the stream's slot and *)
(* its window of segments, without the lock.                                    *)
OpenAs(r, mode, desc, w) ==
  /\ MayRead(r)
  /\ ~Used(r)
  /\ mode \in Modes
  /\ hd[r] # NoStream
  /\ Cardinality({u \in Readers : Used(u)}) < CursorBlocks
  /\ slot_find(hd[r]) # 0
  /\ LET sl == slots[slot_find(hd[r])]
     IN  SetCursor(r, [NoCursor EXCEPT !.s = hd[r], !.mode = mode, !.desc = desc, !.win = w,
                                       !.lo = sl.oldest, !.hi = sl.cur,
                                       !.seg = IF desc THEN sl.cur ELSE sl.oldest,
                                       !.must = Content(hd[r], w, desc),
                                       !.stored = {x \in Range(Readable(hd[r])) :
                                                     Matches(w, x)}])
  /\ At(r, "open")
  /\ UNCHANGED <<vars, live, mark, handled, cut>>

CursorOpen(r) == \E desc \in Descends, w \in Windows : OpenAs(r, "walk", desc, w)

(* zdb_ts_query_aggregate() but for the count of the whole stream. *)
CallAggregate(r) ==
  \E mode \in {"sum", "count"}, w \in Windows :
     (mode = "count" => w # <<0, 0>>) /\ OpenAs(r, mode, FALSE, w)

(* A consumer resumes behind its watermark, or at the beginning without one. *)
Resume(r) ==
  /\ lock = NoActor
  /\ hd[r] # NoStream
  /\ LET m == mark[hd[r]]
     IN  OpenAs(r, "feed", FALSE, IF m = 0 THEN <<0, 0>> ELSE <<m + 1, 0>>)

(* zdb_ts_cursor_open_segment(): a file that is gone cannot be opened, and one  *)
(* without a header not from its end, where the offset underflows.              *)
Openable(c, n) == n \in DOMAIN disk[c.s] /\ (c.desc => disk[c.s][n].hdr)
OpenSegment(c, n) ==
  LET f == disk[c.s][n]
  IN  [c EXCEPT !.seg = n, !.open = TRUE, !.view = f, !.size = Len(f.recs),
                !.pos = IF c.desc THEN Len(f.recs) ELSE 0]

(* Where the next call of zdb_cursor_next() begins: backwards the ingest buffer *)
(* comes first, forwards when the files are done.                               *)
Start(c) == IF c.desc \/ c.done THEN "find" ELSE "file"

(* The first file is opened, or the block returned. *)
OpenFile(r) ==
  /\ place[r] = "open"
  /\ LET c == cur[r]
     IN  IF Openable(c, c.seg)
         THEN /\ SetCursor(r, OpenSegment(c, c.seg))
              /\ At(r, IF c.mode \in {"sum", "count"} THEN "file" ELSE "idle")
         ELSE SetCursor(r, NoCursor) /\ At(r, "idle")
  /\ UNCHANGED <<vars, live, mark, handled, cut>>

--------------------------------------------------------------------------------
(* zdb_cursor_next() *)

CursorNext(r) ==
  /\ MayRead(r)
  /\ Used(r)
  /\ cur[r].last # "end"   \* bound: a walk that ended is not asked again
  /\ At(r, Start(cur[r]))
  /\ UNCHANGED <<vars, live, cur, mark, handled, cut>>

(* Mutant: the cap is reached and nothing more asked for. *)
GoesOnNoPeek(c, what) ==
  what = "ok" /\ (c.mode = "count" \/ (c.mode = "sum" /\ Len(c.got) < MaxAggPoints))
(* zdb_ts_query_aggregate() asks for the next sample, and once more at the cap. *)
GoesOn(c, what) ==
  what = "ok" /\ (c.mode = "count" \/ (c.mode = "sum" /\ Len(c.got) <= MaxAggPoints))

(* A call of zdb_cursor_next() returns: to the application, or to the aggregate *)
(* that made it.                                                                *)
Return(r, c, what) ==
  /\ SetCursor(r, [c EXCEPT !.last = what, !.slot = 0])
  /\ At(r, CASE GoesOn(c, what) -> Start(c)
             [] ~GoesOn(c, what) /\ c.mode \in {"sum", "count"} -> "answer"
             [] OTHER -> "idle")

(* A stored sample: returned, or passed over when it is outside the window. *)
Deliver(r, c, x) ==
  IF Matches(c.win, x) THEN Return(r, [c EXCEPT !.got = Append(@, x)], "ok")
  ELSE SetCursor(r, c) /\ UNCHANGED place

FilesDone(r, c) ==
  IF c.desc THEN Return(r, [c EXCEPT !.done = TRUE], "end")
  ELSE SetCursor(r, [c EXCEPT !.done = TRUE]) /\ At(r, "find")

(* Mutant: the walk stops before the last segment of its window. *)
AheadShort(c) ==
  {n \in DOMAIN disk[c.s] : Openable(c, n) /\ (IF c.desc THEN c.lo < n /\ n < c.seg
                                               ELSE c.seg < n /\ n < c.hi)}
(* Segments still to be walked, of those the stream had at the open. *)
Ahead(c) ==
  {n \in DOMAIN disk[c.s] : Openable(c, n) /\ (IF c.desc THEN c.lo <= n /\ n < c.seg
                                               ELSE c.seg < n /\ n <= c.hi)}

(* zdb_ts_cursor_next_segment(): the nearest one that is not gone.  With none   *)
(* left the last file tried is closed.                                          *)
NextSegment(r, c) ==
  LET end == IF c.desc THEN c.lo ELSE c.hi
  IN  IF Ahead(c) # {}
      THEN SetCursor(r, OpenSegment(c, IF c.desc THEN Highest(Ahead(c)) ELSE Lowest(Ahead(c))))
           /\ UNCHANGED place
      ELSE FilesDone(r, [c EXCEPT !.open = c.open /\ c.seg = end, !.seg = end])

(* zdb_ts_cursor_read_file_record() and what zdb_cursor_next() makes of it.     *)
(* Forwards a partial record is met once, backwards it was left out.            *)
ReadFile(r) ==
  /\ place[r] = "file"
  /\ LET c == cur[r]
         whole == IF c.view.hdr THEN Len(c.view.recs) ELSE 0
         n == IF c.desc THEN c.pos ELSE c.pos + 1
         next == [c EXCEPT !.pos = IF c.desc THEN @ - 1 ELSE @ + 1]
     IN  \/ /\ ~c.open
            /\ FilesDone(r, c)
         \/ /\ c.open /\ n \in 1..whole
            /\ IF c.view.recs[n] = Bad THEN Return(r, next, "corrupt")
               ELSE Deliver(r, next, c.view.recs[n])
         \/ /\ c.open /\ ~c.desc /\ n = whole + 1 /\ c.view.torn
            /\ Return(r, next, "corrupt")
         \/ /\ c.open /\ n \notin 1..whole
            /\ c.desc \/ ~c.view.torn \/ n # whole + 1
            /\ NextSegment(r, c)
  /\ UNCHANGED <<vars, live, mark, handled, cut>>

RamDone(r, c) ==
  IF c.desc /\ ~c.done THEN SetCursor(r, [c EXCEPT !.slot = 0]) /\ At(r, "file")
  ELSE Return(r, c, "end")

(* zdb_ts_cursor_next_ram() looks the slot up before it takes the lock. *)
FindRam(r) ==
  /\ place[r] = "find"
  /\ LET i == slot_find(cur[r].s)
     IN  IF i = 0 THEN RamDone(r, cur[r])
         ELSE SetCursor(r, [cur[r] EXCEPT !.slot = i]) /\ At(r, "ram")
  /\ UNCHANGED <<vars, live, mark, handled, cut>>

(* Mutant: the offset is not turned round for a descending walk. *)
FromStart(c, buf, k) == buf[k]
(* The record k records into the buffer, in the direction of the walk. *)
Buffer(c, buf, k) == IF c.desc THEN buf[Len(buf) - k + 1] ELSE buf[k]

(* The offset counts what the walk has taken from the buffer, whatever the      *)
(* buffer holds by now.                                                         *)
ReadRam(r) ==
  /\ place[r] = "ram"
  /\ lock = NoActor
  /\ LET c == cur[r]
         buf == slots[c.slot].buf
         hits == {k \in (c.ram + 1)..Len(buf) : Matches(c.win, Buffer(c, buf, k))}
         k == Lowest(hits)
     IN  IF hits # {}
         THEN Return(r, [c EXCEPT !.ram = k, !.got = Append(@, Buffer(c, buf, k))], "ok")
         ELSE RamDone(r, [c EXCEPT !.ram = IF Len(buf) > @ THEN Len(buf) ELSE @])
  /\ UNCHANGED <<vars, live, mark, handled, cut>>

--------------------------------------------------------------------------------
(* COUNT of the whole stream *)

(* Mutant: the segment that is being written is left out. *)
SegmentsSealed(sl) == sl.oldest..(sl.cur - 1)
Segments(sl) == sl.oldest..sl.cur

(* zdb_ts_count_all(), under the lock: whole records by file size, and what is  *)
(* in the ingest buffer.                                                        *)
count_all(s) ==
  LET sl == slots[slot_find(s)]
  IN  MapThenSumSet(LAMBDA n : Len(disk[s][n].recs),
                    {n \in Segments(sl) \cap DOMAIN disk[s] : disk[s][n].hdr})
      + Len(sl.buf)

--------------------------------------------------------------------------------
(* Rewinding and closing *)

(* zdb_cursor_reset(): the offsets start again, in the segment the cursor is on. *)
CursorReset(r) ==
  /\ MayRead(r)
  /\ Used(r) /\ cur[r].mode = "walk"
  /\ cur[r].fresh          \* bound: a cursor is rewound once
  /\ LET c == cur[r]
     IN  SetCursor(r, [c EXCEPT !.ram = 0, !.done = FALSE, !.pos = IF c.desc THEN c.size ELSE 0,
                                !.last = "none", !.got = <<>>, !.fresh = FALSE,
                                !.must = Content(c.s, c.win, c.desc)])
  /\ UNCHANGED <<vars, live, place, mark, handled, cut>>

(* zdb_cursor_close() returns the block; an aggregate closes its own cursor     *)
(* with its answer.                                                             *)
CursorClose(r) ==
  /\ \/ MayRead(r) /\ Used(r)
     \/ place[r] = "answer"
  /\ SetCursor(r, NoCursor)
  /\ At(r, "idle")
  /\ UNCHANGED <<vars, live, mark, handled, cut>>

--------------------------------------------------------------------------------
(* The consumed watermark *)

(* The consumer has delivered what its walk returned and acknowledges it:       *)
(* zdb_ts_watermark_set() takes the lock and opens its file, which may be empty *)
(* from then on.                                                                *)
Acknowledge(r) ==
  /\ MayRead(r)
  /\ cur[r].mode = "feed" /\ cur[r].got # <<>>
  /\ lock = NoActor
  /\ lock' = r
  /\ handled' = handled \cup Range(cur[r].got)
  /\ cut' = (cut \/ ~cur[r].calm)
  /\ \/ UNCHANGED mark
     \/ mark' = [mark EXCEPT ![cur[r].s] = 0]
  /\ At(r, "mark")
  /\ UNCHANGED <<disk, slots, blocks, flushVars, released, pc, at, callVars, drain, sysVars,
                 sampleVars, owed, unheard, live, cur>>

(* Mutant: the mark is one ahead, as if it named the next sample. *)
MarkOfAhead(c) == Last(c.got) + 1
(* The timestamp the consumer has processed up to, inclusive. *)
MarkOf(c) == Last(c.got)

(* The mark is written, or what is left of it fails its CRC. *)
WriteMark(r) ==
  /\ place[r] = "mark"
  /\ \/ mark' = [mark EXCEPT ![cur[r].s] = MarkOf(cur[r])] /\ UNCHANGED fails
     \/ /\ Fault("mark")
        /\ \/ UNCHANGED mark
           \/ mark' = [mark EXCEPT ![cur[r].s] = 0]
  /\ Unlock(slots, released, 0)
  /\ At(r, "idle")
  /\ UNCHANGED <<disk, blocks, flushVars, pc, at, callVars, drain, made, boots, sampleVars, owed,
                 live, cur, handled, cut>>

(* zdb_ts_watermark_clear(): the file is removed, unless that fails. *)
ClearMark(r) ==
  /\ MayRead(r)
  /\ "feed" \in Modes
  /\ hd[r] # NoStream
  /\ lock = NoActor
  /\ mark[hd[r]] # 0
  /\ mark' = [mark EXCEPT ![hd[r]] = 0]
  /\ UNCHANGED <<vars, live, cur, place, handled, cut>>

--------------------------------------------------------------------------------
(* The readers beside the rest of the store *)

(* The step leaves what a walk of stream s relies on: appends do not disturb a  *)
(* forward walk, everything else does.                                          *)
Still(s, desc) ==
  /\ disk'[s] = disk[s]
  /\ \A i \in Slots :
        s \in {slots[i].name, slots'[i].name} =>
           /\ slots'[i].name = slots[i].name
           /\ IF desc THEN slots'[i].buf = slots[i].buf ELSE IsPrefix(slots[i].buf, slots'[i].buf)

(* The cursor stays what it is, over what the step made of its stream. *)
Follow(c) ==
  IF c.s = NoStream THEN c
  ELSE [c EXCEPT !.view = IF live /\ c.open /\ c.seg \in DOMAIN disk'[c.s]
                          THEN disk'[c.s][c.seg] ELSE @,
                 !.calm = @ /\ Still(c.s, c.desc)]

(* A step of the store; a thread inside a read call makes no other call. *)
StoreStep ==
  /\ UpNext
  /\ \A r \in Readers : place[r] # "idle" => pc'[r] = pc[r] /\ hd'[r] = hd[r]
  /\ cur' = [r \in Readers |-> Follow(cur[r])]
  /\ UNCHANGED <<live, place, mark, handled, cut>>

(* Cursors do not outlive the instance; the watermark does. *)
Restart ==
  /\ PowerLoss \/ (Deinit /\ \A r \in Readers : ~Used(r))
  /\ cur' = [r \in Readers |-> NoCursor]
  /\ place' = [r \in Readers |-> "idle"]
  /\ UNCHANGED <<live, mark, handled, cut>>

ReadInit ==
  /\ Init
  /\ live \in LiveViews
  /\ cur = [r \in Readers |-> NoCursor]
  /\ place = [r \in Readers |-> "idle"]
  /\ mark = [s \in Streams |-> 0]
  /\ handled = {}
  /\ cut = FALSE

ReadNext ==
  \/ StoreStep
  \/ Restart
  \/ \E r \in Readers :
       \/ CursorOpen(r) \/ CallAggregate(r) \/ Resume(r) \/ OpenFile(r)
       \/ CursorNext(r) \/ ReadFile(r) \/ FindRam(r) \/ ReadRam(r)
       \/ CursorReset(r) \/ CursorClose(r)
       \/ Acknowledge(r) \/ WriteMark(r) \/ ClearMark(r)

ReadSpec == ReadInit /\ [][ReadNext]_<<vars, readVars>>

--------------------------------------------------------------------------------
(* Properties *)

(* A walk that ended has returned what the stream held in its window when the   *)
(* walk began, in order: across segment files, from the files to the ingest     *)
(* buffer and backwards, while other threads append (forwards) and as long as   *)
(* no flush ran into it.  After a reset, only when the stream has one segment.  *)
WalkComplete ==
  \A r \in Readers :
     LET c == cur[r]
     IN  (c.last = "end" /\ c.calm /\ (c.fresh \/ c.lo = c.hi)) =>
            IF c.desc THEN c.got = c.must ELSE IsPrefix(c.must, c.got)

(* A walk serves what is stored, whatever runs into it: when it ends, every     *)
(* sample that was in a segment file when the cursor was opened has been        *)
(* returned, unless rollover or recovery took it meanwhile.                     *)
WalkServesStored ==
  \A r \in Readers :
     (cur[r].last = "end" /\ cur[r].fresh) => cur[r].stored \subseteq Range(cur[r].got) \cup gone

(* A forward walk returns no sample twice and none out of order, whatever       *)
(* appends, flushes, discards and reopens of the stream run into it; what it    *)
(* returns was accepted by append and lies in its window.  A backward walk      *)
(* keeps its order as long as nothing is appended.                              *)
WalkOrdered ==
  \A r \in Readers :
     LET c == cur[r]
     IN  /\ \A i \in 1..Len(c.got) : /\ c.got[i] \in Range(log[c.s])
                                     /\ Matches(c.win, c.got[i])
         /\ (~c.desc \/ c.calm) =>
               \A i, j \in 1..Len(c.got) :
                  i < j => IF c.desc THEN c.got[i] > c.got[j] ELSE c.got[i] < c.got[j]

(* zdb_ts_query_aggregate(): an answer that is not marked truncated covers      *)
(* every sample that matched; one that is marked so covers the first            *)
(* MaxAggPoints, and more did match.  COUNT is never capped.  While no flush    *)
(* runs into the scan, and unless it meets a corrupt record.                    *)
AggregateHonest ==
  \A r \in Readers :
     LET c == cur[r]
         truncated == c.mode = "sum" /\ Len(c.got) > MaxAggPoints
     IN  (place[r] = "answer" /\ c.calm /\ c.last # "corrupt") =>
            IF truncated THEN Len(Content(c.s, c.win, FALSE)) > MaxAggPoints
            ELSE IsPrefix(c.must, c.got)

(* COUNT over the whole stream, from file sizes alone, is the number of samples *)
(* appended and not gone, plus the records stored with a bad CRC, which it      *)
(* counts too: whatever rollover, power loss and recovery left behind.          *)
CountExact ==
  lock = NoActor =>
     \A s \in Streams :
        (slot_find(s) # 0 /\ slots[slot_find(s)].scanned) =>
           count_all(s) = Len(Only(log[s], Samples \ gone))
                          + MapThenSumSet(LAMBDA n : Len(Only(disk[s][n].recs, {Bad})),
                                          DOMAIN disk[s])

(* A consumer that resumes behind its watermark never skips a sample it did not *)
(* handle: everything up to a usable watermark was delivered, or is gone from   *)
(* the stream.  Across power losses, failing and interrupted watermark writes;  *)
(* as long as no flush ran into a walk that was acknowledged.                   *)
ConsumerSkipsNothing ==
  ~cut => \A s \in Streams :
             \A x \in Range(log[s]) : x <= mark[s] => x \in handled \cup gone

(* The consumer of zephyrdb.h never skips a sample it did not handle, also when *)
(* the ingest buffer is flushed during its walk.                                *)
ConsumerNeverSkips ==
  \A s \in Streams : \A x \in Range(log[s]) : x <= mark[s] => x \in handled \cup gone
================================================================================
