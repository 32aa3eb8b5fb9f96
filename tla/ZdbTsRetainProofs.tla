--------------------------- MODULE ZdbTsRetainProofs ---------------------------
(***************************************************************************)
(* What rollover leaves of a stream, and the log of ZdbTsLog implemented   *)
(* by segment files and ingest buffers, for any number of threads,         *)
(* streams, segments and samples.                                          *)
(***************************************************************************)
EXTENDS ZdbTsLogProofs

--------------------------------------------------------------------------------
(* The inductive invariant of rollover *)

(* Segments are numbered without a gap, all but the newest are full, and no     *)
(* record is bad.                                                               *)
Sealed(fs) ==
  /\ \A n \in DOMAIN fs : Bad \notin Range(fs[n].recs)
  /\ \A n, m \in DOMAIN fs : n < m =>
       Len(fs[n].recs) >= SegmentRecords /\ \A k \in n..m : k \in DOMAIN fs

(* A slot that scanned the files knows the ends of the window, and counts no    *)
(* more records in the newest file than there are.                              *)
Knows(sl, fs) ==
  /\ sl.oldest \in DOMAIN fs /\ sl.cur \in DOMAIN fs
  /\ \A n \in DOMAIN fs : sl.oldest <= n /\ n <= sl.cur
  /\ ~fs[sl.cur].torn /\ sl.bytes <= Len(fs[sl.cur].recs)

RetainInv ==
  fails = 0 =>
    /\ \A s \in Streams : Sealed(disk[s])
    /\ \A i \in Slots : slots[i].used /\ slots[i].scanned => Knows(slots[i], disk[slots[i].name])
    /\ \A a \in Actors : pc[a] = "roll" => slots[at[a]].bytes >= SegmentRecords

(* What the invariant says of a slot stays true of it. *)
SameRun(x, y) ==
  y.used /\ y.scanned =>
    /\ x.used /\ x.scanned /\ y.name = x.name
    /\ y.cur = x.cur /\ y.oldest = x.oldest /\ y.bytes = x.bytes
NoFewer == fails' = 0 => fails = 0
NoRoll ==
  \A a \in Actors : pc'[a] = "roll" =>
     pc[a] = "roll" /\ at'[a] = at[a] /\ slots'[at[a]].bytes = slots[at[a]].bytes

LEMMA RetainSame ==
  ASSUME RetainInv, disk' = disk, NoFewer, NoRoll,
         \A i \in Slots : SameRun(slots[i], slots'[i])
  PROVE  RetainInv'
  BY DEF RetainInv, NoFewer, NoRoll, SameRun, Knows

LEMMA FailsType == ASSUME TsInv PROVE fails \in Nat
  BY TsConstants DEF TsInv, StoreInv, TypeOK

LEMMA FaultCounts ==
  ASSUME TsInv, NEW k, Fault(k)
  PROVE  fails' = fails + 1 /\ fails' # 0
  BY FailsType DEF Fault

LEMMA AnyFailure ==
  ASSUME TsInv, fails' = fails \/ \E k : Fault(k)
  PROVE  NoFewer
  BY FailsType DEF Fault, NoFewer

(* An actor t goes to a place that is not the rollover. *)
LEMMA GoesElsewhere ==
  ASSUME TsInv, NEW t \in Actors, NEW p, p # "roll", pc' = [pc EXCEPT ![t] = p],
         at' = at \/ \E j : at' = [at EXCEPT ![t] = j],
         \A i \in Slots : slots'[i].bytes = slots[i].bytes
  PROVE  NoRoll
  <1> SUFFICES ASSUME NEW a \in Actors, pc'[a] = "roll"
               PROVE  pc[a] = "roll" /\ at'[a] = at[a] /\ slots'[at[a]].bytes = slots[at[a]].bytes
    BY DEF NoRoll
  <1>1. pc \in [Actors -> Places] /\ at \in [Actors -> 0..MaxStreams]
    BY DEF TsInv, StoreInv, TypeOK
  <1>2. a # t /\ pc[a] = "roll" /\ at'[a] = at[a]
    BY <1>1
  <1>3. at[a] \in Slots
    BY <1>2 DEF TsInv, StoreInv, PlaceInv, FlushPlaces
  <1> QED BY <1>2, <1>3

LEMMA SlotsSame ==
  ASSUME slots' = slots
  PROVE  /\ \A i \in Slots : SameRun(slots[i], slots'[i])
         /\ \A i \in Slots : slots'[i].bytes = slots[i].bytes
  BY DEF SameRun

LEMMA ThreadActors == \A t \in Threads : t \in Actors
  BY DEF Actors

LEMMA CallsRetain ==
  ASSUME TsInv, RetainInv, NEW t \in Threads,
         \/ CallOpen(t) \/ CallAppend(t) \/ CallClose(t) \/ CallFlushAsync(t)
         \/ CallFlushSync(t) \/ AppendLock(t) \/ BatchFull(t)
  PROVE  RetainInv'
  <1>1. disk' = disk /\ slots' = slots /\ fails' = fails
    BY CallsTouchNothing
  <1>2. \/ pc' = pc /\ at' = at
        \/ \E p : p # "roll" /\ pc' = [pc EXCEPT ![t] = p] /\ (at' = at \/ \E j : at' = [at EXCEPT ![t] = j])
    BY DEF CallOpen, CallAppend, CallClose, CallFlushAsync, CallFlushSync, AppendLock, BatchFull,
           Go, Room
  <1>3. NoRoll
    <2>1. CASE pc' = pc /\ at' = at
      BY <1>1, <2>1 DEF NoRoll
    <2>2. CASE pc' # pc \/ at' # at
      BY <1>1, <1>2, <2>2, SlotsSame, ThreadActors, GoesElsewhere
    <2> QED BY <2>1, <2>2
  <1> QED BY <1>1, <1>3, SlotsSame, AnyFailure, RetainSame

LEMMA FlushCallsRetain ==
  ASSUME TsInv, RetainInv, NEW t \in Threads,
         \/ FlushAsync(t) \/ FlushNotQueued(t) \/ SyncCheck(t) \/ SyncTake(t)
         \/ SyncTimeout(t) \/ SyncWoken(t) \/ SyncReturn(t)
  PROVE  RetainInv'
  <1>1. disk' = disk /\ slots' = slots
    BY FlushCallsTouchNothing
  <1>2. at' = at /\ \E p : p # "roll" /\ pc' = [pc EXCEPT ![t] = p]
    BY DEF FlushAsync, FlushNotQueued, SyncCheck, SyncTake, SyncTimeout, SyncWoken, SyncReturn, Go
  <1>3. fails' = fails \/ \E k : Fault(k)
    BY DEF FlushAsync, FlushNotQueued, SyncCheck, SyncTake, SyncTimeout, SyncWoken, SyncReturn,
           sysVars
  <1>4. NoRoll
    BY <1>1, <1>2, SlotsSame, ThreadActors, GoesElsewhere
  <1> QED BY <1>1, <1>3, <1>4, SlotsSame, AnyFailure, RetainSame

LEMMA WorkerRetains ==
  ASSUME TsInv, RetainInv, WorkerStart \/ WorkerLock \/ DrainNext
  PROVE  RetainInv'
  <1>1. disk' = disk /\ slots' = slots /\ fails' = fails
    BY WorkerTouchesNothing
  <1>2. /\ at' = at \/ \E j : at' = [at EXCEPT ![Worker] = j]
        /\ \E p : p # "roll" /\ pc' = [pc EXCEPT ![Worker] = p]
    BY DEF WorkerStart, WorkerLock, DrainNext, Go
  <1>3. NoRoll
    BY <1>1, <1>2, SlotsSame, ActorsAre, GoesElsewhere
  <1> QED BY <1>1, <1>3, SlotsSame, AnyFailure, RetainSame

(* The lock is left with the slots sl. *)
LEMMA UnlockRuns ==
  ASSUME NEW sl, \A i \in Slots : sl[i] \in Slot /\ SameRun(slots[i], sl[i]),
         NEW rl, NEW n, Unlock(sl, rl, n)
  PROVE  /\ \A i \in Slots : SameRun(slots[i], slots'[i])
         /\ \A i \in Slots : slots'[i].bytes = sl[i].bytes
  <1> SUFFICES ASSUME NEW i \in Slots
               PROVE  SameRun(slots[i], slots'[i]) /\ slots'[i].bytes = sl[i].bytes
    OBVIOUS
  <1>1. slots'[i] = [sl[i] EXCEPT !.pend = 0] /\ sl[i] \in Slot
    BY DEF Unlock
  <1>2. /\ slots'[i].used = sl[i].used /\ slots'[i].name = sl[i].name
        /\ slots'[i].scanned = sl[i].scanned /\ slots'[i].cur = sl[i].cur
        /\ slots'[i].oldest = sl[i].oldest /\ slots'[i].bytes = sl[i].bytes
    BY <1>1 DEF Slot
  <1> QED BY <1>2 DEF SameRun

LEMMA AppendFailsRetains ==
  ASSUME TsInv, RetainInv, NEW t \in Threads, AppendFails(t)
  PROVE  RetainInv'
  <1>1. /\ Unlock(slots, released, 0) /\ disk' = disk /\ fails' = fails
        /\ pc' = [pc EXCEPT ![t] = "idle"] /\ at' = [at EXCEPT ![t] = 0]
    BY DEF AppendFails, sysVars, Go
  <1>2. \A i \in Slots : slots[i] \in Slot /\ SameRun(slots[i], slots[i])
    BY SlotFields DEF SameRun
  <1>3. /\ \A i \in Slots : SameRun(slots[i], slots'[i])
        /\ \A i \in Slots : slots'[i].bytes = slots[i].bytes
    BY <1>1, <1>2, UnlockRuns
  <1>4. NoRoll
    BY <1>1, <1>3, ThreadActors, GoesElsewhere
  <1> QED BY <1>1, <1>3, <1>4, AnyFailure, RetainSame

LEMMA WorkerEndRetains ==
  ASSUME TsInv, RetainInv, WorkerEnd
  PROVE  RetainInv'
  <1>1. /\ Unlock(slots, released, drain.sum) /\ disk' = disk /\ fails' = fails /\ at' = at
        /\ \/ pc' = [pc EXCEPT ![Worker] = "idle"]
           \/ \E t \in Threads : pc' = [pc EXCEPT ![Worker] = "idle", ![t] = "sync_woken"]
    BY DEF WorkerEnd, sysVars, Go
  <1>2. \A i \in Slots : slots[i] \in Slot /\ SameRun(slots[i], slots[i])
    BY SlotFields DEF SameRun
  <1>3. /\ \A i \in Slots : SameRun(slots[i], slots'[i])
        /\ \A i \in Slots : slots'[i].bytes = slots[i].bytes
    BY <1>1, <1>2, UnlockRuns
  <1>4. NoRoll
    <2>1. pc \in [Actors -> Places]
      BY DEF TsInv, StoreInv, TypeOK
    <2>2. \A a \in Actors : pc'[a] = "roll" => pc[a] = "roll"
      BY <1>1, <2>1
    <2>3. \A a \in Actors : pc[a] = "roll" => at[a] \in Slots
      BY DEF TsInv, StoreInv, PlaceInv, FlushPlaces
    <2> QED BY <1>1, <1>3, <2>2, <2>3 DEF NoRoll
  <1> QED BY <1>1, <1>3, <1>4, AnyFailure, RetainSame

SameRuns(sl) ==
  \A j \in Slots : SameRun(slots[j], sl[j]) /\ sl[j].bytes = slots[j].bytes

LEMMA OneFieldRun ==
  ASSUME TsInv, NEW i \in Slots, NEW n, NEW sl,
         \/ sl = [slots EXCEPT ![i].pend = n] \/ sl = [slots EXCEPT ![i].count = n]
         \/ sl = [slots EXCEPT ![i].buf = n]
  PROVE  SameRuns(sl)
  <1>1. slots \in [Slots -> Slot]
    BY DEF TsInv, StoreInv, TypeOK
  <1> SUFFICES ASSUME NEW j \in Slots
               PROVE  SameRun(slots[j], sl[j]) /\ sl[j].bytes = slots[j].bytes
    BY DEF SameRuns
  <1>2. CASE j # i
    BY <1>1, <1>2 DEF SameRun
  <1>3. CASE j = i
    <2>1. \/ sl[i] = [slots[i] EXCEPT !.pend = n] \/ sl[i] = [slots[i] EXCEPT !.count = n]
          \/ sl[i] = [slots[i] EXCEPT !.buf = n]
      BY <1>1
    <2>2. /\ sl[i].used = slots[i].used /\ sl[i].name = slots[i].name
          /\ sl[i].scanned = slots[i].scanned /\ sl[i].cur = slots[i].cur
          /\ sl[i].oldest = slots[i].oldest /\ sl[i].bytes = slots[i].bytes
      BY <1>1, <2>1 DEF Slot
    <2> QED BY <1>3, <2>2 DEF SameRun
  <1> QED BY <1>2, <1>3

LEMMA DrainDoneRetains ==
  ASSUME TsInv, RetainInv, DrainDone
  PROVE  RetainInv'
  <1>1. /\ disk' = disk /\ fails' = fails /\ at' = [at EXCEPT ![Worker] = 0]
        /\ pc' = [pc EXCEPT ![Worker] = "drain"]
        /\ slots' = slots \/ slots' = [slots EXCEPT ![at[Worker]].pend = 0]
    BY DEF DrainDone, sysVars, Go
  <1>2. at[Worker] \in Slots
    BY ActorsAre DEF DrainDone, TsInv, StoreInv, PlaceInv, FlushPlaces
  <1>3. /\ \A i \in Slots : SameRun(slots[i], slots'[i])
        /\ \A i \in Slots : slots'[i].bytes = slots[i].bytes
    <2>1. CASE slots' = slots
      BY <2>1, SlotsSame
    <2>2. CASE slots' = [slots EXCEPT ![at[Worker]].pend = 0]
      <3>1. SameRuns(slots')
        BY <1>2, <2>2, OneFieldRun
      <3> QED BY <3>1 DEF SameRuns
    <2> QED BY <1>1, <2>1, <2>2
  <1>4. NoRoll
    BY <1>1, <1>3, ActorsAre, GoesElsewhere
  <1> QED BY <1>1, <1>3, <1>4, AnyFailure, RetainSame

LEMMA OpenJoinRetains ==
  ASSUME TsInv, RetainInv, NEW t \in Threads, OpenJoin(t)
  PROVE  RetainInv'
  <1>1. /\ disk' = disk /\ fails' = fails /\ at' = at /\ pc' = [pc EXCEPT ![t] = "recover"]
        /\ slots' = slots \/ \E n : slots' = [slots EXCEPT ![at[t]].count = n]
    BY DEF OpenJoin, sysVars, Go
  <1>2. at[t] \in Slots
    BY DEF OpenJoin, TsInv, StoreInv, PlaceInv, Open
  <1>3. /\ \A i \in Slots : SameRun(slots[i], slots'[i])
        /\ \A i \in Slots : slots'[i].bytes = slots[i].bytes
    <2>1. CASE slots' = slots
      BY <2>1, SlotsSame
    <2>2. ASSUME NEW n, slots' = [slots EXCEPT ![at[t]].count = n] PROVE SameRuns(slots')
      BY <1>2, <2>2, OneFieldRun
    <2> QED BY <1>1, <2>1, <2>2 DEF SameRuns
  <1>4. NoRoll
    BY <1>1, <1>3, ThreadActors, GoesElsewhere
  <1> QED BY <1>1, <1>3, <1>4, AnyFailure, RetainSame

LEMMA AppendRetains ==
  ASSUME TsInv, TsInv', RetainInv, NEW t \in Threads, AppendBuffer(t)
  PROVE  RetainInv'
  <1>0. PICK i, b : i = at[t] /\ b = Append(slots[i].buf, made + 1)
    OBVIOUS
  <1>1. PICK sl : sl = [slots EXCEPT ![i].buf = b]
    OBVIOUS
  <1>2. /\ disk' = disk /\ fails' = fails
        /\ slots' = sl \/ Unlock(sl, released, 0)
        /\ at' = at \/ \E j : at' = [at EXCEPT ![t] = j]
        /\ \E p : p # "roll" /\ pc' = [pc EXCEPT ![t] = p]
    BY <1>0, <1>1 DEF AppendBuffer, Go, Room
  <1>3. i \in Slots /\ slots \in [Slots -> Slot]
    BY <1>0, ThreadActors DEF AppendBuffer, TsInv, StoreInv, PlaceInv, FlushPlaces, TypeOK
  <1>4. SameRuns(sl)
    BY <1>1, <1>3, OneFieldRun
  <1>5. \A j \in Slots : sl[j] \in Slot
    <2>1. PICK x \in Samples : x = made + 1
      BY AppendView
    <2>2. b \in Seq(Samples)
      BY <1>0, <1>3, <2>1 DEF Slot
    <2>3. sl[i] = [slots[i] EXCEPT !.buf = b] /\ \A j \in Slots : j # i => sl[j] = slots[j]
      BY <1>1, <1>3
    <2>4. sl[i] \in Slot
      BY <1>3, <2>2, <2>3 DEF Slot
    <2> QED BY <1>3, <2>3, <2>4
  <1>6. /\ \A j \in Slots : SameRun(slots[j], slots'[j])
        /\ \A j \in Slots : slots'[j].bytes = slots[j].bytes
    <2>1. CASE slots' = sl
      BY <1>4, <2>1 DEF SameRuns
    <2>2. CASE Unlock(sl, released, 0)
      <3>1. /\ \A j \in Slots : SameRun(slots[j], slots'[j])
            /\ \A j \in Slots : slots'[j].bytes = sl[j].bytes
        BY <1>4, <1>5, <2>2, UnlockRuns DEF SameRuns
      <3> QED BY <1>4, <3>1 DEF SameRuns
    <2> QED BY <1>2, <2>1, <2>2
  <1>7. NoRoll
    BY <1>2, <1>6, ThreadActors, GoesElsewhere
  <1> QED BY <1>2, <1>6, <1>7, AnyFailure, RetainSame

LEMMA ClaimRetains ==
  ASSUME TsInv, RetainInv, NEW t \in Threads, OpenClaim(t)
  PROVE  RetainInv'
  <1>0. PICK i : i = at[t]
    OBVIOUS
  <1>1. /\ disk' = disk /\ fails' = fails
        /\ \E x : slots' = [slots EXCEPT ![i] = x] /\ ~x.scanned
        /\ at' = at \/ \E j : at' = [at EXCEPT ![t] = j]
        /\ \E p : p # "roll" /\ pc' = [pc EXCEPT ![t] = p]
    <2>1. /\ disk' = disk /\ fails' = fails
          /\ \/ slots' = [slots EXCEPT ![i] = [FreeSlot EXCEPT !.used = TRUE, !.name = hd[t],
                                                               !.count = 1]]
             \/ slots' = [slots EXCEPT ![i] = FreeSlot]
          /\ at' = at \/ \E j : at' = [at EXCEPT ![t] = j]
          /\ \E p : p # "roll" /\ pc' = [pc EXCEPT ![t] = p]
      BY <1>0 DEF OpenClaim, sysVars, Go
    <2>2. ~FreeSlot.scanned /\ ~[FreeSlot EXCEPT !.used = TRUE, !.name = hd[t], !.count = 1].scanned
      BY DEF FreeSlot
    <2> QED BY <2>1, <2>2
  <1>2. i \in Slots /\ ~slots[i].used /\ slots \in [Slots -> Slot]
    BY <1>0 DEF OpenClaim, TsInv, StoreInv, PlaceInv, TypeOK
  <1>3. ~slots'[i].scanned /\ \A j \in Slots : j # i => slots'[j] = slots[j]
    BY <1>1, <1>2
  <1>4. \A j \in Slots : SameRun(slots[j], slots'[j])
    BY <1>3 DEF SameRun
  <1>5. NoRoll
    <2> SUFFICES ASSUME NEW a \in Actors, pc'[a] = "roll"
                 PROVE  pc[a] = "roll" /\ at'[a] = at[a] /\ slots'[at[a]].bytes = slots[at[a]].bytes
      BY DEF NoRoll
    <2>1. pc \in [Actors -> Places] /\ at \in [Actors -> 0..MaxStreams]
      BY DEF TsInv, StoreInv, TypeOK
    <2>2. pc[a] = "roll" /\ at'[a] = at[a]
      BY <1>1, <2>1, ThreadActors
    <2>3. at[a] \in Slots /\ slots[at[a]].used
      BY <2>2 DEF TsInv, StoreInv, PlaceInv, FlushPlaces
    <2> QED BY <1>2, <1>3, <2>2, <2>3
  <1> QED BY <1>1, <1>4, <1>5, AnyFailure, RetainSame

LEMMA ReleaseRetains ==
  ASSUME TsInv, RetainInv, NEW t \in Threads, CloseRelease(t)
  PROVE  RetainInv'
  <1>0. PICK i : i = at[t]
    OBVIOUS
  <1>1. /\ disk' = disk /\ fails' = fails /\ pc[t] \in {"flushed", "flush_failed"}
        /\ pc' = [pc EXCEPT ![t] = "idle"]
        /\ \E n : \/ Unlock([slots EXCEPT ![i].count = @ - 1], released, 0)
                  \/ Unlock([slots EXCEPT ![i] = FreeSlot], n, 0)
    BY <1>0 DEF CloseRelease, sysVars, Go
  <1>2. i \in Slots /\ slots[i] \in Slot /\ slots \in [Slots -> Slot] /\ slots[i].count >= 1
    BY <1>0, <1>1, ThreadActors DEF TsInv, StoreInv, PlaceInv, FlushPlaces, TypeOK, SlotInv
  <1>3. \A j \in Slots : SameRun(slots[j], slots'[j])
    <2>1. CASE Unlock([slots EXCEPT ![i].count = @ - 1], released, 0)
      <3>0. PICK n \in Nat : n = slots[i].count - 1
        BY <1>2 DEF Slot
      <3>1. PICK sl : sl = [slots EXCEPT ![i].count = n]
        OBVIOUS
      <3>2. Unlock(sl, released, 0)
        BY <2>1, <3>0, <3>1
      <3>3. SameRuns(sl)
        BY <1>2, <3>1, OneFieldRun
      <3>4. \A j \in Slots : sl[j] \in Slot
        BY <1>2, <3>1 DEF Slot
      <3> QED BY <3>2, <3>3, <3>4, UnlockRuns DEF SameRuns
    <2>2. ASSUME NEW n, Unlock([slots EXCEPT ![i] = FreeSlot], n, 0)
          PROVE  \A j \in Slots : SameRun(slots[j], slots'[j])
      <3>1. PICK sl : sl = [slots EXCEPT ![i] = FreeSlot]
        OBVIOUS
      <3>2. Unlock(sl, n, 0)
        BY <2>2, <3>1
      <3>3. \A j \in Slots : sl[j] \in Slot /\ SameRun(slots[j], sl[j])
        BY <1>2, <3>1, FreeSlotType DEF SameRun, FreeSlot
      <3> QED BY <3>2, <3>3, UnlockRuns
    <2> QED BY <1>1, <2>1, <2>2
  <1>4. NoRoll
    <2>1. pc \in [Actors -> Places] /\ lock = t
      BY <1>1, ThreadActors DEF TsInv, StoreInv, TypeOK, ControlInv, FlushPlaces
    <2>2. \A a \in Actors : pc[a] = "roll" => lock = a
      BY DEF TsInv, StoreInv, ControlInv, FlushPlaces
    <2>3. \A a \in Actors : pc'[a] # "roll"
      BY <1>1, <2>1, <2>2
    <2> QED BY <2>3 DEF NoRoll
  <1> QED BY <1>1, <1>3, <1>4, AnyFailure, RetainSame

--------------------------------------------------------------------------------
(* Steps that write a file of one stream *)

(* Slot i, of stream s, and the files of s change, and nobody starts to roll    *)
(* over but an actor that filled the file.                                      *)
LEMMA RetainChange ==
  ASSUME TsInv, RetainInv, fails = 0, fails' = 0, NEW s \in Streams, NEW i \in Slots,
         slots[i].used, slots[i].name = s, slots'[i].name = s,
         \A u \in Streams : u # s => disk'[u] = disk[u],
         \A j \in Slots : j # i => slots'[j] = slots[j],
         Sealed(disk'[s]), Knows(slots'[i], disk'[s]),
         \A a \in Actors : pc'[a] = "roll" => slots'[at'[a]].bytes >= SegmentRecords
  PROVE  RetainInv'
  <1>1. \A u \in Streams : Sealed(disk'[u])
    BY DEF RetainInv
  <1>2. ASSUME NEW j \in Slots, slots'[j].used, slots'[j].scanned
        PROVE  Knows(slots'[j], disk'[slots'[j].name])
    <2>1. CASE j = i
      BY <2>1
    <2>2. CASE j # i
      <3>1. slots'[j] = slots[j] /\ slots[j].name \in Streams /\ slots[j].name # s
        BY <1>2, <2>2 DEF TsInv, StoreInv, SlotInv
      <3>2. Knows(slots[j], disk[slots[j].name])
        BY <1>2, <3>1 DEF RetainInv
      <3> QED BY <3>1, <3>2
    <2> QED BY <2>1, <2>2
  <1> QED BY <1>1, <1>2 DEF RetainInv, Sealed, Knows

(* Records are written behind those of the newest file, and no bad ones. *)
LEMMA SealedGrows ==
  ASSUME NEW fs, NEW gs, FileSet(fs), FileSet(gs), Sealed(fs), NEW k \in DOMAIN fs,
         DOMAIN gs = DOMAIN fs, \A n \in DOMAIN fs : n <= k,
         \A n \in DOMAIN fs : n # k => gs[n] = fs[n],
         Bad \notin Range(gs[k].recs)
  PROVE  Sealed(gs)
  <1>1. \A n \in DOMAIN gs : Bad \notin Range(gs[n].recs)
    BY DEF Sealed
  <1>2. \A n, m \in DOMAIN fs : n \in Nat /\ m \in Nat /\ (n < m => n # k)
    BY DEF FileSet
  <1>3. \A n, m \in DOMAIN gs : n < m =>
          Len(gs[n].recs) >= SegmentRecords /\ \A j \in n..m : j \in DOMAIN gs
    BY <1>2 DEF Sealed
  <1> QED BY <1>1, <1>3 DEF Sealed

(* A new segment behind the newest, which is full. *)
LEMMA SealedNext ==
  ASSUME NEW fs, NEW gs, FileSet(fs), Sealed(fs), NEW k \in DOMAIN fs, NEW m, m = k + 1,
         DOMAIN gs = DOMAIN fs \cup {m}, \A n \in DOMAIN fs : n <= k,
         \A n \in DOMAIN fs : n # m => gs[n] = fs[n],
         Len(fs[k].recs) >= SegmentRecords, Range(gs[m].recs) = {}
  PROVE  Sealed(gs)
  <1>0. k \in Nat /\ m \in Nat /\ m \notin DOMAIN fs /\ \A n \in DOMAIN fs : n \in Nat
    BY DEF FileSet
  <1>1. \A n \in DOMAIN gs : Bad \notin Range(gs[n].recs)
    BY <1>0 DEF Sealed
  <1>2. ASSUME NEW n \in DOMAIN gs, NEW l \in DOMAIN gs, n < l
        PROVE  Len(gs[n].recs) >= SegmentRecords /\ \A j \in n..l : j \in DOMAIN gs
    <2>1. n \in DOMAIN fs /\ n \in Nat /\ gs[n] = fs[n]
      BY <1>0, <1>2
    <2>2. Len(fs[n].recs) >= SegmentRecords
      <3>1. CASE n = k
        BY <3>1
      <3>2. CASE n # k
        BY <1>0, <2>1, <3>2 DEF Sealed
      <3> QED BY <3>1, <3>2
    <2>3. \A j \in n..k : j \in DOMAIN fs
      <3>1. CASE n = k
        BY <1>0, <3>1
      <3>2. CASE n # k
        BY <1>0, <2>1, <3>2 DEF Sealed
      <3> QED BY <3>1, <3>2
    <2>4. \A j \in n..l : j \in n..k \/ j = m
      BY <1>0, <2>1
    <2> QED BY <2>1, <2>2, <2>3, <2>4
  <1> QED BY <1>1, <1>2 DEF Sealed

(* The slot an actor flushes, and the newest file of its stream. *)
Rolls(i, s, k) ==
  /\ i \in Slots /\ slots[i] \in Slot /\ slots[i].used /\ slots[i].scanned /\ slots[i].name = s
  /\ s \in Streams /\ k = slots[i].cur /\ k \in Nat /\ k \in DOMAIN disk[s]
  /\ FileAt(s, k) = disk[s][k] /\ disk[s][k] \in Segment
  /\ FilesOK(disk) /\ FileSet(disk[s]) /\ slots \in [Slots -> Slot]
  /\ Sealed(disk[s]) /\ Knows(slots[i], disk[s])
LEMMA RollsNow ==
  ASSUME TsInv, RetainInv, fails = 0, NEW a \in Actors, pc[a] \in FlushPlaces,
         NEW i, i = at[a], NEW s, s = slots[i].name, NEW k, k = slots[i].cur
  PROVE  Rolls(i, s, k)
  <1>1. /\ i \in Slots /\ slots[i] \in Slot /\ slots[i].used /\ slots[i].scanned
        /\ s \in Streams /\ slots \in [Slots -> Slot]
    BY DEF TsInv, StoreInv, TypeOK, PlaceInv, SlotInv
  <1>2. Sealed(disk[s]) /\ Knows(slots[i], disk[s])
    BY <1>1 DEF RetainInv
  <1>3. FilesOK(disk)
    BY FilesNow DEF TsInv
  <1>4. FileSet(disk[s])
    BY <1>1, <1>3, FilesOf
  <1>5. k \in DOMAIN disk[s]
    BY <1>2 DEF Knows
  <1>6. k \in Nat /\ disk[s][k] \in Segment /\ FileAt(s, k) = disk[s][k]
    BY <1>4, <1>5 DEF FileSet, FileAt
  <1> QED BY <1>1, <1>2, <1>3, <1>4, <1>5, <1>6 DEF Rolls

(* Only one actor flushes at a time. *)
LEMMA OneRoll ==
  ASSUME TsInv, NEW a \in Actors, pc[a] \in FlushPlaces, NEW p, pc' = [pc EXCEPT ![a] = p]
  PROVE  \A b \in Actors : pc'[b] = "roll" => b = a /\ p = "roll"
  <1>1. pc \in [Actors -> Places] /\ lock = a
    BY DEF TsInv, StoreInv, TypeOK, ControlInv
  <1>2. \A b \in Actors : pc[b] = "roll" => lock = b
    BY DEF TsInv, StoreInv, ControlInv, FlushPlaces
  <1> QED BY <1>1, <1>2

(* Samples b are put behind the records of the newest file. *)
Grown(d, s, k, g, b, y) ==
  /\ Sealed(d[s]) /\ DOMAIN d[s] = DOMAIN disk[s] /\ d[s][k] = g
  /\ \A u \in Streams : u # s => d[u] = disk[u]
  /\ Len(g.recs) = Len(disk[s][k].recs) + Len(b) /\ g.torn = y
LEMMA RollGrows ==
  ASSUME NEW i, NEW s, NEW k, Rolls(i, s, k), NEW b \in Seq(Samples), NEW y \in BOOLEAN,
         NEW g, g = [disk[s][k] EXCEPT !.recs = disk[s][k].recs \o b, !.torn = y],
         NEW d, d = Put(s, k, g)
  PROVE  Grown(d, s, k, g, b, y)
  <1>1. /\ s \in Streams /\ k \in Nat /\ k \in DOMAIN disk[s] /\ FilesOK(disk)
        /\ FileSet(disk[s]) /\ Sealed(disk[s]) /\ \A n \in DOMAIN disk[s] : n <= k
    BY DEF Rolls, Knows
  <1>2. PICK f \in Segment : f = disk[s][k]
    BY DEF Rolls
  <1>3. PICK r \in Seq(Records) : r = f.recs
    BY SegmentType
  <1>4. PICK v : v = r \o b
    OBVIOUS
  <1>5. v \in Seq(Records) /\ Len(v) = Len(r) + Len(b) /\ Range(v) = Range(r) \cup Range(b)
    <2>1. b \in Seq(Records)
      BY SubSamples
    <2>2. v \in Seq(Records) /\ Len(v) = Len(r) + Len(b)
      BY <1>4, <2>1, ConcatProperties
    <2>3. Range(Cat(r, b)) = Range(r) \cup Range(b)
      BY <2>1, CatRange
    <2> QED BY <1>4, <2>2, <2>3 DEF Cat
  <1>6. g = [f EXCEPT !.recs = v, !.torn = y]
    BY <1>2, <1>3, <1>4
  <1>7. g \in Segment /\ g.recs = v /\ g.torn = y
    BY <1>5, <1>6 DEF Segment, Records
  <1>8. Written(d, s, k, g)
    BY <1>1, <1>7, PutStored
  <1>9. /\ DOMAIN d[s] = DOMAIN disk[s] /\ d[s][k] = g /\ FilesOK(d)
        /\ \A u \in Streams : u # s => d[u] = disk[u]
        /\ \A n \in DOMAIN disk[s] : n # k => d[s][n] = disk[s][n]
    BY <1>1, <1>8 DEF Written
  <1>10. Bad \notin Range(g.recs)
    BY <1>1, <1>2, <1>3, <1>5, <1>7, SubSamples DEF Sealed
  <1>11. Sealed(d[s])
    <2>1. PICK fs, gs : fs = disk[s] /\ gs = d[s]
      OBVIOUS
    <2>2. FileSet(gs)
      BY <1>1, <1>9, <2>1, FilesOf
    <2>3. /\ FileSet(fs) /\ Sealed(fs) /\ k \in DOMAIN fs /\ DOMAIN gs = DOMAIN fs
          /\ Bad \notin Range(gs[k].recs)
      BY <1>1, <1>9, <1>10, <2>1
    <2>4. \A n \in DOMAIN fs : n <= k
      BY <1>1, <2>1
    <2>5. \A n \in DOMAIN fs : n # k => gs[n] = fs[n]
      BY <1>9, <2>1
    <2>6. Sealed(gs)
      BY <2>2, <2>3, <2>4, <2>5, SealedGrows
    <2> QED BY <2>1, <2>6
  <1> QED BY <1>2, <1>3, <1>5, <1>7, <1>9, <1>11 DEF Grown

LEMMA FlushRetains ==
  ASSUME TsInv, RetainInv, NEW a \in Actors, FlushWrite(a)
  PROVE  RetainInv'
  <1> SUFFICES ASSUME fails' = 0 PROVE RetainInv'
    BY DEF RetainInv
  <1>0. PICK i, s, k, b : i = at[a] /\ s = slots[i].name /\ k = slots[i].cur /\ b = slots[i].buf
    OBVIOUS
  <1>1. fails' = fails \/ Fault("write")
    BY DEF FlushWrite
  <1>2. fails = 0 /\ ~Fault("write")
    BY <1>1, FaultCounts
  <1>3. pc[a] \in FlushPlaces /\ at' = at
    BY DEF FlushWrite, FlushPlaces
  <1>4. Rolls(i, s, k)
    BY <1>0, <1>2, <1>3, RollsNow
  <1>5. /\ i \in Slots /\ slots[i] \in Slot /\ slots[i].used /\ slots[i].scanned /\ slots[i].name = s
        /\ s \in Streams /\ k \in Nat /\ k \in DOMAIN disk[s] /\ slots \in [Slots -> Slot]
        /\ FileAt(s, k) = disk[s][k] /\ disk[s][k] \in Segment
        /\ ~disk[s][k].torn /\ slots[i].bytes <= Len(disk[s][k].recs)
        /\ \A n \in DOMAIN disk[s] : slots[i].oldest <= n /\ n <= k
        /\ slots[i].oldest \in DOMAIN disk[s]
    BY <1>4 DEF Rolls, Knows
  <1>6. CASE b = <<>>
    <2>1. disk' = disk /\ slots' = slots /\ pc' = [pc EXCEPT ![a] = "flushed"]
      BY <1>0, <1>6 DEF FlushWrite, Go
    <2>2. NoRoll
      BY <1>3, <2>1, SlotsSame, GoesElsewhere
    <2> QED BY <1>2, <2>1, <2>2, SlotsSame, RetainSame DEF NoFewer
  <1>7. CASE b # <<>>
    <2>0. PICK n, m : n = slots[i].bytes + Len(b) /\ m = slots[i].pend + Len(b)
      OBVIOUS
    <2>1. /\ disk' = Put(s, k, IF FileAt(s, k).torn THEN FileAt(s, k)
                               ELSE [FileAt(s, k) EXCEPT !.recs = FileAt(s, k).recs \o b])
          /\ slots' = [slots EXCEPT ![i] = [slots[i] EXCEPT !.buf = <<>>, !.bytes = n, !.pend = m]]
          /\ pc' = [pc EXCEPT ![a] = IF n >= SegmentRecords THEN "roll" ELSE "flushed"]
      BY <1>0, <1>2, <1>7, <2>0 DEF FlushWrite, Go
    <2>2. b \in Seq(Samples) /\ Len(b) \in Nat /\ slots[i].bytes \in Nat /\ slots[i].pend \in Nat
      BY <1>0, <1>5 DEF Slot
    <2>3. PICK y \in BOOLEAN : ~y
      OBVIOUS
    <2> DEFINE g == [disk[s][k] EXCEPT !.recs = disk[s][k].recs \o b, !.torn = y]
    <2>4. disk' = Put(s, k, g)
      <3>1. PICK f \in Segment : f = disk[s][k] /\ ~f.torn
        BY <1>5
      <3>2. PICK v : v = f.recs \o b
        OBVIOUS
      <3>3. [f EXCEPT !.recs = v] = [f EXCEPT !.recs = v, !.torn = y]
        BY <2>3, <3>1 DEF Segment
      <3> QED BY <1>5, <2>1, <3>1, <3>2, <3>3
    <2>5. Grown(disk', s, k, g, b, y)
      BY <1>4, <2>2, <2>4, RollGrows
    <2> HIDE DEF g
    <2>11. /\ Sealed(disk'[s]) /\ DOMAIN disk'[s] = DOMAIN disk[s] /\ disk'[s][k] = g
           /\ \A u \in Streams : u # s => disk'[u] = disk[u]
           /\ Len(g.recs) = Len(disk[s][k].recs) + Len(b) /\ g.torn = y
      BY <2>5 DEF Grown
    <2>6. slots'[i] = [slots[i] EXCEPT !.buf = <<>>, !.bytes = n, !.pend = m]
          /\ \A j \in Slots : j # i => slots'[j] = slots[j]
      BY <1>5, <2>1
    <2>7. /\ slots'[i].name = s /\ slots'[i].cur = k /\ slots'[i].oldest = slots[i].oldest
          /\ slots'[i].bytes = n
      BY <1>0, <1>5, <2>6 DEF Slot
    <2>8. n <= Len(g.recs)
      <3>1. Len(disk[s][k].recs) \in Nat
        BY <1>5, SegmentType
      <3> QED BY <1>5, <2>0, <2>2, <2>11, <3>1
    <2>9. Knows(slots'[i], disk'[s])
      BY <1>5, <2>3, <2>7, <2>8, <2>11 DEF Knows
    <2>10. \A c \in Actors : pc'[c] = "roll" => slots'[at'[c]].bytes >= SegmentRecords
      <3>1. \A c \in Actors : pc'[c] = "roll" => c = a /\ n >= SegmentRecords
        <4>1. PICK p : p = IF n >= SegmentRecords THEN "roll" ELSE "flushed"
          OBVIOUS
        <4>2. \A c \in Actors : pc'[c] = "roll" => c = a /\ p = "roll"
          BY <1>3, <2>1, <4>1, OneRoll
        <4> QED BY <4>1, <4>2
      <3> QED BY <1>0, <1>3, <2>7, <3>1
    <2> QED BY <1>2, <1>5, <2>6, <2>7, <2>9, <2>10, <2>11, RetainChange
  <1> QED BY <1>6, <1>7

LEMMA StartRetains ==
  ASSUME TsInv, RetainInv, NEW a \in Actors, StartSegment(a)
  PROVE  RetainInv'
  <1> SUFFICES ASSUME fails' = 0 PROVE RetainInv'
    BY DEF RetainInv
  <1>0. PICK i, s, k : i = at[a] /\ s = slots[i].name /\ k = slots[i].cur
    OBVIOUS
  <1>1. fails' = fails \/ Fault("header")
    BY DEF StartSegment
  <1>2. fails = 0 /\ ~Fault("header")
    BY <1>1, FaultCounts
  <1>3. pc[a] = "roll" /\ pc[a] \in FlushPlaces /\ at' = at
    BY DEF StartSegment, FlushPlaces
  <1>4. Rolls(i, s, k)
    BY <1>0, <1>2, <1>3, RollsNow
  <1>5. /\ i \in Slots /\ slots[i] \in Slot /\ slots[i].used /\ slots[i].scanned /\ slots[i].name = s
        /\ s \in Streams /\ k \in Nat /\ k \in DOMAIN disk[s] /\ slots \in [Slots -> Slot]
        /\ disk[s][k] \in Segment /\ FilesOK(disk) /\ FileSet(disk[s]) /\ Sealed(disk[s])
        /\ slots[i].bytes <= Len(disk[s][k].recs)
        /\ slots[i].oldest \in DOMAIN disk[s]
    BY <1>4 DEF Rolls, Knows
  <1>6. \A n \in DOMAIN disk[s] : slots[i].oldest <= n /\ n <= k /\ n \in Nat
    BY <1>4 DEF Rolls, Knows, FileSet
  <1>7. PICK m \in Nat : m = k + 1
    BY <1>5
  <1> DEFINE x == [slots[i] EXCEPT !.cur = @ + 1, !.bytes = 0]
  <1>8. x.cur = m /\ x.name = s /\ x.oldest = slots[i].oldest /\ x.bytes = 0
    BY <1>0, <1>5, <1>7 DEF Slot
  <1>9. /\ slots' = [slots EXCEPT ![i] = x] /\ disk' = Put(s, m, NewSegment)
        /\ pc' = [pc EXCEPT ![a] = IF TooMany(x) THEN "discard" ELSE "flushed"]
    <2>1. /\ slots' = [slots EXCEPT ![i] = x] /\ disk' = Put(x.name, x.cur, NewSegment)
          /\ pc' = [pc EXCEPT ![a] = IF TooMany(x) THEN "discard" ELSE "flushed"]
      BY <1>0, <1>2 DEF StartSegment, Go
    <2> HIDE DEF x
    <2> QED BY <1>8, <2>1
  <1> HIDE DEF x
  <1>10. slots'[i] = x /\ \A j \in Slots : j # i => slots'[j] = slots[j]
    BY <1>5, <1>9
  <1>11. PICK f \in Segment : f = NewSegment /\ ~f.torn /\ Range(f.recs) = {} /\ Len(f.recs) = 0
    <2>1. NewSegment \in Segment /\ NewSegment.recs = <<>> /\ ~NewSegment.torn
      BY NewFiles DEF NewSegment, EmptyFile
    <2> QED BY <2>1, RangeEmpty
  <1>12. Written(disk', s, m, f)
    BY <1>5, <1>7, <1>9, <1>11, PutStored
  <1>13. /\ DOMAIN disk'[s] = DOMAIN disk[s] \cup {m} /\ disk'[s][m] = f
         /\ \A u \in Streams : u # s => disk'[u] = disk[u]
         /\ \A n \in DOMAIN disk[s] : n # m => disk'[s][n] = disk[s][n]
    BY <1>12 DEF Written
  <1>14. Len(disk[s][k].recs) >= SegmentRecords
    <2>1. slots[i].bytes >= SegmentRecords
      BY <1>0, <1>2, <1>3 DEF RetainInv
    <2>2. Len(disk[s][k].recs) \in Nat /\ slots[i].bytes \in Nat /\ SegmentRecords \in Nat
      BY <1>5, SegmentType, TsConstants DEF Slot
    <2> QED BY <1>5, <2>1, <2>2
  <1>15. Sealed(disk'[s])
    <2>1. PICK fs, gs : fs = disk[s] /\ gs = disk'[s]
      OBVIOUS
    <2>2. /\ FileSet(fs) /\ Sealed(fs) /\ k \in DOMAIN fs /\ DOMAIN gs = DOMAIN fs \cup {m}
          /\ Len(fs[k].recs) >= SegmentRecords /\ Range(gs[m].recs) = {} /\ m = k + 1
      BY <1>5, <1>7, <1>11, <1>13, <1>14, <2>1
    <2>3. \A n \in DOMAIN fs : n <= k
      BY <1>6, <2>1
    <2>4. \A n \in DOMAIN fs : n # m => gs[n] = fs[n]
      BY <1>13, <2>1
    <2>5. Sealed(gs)
      BY <2>2, <2>3, <2>4, SealedNext
    <2> QED BY <2>1, <2>5
  <1>16. Knows(slots'[i], disk'[s])
    <2>1. \A n \in DOMAIN disk'[s] : x.oldest <= n /\ n <= m
      BY <1>5, <1>6, <1>7, <1>8, <1>13
    <2> QED BY <1>5, <1>8, <1>10, <1>11, <1>13, <2>1 DEF Knows
  <1>17. \A c \in Actors : pc'[c] # "roll"
    <2>1. PICK p : p = IF TooMany(x) THEN "discard" ELSE "flushed"
      OBVIOUS
    <2>2. p # "roll" /\ pc' = [pc EXCEPT ![a] = p]
      BY <1>9, <2>1
    <2> QED BY <1>3, <2>2, OneRoll
  <1> QED BY <1>2, <1>5, <1>8, <1>10, <1>13, <1>15, <1>16, <1>17, RetainChange

LEMMA DiscardRetains ==
  ASSUME TsInv, RetainInv, NEW a \in Actors, DiscardOldest(a)
  PROVE  RetainInv'
  <1> SUFFICES ASSUME fails' = 0 PROVE RetainInv'
    BY DEF RetainInv
  <1>0. PICK i, s, k, o : i = at[a] /\ s = slots[i].name /\ k = slots[i].cur /\ o = slots[i].oldest
    OBVIOUS
  <1>1. fails' = fails \/ Fault("unlink")
    BY DEF DiscardOldest
  <1>2. fails = 0 /\ ~Fault("unlink")
    BY <1>1, FaultCounts
  <1>3. pc[a] = "discard" /\ pc[a] \in FlushPlaces /\ at' = at
    BY DEF DiscardOldest, FlushPlaces
  <1>4. Rolls(i, s, k)
    BY <1>0, <1>2, <1>3, RollsNow
  <1>5. /\ i \in Slots /\ slots[i] \in Slot /\ slots[i].used /\ slots[i].scanned /\ slots[i].name = s
        /\ s \in Streams /\ k \in Nat /\ k \in DOMAIN disk[s] /\ slots \in [Slots -> Slot]
        /\ FilesOK(disk) /\ Sealed(disk[s]) /\ ~disk[s][k].torn
        /\ slots[i].bytes <= Len(disk[s][k].recs) /\ o \in DOMAIN disk[s]
    BY <1>0, <1>4 DEF Rolls, Knows
  <1>6. \A n \in DOMAIN disk[s] : o <= n /\ n <= k /\ n \in Nat
    BY <1>0, <1>4 DEF Rolls, Knows, FileSet
  <1>7. o < k /\ o \in Nat
    <2>1. TooMany(slots[i])
      BY <1>0, <1>3 DEF TsInv, StoreInv, PlaceInv
    <2> QED BY <1>0, <1>5, <1>6, <2>1, TsConstants, SMTT(20) DEF TooMany
  <1> DEFINE x == [slots[i] EXCEPT !.oldest = o + 1]
  <1>8. x.cur = k /\ x.name = s /\ x.oldest = o + 1 /\ x.bytes = slots[i].bytes
    BY <1>0, <1>5 DEF Slot
  <1>9. /\ slots' = [slots EXCEPT ![i] = x]
        /\ disk' = [disk EXCEPT ![s] = [n \in DOMAIN disk[s] \ {o} |-> disk[s][n]]]
        /\ pc' = [pc EXCEPT ![a] = IF TooMany(x) THEN "discard" ELSE "flushed"]
    BY <1>0, <1>2 DEF DiscardOldest, Go
  <1> HIDE DEF x
  <1>10. slots'[i] = x /\ \A j \in Slots : j # i => slots'[j] = slots[j]
    BY <1>5, <1>9
  <1>11. /\ DOMAIN disk'[s] = DOMAIN disk[s] \ {o}
         /\ \A n \in DOMAIN disk'[s] : disk'[s][n] = disk[s][n]
         /\ \A u \in Streams : u # s => disk'[u] = disk[u]
    <2>1. DOMAIN disk = Streams
      BY <1>5 DEF FilesOK
    <2> QED BY <1>5, <1>9, <2>1
  <1>12. Sealed(disk'[s])
    <2>1. PICK fs, gs : fs = disk[s] /\ gs = disk'[s]
      OBVIOUS
    <2>2. DOMAIN gs = DOMAIN fs \ {o} /\ \A n \in DOMAIN gs : gs[n] = fs[n]
      BY <1>11, <2>1
    <2>3. \A n \in DOMAIN fs : o <= n /\ n \in Nat
      BY <1>6, <2>1
    <2>4. Sealed(fs)
      BY <1>5, <2>1
    <2>5. \A n \in DOMAIN gs : Bad \notin Range(gs[n].recs)
      BY <2>2, <2>4 DEF Sealed
    <2>6. ASSUME NEW n \in DOMAIN gs, NEW m \in DOMAIN gs, n < m
          PROVE  Len(gs[n].recs) >= SegmentRecords /\ \A j \in n..m : j \in DOMAIN gs
      <3>1. Len(fs[n].recs) >= SegmentRecords /\ \A j \in n..m : j \in DOMAIN fs
        BY <2>2, <2>4, <2>6 DEF Sealed
      <3>2. n \in Nat /\ m \in Nat /\ o \in Nat /\ o < n
        BY <1>7, <2>2, <2>3
      <3>3. \A j \in n..m : j # o
        BY <3>2
      <3> QED BY <2>2, <3>1, <3>3
    <2>7. Sealed(gs)
      BY <2>5, <2>6 DEF Sealed
    <2> QED BY <2>1, <2>7
  <1>13. Knows(slots'[i], disk'[s])
    <2>1. o + 1 \in DOMAIN disk[s]
      <3>1. \A j \in o..k : j \in DOMAIN disk[s]
        BY <1>5, <1>7 DEF Sealed
      <3> QED BY <1>5, <1>7, <3>1
    <2>2. o + 1 \in DOMAIN disk'[s] /\ k \in DOMAIN disk'[s]
      BY <1>5, <1>7, <1>11, <2>1
    <2>3. \A n \in DOMAIN disk'[s] : o + 1 <= n /\ n <= k
      BY <1>6, <1>7, <1>11
    <2> QED BY <1>5, <1>8, <1>10, <1>11, <2>2, <2>3 DEF Knows
  <1>14. \A c \in Actors : pc'[c] # "roll"
    <2>1. PICK p : p = IF TooMany(x) THEN "discard" ELSE "flushed"
      OBVIOUS
    <2>2. p # "roll" /\ pc' = [pc EXCEPT ![a] = p]
      BY <1>9, <2>1
    <2> QED BY <1>3, <2>2, OneRoll
  <1> QED BY <1>2, <1>5, <1>8, <1>10, <1>11, <1>12, <1>13, <1>14, RetainChange

LEMMA RotRetains ==
  ASSUME TsInv, NEW s \in Streams, Rot(s)
  PROVE  RetainInv'
  <1>1. fails' # 0
    BY FaultCounts DEF Rot
  <1> QED BY <1>1 DEF RetainInv

(* A power loss finds every file but the newest full, too. *)
LEMMA CrashSealed ==
  ASSUME TsInv, RetainInv, fails = 0, disk' \in CrashImages
  PROVE  \A u \in Streams : Sealed(disk'[u])
  <1>0. \A u \in Streams : Sealed(disk[u])
    BY DEF RetainInv
  <1>1. ASSUME NEW a \in Actors, pc[a] = "write", disk' \in PartWritten(slots[at[a]]), disk' # disk
        PROVE  \A u \in Streams : Sealed(disk'[u])
    <2>0. PICK i, s, k, b : i = at[a] /\ s = slots[i].name /\ k = slots[i].cur /\ b = slots[i].buf
      OBVIOUS
    <2>1. Rolls(i, s, k)
      BY <1>1, <2>0, RollsNow DEF FlushPlaces
    <2>2. /\ FileAt(s, k) = disk[s][k] /\ ~disk[s][k].torn /\ b \in Seq(Samples)
      BY <2>0, <2>1 DEF Rolls, Knows, Slot
    <2>3. PICK n \in 0..Len(b), z \in BOOLEAN :
             disk' = Put(s, k, [FileAt(s, k) EXCEPT !.recs = FileAt(s, k).recs \o SubSeq(b, 1, n),
                                                    !.torn = z /\ n < Len(b)])
      <3>1. PICK c, f : c = slots[i] /\ f = FileAt(c.name, c.cur)
        OBVIOUS
      <3>2. PICK n \in 0..Len(c.buf), z \in BOOLEAN :
               disk' = Put(c.name, c.cur, IF f.torn THEN f
                                          ELSE [f EXCEPT !.recs = f.recs \o SubSeq(c.buf, 1, n),
                                                         !.torn = z /\ n < Len(c.buf)])
        BY <1>1, <2>0, <3>1 DEF PartWritten
      <3>3. c.name = s /\ c.cur = k /\ c.buf = b /\ f = FileAt(s, k) /\ ~f.torn
        BY <2>0, <2>2, <3>1
      <3>4. disk' = Put(s, k, [FileAt(s, k) EXCEPT !.recs = FileAt(s, k).recs \o SubSeq(b, 1, n),
                                                   !.torn = z /\ n < Len(b)])
        BY <3>2, <3>3, Zenon
      <3>5. n \in 0..Len(b)
        BY <3>3
      <3> QED BY <3>4, <3>5, Zenon
    <2>4. PICK y \in BOOLEAN : y = (z /\ n < Len(b))
      OBVIOUS
    <2>5. PICK e \in Seq(Samples) : e = SubSeq(b, 1, n)
      BY <2>2, CutSamples
    <2> DEFINE g == [disk[s][k] EXCEPT !.recs = disk[s][k].recs \o e, !.torn = y]
    <2>6. disk' = Put(s, k, g)
      BY <2>2, <2>3, <2>4, <2>5
    <2>7. Grown(disk', s, k, g, e, y)
      BY <2>1, <2>6, RollGrows
    <2> QED BY <1>0, <2>7 DEF Grown
  <1>2. ASSUME NEW a \in Actors, pc[a] = "roll",
               disk' = Put(slots[at[a]].name, slots[at[a]].cur + 1, EmptyFile)
        PROVE  \A u \in Streams : Sealed(disk'[u])
    <2>0. PICK i, s, k : i = at[a] /\ s = slots[i].name /\ k = slots[i].cur
      OBVIOUS
    <2>1. Rolls(i, s, k)
      BY <1>2, <2>0, RollsNow DEF FlushPlaces
    <2>2. /\ s \in Streams /\ k \in Nat /\ k \in DOMAIN disk[s] /\ disk[s][k] \in Segment
          /\ FilesOK(disk) /\ FileSet(disk[s]) /\ Sealed(disk[s])
          /\ slots[i].bytes <= Len(disk[s][k].recs) /\ slots[i] \in Slot
      BY <2>1 DEF Rolls, Knows
    <2>3. \A n \in DOMAIN disk[s] : n <= k
      BY <2>1 DEF Rolls, Knows
    <2>4. PICK m \in Nat : m = k + 1
      BY <2>2
    <2>5. PICK f \in Segment : f = EmptyFile /\ Range(f.recs) = {}
      BY NewFiles, RangeEmpty DEF EmptyFile
    <2>6. Written(disk', s, m, f)
      BY <1>2, <2>0, <2>2, <2>4, <2>5, PutStored
    <2>7. Len(disk[s][k].recs) >= SegmentRecords
      <3>1. slots[i].bytes >= SegmentRecords
        BY <1>2, <2>0 DEF RetainInv
      <3>2. Len(disk[s][k].recs) \in Nat /\ slots[i].bytes \in Nat /\ SegmentRecords \in Nat
        BY <2>2, SegmentType, TsConstants DEF Slot
      <3> QED BY <2>2, <3>1, <3>2
    <2>8. Sealed(disk'[s])
      <3>1. PICK fs, gs : fs = disk[s] /\ gs = disk'[s]
        OBVIOUS
      <3>2. /\ FileSet(fs) /\ Sealed(fs) /\ k \in DOMAIN fs /\ DOMAIN gs = DOMAIN fs \cup {m}
            /\ Len(fs[k].recs) >= SegmentRecords /\ Range(gs[m].recs) = {} /\ m = k + 1
        BY <2>2, <2>4, <2>5, <2>6, <2>7, <3>1 DEF Written
      <3>3. \A n \in DOMAIN fs : n <= k
        BY <2>3, <3>1
      <3>4. \A n \in DOMAIN fs : n # m => gs[n] = fs[n]
        BY <2>6, <3>1 DEF Written
      <3>5. Sealed(gs)
        BY <3>2, <3>3, <3>4, SealedNext
      <3> QED BY <3>1, <3>5
    <2> QED BY <1>0, <2>6, <2>8 DEF Written
  <1>3. \/ disk' = disk
        \/ \E a \in Actors : pc[a] = "write" /\ disk' \in PartWritten(slots[at[a]])
        \/ \E a \in Actors : pc[a] = "roll" /\
              disk' = Put(slots[at[a]].name, slots[at[a]].cur + 1, EmptyFile)
    BY Zenon DEF CrashImages
  <1> QED BY <1>0, <1>1, <1>2, <1>3

LEMMA EndRetains ==
  ASSUME TsInv, RetainInv, PowerLoss \/ Deinit
  PROVE  RetainInv'
  <1> SUFFICES ASSUME fails' = 0 PROVE RetainInv'
    BY DEF RetainInv
  <1>1. /\ fails' = fails /\ slots' = [i \in Slots |-> FreeSlot] /\ pc' = [a \in Actors |-> "idle"]
    BY DEF PowerLoss, Deinit, RamLost
  <1>2. disk' \in CrashImages
    BY DEF PowerLoss, Deinit, CrashImages
  <1>3. \A u \in Streams : Sealed(disk'[u])
    BY <1>1, <1>2, CrashSealed
  <1>4. \A i \in Slots : ~slots'[i].used
    BY <1>1 DEF FreeSlot
  <1>5. \A a \in Actors : pc'[a] # "roll"
    BY <1>1
  <1> QED BY <1>3, <1>4, <1>5 DEF RetainInv, Sealed

(* Nothing is cut off a stream whose records are sound. *)
LEMMA RecoverWhole ==
  ASSUME TsInv, NEW s, NEW i, NEW n, NEW f, NEW g, NEW x, Recovers(s, i, n, f, g, x),
         Sealed(disk[s])
  PROVE  /\ g \in Segment /\ ~g.torn /\ g.recs = f.recs /\ Bad \notin Range(g.recs)
         /\ n \in DOMAIN disk[s] => f.recs = disk[s][n].recs
  <1>1. /\ s \in Streams /\ n \in Nat /\ f \in Segment
        /\ f = (IF FileAt(s, n) = EmptyFile THEN NewSegment ELSE FileAt(s, n))
        /\ g = [f EXCEPT !.recs = SubSeq(f.recs, 1, GoodPrefix(f.recs)), !.torn = FALSE]
    BY DEF Recovers
  <1>2. NewSegment.recs = <<>> /\ EmptyFile.recs = <<>>
    BY DEF NewSegment, EmptyFile
  <1>3. Bad \notin Range(f.recs) /\ (n \in DOMAIN disk[s] => f.recs = disk[s][n].recs)
    <2>1. CASE n \in DOMAIN disk[s]
      <3>1. FileAt(s, n) = disk[s][n]
        BY <2>1 DEF FileAt
      <3>2. f.recs = disk[s][n].recs
        BY <1>1, <1>2, <3>1
      <3> QED BY <2>1, <3>2 DEF Sealed
    <2>2. CASE n \notin DOMAIN disk[s]
      <3>1. f.recs = <<>>
        BY <1>1, <1>2, <2>2 DEF FileAt
      <3> QED BY <2>2, <3>1, RangeEmpty
    <2> QED BY <2>1, <2>2
  <1>4. PICK r \in Seq(Records) : r = f.recs
    BY <1>1, SegmentType
  <1>5. SubSeq(r, 1, GoodPrefix(r)) = r
    <2>1. \A j \in 1..Len(r) : r[j] # Bad
      BY <1>3, <1>4, RangeIs
    <2>2. GoodPrefix(r) = Len(r)
      BY <2>1, GoodPrefixIn
    <2> QED BY <2>2
  <1>6. g = [f EXCEPT !.recs = r, !.torn = FALSE]
    BY <1>1, <1>4, <1>5
  <1>7. g \in Segment /\ ~g.torn /\ g.recs = r
    BY <1>1, <1>6 DEF Segment, Records
  <1> QED BY <1>3, <1>4, <1>7

LEMMA RecoverRetains ==
  ASSUME TsInv, RetainInv, NEW t \in Threads, OpenRecover(t)
  PROVE  RetainInv'
  <1> SUFFICES ASSUME fails' = 0 PROVE RetainInv'
    BY DEF RetainInv
  <1>0. pc' = [pc EXCEPT ![t] = "idle"] /\ at' = [at EXCEPT ![t] = 0]
    BY DEF OpenRecover, Go
  <1>1. ~Fault("header")
    BY FaultCounts
  <1>2. CASE Refused
    <2>1. NoRoll
      BY <1>0, <1>2, SlotsSame, ThreadActors, GoesElsewhere DEF Refused
    <2> QED BY <1>2, <2>1, SlotsSame, AnyFailure, RetainSame DEF Refused
  <1>3. ASSUME NEW s, NEW i, NEW n, NEW f, NEW g, NEW x, Recovers(s, i, n, f, g, x)
        PROVE  RetainInv'
    <2>1. /\ s \in Streams /\ i \in Slots /\ slots[i] \in Slot /\ slots[i].used
          /\ slots[i].name = s /\ n \in Nat /\ f \in Segment
          /\ n = (IF slots[i].scanned THEN slots[i].cur ELSE Highest(Window(s)))
          /\ x = scan_segments(slots[i], s, f)
          /\ disk' = Put(s, n, g) /\ slots' = [slots EXCEPT ![i] = x] /\ fails' = fails
      BY <1>3 DEF Recovers
    <2>2. fails = 0 /\ Sealed(disk[s]) /\ FilesOK(disk) /\ slots \in [Slots -> Slot]
      BY <2>1, FilesNow DEF RetainInv, TsInv, StoreInv, TypeOK
    <2>3. FileSet(disk[s])
      BY <2>1, <2>2, FilesOf
    <2>4. /\ g \in Segment /\ ~g.torn /\ g.recs = f.recs /\ Bad \notin Range(g.recs)
          /\ n \in DOMAIN disk[s] => f.recs = disk[s][n].recs
      BY <1>3, <2>2, RecoverWhole
    <2>5. Written(disk', s, n, g)
      BY <2>1, <2>2, <2>4, PutStored
    <2>6. /\ DOMAIN disk'[s] = DOMAIN disk[s] \cup {n} /\ disk'[s][n] = g
          /\ FilesOK(disk') /\ \A u \in Streams : u # s => disk'[u] = disk[u]
          /\ \A m \in DOMAIN disk[s] : m # n => disk'[s][m] = disk[s][m]
      BY <2>5 DEF Written
    <2>7. slots'[i] = x /\ \A j \in Slots : j # i => slots'[j] = slots[j]
      BY <2>1, <2>2
    <2>8. slots[i].scanned => x = slots[i] /\ n = slots[i].cur /\ Knows(slots[i], disk[s])
      BY <2>1, <2>2 DEF scan_segments, RetainInv
    <2>9. PICK lo, hi, len : lo = Lowest(Window(s)) /\ hi = Highest(Window(s)) /\ len = Len(f.recs)
      OBVIOUS
    <2>10. ~slots[i].scanned => /\ x.name = s /\ x.cur = n /\ x.oldest = lo /\ x.bytes = Len(g.recs)
                                /\ n = hi
      <3> SUFFICES ASSUME ~slots[i].scanned
                   PROVE  /\ x.name = s /\ x.cur = n /\ x.oldest = lo /\ x.bytes = Len(g.recs)
                          /\ n = hi
        OBVIOUS
      <3>1. x = [slots[i] EXCEPT !.scanned = TRUE, !.oldest = lo, !.cur = hi, !.bytes = len]
        BY <2>1, <2>9 DEF scan_segments
      <3>2. x.name = slots[i].name /\ x.cur = hi /\ x.oldest = lo /\ x.bytes = len
        BY <2>1, <3>1 DEF Slot
      <3>3. n = hi
        BY <2>1, <2>9
      <3>4. len = Len(g.recs)
        BY <2>4, <2>9
      <3> QED BY <2>1, <3>2, <3>3, <3>4
    <2>11. /\ lo \in Nat /\ lo \in Window(s) /\ hi \in Window(s)
           /\ \A m \in Window(s) : lo <= m /\ m <= hi
      BY <2>1, <2>9, WindowEnds DEF TsInv, StoreInv
    <2>12. x.name = s
      BY <2>1, <2>8, <2>10
    <2>13. \A m \in DOMAIN disk[s] : m <= n
      <3>1. CASE slots[i].scanned
        BY <2>8, <3>1 DEF Knows
      <3>2. CASE ~slots[i].scanned
        BY <2>10, <2>11, <3>2 DEF Window
      <3> QED BY <3>1, <3>2
    <2>14. n \in DOMAIN disk[s] \/ DOMAIN disk[s] = {}
      <3>1. CASE slots[i].scanned
        BY <2>8, <3>1 DEF Knows
      <3>2. CASE ~slots[i].scanned
        BY <2>10, <2>11, <3>2 DEF Window
      <3> QED BY <3>1, <3>2
    <2>15. Sealed(disk'[s])
      <3>1. PICK fs, gs : fs = disk[s] /\ gs = disk'[s]
        OBVIOUS
      <3>2. FileSet(fs) /\ FileSet(gs) /\ Sealed(fs)
        BY <2>1, <2>2, <2>3, <2>6, <3>1, FilesOf
      <3>3. Bad \notin Range(gs[n].recs) /\ DOMAIN gs = DOMAIN fs \cup {n}
        BY <2>4, <2>6, <3>1
      <3>4. CASE n \in DOMAIN fs
        <4>1. \A m \in DOMAIN fs : m <= n
          BY <2>13, <3>1
        <4>2. \A m \in DOMAIN fs : m # n => gs[m] = fs[m]
          BY <2>6, <3>1
        <4>3. DOMAIN gs = DOMAIN fs
          BY <3>3, <3>4
        <4>4. Sealed(gs)
          BY <3>2, <3>3, <3>4, <4>1, <4>2, <4>3, SealedGrows
        <4> QED BY <3>1, <4>4
      <3>5. CASE DOMAIN fs = {}
        <4>1. DOMAIN gs = {n}
          BY <3>3, <3>5
        <4>2. \A m \in DOMAIN gs : Bad \notin Range(gs[m].recs)
          BY <3>3, <4>1
        <4>3. \A k, m \in DOMAIN gs : ~(k < m)
          BY <2>1, <4>1
        <4>4. Sealed(gs)
          BY <4>2, <4>3 DEF Sealed
        <4> QED BY <3>1, <4>4
      <3> QED BY <2>14, <3>1, <3>4, <3>5
    <2>16. Knows(slots'[i], disk'[s])
      <3>1. CASE slots[i].scanned
        <4>1. n \in DOMAIN disk[s] /\ DOMAIN disk'[s] = DOMAIN disk[s]
          BY <2>6, <2>8, <3>1 DEF Knows
        <4>2. g.recs = disk[s][n].recs
          BY <2>4, <4>1
        <4> QED BY <2>4, <2>6, <2>7, <2>8, <3>1, <4>1, <4>2 DEF Knows
      <3>2. CASE ~slots[i].scanned
        <4>1. DOMAIN disk'[s] = Window(s)
          <5>1. CASE DOMAIN disk[s] = {}
            BY <2>6, <2>10, <2>11, <3>2, <5>1 DEF Window
          <5>2. CASE DOMAIN disk[s] # {}
            BY <2>6, <2>10, <2>11, <3>2, <5>2 DEF Window
          <5> QED BY <5>1, <5>2
        <4>2. Len(g.recs) <= Len(g.recs)
          BY <2>4, SegmentType
        <4> QED BY <2>4, <2>6, <2>7, <2>10, <2>11, <3>2, <4>1, <4>2 DEF Knows
      <3> QED BY <3>1, <3>2
    <2>17. ASSUME NEW a \in Actors, pc'[a] = "roll" PROVE slots'[at'[a]].bytes >= SegmentRecords
      <3>1. pc \in [Actors -> Places] /\ at \in [Actors -> 0..MaxStreams]
        BY DEF TsInv, StoreInv, TypeOK
      <3>2. pc[a] = "roll" /\ at'[a] = at[a]
        BY <1>0, <2>17, <3>1
      <3>3. at[a] \in Slots /\ slots[at[a]].scanned /\ slots[at[a]].bytes >= SegmentRecords
        BY <2>2, <3>2 DEF TsInv, StoreInv, PlaceInv, FlushPlaces, RetainInv
      <3>4. slots'[at[a]] = slots[at[a]]
        BY <2>7, <2>8, <3>3
      <3> QED BY <3>2, <3>3, <3>4
    <2> QED BY <2>1, <2>2, <2>6, <2>7, <2>12, <2>15, <2>16, <2>17, RetainChange
  <1> QED BY <1>1, <1>2, <1>3, RecoverCases

--------------------------------------------------------------------------------
(* The invariant of rollover holds *)

LEMMA RetainInit == ASSUME Init PROVE RetainInv
  <1>1. /\ disk = [s \in Streams |-> <<>>] /\ slots = [i \in Slots |-> FreeSlot]
        /\ pc = [a \in Actors |-> "idle"]
    BY DEF Init
  <1>2. \A s \in Streams : DOMAIN disk[s] = {}
    BY <1>1
  <1>3. \A i \in Slots : ~slots[i].used
    BY <1>1 DEF FreeSlot
  <1>4. \A a \in Actors : pc[a] # "roll"
    BY <1>1
  <1> QED BY <1>2, <1>3, <1>4 DEF RetainInv, Sealed

LEMMA FlushStepRetains ==
  ASSUME TsInv, RetainInv, NEW a \in Actors, FlushStep(a)
  PROVE  RetainInv'
  BY FlushRetains, StartRetains, DiscardRetains DEF FlushStep

LEMMA RetainNext ==
  ASSUME TsInv, TsInv', RetainInv, [Next]_vars
  PROVE  RetainInv'
  <1>1. ASSUME NEW t \in Threads, Call(t) PROVE RetainInv'
    BY <1>1, CallsRetain DEF Call
  <1>2. ASSUME NEW t \in Threads, InCall(t) PROVE RetainInv'
    <2>1. CASE OpenJoin(t) \/ OpenClaim(t) \/ OpenRecover(t)
      BY <2>1, OpenJoinRetains, ClaimRetains, RecoverRetains
    <2>2. CASE FlushStep(t)
      BY <2>2, ThreadActors, FlushStepRetains
    <2>3. CASE AppendBuffer(t) \/ AppendFails(t) \/ CloseRelease(t)
      BY <2>3, AppendRetains, AppendFailsRetains, ReleaseRetains
    <2>4. CASE BatchFull(t)
      BY <2>4, CallsRetain
    <2>5. CASE FlushNotQueued(t) \/ SyncCheck(t) \/ SyncTake(t) \/ SyncWoken(t) \/ SyncReturn(t)
      BY <2>5, FlushCallsRetain
    <2> QED BY <1>2, <2>1, <2>2, <2>3, <2>4, <2>5 DEF InCall
  <1>3. ASSUME NEW t \in Threads, WaitsForLock(t) \/ SyncTimeout(t) PROVE RetainInv'
    BY <1>3, CallsRetain, FlushCallsRetain DEF WaitsForLock
  <1>4. CASE WorkerStep \/ WorkerLock
    <2>1. CASE WorkerStart \/ WorkerLock \/ DrainNext
      BY <2>1, WorkerRetains
    <2>2. CASE DrainDone \/ WorkerEnd
      BY <2>2, DrainDoneRetains, WorkerEndRetains
    <2>3. CASE FlushStep(Worker)
      BY <2>3, ActorsAre, FlushStepRetains
    <2> QED BY <1>4, <2>1, <2>2, <2>3 DEF WorkerStep
  <1>5. ASSUME NEW s \in Streams, Rot(s) PROVE RetainInv'
    BY <1>5, RotRetains
  <1>6. CASE PowerLoss \/ Deinit
    BY <1>6, EndRetains
  <1>7. CASE UNCHANGED vars
    BY <1>7 DEF vars, RetainInv
  <1> QED
    BY <1>1, <1>2, <1>3, <1>4, <1>5, <1>6, <1>7 DEF Next, UpNext

LEMMA RetainInvariant ==
  ASSUME TsAssumptions
  PROVE  Spec => [](TsInv /\ RetainInv)
  <1>1. Init => TsInv /\ RetainInv
    BY TsInit, RetainInit
  <1>2. TsInv /\ RetainInv /\ [Next]_vars => (TsInv /\ RetainInv)'
    BY TsNext, RetainNext
  <1> QED BY <1>1, <1>2, PTL DEF Spec

--------------------------------------------------------------------------------
(* Only the loop that discards takes files away *)

Keeps(d) == \A u \in Streams : DOMAIN disk[u] \subseteq DOMAIN d[u]

LEMMA PutKeeps ==
  ASSUME TsInv, NEW s, NEW n, NEW f
  PROVE  Keeps(Put(s, n, f))
  <1>1. DOMAIN disk = Streams
    BY FilesNow DEF TsInv, FilesOK
  <1> SUFFICES ASSUME NEW u \in Streams, NEW m \in DOMAIN disk[u]
               PROVE  m \in DOMAIN Put(s, n, f)[u]
    BY DEF Keeps
  <1>2. CASE u = s
    BY <1>1, <1>2 DEF Put
  <1>3. CASE u # s
    BY <1>1, <1>3 DEF Put
  <1> QED BY <1>2, <1>3

LEMMA SameKeeps == ASSUME NEW d, d = disk PROVE Keeps(d)
  BY DEF Keeps

LEMMA HeaderKeeps ==
  ASSUME TsInv, NEW s, NEW n, NEW d \in HeaderFails(s, n)
  PROVE  Keeps(d)
  <1>1. d = disk \/ \E f : d = Put(s, n, f)
    BY DEF HeaderFails
  <1> QED BY <1>1, PutKeeps, SameKeeps

LEMMA PartKeeps ==
  ASSUME TsInv, NEW sl, NEW d \in PartWritten(sl)
  PROVE  Keeps(d)
  <1>1. d = disk \/ \E f : d = Put(sl.name, sl.cur, f)
    BY Zenon DEF PartWritten
  <1> QED BY <1>1, PutKeeps, SameKeeps

LEMMA CrashKeeps ==
  ASSUME TsInv, NEW d \in CrashImages
  PROVE  Keeps(d)
  <1>1. \/ d = disk
        \/ \E a \in Actors : d \in PartWritten(slots[at[a]])
        \/ \E s, n, f : d = Put(s, n, f)
    BY Zenon DEF CrashImages
  <1> QED BY <1>1, PutKeeps, PartKeeps, SameKeeps

LEMMA RecoverKeeps ==
  ASSUME TsInv, NEW t, OpenRecover(t)
  PROVE  Keeps(disk')
  <1>1. disk' = disk \/ (\E s, n, f : disk' = Put(s, n, f)) \/ \E s, n : disk' \in HeaderFails(s, n)
    BY Zenon DEF OpenRecover
  <1> QED BY <1>1, PutKeeps, HeaderKeeps, SameKeeps

LEMMA WriteKeeps ==
  ASSUME TsInv, NEW a, FlushWrite(a) \/ StartSegment(a)
  PROVE  Keeps(disk')
  <1>1. CASE FlushWrite(a)
    <2>1. disk' = disk \/ (\E s, n, f : disk' = Put(s, n, f)) \/ \E sl : disk' \in PartWritten(sl)
      BY <1>1, Zenon DEF FlushWrite
    <2> QED BY <2>1, PutKeeps, PartKeeps, SameKeeps
  <1>2. CASE StartSegment(a)
    <2>1. (\E s, n, f : disk' = Put(s, n, f)) \/ \E s, n : disk' \in HeaderFails(s, n)
      BY <1>2, Zenon DEF StartSegment
    <2> QED BY <2>1, PutKeeps, HeaderKeeps
  <1> QED BY <1>1, <1>2

LEMMA RotKeeps ==
  ASSUME TsInv, NEW s \in Streams, Rot(s)
  PROVE  Keeps(disk')
  <1>1. PICK n \in DOMAIN disk[s] : \E j : disk' = [disk EXCEPT ![s][n].recs[j] = Bad]
    BY DEF Rot
  <1>2. DOMAIN disk = Streams
    BY FilesNow DEF TsInv, FilesOK
  <1>3. \A u \in Streams : DOMAIN disk'[u] = DOMAIN disk[u]
    BY <1>1, <1>2
  <1> QED BY <1>3 DEF Keeps

LEMMA FilesStay ==
  ASSUME TsInv, [Next]_vars
  PROVE  Keeps(disk') \/ \E a \in Actors : DiscardOldest(a)
  <1> SUFFICES ASSUME \A a \in Actors : ~DiscardOldest(a) PROVE Keeps(disk')
    OBVIOUS
  <1>1. ASSUME NEW t \in Threads, Call(t) PROVE disk' = disk
    BY <1>1 DEF Call, CallOpen, CallAppend, CallClose, CallFlushAsync, CallFlushSync
  <1>2. ASSUME NEW a \in Actors, FlushStep(a) PROVE Keeps(disk')
    BY <1>2, WriteKeeps DEF FlushStep
  <1>3. ASSUME NEW t \in Threads, InCall(t) PROVE Keeps(disk')
    <2>1. CASE OpenRecover(t)
      BY <2>1, RecoverKeeps
    <2>2. CASE FlushStep(t)
      BY <1>2, <2>2, ThreadActors
    <2>3. CASE OpenJoin(t) \/ OpenClaim(t)
      <3>1. disk' = disk
        BY <2>3, Zenon DEF OpenJoin, OpenClaim
      <3> QED BY <3>1, SameKeeps
    <2>4. CASE AppendBuffer(t) \/ AppendFails(t) \/ CloseRelease(t) \/ BatchFull(t)
      <3>1. disk' = disk
        BY <2>4, Zenon DEF AppendBuffer, AppendFails, CloseRelease, BatchFull
      <3> QED BY <3>1, SameKeeps
    <2>5. CASE FlushNotQueued(t) \/ SyncCheck(t) \/ SyncTake(t) \/ SyncWoken(t) \/ SyncReturn(t)
      <3>1. disk' = disk
        BY <2>5, Zenon DEF FlushNotQueued, SyncCheck, SyncTake, SyncWoken, SyncReturn
      <3> QED BY <3>1, SameKeeps
    <2> QED BY <1>3, <2>1, <2>2, <2>3, <2>4, <2>5 DEF InCall
  <1>4. ASSUME NEW t \in Threads, WaitsForLock(t) \/ SyncTimeout(t) PROVE disk' = disk
    BY <1>4, Zenon DEF WaitsForLock, AppendLock, FlushAsync, SyncTimeout
  <1>5. CASE WorkerStep \/ WorkerLock
    <2>1. CASE FlushStep(Worker)
      BY <1>2, <2>1, ActorsAre
    <2>2. CASE WorkerStart \/ DrainNext \/ DrainDone \/ WorkerEnd \/ WorkerLock
      <3>1. disk' = disk
        BY <2>2, Zenon DEF WorkerStart, DrainNext, DrainDone, WorkerEnd, WorkerLock
      <3> QED BY <3>1, SameKeeps
    <2> QED BY <1>5, <2>1, <2>2 DEF WorkerStep
  <1>6. ASSUME NEW s \in Streams, Rot(s) PROVE Keeps(disk')
    BY <1>6, RotKeeps
  <1>7. CASE PowerLoss \/ Deinit
    <2>1. disk' \in CrashImages
      BY <1>7 DEF PowerLoss, Deinit, CrashImages
    <2> QED BY <2>1, CrashKeeps
  <1>8. CASE UNCHANGED vars
    BY <1>8, SameKeeps DEF vars
  <1>9. disk' = disk => Keeps(disk')
    BY SameKeeps
  <1> QED BY <1>1, <1>3, <1>4, <1>5, <1>6, <1>7, <1>8, <1>9 DEF Next, UpNext

--------------------------------------------------------------------------------
(* How many records the files of a stream hold *)

Total(fs) == MapThenSumSet(LAMBDA n : Len(fs[n].recs), DOMAIN fs)
Lengths(fs) == [n \in DOMAIN fs |-> Len(fs[n].recs)]

LEMMA TotalAdds ==
  ASSUME NEW fs, IsFiniteSet(DOMAIN fs)
  PROVE  \E g : Adds(g, Lengths(fs), DOMAIN fs) /\ Total(fs) = g[DOMAIN fs]
  <1> DEFINE D(g) == g = [T \in SUBSET (DOMAIN fs) |->
                            IF T = {} THEN 0 ELSE Len(fs[Pick(T)].recs) + g[T \ {Pick(T)}]]
  <1>1. Total(fs) = (CHOOSE g : D(g))[DOMAIN fs]
    BY Zenon DEF Total, MapThenSumSet, MapThenFoldSet, Pick
  <1>2. \A g : D(g) <=> Adds(g, Lengths(fs), DOMAIN fs)
    BY PickIn DEF Adds, Lengths
  <1>3. \E g : D(g)
    BY <1>2, AddsExists
  <1>4. D(CHOOSE g : D(g))
    BY <1>3
  <1> QED
    BY <1>1, <1>2, <1>4

(* The files of S, of c records at least each, are among them. *)
LEMMA TotalAtLeast ==
  ASSUME NEW fs, FileSet(fs), IsFiniteSet(DOMAIN fs), NEW c \in Nat, NEW S \in SUBSET (DOMAIN fs),
         \A n \in S : Len(fs[n].recs) >= c
  PROVE  Total(fs) >= Cardinality(S) * c
  <1>1. PICK g : Adds(g, Lengths(fs), DOMAIN fs) /\ Total(fs) = g[DOMAIN fs]
    BY TotalAdds
  <1>2. PICK f, D : f = Lengths(fs) /\ D = DOMAIN fs
    OBVIOUS
  <1>3. Adds(g, f, D) /\ IsFiniteSet(D) /\ S \in SUBSET D
    BY <1>1, <1>2
  <1>4. \A n \in D : f[n] \in Nat
    BY <1>2, SegmentType DEF Lengths, FileSet
  <1>5. \A n \in S : f[n] >= c
    BY <1>2, <1>3 DEF Lengths
  <1>6. \A T \in SUBSET D : g[T] \in Nat
    BY <1>3, <1>4, AddsType
  <1> DEFINE P == {T \in SUBSET D : g[T] >= Cardinality(T \cap S) * c}
  <1>7. {} \in P
    <2>1. g[{}] = 0
      BY <1>3, AddsValue
    <2>2. Cardinality({} \cap S) = 0
      <3>1. {} \cap S = {}
        OBVIOUS
      <3> QED BY <3>1, FS_EmptySet
    <2> QED BY <2>1, <2>2
  <1>8. ASSUME NEW T \in SUBSET D, T # {}, T \ {Pick(T)} \in P PROVE T \in P
    <2>1. PICK x, U : x = Pick(T) /\ U = T \ {x}
      OBVIOUS
    <2>2. x \in T /\ x \in D /\ x \notin U /\ U \in SUBSET D /\ T = U \cup {x}
      BY <1>8, <2>1, PickIn
    <2>3. g[T] = f[x] + g[U]
      BY <1>3, <1>8, <2>1, AddsValue
    <2>4. PICK k \in Nat : k = Cardinality(U \cap S) /\ IsFiniteSet(U \cap S)
      <3>1. IsFiniteSet(U \cap S)
        BY <1>3, <2>2, FS_Subset
      <3> QED BY <3>1, FS_CardinalityType
    <2>5. g[U] >= k * c
      BY <1>8, <2>1, <2>4
    <2>6. f[x] \in Nat /\ g[U] \in Nat /\ k * c \in Nat
      BY <1>4, <1>6, <2>2
    <2>7. CASE x \in S
      <3>1. T \cap S = (U \cap S) \cup {x} /\ x \notin U \cap S
        BY <2>2, <2>7
      <3>2. Cardinality(T \cap S) = k + 1
        BY <2>4, <3>1, FS_AddElement
      <3>3. (k + 1) * c = k * c + c
        OBVIOUS
      <3>4. g[T] >= (k + 1) * c
        BY <1>5, <2>3, <2>5, <2>6, <2>7, <3>3
      <3> QED BY <3>2, <3>4
    <2>8. CASE x \notin S
      <3>1. T \cap S = U \cap S
        BY <2>2, <2>8
      <3>2. g[T] >= k * c
        BY <2>3, <2>5, <2>6
      <3> QED BY <2>4, <3>1, <3>2
    <2> QED BY <2>7, <2>8
  <1>9. P = SUBSET D
    <2>1. P \in SUBSET SUBSET D
      OBVIOUS
    <2> HIDE DEF P
    <2> QED BY <1>3, <1>7, <1>8, <2>1, SubsetInduction
  <1>10. g[D] >= Cardinality(D \cap S) * c
    BY <1>9
  <1>11. D \cap S = S
    BY <1>3
  <1> QED BY <1>1, <1>2, <1>10, <1>11

LEMMA MoreTimes ==
  ASSUME NEW a \in Nat, NEW b \in Nat, NEW c \in Nat, a >= b
  PROVE  a * c >= b * c
  <1>1. PICK d \in Nat : a = b + d
    BY a - b \in Nat
  <1>2. (b + d) * c = b * c + d * c
    OBVIOUS
  <1>3. b * c \in Nat /\ d * c \in Nat
    OBVIOUS
  <1> QED BY <1>1, <1>2, <1>3

(* The oldest file, o, goes: the others of the window stay, all but the newest, *)
(* k, full.                                                                     *)
LeftOver(gs, o, k) ==
  /\ o \in Nat /\ k \in Nat /\ k - o >= MaxSegments
  /\ FileSet(gs) /\ \A n \in DOMAIN gs : n <= k /\ Bad \notin Range(gs[n].recs)
  /\ \A n \in (o + 1)..(k - 1) : n \in DOMAIN gs /\ Len(gs[n].recs) >= SegmentRecords
LEMMA DiscardWindow ==
  ASSUME TsInv, RetainInv, fails = 0, NEW a \in Actors, DiscardOldest(a), fails' = fails,
         NEW s, s = slots[at[a]].name
  PROVE  /\ s \in Streams /\ \A u \in Streams : u # s => disk'[u] = disk[u]
         /\ \E o, k : LeftOver(disk'[s], o, k)
  <1>0. PICK i, k, o : i = at[a] /\ k = slots[i].cur /\ o = slots[i].oldest
    OBVIOUS
  <1>1. pc[a] = "discard" /\ pc[a] \in FlushPlaces /\ ~Fault("unlink")
    BY FaultCounts DEF DiscardOldest, FlushPlaces
  <1>2. disk' = [disk EXCEPT ![s] = [n \in DOMAIN disk[s] \ {o} |-> disk[s][n]]]
    BY <1>0, <1>1 DEF DiscardOldest
  <1>3. Rolls(i, s, k)
    BY <1>0, <1>1, RollsNow
  <1>4. DOMAIN disk = Streams /\ s \in Streams
    BY <1>3 DEF Rolls, FilesOK
  <1>5. PICK fs, gs : fs = disk[s] /\ gs = disk'[s]
    OBVIOUS
  <1>6. gs = [n \in DOMAIN fs \ {o} |-> fs[n]] /\ \A u \in Streams : u # s => disk'[u] = disk[u]
    BY <1>2, <1>4, <1>5
  <1>7. /\ Sealed(fs) /\ FileSet(fs) /\ k \in DOMAIN fs /\ o \in DOMAIN fs /\ k \in Nat /\ o \in Nat
        /\ \A n \in DOMAIN fs : n <= k
    BY <1>0, <1>3, <1>5 DEF Rolls, Knows, FileSet
  <1>8. MaxSegments \in Nat /\ MaxSegments >= 1 /\ k - o >= MaxSegments
    <2>1. TooMany(slots[i])
      BY <1>0, <1>1 DEF TsInv, StoreInv, PlaceInv
    <2> QED BY <1>0, <1>7, <2>1, TsConstants DEF TooMany
  <1>9. \A j \in o..k : j \in DOMAIN fs
    BY <1>7, <1>8 DEF Sealed
  <1>10. ASSUME NEW n \in (o + 1)..(k - 1)
         PROVE  n \in DOMAIN gs /\ Len(gs[n].recs) >= SegmentRecords
    <2>1. n \in DOMAIN fs /\ n < k /\ n # o
      BY <1>7, <1>8, <1>9
    <2>2. n \in DOMAIN gs /\ gs[n] = fs[n]
      BY <1>6, <2>1
    <2> QED BY <1>7, <2>1, <2>2 DEF Sealed
  <1>11. FileSet(gs) /\ \A n \in DOMAIN gs : n <= k /\ Bad \notin Range(gs[n].recs)
    BY <1>6, <1>7 DEF FileSet, Sealed
  <1>12. LeftOver(gs, o, k)
    BY <1>7, <1>8, <1>10, <1>11 DEF LeftOver
  <1>13. \E x, y : LeftOver(disk'[s], x, y)
    BY <1>5, <1>12, Zenon
  <1> QED BY <1>4, <1>6, <1>13

LEMMA LeftTotal ==
  ASSUME NEW gs, NEW o, NEW k, LeftOver(gs, o, k)
  PROVE  Total(gs) >= (MaxSegments - 1) * SegmentRecords
  <1>1. /\ o \in Nat /\ k \in Nat /\ k - o >= MaxSegments /\ FileSet(gs)
        /\ MaxSegments \in Nat /\ MaxSegments >= 1 /\ SegmentRecords \in Nat
    BY TsConstants DEF LeftOver
  <1>2. PICK lo, hi \in Int : lo = o + 1 /\ hi = k - 1
    BY <1>1
  <1>3. PICK S : S = lo..hi
    OBVIOUS
  <1>4. S \in SUBSET (DOMAIN gs) /\ \A n \in S : Len(gs[n].recs) >= SegmentRecords
    BY <1>2, <1>3 DEF LeftOver
  <1>5. PICK c, b \in Nat : c = Cardinality(S) /\ b = MaxSegments - 1 /\ c >= b
    <2>1. Cardinality(lo..hi) = IF lo > hi THEN 0 ELSE hi - lo + 1
      BY FS_Interval
    <2>2. Cardinality(S) = Cardinality(lo..hi)
      BY <1>3
    <2>3. (IF lo > hi THEN 0 ELSE hi - lo + 1) = k - 1 - o
      BY <1>1, <1>2
    <2>4. k - 1 - o \in Nat /\ k - 1 - o >= MaxSegments - 1 /\ MaxSegments - 1 \in Nat
      BY <1>1
    <2> QED BY <2>1, <2>2, <2>3, <2>4
  <1>6. IsFiniteSet(DOMAIN gs)
    <2>1. DOMAIN gs \in SUBSET (0..k)
      BY <1>1 DEF LeftOver, FileSet
    <2>2. IsFiniteSet(0..k)
      BY <1>1, FS_Interval
    <2> QED BY <2>1, <2>2, FS_Subset
  <1>7. Total(gs) >= c * SegmentRecords
    BY <1>1, <1>4, <1>5, <1>6, TotalAtLeast
  <1>8. c * SegmentRecords >= b * SegmentRecords
    BY <1>1, <1>5, MoreTimes
  <1>9. Total(gs) \in Nat
    <2>1. PICK g : Adds(g, Lengths(gs), DOMAIN gs) /\ Total(gs) = g[DOMAIN gs]
      BY <1>6, TotalAdds
    <2>2. \A n \in DOMAIN gs : Lengths(gs)[n] \in Nat
      BY <1>1, SegmentType DEF Lengths, FileSet
    <2>3. g[DOMAIN gs] \in Nat
      BY <1>6, <2>1, <2>2, AddsType
    <2> QED BY <2>1, <2>3
  <1>10. c * SegmentRecords \in Nat /\ b * SegmentRecords \in Nat
    BY <1>1
  <1>11. Total(gs) >= b * SegmentRecords
    BY <1>7, <1>8, <1>9, <1>10
  <1> QED BY <1>5, <1>11

LEMMA DiscardLeaves ==
  ASSUME TsInv, RetainInv, fails = 0, NEW a \in Actors, DiscardOldest(a),
         NEW s \in Streams, ~(DOMAIN disk[s] \subseteq DOMAIN disk'[s])
  PROVE  Total(disk'[s]) >= (MaxSegments - 1) * SegmentRecords
  <1>1. fails' = fails
    <2>1. fails' = fails \/ disk' = disk
      BY DEF DiscardOldest
    <2> QED BY <2>1
  <1>2. PICK r : r = slots[at[a]].name
    OBVIOUS
  <1>3. (\A u \in Streams : u # r => disk'[u] = disk[u]) /\ \E o, k : LeftOver(disk'[r], o, k)
    BY <1>1, <1>2, DiscardWindow
  <1>4. s = r
    BY <1>3
  <1> QED BY <1>3, <1>4, LeftTotal

(* Rollover keeps its complement: the step in which delete_oldest_segment()     *)
(* succeeds leaves at least MaxSegments - 1 full segments of the stream, for    *)
(* any interleaving of appends, flushes, closes and opens, wherever the power   *)
(* went before, and for as long as no file operation failed and no record went  *)
(* bad.  No other step takes a file away.                                       *)
THEOREM RolloverKeeps ==
  ASSUME TsAssumptions
  PROVE  Spec => RolloverRetains
  <1> DEFINE Retains == \A s \in Streams :
                          (fails = 0 /\ DOMAIN disk[s] \ DOMAIN disk'[s] # {}) =>
                             MapThenSumSet(LAMBDA n : Len(disk'[s][n].recs), DOMAIN disk'[s])
                                >= (MaxSegments - 1) * SegmentRecords
  <1>1. ASSUME TsInv, TsInv', RetainInv, [Next]_vars PROVE Retains
    <2> SUFFICES ASSUME NEW s \in Streams, fails = 0, DOMAIN disk[s] \ DOMAIN disk'[s] # {}
                 PROVE  Total(disk'[s]) >= (MaxSegments - 1) * SegmentRecords
      BY Zenon DEF Total
    <2>1. PICK a \in Actors : DiscardOldest(a)
      BY <1>1, FilesStay DEF Keeps
    <2> QED BY <1>1, <2>1, DiscardLeaves
  <1>2. TsInv /\ TsInv' /\ RetainInv /\ [Next]_vars => [Retains]_vars
    BY <1>1
  <1> QED BY <1>2, RetainInvariant, PTL DEF Spec, RolloverRetains

--------------------------------------------------------------------------------
(* The flush of a close leaves nothing in the buffer *)

(* All but rot succeeds. *)
QuietAssumptions == LogAssumptions /\ Faults \cap {"unlink", "submit"} = {}

CloseDone(t) ==
  \/ pc[t] = "flush_failed"
  \/ pc[t] = "flushed" /\ todo[t] = 0 /\ slots[at[t]].count <= 1
  => slots[at[t]].buf = <<>>
CloseInv == \A t \in Threads : CloseDone(t)

LEMMA CloseAway ==
  ASSUME NEW t, pc'[t] \notin {"flushed", "flush_failed"}
  PROVE  CloseDone(t)'
  BY DEF CloseDone

(* Actor a takes a step; the slots change only if it has the lock or opens. *)
LEMMA CloseStep ==
  ASSUME TsAssumptions, TsInv, CloseInv, NEW a \in Actors,
         NEW p, pc' = [pc EXCEPT ![a] = p],
         todo' = todo \/ \E n : todo' = [todo EXCEPT ![a] = n],
         at' = at \/ \E i : at' = [at EXCEPT ![a] = i],
         slots' = slots \/ lock = a \/ (a \in Threads /\ Opening(a)),
         a \in Threads => CloseDone(a)'
  PROVE  CloseInv'
  <1> SUFFICES ASSUME NEW t \in Threads PROVE CloseDone(t)'
    BY DEF CloseInv
  <1>1. CASE t = a
    BY <1>1
  <1>2. CASE t # a
    <2>1. pc \in [Actors -> Places] /\ at \in [Actors -> 0..MaxStreams] /\ todo \in [Threads -> Nat]
      BY DEF TsInv, StoreInv, TypeOK
    <2>2. pc'[t] = pc[t] /\ todo'[t] = todo[t] /\ at'[t] = at[t]
      BY <1>2, <2>1, ThreadActors
    <2>3. CASE pc[t] \in FlushPlaces
      <3>1. lock = t
        BY <2>3, ThreadActors DEF TsInv, StoreInv, ControlInv
      <3>2. ~(a \in Threads /\ Opening(a))
        <4>1. pc[t] # "idle"
          BY <2>3 DEF FlushPlaces
        <4> QED BY <1>2, <4>1 DEF TsInv, StoreInv, ControlInv
      <3>3. slots' = slots
        BY <1>2, <3>1, <3>2
      <3>4. CloseDone(t)
        BY DEF CloseInv
      <3> QED BY <2>2, <3>3, <3>4 DEF CloseDone
    <2>4. CASE pc[t] \notin FlushPlaces
      <3>1. pc'[t] \notin {"flushed", "flush_failed"}
        BY <2>2, <2>4 DEF FlushPlaces
      <3> QED BY <3>1, CloseAway
    <2> QED BY <2>3, <2>4
  <1> QED BY <1>1, <1>2

LEMMA PcNow ==
  ASSUME TsInv, NEW a \in Actors, NEW p, pc' = [pc EXCEPT ![a] = p]
  PROVE  pc'[a] = p
  BY DEF TsInv, StoreInv, TypeOK

LEMMA CallsClose ==
  ASSUME TsAssumptions, TsInv, CloseInv, NEW t \in Threads,
         \/ CallOpen(t) \/ CallAppend(t) \/ CallFlushAsync(t) \/ CallFlushSync(t) \/ BatchFull(t)
         \/ FlushAsync(t) \/ FlushNotQueued(t) \/ SyncCheck(t) \/ SyncTake(t)
         \/ SyncTimeout(t) \/ SyncWoken(t) \/ SyncReturn(t)
  PROVE  CloseInv'
  <1> DEFINE To(p) == pc' = [pc EXCEPT ![t] = p] /\ p \notin {"flushed", "flush_failed"}
  <1>1. CASE CallOpen(t) \/ CallAppend(t) \/ CallFlushAsync(t) \/ CallFlushSync(t) \/ BatchFull(t)
    <2>1. slots' = slots
      BY <1>1 DEF CallOpen, CallAppend, CallFlushAsync, CallFlushSync, BatchFull
    <2>2. todo' = todo \/ \E n : todo' = [todo EXCEPT ![t] = n]
      BY <1>1 DEF CallOpen, CallAppend, CallFlushAsync, CallFlushSync, BatchFull, callVars
    <2>3. at' = at \/ \E i : at' = [at EXCEPT ![t] = i]
      BY <1>1 DEF CallOpen, CallAppend, CallFlushAsync, CallFlushSync, BatchFull
    <2>4. PICK p : To(p)
      <3>1. CASE CallOpen(t)
        BY <3>1 DEF CallOpen, Go
      <3>2. CASE CallAppend(t) \/ CallFlushAsync(t) \/ CallFlushSync(t)
        BY <3>2 DEF CallAppend, CallFlushAsync, CallFlushSync, Go
      <3>3. CASE BatchFull(t)
        <4>1. pc' = [pc EXCEPT ![t] = "async"] \/ pc' = [pc EXCEPT ![t] = "idle"]
          BY <3>3 DEF BatchFull, Go
        <4> QED BY <4>1
      <3> QED BY <1>1, <3>1, <3>2, <3>3
    <2>5. CloseDone(t)'
      BY <2>4, PcNow, CloseAway, ThreadActors
    <2> QED BY <2>1, <2>2, <2>3, <2>4, <2>5, CloseStep, ThreadActors
  <1>2. CASE \/ FlushAsync(t) \/ FlushNotQueued(t) \/ SyncCheck(t) \/ SyncTake(t)
             \/ SyncTimeout(t) \/ SyncWoken(t) \/ SyncReturn(t)
    <2>1. /\ slots' = slots /\ todo' = todo /\ at' = at
          /\ \E p : To(p)
      BY <1>2 DEF FlushAsync, FlushNotQueued, SyncCheck, SyncTake, SyncTimeout, SyncWoken, SyncReturn,
                  Go, callVars
    <2>2. PICK p : To(p)
      BY <2>1
    <2>3. CloseDone(t)'
      BY <2>2, PcNow, CloseAway, ThreadActors
    <2> QED BY <2>1, <2>2, <2>3, CloseStep, ThreadActors
  <1> QED BY <1>1, <1>2

LEMMA OpenClose ==
  ASSUME TsAssumptions, TsInv, CloseInv, NEW t \in Threads,
         OpenJoin(t) \/ OpenClaim(t) \/ OpenRecover(t)
  PROVE  CloseInv'
  <1>1. /\ Opening(t) /\ todo' = todo /\ (at' = at \/ \E i : at' = [at EXCEPT ![t] = i])
        /\ pc' = [pc EXCEPT ![t] = "idle"] \/ pc' = [pc EXCEPT ![t] = "recover"]
    BY DEF OpenJoin, OpenClaim, OpenRecover, Opening, Go, callVars
  <1>2. CloseDone(t)'
    BY <1>1, PcNow, CloseAway, ThreadActors
  <1> QED BY <1>1, <1>2, CloseStep, ThreadActors

LEMMA LockClose ==
  ASSUME TsAssumptions, TsInv, CloseInv, NEW t \in Threads, CallClose(t) \/ AppendLock(t)
  PROVE  CloseInv'
  <1>0. pc \in [Actors -> Places] /\ at \in [Actors -> 0..MaxStreams] /\ todo \in [Threads -> Nat]
    BY DEF TsInv, StoreInv, TypeOK
  <1>1. CASE CallClose(t)
    <2>1. CASE pc' = pc /\ at' = at
      <3>1. slots' = slots /\ todo' = todo
        BY <1>1 DEF CallClose, callVars
      <3> QED BY <2>1, <3>1 DEF CloseInv, CloseDone
    <2>2. CASE ~(pc' = pc /\ at' = at)
      <3>1. PICK i : /\ slots' = slots /\ todo' = todo /\ at' = [at EXCEPT ![t] = i]
                     /\ pc' = [pc EXCEPT ![t] = IF slots[i].count <= 1 THEN "write" ELSE "flushed"]
        BY <1>1, <2>2 DEF CallClose, Go
      <3>2. at'[t] = i /\ pc'[t] = IF slots[i].count <= 1 THEN "write" ELSE "flushed"
        BY <1>0, <3>1, ThreadActors
      <3>3. CloseDone(t)'
        BY <3>1, <3>2 DEF CloseDone
      <3> QED BY <3>1, <3>3, CloseStep, ThreadActors
    <2> QED BY <2>1, <2>2
  <1>2. CASE AppendLock(t)
    <2>1. slots' = slots /\ (\E i : at' = [at EXCEPT ![t] = i]) /\ pc[t] = "append"
      BY <1>2 DEF AppendLock
    <2>2. \/ todo' = [todo EXCEPT ![t] = 0] /\ pc' = [pc EXCEPT ![t] = "idle"]
          \/ /\ todo' = todo
             /\ pc' = [pc EXCEPT ![t] = "write"] \/ pc' = [pc EXCEPT ![t] = "flushed"]
      BY <1>2 DEF AppendLock, Go, Room
    <2>3. todo[t] > 0
      BY <2>1 DEF TsInv, StoreInv, ControlInv
    <2>4. CloseDone(t)'
      <3>1. CASE pc' = [pc EXCEPT ![t] = "flushed"] /\ todo' = todo
        <4>1. pc'[t] = "flushed" /\ todo'[t] # 0
          BY <1>0, <2>3, <3>1, ThreadActors
        <4> QED BY <4>1 DEF CloseDone
      <3>2. CASE pc' = [pc EXCEPT ![t] = "idle"] \/ pc' = [pc EXCEPT ![t] = "write"]
        BY <3>2, PcNow, CloseAway, ThreadActors
      <3> QED BY <2>2, <3>1, <3>2
    <2> QED BY <2>1, <2>2, <2>4, CloseStep, ThreadActors
  <1> QED BY <1>1, <1>2

LEMMA ReturnClose ==
  ASSUME TsAssumptions, TsInv, CloseInv, NEW t \in Threads,
         AppendBuffer(t) \/ AppendFails(t) \/ CloseRelease(t)
  PROVE  CloseInv'
  <1>0. pc \in [Actors -> Places] /\ at \in [Actors -> 0..MaxStreams] /\ todo \in [Threads -> Nat]
    BY DEF TsInv, StoreInv, TypeOK
  <1>1. lock = t
    BY ThreadActors DEF AppendBuffer, AppendFails, CloseRelease, TsInv, StoreInv, ControlInv, FlushPlaces
  <1>2. CASE AppendBuffer(t)
    <2>1. /\ todo' = [todo EXCEPT ![t] = todo[t] - 1] /\ todo[t] > 0
          /\ (at' = at \/ \E i : at' = [at EXCEPT ![t] = i])
          /\ \E p : /\ pc' = [pc EXCEPT ![t] = p]
                    /\ p = "flushed" => todo[t] > 1
                    /\ p # "flush_failed"
      BY <1>2 DEF AppendBuffer, Go, Room
    <2>2. PICK p : pc' = [pc EXCEPT ![t] = p] /\ (p = "flushed" => todo[t] > 1) /\ p # "flush_failed"
      BY <2>1
    <2>3. CloseDone(t)'
      <3>1. pc'[t] = p /\ todo'[t] = todo[t] - 1
        BY <1>0, <2>1, <2>2, ThreadActors
      <3>2. p = "flushed" => todo'[t] # 0
        BY <1>0, <2>2, <3>1
      <3> QED BY <2>2, <3>1, <3>2 DEF CloseDone
    <2> QED BY <1>1, <2>1, <2>2, <2>3, CloseStep, ThreadActors
  <1>3. CASE AppendFails(t) \/ CloseRelease(t)
    <2>1. /\ (todo' = todo \/ \E n : todo' = [todo EXCEPT ![t] = n])
          /\ (at' = at \/ \E i : at' = [at EXCEPT ![t] = i])
          /\ pc' = [pc EXCEPT ![t] = "idle"]
      BY <1>3 DEF AppendFails, CloseRelease, Go
    <2>2. CloseDone(t)'
      BY <2>1, PcNow, CloseAway, ThreadActors
    <2> QED BY <1>1, <2>1, <2>2, CloseStep, ThreadActors
  <1> QED BY <1>2, <1>3

LEMMA FlushClose ==
  ASSUME QuietAssumptions, TsInv, CloseInv, NEW a \in Actors, FlushStep(a)
  PROVE  CloseInv'
  <1>0. /\ pc \in [Actors -> Places] /\ slots \in [Slots -> Slot]
        /\ pc[a] \in {"write", "roll", "discard"} /\ TsAssumptions /\ at' = at /\ todo' = todo
        /\ ~Fault("write") /\ ~Fault("header") /\ ~Fault("unlink")
    BY DEF TsInv, StoreInv, TypeOK, FlushStep, FlushWrite, StartSegment, DiscardOldest,
           QuietAssumptions, LogAssumptions, Fault, callVars
  <1>1. lock = a /\ at[a] \in Slots
    BY <1>0 DEF TsInv, StoreInv, ControlInv, PlaceInv, FlushPlaces
  <1>2. PICK p : pc' = [pc EXCEPT ![a] = p]
    BY DEF FlushStep, FlushWrite, StartSegment, DiscardOldest, Go
  <1>3. slots'[at[a]].buf = <<>>
    <2>0. PICK i \in Slots : i = at[a]
      BY <1>1
    <2>1. CASE FlushWrite(a)
      <3>1. \/ slots[i].buf = <<>> /\ slots' = slots
            \/ \E b, n : slots' = [slots EXCEPT ![i] = [slots[i] EXCEPT !.buf = <<>>, !.bytes = b, !.pend = n]]
        BY <1>0, <2>0, <2>1 DEF FlushWrite
      <3>2. CASE slots[i].buf = <<>> /\ slots' = slots
        BY <2>0, <3>2
      <3>3. CASE \E b, n : slots' = [slots EXCEPT ![i] = [slots[i] EXCEPT !.buf = <<>>, !.bytes = b, !.pend = n]]
        <4>1. PICK b, n : slots' = [slots EXCEPT ![i] = [slots[i] EXCEPT !.buf = <<>>, !.bytes = b, !.pend = n]]
          BY <3>3
        <4>2. slots'[i] = [slots[i] EXCEPT !.buf = <<>>, !.bytes = b, !.pend = n] /\ slots[i] \in Slot
          BY <1>0, <2>0, <4>1
        <4> QED BY <2>0, <4>2 DEF Slot
      <3> QED BY <3>1, <3>2, <3>3
    <2>2. CASE StartSegment(a)
      <3>1. \E c : slots' = [slots EXCEPT ![i] = [slots[i] EXCEPT !.cur = c, !.bytes = 0]]
        BY <2>0, <2>2 DEF StartSegment
      <3>2. slots[i].buf = <<>>
        BY <2>0, <2>2 DEF StartSegment, TsInv, StoreInv, PlaceInv
      <3> QED BY <1>0, <2>0, <3>1, <3>2 DEF Slot
    <2>3. CASE DiscardOldest(a)
      <3>1. \E c : slots' = [slots EXCEPT ![i] = [slots[i] EXCEPT !.oldest = c]]
        BY <1>0, <2>0, <2>3 DEF DiscardOldest
      <3>2. slots[i].buf = <<>>
        BY <2>0, <2>3 DEF DiscardOldest, TsInv, StoreInv, PlaceInv
      <3> QED BY <1>0, <2>0, <3>1, <3>2 DEF Slot
    <2> QED BY <2>1, <2>2, <2>3 DEF FlushStep
  <1>4. CloseDone(a)'
    BY <1>0, <1>3 DEF CloseDone
  <1> QED BY <1>0, <1>1, <1>2, <1>4, CloseStep

LEMMA WorkerClose ==
  ASSUME TsAssumptions, TsInv, CloseInv,
         WorkerStart \/ WorkerLock \/ DrainNext \/ DrainDone \/ WorkerEnd
  PROVE  CloseInv'
  <1>1. CASE WorkerStart \/ WorkerLock \/ DrainNext \/ DrainDone
    <2>1. /\ todo' = todo /\ (at' = at \/ \E i : at' = [at EXCEPT ![Worker] = i])
          /\ \E p : pc' = [pc EXCEPT ![Worker] = p]
          /\ slots' = slots \/ pc[Worker] \in FlushPlaces
      BY <1>1 DEF WorkerStart, WorkerLock, DrainNext, DrainDone, Go, callVars, FlushPlaces
    <2>2. pc[Worker] \in FlushPlaces => lock = Worker
      BY ActorsAre DEF TsInv, StoreInv, ControlInv
    <2>3. Worker \in Actors /\ Worker \notin Threads
      BY ActorsAre, TsConstants
    <2> QED BY <2>1, <2>2, <2>3, CloseStep
  <1>2. CASE WorkerEnd
    <2>1. lock = Worker
      BY <1>2, ActorsAre DEF WorkerEnd, TsInv, StoreInv, ControlInv
    <2>2. ASSUME NEW t \in Threads PROVE pc'[t] \notin {"flushed", "flush_failed"}
      <3>1. pc[t] \notin FlushPlaces /\ t # Worker /\ pc \in [Actors -> Places] /\ t \in Actors
        BY <2>1, ThreadActors, TsConstants DEF TsInv, StoreInv, ControlInv, TypeOK
      <3>2. \/ pc' = [pc EXCEPT ![Worker] = "idle"]
            \/ \E u : pc' = [pc EXCEPT ![Worker] = "idle", ![u] = "sync_woken"]
        BY <1>2 DEF WorkerEnd, Go
      <3>3. pc'[t] = pc[t] \/ pc'[t] = "sync_woken"
        BY <3>1, <3>2
      <3> QED BY <3>1, <3>3 DEF FlushPlaces
    <2> QED BY <2>2, CloseAway DEF CloseInv
  <1> QED BY <1>1, <1>2

LEMMA CloseInit == ASSUME Init PROVE CloseInv
  <1>1. \A t \in Threads : pc[t] = "idle"
    BY ThreadActors DEF Init
  <1> QED BY <1>1 DEF CloseInv, CloseDone

LEMMA CloseNext ==
  ASSUME QuietAssumptions, TsInv, CloseInv, [Next]_vars
  PROVE  CloseInv'
  <1>0. TsAssumptions
    BY DEF QuietAssumptions, LogAssumptions
  <1>1. ASSUME NEW t \in Threads, Call(t) PROVE CloseInv'
    BY <1>0, <1>1, CallsClose, LockClose DEF Call
  <1>2. ASSUME NEW t \in Threads, InCall(t) PROVE CloseInv'
    BY <1>0, <1>2, OpenClose, FlushClose, ReturnClose, CallsClose, ThreadActors DEF InCall
  <1>3. ASSUME NEW t \in Threads, WaitsForLock(t) \/ SyncTimeout(t) PROVE CloseInv'
    BY <1>0, <1>3, CallsClose, LockClose DEF WaitsForLock
  <1>4. CASE WorkerStep \/ WorkerLock
    BY <1>0, <1>4, WorkerClose, FlushClose, ActorsAre DEF WorkerStep
  <1>5. ASSUME NEW s \in Streams, Rot(s) PROVE CloseInv'
    BY <1>5 DEF Rot, CloseInv, CloseDone, callVars
  <1>6. CASE PowerLoss \/ Deinit
    <2>1. pc' = [a \in Actors |-> "idle"]
      BY <1>6 DEF PowerLoss, Deinit, RamLost
    <2>2. \A t \in Threads : pc'[t] \notin {"flushed", "flush_failed"}
      BY <2>1, ThreadActors
    <2> QED BY <2>2, CloseAway DEF CloseInv
  <1>7. CASE UNCHANGED vars
    BY <1>7 DEF vars, CloseInv, CloseDone
  <1> QED
    BY <1>1, <1>2, <1>3, <1>4, <1>5, <1>6, <1>7 DEF Next, UpNext

--------------------------------------------------------------------------------
(* What a discard leaves to read *)

LEMMA GrowsBy ==
  ASSUME NEW L \in [Nat -> Nat], NEW o \in Nat, NEW e \in Nat, NEW c \in Nat,
         \A n \in o..(o + e - 1) : L[n + 1] >= L[n] + c
  PROVE  L[o + e] >= e * c
  <1> DEFINE X == {d \in Nat : d <= e => L[o + d] >= d * c}
  <1>1. 0 \in X
    OBVIOUS
  <1>2. ASSUME NEW d \in X PROVE d + 1 \in X
    <2> SUFFICES ASSUME d + 1 <= e PROVE L[o + (d + 1)] >= (d + 1) * c
      OBVIOUS
    <2>1. d \in Nat /\ L[o + d] >= d * c
      OBVIOUS
    <2>2. PICK n \in Nat : n = o + d
      BY <2>1
    <2>3. o + (d + 1) = n + 1 /\ n \in o..(o + e - 1) /\ n + 1 \in Nat
      BY <2>1, <2>2
    <2>4. PICK y \in Nat : y = d * c /\ (d + 1) * c = y + c
      BY <2>1
    <2>5. L[n + 1] >= L[n] + c /\ L[n] >= y /\ L[n] \in Nat /\ L[n + 1] \in Nat
      BY <2>1, <2>2, <2>3, <2>4
    <2>6. L[n + 1] >= y + c
      BY <2>5
    <2> QED BY <2>3, <2>4, <2>6
  <1> HIDE DEF X
  <1>3. X = Nat
    <2>1. X \in SUBSET Nat
      BY DEF X
    <2> QED BY <1>1, <1>2, <2>1, NumberInduction
  <1>4. e \in X /\ e <= e
    BY <1>3
  <1> QED BY <1>4 DEF X

LEMMA JoinedLonger ==
  ASSUME NEW T, NEW g \in [Nat -> Seq(T)], NEW o \in Nat, NEW e \in Nat, NEW c \in Nat,
         \A n \in (o + 1)..(o + e) : Len(g[n]) >= c
  PROVE  Len(Joined(g)[o + e]) >= e * c
  <1>1. PICK J \in [Nat -> Seq(T)] : J = Joined(g)
    BY JoinedType
  <1>2. PICK L \in [Nat -> Nat] : \A n \in Nat : L[n] = Len(J[n])
    <2>1. [n \in Nat |-> Len(J[n])] \in [Nat -> Nat]
      BY LenProperties
    <2> QED BY <2>1
  <1>3. ASSUME NEW n \in o..(o + e - 1) PROVE L[n + 1] >= L[n] + c
    <2>1. n \in Nat /\ n + 1 \in Nat /\ n + 1 \in (o + 1)..(o + e)
      OBVIOUS
    <2>2. PICK a \in Seq(T), b \in Seq(T) : a = J[n] /\ b = g[n + 1]
      BY <2>1
    <2>3. J[n + 1] = Cat(a, b)
      BY <1>1, <2>1, <2>2, JoinedIs DEF Cat
    <2>4. Len(J[n + 1]) = Len(a) + Len(b) /\ Len(a) \in Nat /\ Len(b) \in Nat
      BY <2>3, CatLen
    <2>5. Len(b) >= c /\ L[n] = Len(a) /\ L[n + 1] = Len(J[n + 1])
      BY <1>2, <2>1, <2>2
    <2> QED BY <2>4, <2>5
  <1>4. L[o + e] >= e * c
    BY <1>3, GrowsBy
  <1>5. L[o + e] = Len(J[o + e])
    BY <1>2
  <1> QED BY <1>1, <1>4, <1>5, Zenon

LEMMA LeftReadable ==
  ASSUME NEW gs, NEW o, NEW k, LeftOver(gs, o, k), Headed(gs)
  PROVE  Len(StoredIn(gs)) >= (MaxSegments - 1) * SegmentRecords
  <1>1. /\ o \in Nat /\ k \in Nat /\ k - o >= MaxSegments /\ FileSet(gs) /\ UpTo(gs, k)
        /\ MaxSegments \in Nat /\ MaxSegments >= 1 /\ SegmentRecords \in Nat /\ SegmentRecords # 0
    BY TsConstants DEF LeftOver, UpTo
  <1>2. PICK g \in [Nat -> Seq(Samples)] : g = Shown(gs)
    BY <1>1, ShownType
  <1>3. StoredIn(gs) = Joined(g)[k]
    BY <1>1, <1>2, StoredIs
  <1>4. PICK e \in Nat : k - 1 = o + e /\ k = (o + e) + 1 /\ e >= MaxSegments - 1
    <2>1. k - 1 - o \in Nat /\ k - 1 = o + (k - 1 - o) /\ k = (o + (k - 1 - o)) + 1
          /\ k - 1 - o >= MaxSegments - 1
      BY <1>1
    <2> QED BY <2>1
  <1>5. ASSUME NEW n \in (o + 1)..(o + e) PROVE Len(g[n]) >= SegmentRecords
    <2>1. n \in DOMAIN gs /\ Len(gs[n].recs) >= SegmentRecords /\ n \in Nat
      BY <1>1, <1>4 DEF LeftOver
    <2>2. gs[n] \in Segment /\ Bad \notin Range(gs[n].recs) /\ (gs[n].hdr \/ gs[n] = EmptyFile)
      BY <1>1, <2>1 DEF LeftOver, FileSet, Headed
    <2>3. gs[n].hdr
      <3>1. gs[n] # EmptyFile
        <4> SUFFICES ASSUME gs[n] = EmptyFile PROVE FALSE
          OBVIOUS
        <4>1. gs[n].recs = <<>>
          BY DEF EmptyFile
        <4>2. Len(gs[n].recs) = 0
          BY <4>1
        <4> QED BY <1>1, <2>1, <4>2
      <3> QED BY <2>2, <3>1
    <2>4. PICK r \in Seq(Records) : r = gs[n].recs
      BY <2>2, SegmentType
    <2>5. Only(r, Samples) = r
      <3>1. Range(r) \subseteq Records
        BY RangeIs
      <3>2. Range(r) \subseteq Samples
        BY <2>2, <2>4, <3>1 DEF Records
      <3> QED BY <3>2, OnlyAll
    <2>6. g[n] = r
      BY <1>2, <2>1, <2>3, <2>4, <2>5 DEF Shown, Read
    <2> QED BY <2>1, <2>4, <2>6
  <1>6. Len(Joined(g)[o + e]) >= e * SegmentRecords
    BY <1>1, <1>5, JoinedLonger
  <1>7. PICK a \in Seq(Samples), b \in Seq(Samples) :
           a = Joined(g)[o + e] /\ b = g[k] /\ Joined(g)[k] = Cat(a, b)
    <2>1. o + e \in Nat
      BY <1>1
    <2>2. Joined(g)[o + e] \in Seq(Samples) /\ g[k] \in Seq(Samples)
      BY <1>1, <2>1, JoinedType
    <2>3. Joined(g)[(o + e) + 1] = Cat(Joined(g)[o + e], g[(o + e) + 1])
      BY <2>1, JoinedIs DEF Cat
    <2> QED BY <1>4, <2>2, <2>3, Zenon
  <1>8. Len(StoredIn(gs)) = Len(a) + Len(b) /\ Len(a) \in Nat /\ Len(b) \in Nat
    <2>1. Len(Cat(a, b)) = Len(a) + Len(b) /\ Len(a) \in Nat /\ Len(b) \in Nat
      BY CatLen
    <2> QED BY <1>3, <1>7, <2>1
  <1>9. PICK m \in Nat : m = MaxSegments - 1
    BY <1>1
  <1>10. e * SegmentRecords >= m * SegmentRecords
    BY <1>1, <1>4, <1>9, MoreTimes
  <1>11. PICK x, y \in Nat : x = e * SegmentRecords /\ y = m * SegmentRecords
    BY <1>1
  <1>12. Len(StoredIn(gs)) >= m * SegmentRecords
    <2>1. Len(a) >= x /\ x >= y
      BY <1>6, <1>7, <1>10, <1>11
    <2>2. Len(StoredIn(gs)) >= y
      BY <1>8, <2>1
    <2> QED BY <1>11, <2>2
  <1> QED BY <1>9, <1>12

(* Parts of a sequence put together of two, or of three. *)
Parted(q, a, m, b, n) ==
  /\ q \in Seq(Samples) /\ Len(q) = m + n /\ m \in Nat /\ n \in Nat
  /\ SubSeq(q, 1, m) = a /\ SubSeq(q, m + 1, m + n) = b
LEMMA CatParts ==
  ASSUME NEW a \in Seq(Samples), NEW b \in Seq(Samples)
  PROVE  Parted(Cat(a, b), a, Len(a), b, Len(b))
  <1>0. PICK q, m, n : q = Cat(a, b) /\ m = Len(a) /\ n = Len(b)
    OBVIOUS
  <1>1. /\ q \in Seq(Samples) /\ Len(q) = m + n /\ m \in Nat /\ n \in Nat
        /\ \A i \in 1..m : q[i] = a[i]
        /\ \A i \in 1..n : q[m + i] = b[i]
    BY <1>0, ConcatProperties, LenProperties DEF Cat
  <1>2. SubSeq(q, 1, m) = a
    <2>1. PICK c : c = SubSeq(q, 1, m)
      OBVIOUS
    <2>2. c \in Seq(Samples) /\ Len(c) = m /\ \A i \in 1..m : c[i] = q[i]
      BY <1>1, <2>1, SubSeqProperties
    <2>3. \A i \in 1..m : c[i] = a[i]
      BY <1>1, <2>2
    <2>4. c = a
      BY <1>0, <2>2, <2>3, SeqEqual
    <2> QED BY <2>1, <2>4
  <1>3. SubSeq(q, m + 1, m + n) = b
    <2>1. PICK c : c = SubSeq(q, m + 1, m + n)
      OBVIOUS
    <2>2. c \in Seq(Samples) /\ Len(c) = n /\ \A i \in 1..n : c[i] = q[m + i]
      BY <1>1, <2>1, SubSeqProperties
    <2>3. \A i \in 1..n : c[i] = b[i]
      BY <1>1, <2>2
    <2>4. c = b
      BY <1>0, <2>2, <2>3, SeqEqual
    <2> QED BY <2>1, <2>4
  <1>4. Parted(q, a, m, b, n)
    BY <1>1, <1>2, <1>3 DEF Parted
  <1> QED BY <1>0, <1>4

Removes(q, r) == \E i \in 1..Len(q) : RemoveAt(q, i) = r
LEMMA CatRemove ==
  ASSUME NEW a \in Seq(Samples), NEW h \in Seq(Samples), Len(h) = 1, NEW c \in Seq(Samples),
         NEW q, q = Cat(a, Cat(h, c))
  PROVE  Removes(q, Cat(a, c))
  <1>1. PICK m, n \in Nat : m = Len(a) /\ n = Len(c)
    BY LenProperties
  <1>2. PICK p \in Seq(Samples) : p = Cat(a, h)
    BY CatType
  <1>3. q = Cat(p, c)
    BY <1>2, CatAssoc
  <1>4. PICK k \in Nat : k = m + 1 /\ k = Len(p)
    BY <1>1, <1>2, CatLen
  <1>5. Len(q) = k + n /\ SubSeq(q, k + 1, k + n) = c
    <2>1. Parted(Cat(p, c), p, Len(p), c, Len(c))
      BY CatParts
    <2>2. Parted(q, p, k, c, n)
      BY <1>1, <1>3, <1>4, <2>1, Zenon
    <2> QED BY <2>2 DEF Parted
  <1>6. SubSeq(q, 1, m) = a
    <2>1. PICK d \in Seq(Samples) : d = Cat(h, c)
      BY CatType
    <2>2. Parted(Cat(a, d), a, Len(a), d, Len(d))
      BY CatParts
    <2>3. Parted(q, a, m, d, Len(d))
      BY <1>1, <2>1, <2>2, Zenon
    <2> QED BY <2>3 DEF Parted
  <1>7. k \in 1..Len(q) /\ k - 1 = m
    BY <1>1, <1>4, <1>5
  <1>8. SubSeq(q, 1, k - 1) = a /\ SubSeq(q, k + 1, Len(q)) = c
    BY <1>5, <1>6, <1>7, Zenon
  <1>9. RemoveAt(q, k) = Cat(a, c)
    BY <1>8, Zenon DEF RemoveAt, Cat
  <1> QED BY <1>7, <1>9 DEF Removes

--------------------------------------------------------------------------------
(* The steps of the log *)

StoredNow == [s \in Streams |-> Readable(s)]
RamNow == [s \in Streams |-> InRam(s)]
OpenNow == {s \in Streams : Open(s) # {}}

LEMMA ViewSame ==
  /\ (\A u \in Streams : Readable(u)' = Readable(u)) => StoredNow' = StoredNow
  /\ (\A u \in Streams : InRam(u)' = InRam(u)) => RamNow' = RamNow
  /\ (\A u \in Streams : Open(u)' = Open(u)) => OpenNow' = OpenNow
  BY DEF StoredNow, RamNow, OpenNow

LEMMA ViewChange ==
  ASSUME NEW s \in Streams, NEW q
  PROVE  /\ Readable(s)' = q /\ (\A u \in Streams : u # s => Readable(u)' = Readable(u))
              => StoredNow' = [StoredNow EXCEPT ![s] = q]
         /\ InRam(s)' = q /\ (\A u \in Streams : u # s => InRam(u)' = InRam(u))
              => RamNow' = [RamNow EXCEPT ![s] = q]
  BY DEF StoredNow, RamNow

LEMMA ViewAt ==
  ASSUME NEW s \in Streams
  PROVE  /\ StoredNow[s] = Readable(s) /\ StoredNow'[s] = Readable(s)'
         /\ RamNow[s] = InRam(s) /\ RamNow'[s] = InRam(s)'
         /\ s \in OpenNow <=> Open(s) # {}
         /\ s \in OpenNow' <=> Open(s)' # {}
  BY DEF StoredNow, RamNow, OpenNow

LEMMA LogStutters ==
  ASSUME Unseen, UNCHANGED <<fails, boots>>
  PROVE  UNCHANGED Log!vars
  <1>1. StoredNow' = StoredNow /\ RamNow' = RamNow /\ OpenNow' = OpenNow
    BY ViewSame DEF Unseen
  <1> QED BY <1>1 DEF Log!vars, StoredNow, RamNow, OpenNow

LEMMA LogFlush ==
  ASSUME NEW s, Flushed(s), UNCHANGED <<fails, boots>>
  PROVE  Log!Flush(s)
  <1>1. /\ s \in Streams /\ Open(s) # {} /\ InRam(s) # <<>> /\ InRam(s)' = <<>>
        /\ Readable(s)' = Readable(s) \o InRam(s)
        /\ \A u \in Streams : u # s => Readable(u)' = Readable(u) /\ InRam(u)' = InRam(u)
        /\ \A u \in Streams : Open(u)' = Open(u)
    BY DEF Flushed, Cat
  <1>2. s \in OpenNow /\ OpenNow' = OpenNow /\ RamNow[s] = InRam(s) /\ StoredNow[s] = Readable(s)
    BY <1>1, ViewSame, ViewAt
  <1>3. RamNow' = [RamNow EXCEPT ![s] = <<>>]
    BY <1>1, ViewChange
  <1>4. StoredNow' = [StoredNow EXCEPT ![s] = StoredNow[s] \o RamNow[s]]
    BY <1>1, <1>2, ViewChange
  <1>5. RamNow[s] # <<>>
    BY <1>1, <1>2
  <1> QED BY <1>2, <1>3, <1>4, <1>5 DEF Log!Flush, StoredNow, RamNow, OpenNow

LEMMA LogClaim ==
  ASSUME NEW s \in Streams, Open(s) = {}, Open(s)' # {},
         \A u \in Streams : Readable(u)' = Readable(u) /\ InRam(u)' = InRam(u),
         \A u \in Streams : u # s => Open(u)' = Open(u), UNCHANGED <<fails, boots>>
  PROVE  Log!Claim(s)
  <1>1. StoredNow' = StoredNow /\ RamNow' = RamNow
    BY ViewSame
  <1>2. s \notin OpenNow /\ OpenNow' = OpenNow \cup {s}
    BY DEF OpenNow
  <1> QED BY <1>1, <1>2 DEF Log!Claim, StoredNow, RamNow, OpenNow

LEMMA LogRelease ==
  ASSUME NEW s \in Streams, Open(s) # {}, Open(s)' = {}, InRam(s) = <<>>, InRam(s)' = <<>>,
         \A u \in Streams : Readable(u)' = Readable(u),
         \A u \in Streams : u # s => Open(u)' = Open(u) /\ InRam(u)' = InRam(u),
         UNCHANGED <<fails, boots>>
  PROVE  Log!Release(s)
  <1>1. StoredNow' = StoredNow /\ RamNow' = RamNow
    BY ViewSame
  <1>2. s \in OpenNow /\ OpenNow' = OpenNow \ {s} /\ RamNow[s] = <<>>
    BY ViewAt DEF OpenNow
  <1> QED BY <1>1, <1>2 DEF Log!Release, StoredNow, RamNow, OpenNow

LEMMA LogAppend ==
  ASSUME NEW s \in Streams, Open(s) # {}, Len(InRam(s)) < Capacity, NEW x \in Samples,
         x \notin Range(Readable(s)) \cup Range(InRam(s)), InRam(s) \in Seq(Samples),
         InRam(s)' = Append(InRam(s), x),
         \A u \in Streams : u # s => InRam(u)' = InRam(u),
         \A u \in Streams : Readable(u)' = Readable(u) /\ Open(u)' = Open(u),
         UNCHANGED <<fails, boots>>
  PROVE  Log!AppendSample(s)
  <1>1. StoredNow' = StoredNow /\ OpenNow' = OpenNow
    BY ViewSame
  <1>2. /\ s \in OpenNow /\ RamNow[s] = InRam(s) /\ StoredNow[s] = Readable(s)
        /\ RamNow'[s] = Append(InRam(s), x)
    BY ViewAt
  <1>3. RamNow' = [RamNow EXCEPT ![s] = Append(RamNow[s], x)]
    BY <1>2, ViewChange
  <1>4. RamNow' # RamNow
    <2>1. Append(InRam(s), x) # InRam(s)
      <3>1. Len(Append(InRam(s), x)) = Len(InRam(s)) + 1 /\ Len(InRam(s)) \in Nat
        BY AppendProperties, LenProperties
      <3> QED BY <3>1
    <2> QED BY <1>2, <2>1
  <1>5. Len(RamNow[s]) < Capacity /\ x \in Samples \ (Range(StoredNow[s]) \cup Range(RamNow[s]))
    BY <1>2
  <1> QED BY <1>1, <1>2, <1>3, <1>4, <1>5 DEF Log!AppendSample, StoredNow, RamNow, OpenNow, Log!Range, Range

LEMMA LogRecover ==
  ASSUME TsInv, TsInv', NEW s, NEW l \in Seq(Samples), Recovered(s, l), l # <<>>, fails > 0,
         UNCHANGED <<fails, boots>>
  PROVE  Log!Recover(s)
  <1>1. /\ s \in Streams /\ Open(s) # {} /\ Readable(s) = Cat(Readable(s)', l) /\ InRam(s) = <<>>
        /\ \A u \in Streams : u # s => Readable(u)' = Readable(u)
        /\ \A u \in Streams : InRam(u)' = InRam(u) /\ Open(u)' = Open(u)
    BY DEF Recovered
  <1>2. PICK a \in Seq(Samples) : a = Readable(s)'
    BY <1>1, ReadableNext
  <1>3. Parted(Cat(a, l), a, Len(a), l, Len(l))
    BY CatParts
  <1>4. PICK q, n, m : q = Readable(s) /\ n = Len(a) /\ m = Len(l)
    OBVIOUS
  <1>5. Parted(q, a, n, l, m)
    BY <1>1, <1>2, <1>3, <1>4, Zenon
  <1>6. n \in Nat /\ m \in Nat /\ Len(q) = n + m /\ SubSeq(q, 1, n) = a /\ q \in Seq(Samples)
    BY <1>5 DEF Parted
  <1>7. n \in 0..Len(q) /\ a # q
    <2>1. m # 0
      BY <1>4, EmptySeq
    <2> QED BY <1>4, <1>6, <2>1
  <1>8. /\ s \in OpenNow /\ OpenNow' = OpenNow /\ RamNow[s] = <<>> /\ RamNow' = RamNow
        /\ StoredNow[s] = q /\ StoredNow'[s] = a
    BY <1>1, <1>2, <1>4, ViewSame, ViewAt
  <1>9. StoredNow' = [StoredNow EXCEPT ![s] = SubSeq(StoredNow[s], 1, n)] /\ StoredNow' # StoredNow
    <2>1. StoredNow' = [StoredNow EXCEPT ![s] = a]
      BY <1>1, <1>2, ViewChange
    <2> QED BY <1>6, <1>7, <1>8, <2>1
  <1>10. n \in 0..Len(StoredNow[s])
    BY <1>7, <1>8
  <1> QED BY <1>8, <1>9, <1>10 DEF Log!Recover, StoredNow, RamNow, OpenNow

LEMMA LogDiscard ==
  ASSUME TsInv, TsInv', NEW s, NEW b \in Seq(Samples), Discarded(s, b), b # <<>>,
         fails > 0 \/ Len(Readable(s)') >= (MaxSegments - 1) * SegmentRecords,
         UNCHANGED <<fails, boots>>
  PROVE  Log!Discard(s)
  <1>1. /\ s \in Streams /\ Open(s) # {} /\ Readable(s) = Cat(b, Readable(s)')
        /\ \A u \in Streams : u # s => Readable(u)' = Readable(u)
        /\ \A u \in Streams : InRam(u)' = InRam(u) /\ Open(u)' = Open(u)
    BY DEF Discarded
  <1>2. PICK c \in Seq(Samples) : c = Readable(s)'
    BY <1>1, ReadableNext
  <1>3. Parted(Cat(b, c), b, Len(b), c, Len(c))
    BY CatParts
  <1>4. PICK q, m, n : q = Readable(s) /\ m = Len(b) /\ n = Len(c)
    OBVIOUS
  <1>5. Parted(q, b, m, c, n)
    BY <1>1, <1>2, <1>3, <1>4, Zenon
  <1>6. /\ n \in Nat /\ m \in Nat /\ Len(q) = m + n /\ SubSeq(q, m + 1, m + n) = c
        /\ q \in Seq(Samples)
    BY <1>5 DEF Parted
  <1>7. n \in 0..Len(q) /\ c # q /\ Len(q) - n + 1 = m + 1
    <2>1. m # 0
      BY <1>4, EmptySeq
    <2> QED BY <1>4, <1>6, <2>1
  <1>8. SubSeq(q, Len(q) - n + 1, Len(q)) = c
    BY <1>6, <1>7, Zenon
  <1>9. /\ s \in OpenNow /\ OpenNow' = OpenNow /\ RamNow' = RamNow
        /\ StoredNow[s] = q /\ StoredNow'[s] = c
    BY <1>1, <1>2, <1>4, ViewSame, ViewAt
  <1>10. /\ StoredNow' = [StoredNow EXCEPT ![s] =
                            SubSeq(StoredNow[s], Len(StoredNow[s]) - n + 1, Len(StoredNow[s]))]
         /\ StoredNow' # StoredNow
    <2>1. StoredNow' = [StoredNow EXCEPT ![s] = c]
      BY <1>1, <1>2, ViewChange
    <2>2. StoredNow' # StoredNow
      BY <1>7, <1>9
    <2> QED BY <1>8, <1>9, <2>1, <2>2, Zenon
  <1>11. n \in 0..Len(StoredNow[s]) /\ (fails > 0 \/ n >= (MaxSegments - 1) * SegmentRecords)
    BY <1>2, <1>4, <1>7, <1>9
  <1> QED BY <1>9, <1>10, <1>11 DEF Log!Discard, StoredNow, RamNow, OpenNow

LEMMA LogDamage ==
  ASSUME TsInv, NEW s \in Streams, NEW a, NEW h, NEW c, Rotted(s, a, h, c),
         fails' = fails + 1, boots' = boots
  PROVE  Log!Damage(s)
  <1>1. /\ a \in Seq(Samples) /\ h \in Seq(Samples) /\ c \in Seq(Samples) /\ Len(h) = 1
        /\ Readable(s) = Cat(a, Cat(h, c)) /\ Readable(s)' = Cat(a, c) /\ Open(s) = {}
        /\ \A u \in Streams : u # s => Readable(u)' = Readable(u)
        /\ \A u \in Streams : InRam(u)' = InRam(u) /\ Open(u)' = Open(u)
    BY DEF Rotted
  <1>2. PICK q : q = Readable(s)
    OBVIOUS
  <1>3. PICK i \in 1..Len(q) : RemoveAt(q, i) = Cat(a, c)
    <2>1. q = Cat(a, Cat(h, c))
      BY <1>1, <1>2
    <2>2. Removes(q, Cat(a, c))
      BY <1>1, <2>1, CatRemove
    <2> QED BY <2>2 DEF Removes
  <1>4. s \notin OpenNow /\ OpenNow' = OpenNow /\ RamNow' = RamNow /\ StoredNow[s] = q
    BY <1>1, <1>2, ViewSame, ViewAt
  <1>5. StoredNow' = [StoredNow EXCEPT ![s] = RemoveAt(StoredNow[s], i)]
    <2>1. StoredNow' = [StoredNow EXCEPT ![s] = Cat(a, c)]
      BY <1>1, ViewChange
    <2> QED BY <1>3, <1>4, <2>1, Zenon
  <1>6. i \in 1..Len(StoredNow[s])
    BY <1>4
  <1>7. fails' > 0
    BY FailsType
  <1> QED BY <1>4, <1>5, <1>6, <1>7 DEF Log!Damage, StoredNow, RamNow, OpenNow, Log!RemoveAt, RemoveAt

LEMMA NothingBuffered ==
  ASSUME TsInv, Buffered = {}, NEW u \in Streams
  PROVE  InRam(u) = <<>>
  <1>1. PICK q \in Seq(Samples) : q = InRam(u)
    BY RamType
  <1>2. CASE Open(u) = {}
    BY <1>2, InRamIs, RamInIs
  <1>3. CASE Open(u) # {}
    <2>1. PICK i \in Slots : Open(u) = {i} /\ slots[i].buf = q
      <3>1. PICK i : i \in Open(u)
        BY <1>3
      <3>2. i \in Slots /\ Open(u) = {i}
        BY <3>1, OpenOne DEF TsInv, StoreInv
      <3>3. OpenIn(slots, u) = {i} /\ RamIn(slots, u) = q
        BY <1>1, <3>2, InRamIs
      <3>4. slots[i].buf = q
        BY <3>2, <3>3, RamInIs
      <3> QED BY <3>2, <3>4
    <2>2. Range(q) = {}
      BY <2>1 DEF Buffered
    <2>3. Len(q) = 0
      <3>1. ASSUME Len(q) # 0 PROVE FALSE
        <4>1. 1 \in DOMAIN q
          BY <1>1, <3>1
        <4> QED BY <2>2, <4>1 DEF Range
      <3> QED BY <3>1
    <2> QED BY <1>1, <2>3
  <1> QED BY <1>2, <1>3

LEMMA LogPowerLoss ==
  ASSUME TsInv, Ended, fails' = fails, boots' = boots + 1
  PROVE  Log!PowerLoss
  <1>1. \A u \in Streams : InRam(u)' = <<>> /\ Open(u)' = {} /\ \E e, r : Ends(u, e, r)
    BY DEF Ended
  <1>2. /\ RamNow' = [s \in Streams |-> <<>>] /\ OpenNow' = {} /\ DOMAIN StoredNow' = Streams
    BY <1>1 DEF RamNow, OpenNow, StoredNow
  <1>3. ASSUME NEW u \in Streams
        PROVE  \E n \in 0..Len(RamNow[u]) :
                 StoredNow'[u] = StoredNow[u] \o SubSeq(RamNow[u], 1, n)
    <2>1. PICK e, r : Ends(u, e, r)
      BY <1>1
    <2>2. e \in Seq(Samples) /\ r \in Seq(Samples) /\ InRam(u) = Cat(e, r)
          /\ Readable(u)' = Cat(Readable(u), e)
      BY <2>1 DEF Ends
    <2>3. PICK q, n, m : q = InRam(u) /\ n = Len(e) /\ m = Len(r)
      OBVIOUS
    <2>4. Parted(Cat(e, r), e, Len(e), r, Len(r))
      BY <2>2, CatParts
    <2>5. Parted(q, e, n, r, m)
      BY <2>2, <2>3, <2>4, Zenon
    <2>6. n \in Nat /\ m \in Nat /\ Len(q) = n + m /\ SubSeq(q, 1, n) = e
      BY <2>5 DEF Parted
    <2>7. RamNow[u] = q /\ StoredNow[u] = Readable(u) /\ StoredNow'[u] = Readable(u)'
      BY <2>3, ViewAt
    <2>8. n \in 0..Len(RamNow[u])
      BY <2>6, <2>7
    <2>9. StoredNow'[u] = StoredNow[u] \o SubSeq(RamNow[u], 1, n)
      BY <2>2, <2>6, <2>7, Zenon DEF Cat
    <2> QED BY <2>8, <2>9
  <1> QED BY <1>2, <1>3 DEF Log!PowerLoss, StoredNow, RamNow, OpenNow

LEMMA LogShutdown ==
  ASSUME Ended, Buffered = {}, TsInv, UNCHANGED <<fails, boots>>
  PROVE  Log!Shutdown
  <1>1. \A u \in Streams : InRam(u)' = <<>> /\ Open(u)' = {} /\ \E e, r : Ends(u, e, r)
    BY DEF Ended
  <1>2. RamNow' = [s \in Streams |-> <<>>] /\ OpenNow' = {}
    BY <1>1 DEF RamNow, OpenNow
  <1>3. ASSUME NEW u \in Streams
        PROVE  StoredNow'[u] = StoredNow[u] \o RamNow[u]
    <2>1. PICK e, r : Ends(u, e, r)
      BY <1>1
    <2>2. e \in Seq(Samples) /\ r \in Seq(Samples) /\ InRam(u) = Cat(e, r)
          /\ Readable(u)' = Cat(Readable(u), e)
      BY <2>1 DEF Ends
    <2>3. PICK q, n, m : q = InRam(u) /\ n = Len(e) /\ m = Len(r)
      OBVIOUS
    <2>4. Parted(Cat(e, r), e, Len(e), r, Len(r))
      BY <2>2, CatParts
    <2>5. Parted(q, e, n, r, m)
      BY <2>2, <2>3, <2>4, Zenon
    <2>6. n \in Nat /\ m \in Nat /\ Len(q) = n + m
      BY <2>5 DEF Parted
    <2>7. q = <<>>
      BY <2>3, NothingBuffered
    <2>8. n = 0
      BY <2>6, <2>7
    <2>9. e = q
      <3>1. Len(e) = 0 /\ e \in Seq(Samples)
        BY <2>2, <2>3, <2>8
      <3>2. e = <<>>
        BY <3>1
      <3> QED BY <2>7, <3>2
    <2>10. RamNow[u] = q /\ StoredNow[u] = Readable(u) /\ StoredNow'[u] = Readable(u)'
      BY <2>3, ViewAt
    <2> QED BY <2>2, <2>9, <2>10, Zenon DEF Cat
  <1>4. StoredNow' = [s \in Streams |-> StoredNow[s] \o RamNow[s]]
    BY <1>3 DEF StoredNow
  <1> QED BY <1>2, <1>4 DEF Log!Shutdown, StoredNow, RamNow, OpenNow

LEMMA LogBegins ==
  ASSUME TsInv, Init
  PROVE  Log!Init
  <1>1. slots = [i \in Slots |-> FreeSlot] /\ disk = [s \in Streams |-> <<>>] /\ fails = 0 /\ boots = 0
    BY DEF Init
  <1>2. \A i \in Slots : ~slots[i].used
    BY <1>1 DEF FreeSlot
  <1>3. \A s \in Streams : Open(s) = {} /\ InRam(s) = <<>>
    BY <1>2, InRamIs, RamInIs DEF Open
  <1>4. ASSUME NEW s \in Streams PROVE Readable(s) = <<>>
    <2>1. PICK fs : fs = disk[s]
      OBVIOUS
    <2>2. DOMAIN fs = {}
      BY <1>1, <2>1
    <2>3. FileSet(fs) /\ UpTo(fs, 0) /\ 0 \in Nat
      BY <2>2 DEF FileSet, UpTo
    <2>4. StoredIn(fs) = Joined(Shown(fs))[0]
      BY <2>3, StoredIs
    <2>5. Joined(Shown(fs))[0] = Shown(fs)[0] /\ Shown(fs)[0] = <<>>
      BY <2>2, JoinedIs DEF Shown
    <2> QED BY <2>1, <2>4, <2>5, ReadableIs
  <1>5. /\ StoredNow = [s \in Streams |-> <<>>] /\ RamNow = [s \in Streams |-> <<>>]
        /\ OpenNow = {}
    BY <1>3, <1>4 DEF StoredNow, RamNow, OpenNow
  <1> QED BY <1>1, <1>5 DEF Log!Init, StoredNow, RamNow, OpenNow

--------------------------------------------------------------------------------
(* Every step of the store is a step of the log, or leaves it alone *)

(* The application writes its samples out before it calls zdb_deinit(). *)
DrainedAssumptions == QuietAssumptions /\ TRUE \notin Deinits

StepsLog == Log!Next \/ UNCHANGED Log!vars

LEMMA UntouchedMaps ==
  ASSUME Untouched, UNCHANGED <<fails, boots>>
  PROVE  StepsLog
  BY UntouchedView, LogStutters DEF StepsLog

LEMMA SameMaps ==
  ASSUME UNCHANGED <<disk, slots, log, gone, made, fails, boots>>
  PROVE  StepsLog
  BY SameUntouched, UntouchedMaps

LEMMA AppendFresh ==
  ASSUME TsInv, LogInv, NEW s \in Streams
  PROVE  made + 1 \notin Range(Readable(s)) \cup Range(InRam(s))
  <1>1. PICK a \in Seq(Samples), b \in Seq(Samples) : a = Readable(s) /\ b = InRam(s)
    BY RamType
  <1>2. Range(Cat(a, b)) = Range(a) \cup Range(b)
    BY CatRange
  <1>3. Cat(a, b) = Only(log[s], Samples \ gone)
    BY <1>1 DEF LogInv, KeptInv
  <1>4. Range(Only(log[s], Samples \ gone)) = Range(log[s]) \cap (Samples \ gone)
    BY LogType, OnlyRange
  <1>5. Range(log[s]) \subseteq 1..made /\ made \in Nat
    BY LogType DEF LogInv, HistInv
  <1>6. made + 1 \notin 1..made
    BY <1>5
  <1> QED BY <1>1, <1>2, <1>3, <1>4, <1>5, <1>6

LEMMA AppendMaps ==
  ASSUME TsInv, TsInv', LogInv, NEW t \in Threads, AppendBuffer(t)
  PROVE  StepsLog
  <1>1. PICK s, x : s = hd[t] /\ x = made + 1
    OBVIOUS
  <1>2. /\ s \in Streams /\ x \in Samples /\ Open(s) # {} /\ Len(InRam(s)) < Capacity
        /\ InRam(s)' = Append(InRam(s), x)
        /\ \A u \in Streams : u # s => InRam(u)' = InRam(u)
        /\ \A u \in Streams : Readable(u)' = Readable(u) /\ Open(u)' = Open(u)
        /\ UNCHANGED <<fails, boots>>
    BY <1>1, AppendView
  <1>3. x \notin Range(Readable(s)) \cup Range(InRam(s)) /\ InRam(s) \in Seq(Samples)
    BY <1>1, <1>2, AppendFresh, RamType
  <1>4. Log!AppendSample(s)
    BY <1>2, <1>3, LogAppend
  <1> QED BY <1>2, <1>4 DEF StepsLog, Log!Next

LEMMA ClaimMaps ==
  ASSUME TsInv, NEW t \in Threads, OpenClaim(t)
  PROVE  StepsLog
  <1>1. PICK s : s = hd[t]
    OBVIOUS
  <1>2. UNCHANGED <<fails, boots>>
    BY <1>1, ClaimView
  <1>3. CASE Untouched
    BY <1>2, <1>3, UntouchedMaps
  <1>4. CASE ~Untouched
    <2>1. /\ s \in Streams /\ Open(s) = {} /\ Open(s)' # {}
          /\ \A u \in Streams : Readable(u)' = Readable(u) /\ InRam(u)' = InRam(u)
          /\ \A u \in Streams : u # s => Open(u)' = Open(u)
      BY <1>1, <1>4, ClaimView
    <2>2. Log!Claim(s)
      BY <1>2, <2>1, LogClaim
    <2> QED BY <2>1, <2>2 DEF StepsLog, Log!Next
  <1> QED BY <1>3, <1>4

LEMMA ReleaseMaps ==
  ASSUME TsInv, CloseInv, NEW t \in Threads, CloseRelease(t)
  PROVE  StepsLog
  <1>1. PICK s : s = hd[t]
    OBVIOUS
  <1>2. UNCHANGED <<fails, boots>>
    BY <1>1, ReleaseView
  <1>3. CASE Untouched
    BY <1>2, <1>3, UntouchedMaps
  <1>4. CASE ~Untouched
    <2>1. /\ s \in Streams /\ Open(s) # {} /\ Open(s)' = {} /\ InRam(s)' = <<>>
          /\ slots[at[t]].count <= 1 /\ slots[at[t]].buf = InRam(s)
          /\ \A u \in Streams : Readable(u)' = Readable(u)
          /\ \A u \in Streams : u # s => Open(u)' = Open(u) /\ InRam(u)' = InRam(u)
      BY <1>1, <1>4, ReleaseView
    <2>2. CloseDone(t)
      BY DEF CloseInv
    <2>3. InRam(s) = <<>>
      BY <2>1, <2>2 DEF CloseDone, CloseRelease
    <2>4. Log!Release(s)
      BY <1>2, <2>1, <2>3, LogRelease
    <2> QED BY <2>1, <2>4 DEF StepsLog, Log!Next
  <1> QED BY <1>3, <1>4

LEMMA FlushMaps ==
  ASSUME LogAssumptions, TsInv, LogInv, NEW a \in Actors, FlushWrite(a) \/ StartSegment(a)
  PROVE  StepsLog
  <1>1. CASE StartSegment(a)
    <2>1. Unseen /\ UNCHANGED <<fails, boots>>
      BY <1>1, StartView DEF LogInv
    <2> QED BY <2>1, LogStutters DEF StepsLog
  <1>2. CASE FlushWrite(a)
    <2>1. PICK s : s = slots[at[a]].name
      OBVIOUS
    <2>2. UNCHANGED <<fails, boots>> /\ (Untouched \/ Flushed(s))
      BY <1>2, <2>1, FlushView DEF LogInv
    <2>3. CASE Untouched
      BY <2>2, <2>3, UntouchedMaps
    <2>4. CASE Flushed(s)
      <3>1. Log!Flush(s)
        BY <2>2, <2>4, LogFlush
      <3>2. s \in Streams
        BY <2>4 DEF Flushed
      <3> QED BY <3>1, <3>2 DEF StepsLog, Log!Next
    <2> QED BY <2>2, <2>3, <2>4
  <1> QED BY <1>1, <1>2

LEMMA DiscardMaps ==
  ASSUME QuietAssumptions, TsInv, TsInv', LogInv, RetainInv, NEW a \in Actors, DiscardOldest(a)
  PROVE  StepsLog
  <1>1. PICK s, b : s = slots[at[a]].name /\ b = Read(FileAt(s, slots[at[a]].oldest))
    OBVIOUS
  <1>2. LogAssumptions /\ "unlink" \notin Faults /\ "header" \notin Faults
    BY DEF QuietAssumptions, LogAssumptions
  <1>3. UNCHANGED <<fails, boots>> /\ b \in Seq(Samples) /\ (Untouched \/ Discarded(s, b))
    BY <1>1, <1>2, DiscardView DEF LogInv
  <1>4. CASE Untouched
    BY <1>3, <1>4, UntouchedMaps
  <1>5. CASE Discarded(s, b) /\ b = <<>>
    <2>1. s \in Streams /\ Readable(s) = Cat(<<>>, Readable(s)')
      BY <1>5 DEF Discarded
    <2>2. PICK c \in Seq(Samples) : c = Readable(s)'
      BY <2>1, ReadableNext
    <2>3. Cat(<<>>, c) = c
      BY CatEmpty
    <2>4. Readable(s)' = Readable(s)
      BY <2>1, <2>2, <2>3, Zenon
    <2>5. Unseen
      BY <1>5, <2>4 DEF Unseen, Discarded
    <2> QED BY <1>3, <2>5, LogStutters DEF StepsLog
  <1>6. CASE Discarded(s, b) /\ b # <<>>
    <2>1. s \in Streams
      BY <1>6 DEF Discarded
    <2>2. fails > 0 \/ Len(Readable(s)') >= (MaxSegments - 1) * SegmentRecords
      <3> SUFFICES ASSUME fails = 0
                   PROVE  Len(Readable(s)') >= (MaxSegments - 1) * SegmentRecords
        BY FailsType
      <3>1. PICK o, k : LeftOver(disk'[s], o, k)
        BY <1>1, <1>3, DiscardWindow
      <3>2. PICK gs : gs = disk'[s]
        OBVIOUS
      <3>3. Headed(gs)
        BY <1>2, <2>1, <3>2 DEF Headed, TsInv, StoreInv, HeaderInv, FilesHeaded
      <3>4. Len(StoredIn(gs)) >= (MaxSegments - 1) * SegmentRecords
        BY <3>1, <3>2, <3>3, LeftReadable
      <3>5. Readable(s)' = StoredIn(gs)
        BY <3>2, ReadableIs
      <3> QED BY <3>4, <3>5
    <2>3. Log!Discard(s)
      BY <1>3, <1>6, <2>2, LogDiscard
    <2> QED BY <2>1, <2>3 DEF StepsLog, Log!Next
  <1> QED BY <1>3, <1>4, <1>5, <1>6

LEMMA RecoverMaps ==
  ASSUME LogAssumptions, TsInv, TsInv', LogInv, RetainInv, NEW t \in Threads, OpenRecover(t)
  PROVE  StepsLog
  <1>1. PICK s, i, n, f, g, x : Recovers(s, i, n, f, g, x)
    BY RecoverIs
  <1>2. PICK l : l = CutOff(f.recs)
    OBVIOUS
  <1>3. l \in Seq(Samples) /\ Recovered(s, l)
    BY <1>1, <1>2, RecoverView DEF LogInv
  <1>4. UNCHANGED <<fails, boots>>
    BY <1>1 DEF Recovers
  <1>5. s \in Streams
    BY <1>3 DEF Recovered
  <1>6. CASE l = <<>>
    <2>1. Readable(s) = Cat(Readable(s)', <<>>)
      BY <1>3, <1>6 DEF Recovered
    <2>2. PICK c \in Seq(Samples) : c = Readable(s)'
      BY <1>5, ReadableNext
    <2>3. Cat(c, <<>>) = c
      BY CatEmpty
    <2>4. Readable(s)' = Readable(s)
      BY <2>1, <2>2, <2>3, Zenon
    <2>5. Unseen
      BY <1>3, <2>4 DEF Unseen, Recovered
    <2> QED BY <1>4, <2>5, LogStutters DEF StepsLog
  <1>7. CASE l # <<>>
    <2>1. fails > 0
      <3>1. \E m \in DOMAIN disk[s] : Bad \in Range(disk[s][m].recs)
        BY <1>3, <1>7 DEF Recovered
      <3>2. fails # 0
        BY <1>5, <3>1 DEF RetainInv, Sealed
      <3> QED BY <3>2, FailsType
    <2>2. Log!Recover(s)
      BY <1>3, <1>4, <1>7, <2>1, LogRecover
    <2> QED BY <1>5, <2>2 DEF StepsLog, Log!Next
  <1> QED BY <1>6, <1>7

LEMMA RotMaps ==
  ASSUME LogAssumptions, TsInv, LogInv, NEW s \in Streams, Rot(s)
  PROVE  StepsLog
  <1>1. boots' = boots /\ fails' = fails + 1 /\ \E a, h, c : Rotted(s, a, h, c)
    BY RotView DEF LogInv
  <1>2. Log!Damage(s)
    BY <1>1, LogDamage
  <1> QED BY <1>2 DEF StepsLog, Log!Next

LEMMA EndMaps ==
  ASSUME DrainedAssumptions, TsInv, LogInv, PowerLoss \/ Deinit
  PROVE  StepsLog
  <1>1. Ended /\ fails' = fails
    BY EndView DEF LogInv, DrainedAssumptions, QuietAssumptions
  <1>2. CASE PowerLoss
    <2>1. Log!PowerLoss
      BY <1>1, <1>2, LogPowerLoss DEF PowerLoss
    <2> QED BY <2>1 DEF StepsLog, Log!Next
  <1>3. CASE Deinit
    <2>1. (Buffered # {}) \in Deinits /\ TRUE \notin Deinits /\ boots' = boots
      BY <1>3 DEF Deinit, DrainedAssumptions
    <2>2. Buffered = {}
      <3>1. ASSUME Buffered # {} PROVE FALSE
        <4>1. (Buffered # {}) = TRUE
          BY <3>1
        <4> QED BY <2>1, <4>1, Zenon
      <3> QED BY <3>1
    <2>3. Log!Shutdown
      BY <1>1, <2>1, <2>2, LogShutdown
    <2> QED BY <2>3 DEF StepsLog, Log!Next
  <1> QED BY <1>2, <1>3

LEMMA FlushStepMaps ==
  ASSUME QuietAssumptions, TsInv, TsInv', LogInv, RetainInv, NEW a \in Actors, FlushStep(a)
  PROVE  StepsLog
  BY FlushMaps, DiscardMaps DEF FlushStep, QuietAssumptions

LEMMA StepMaps ==
  ASSUME DrainedAssumptions, TsInv, TsInv', LogInv, RetainInv, CloseInv, [Next]_vars
  PROVE  StepsLog
  <1>0. QuietAssumptions /\ LogAssumptions /\ "submit" \notin Faults
    BY DEF DrainedAssumptions, QuietAssumptions
  <1>1. ASSUME NEW t \in Threads, Call(t) PROVE StepsLog
    <2>1. UNCHANGED <<disk, slots, log, gone, made, fails, boots>>
      BY <1>1, CallsTouchNothing DEF Call
    <2> QED BY <2>1, SameMaps
  <1>2. ASSUME NEW t \in Threads, InCall(t) PROVE StepsLog
    <2>1. t \in Actors
      BY ActorsAre
    <2>2. CASE OpenJoin(t) \/ AppendFails(t)
      BY <2>2, OpenJoinUntouched, AppendFailsUntouched, UntouchedMaps
    <2>3. CASE OpenClaim(t) \/ OpenRecover(t)
      BY <1>0, <2>3, ClaimMaps, RecoverMaps
    <2>4. CASE FlushStep(t)
      BY <1>0, <2>1, <2>4, FlushStepMaps
    <2>5. CASE AppendBuffer(t) \/ CloseRelease(t)
      BY <2>5, AppendMaps, ReleaseMaps
    <2>6. CASE BatchFull(t)
      <3>1. UNCHANGED <<disk, slots, log, gone, made, fails, boots>>
        BY <2>6, CallsTouchNothing
      <3> QED BY <3>1, SameMaps
    <2>7. CASE FlushNotQueued(t) \/ SyncCheck(t) \/ SyncTake(t) \/ SyncWoken(t) \/ SyncReturn(t)
      <3>1. UNCHANGED <<disk, slots, log, gone, made, fails, boots>>
        BY <1>0, <2>7, FlushCallsTouchNothing
      <3> QED BY <3>1, SameMaps
    <2> QED BY <1>2, <2>2, <2>3, <2>4, <2>5, <2>6, <2>7 DEF InCall
  <1>3. ASSUME NEW t \in Threads, WaitsForLock(t) \/ SyncTimeout(t) PROVE StepsLog
    <2>1. UNCHANGED <<disk, slots, log, gone, made, fails, boots>>
      BY <1>0, <1>3, CallsTouchNothing, FlushCallsTouchNothing DEF WaitsForLock
    <2> QED BY <2>1, SameMaps
  <1>4. CASE WorkerStep \/ WorkerLock
    <2>1. CASE WorkerStart \/ WorkerLock \/ DrainNext
      <3>1. UNCHANGED <<disk, slots, log, gone, made, fails, boots>>
        BY <2>1, WorkerTouchesNothing
      <3> QED BY <3>1, SameMaps
    <2>2. CASE DrainDone \/ WorkerEnd
      BY <2>2, DrainDoneUntouched, WorkerEndUntouched, UntouchedMaps
    <2>3. CASE FlushStep(Worker)
      BY <1>0, <2>3, ActorsAre, FlushStepMaps
    <2> QED BY <1>4, <2>1, <2>2, <2>3 DEF WorkerStep
  <1>5. ASSUME NEW s \in Streams, Rot(s) PROVE StepsLog
    BY <1>0, <1>5, RotMaps
  <1>6. CASE PowerLoss \/ Deinit
    BY <1>6, EndMaps
  <1>7. CASE UNCHANGED vars
    BY <1>7, SameMaps DEF vars
  <1> QED
    BY <1>1, <1>2, <1>3, <1>4, <1>5, <1>6, <1>7 DEF Next, UpNext

(* The time-series store keeps its promise: whatever the threads and the work   *)
(* queue do at the same time, and wherever the power goes, each append puts one *)
(* new sample at the end of its stream's log, a flush, by whoever runs it,      *)
(* moves all of the buffer into storage and in order, the last close leaves     *)
(* nothing in RAM, a power loss costs a suffix of the buffer and nothing that   *)
(* was flushed, a deinit nothing, and rollover takes the oldest samples only    *)
(* and leaves MaxSegments - 1 segments of them; samples leave from the middle   *)
(* or the new end only after a record went bad.  Records may go bad; failing    *)
(* calls are excluded: a failed write repeats records and lets the last close   *)
(* drop its buffer, and a failed unlink or submit counts as damage, which the   *)
(* log does not see.  A deinit that finds buffered samples is excluded too: it  *)
(* drops them, against the promise (DeinitKeepsSamples).                        *)
THEOREM LogImplemented ==
  ASSUME DrainedAssumptions
  PROVE  Spec => ImplementsLog
  <1> DEFINE I == TsInv /\ LogInv /\ RetainInv /\ CloseInv
  <1>0. QuietAssumptions /\ LogAssumptions /\ TsAssumptions
    BY DEF DrainedAssumptions, QuietAssumptions, LogAssumptions
  <1>1. Init => I
    BY <1>0, TsInit, LogInit, RetainInit, CloseInit
  <1>2. I /\ [Next]_vars => I'
    BY <1>0, TsNext, LogNext, RetainNext, CloseNext
  <1>3. Init => Log!Init
    BY <1>0, TsInit, LogBegins
  <1>4. I /\ I' /\ [Next]_vars => [Log!Next]_(Log!vars)
    BY StepMaps DEF StepsLog
  <1> HIDE DEF I
  <1> QED
    BY <1>1, <1>2, <1>3, <1>4, PTL DEF Spec, ImplementsLog, Log!Spec
================================================================================
