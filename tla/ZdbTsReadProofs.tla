---------------------------- MODULE ZdbTsReadProofs ----------------------------
(******************************************************************************)
(* Theorems about the readers of the time-series store, ZdbTsRead, for every  *)
(* number of threads, readers, streams, segments and samples.                 *)
(* The invariants of the store alone, TsInv and LogInv, are carried over to   *)
(* the specification with readers first: a reader only looks, except for the  *)
(* consumer that takes the lock to write its watermark (MarkInv).             *)
(* Then ReadInv: as long as nothing runs into a walk, all that is due to it   *)
(* was returned or lies ahead of its cursor, in order, over segment files     *)
(* and ingest buffer and in both directions.  A walk that ends has nothing    *)
(* ahead, so it is complete; an aggregate is what its walk returned; and a    *)
(* consumer whose mark is the last sample of its walk has seen everything     *)
(* below (FeedInv).                                                           *)
(******************************************************************************)
EXTENDS ZdbTsRead, ZdbTsLogProofs

--------------------------------------------------------------------------------
(* The store beside its readers *)

Stops == {"idle", "open", "file", "find", "ram", "answer", "mark"}

(* A consumer that writes its watermark owns the lock, in no call of the store, *)
(* and no slot owes the listeners anything meanwhile.                           *)
MarkInv ==
  /\ place \in [Readers -> Stops]
  /\ \A r \in Readers : place[r] = "mark" =>
        lock = r /\ pc[r] = "idle" /\ \A i \in Slots : slots[i].pend = 0

LEMMA ReaderActs == ASSUME NEW r \in Readers PROVE r \in Threads /\ r \in Actors /\ r # NoActor
  BY ReadConstants, TsConstants DEF Actors

(* As long as a consumer owns the lock, the others leave it and what the slots  *)
(* recorded alone.                                                              *)
LEMMA HeldStays ==
  ASSUME LogAssumptions, TsInv, NEW r \in Actors, r # NoActor, lock = r, pc[r] = "idle",
         \A i \in Slots : slots[i].pend = 0, UpNext
  PROVE  lock' = r /\ \A i \in Slots : slots'[i].pend = 0
  <1> USE DEF TsInv, StoreInv
  <1>0. /\ \A a \in Actors : pc[a] \notin FlushPlaces \cup {"drain"}
        /\ Threads \subseteq Actors /\ Worker \in Actors
        /\ slots \in [Slots -> Slot] /\ at \in [Actors -> 0..MaxStreams]
    BY ActorsAre DEF ControlInv, FlushPlaces, TypeOK
  <1>1. ASSUME NEW t \in Threads, Call(t) PROVE lock' = r /\ slots' = slots
    BY <1>1 DEF Call, CallOpen, CallAppend, CallClose, CallFlushAsync, CallFlushSync
  <1>2. ASSUME NEW t \in Threads, OpenJoin(t) \/ OpenClaim(t)
        PROVE  lock' = r /\ \A i \in Slots : slots'[i].pend = 0
    <2>1. t \in Actors
      BY <1>0
    <2>2. CASE OpenJoin(t)
      <3>1. lock' = r /\ pc[t] = "join" /\ at[t] \in Slots
        BY <2>1, <2>2 DEF OpenJoin, PlaceInv, Open
      <3>2. \/ slots' = slots
            \/ slots' = [slots EXCEPT ![at[t]].count = slots[at[t]].count + 1]
        BY <2>2, Zenon DEF OpenJoin
      <3>3. PICK x, y : x = slots[at[t]] /\ y = [x EXCEPT !.count = x.count + 1]
        OBVIOUS
      <3>4. x \in Slot /\ x.pend = 0 /\ y.pend = x.pend
        BY <1>0, <3>1, <3>3 DEF Slot
      <3>5. slots' = slots \/ slots' = [slots EXCEPT ![at[t]] = y]
        BY <3>2, <3>3
      <3> QED BY <1>0, <3>1, <3>4, <3>5
    <2>3. CASE OpenClaim(t)
      <3>1. lock' = r /\ pc[t] = "claim" /\ at[t] \in Slots
        BY <2>1, <2>3 DEF OpenClaim, PlaceInv
      <3>2. \/ slots' = [slots EXCEPT ![at[t]] = FreeSlot]
            \/ slots' = [slots EXCEPT ![at[t]] = [FreeSlot EXCEPT !.used = TRUE, !.name = hd[t],
                                                                 !.count = 1]]
        BY <2>3, Zenon DEF OpenClaim
      <3>3. PICK y : y = [FreeSlot EXCEPT !.used = TRUE, !.name = hd[t], !.count = 1]
        OBVIOUS
      <3>4. y.pend = FreeSlot.pend /\ FreeSlot.pend = 0
        BY <3>3 DEF FreeSlot
      <3>5. slots' = [slots EXCEPT ![at[t]] = FreeSlot] \/ slots' = [slots EXCEPT ![at[t]] = y]
        BY <3>2, <3>3
      <3> QED BY <1>0, <3>1, <3>4, <3>5
    <2> QED BY <1>2, <2>2, <2>3
  <1>3. ASSUME NEW t \in Threads, OpenRecover(t)
        PROVE  lock' = r /\ \A i \in Slots : slots'[i].pend = 0
    <2>1. lock' = r
      BY <1>3 DEF OpenRecover
    <2>2. PICK s, i, n, f, g, x : Recovers(s, i, n, f, g, x)
      BY <1>3, RecoverIs, SMTT(30)
    <2>3. i \in Slots /\ slots[i] \in Slot /\ x = scan_segments(slots[i], s, f)
          /\ slots' = [slots EXCEPT ![i] = x]
      BY <2>2 DEF Recovers
    <2>4. x.pend = slots[i].pend
      BY <2>3 DEF scan_segments, Slot
    <2> QED BY <1>0, <2>1, <2>3, <2>4
  <1>4. ASSUME NEW t \in Threads, InCall(t) PROVE lock' = r /\ \A i \in Slots : slots'[i].pend = 0
    <2>1. t \in Actors
      BY <1>0
    <2>2. pc[t] \notin FlushPlaces
      BY <1>0, <2>1, SMTT(30)
    <2>3. ~(FlushStep(t) \/ AppendBuffer(t) \/ AppendFails(t) \/ CloseRelease(t))
      BY <2>2 DEF FlushStep, FlushWrite, StartSegment, DiscardOldest, AppendBuffer, AppendFails,
                  CloseRelease, FlushPlaces
    <2>4. CASE OpenJoin(t) \/ OpenClaim(t) \/ OpenRecover(t)
      BY <1>2, <1>3, <2>4
    <2>5. CASE BatchFull(t) \/ FlushNotQueued(t) \/ SyncCheck(t) \/ SyncTake(t) \/ SyncWoken(t)
               \/ SyncReturn(t)
      BY <2>5 DEF BatchFull, FlushNotQueued, SyncCheck, SyncTake, SyncWoken, SyncReturn
    <2> QED BY <1>4, <2>3, <2>4, <2>5 DEF InCall
  <1>5. ASSUME NEW t \in Threads, WaitsForLock(t) \/ SyncTimeout(t)
        PROVE  lock' = r /\ slots' = slots
    BY <1>5 DEF WaitsForLock, AppendLock, FlushAsync, SyncTimeout
  <1>6. CASE WorkerStep \/ WorkerLock
    <2>1. pc[Worker] \notin FlushPlaces \cup {"drain"}
      BY <1>0, SMTT(30)
    <2>2. WorkerStart
      BY <1>6, <2>1 DEF WorkerStep, WorkerLock, FlushStep, FlushWrite, StartSegment, DiscardOldest,
                        DrainNext, DrainDone, WorkerEnd, FlushPlaces
    <2> QED BY <2>2, SMTT(30) DEF WorkerStart
  <1>7. ASSUME NEW s \in Streams, Rot(s) PROVE lock' = r /\ slots' = slots
    BY <1>7 DEF Rot
  <1> QED BY <1>1, <1>4, <1>5, <1>6, <1>7 DEF UpNext

(* The lock changes hands, and nothing else, while nobody is in a flush. *)
LEMMA LockMoves ==
  ASSUME TsInv, \A a \in Actors : pc[a] \notin FlushPlaces \cup {"drain"},
         \A i \in Slots : slots[i].pend = 0,
         lock' \in Actors \cup {NoActor}, fails' \in 0..MaxFails,
         UNCHANGED <<disk, slots, blocks, pending, sem, queued, released, pc, at, hd, todo,
                     batch, drain, made, boots, log, gone, owed, unheard>>
  PROVE  TsInv'
  <1> USE DEF TsInv, StoreInv
  <1>1. TypeOK' /\ BoundInv'
    BY DEF TypeOK, BoundInv
  <1>2. ControlInv' /\ PlaceInv' /\ SlotInv'
    BY DEF ControlInv, PlaceInv, SlotInv, Opening, Open
  <1>3. \A u : Handles(u)' = Handles(u)
    BY DEF Handles
  <1>4. CountInv' /\ HeaderInv'
    BY <1>3 DEF CountInv, HeaderInv
  <1>5. EventInv' /\ SyncInv'
    BY DEF EventInv, SyncInv, Buffered
  <1> QED BY <1>1, <1>2, <1>4, <1>5

LEMMA AcknowledgeStep ==
  ASSUME TsInv, LogInv, MarkInv, NEW r \in Readers, Acknowledge(r)
  PROVE  TsInv' /\ LogInv' /\ MarkInv'
  <1> USE DEF TsInv, StoreInv
  <1>1. /\ r \in Actors /\ r # NoActor /\ lock = NoActor /\ lock' = r /\ pc[r] = "idle"
        /\ place' = [place EXCEPT ![r] = "mark"]
        /\ UNCHANGED <<disk, slots, blocks, pending, sem, queued, released, pc, at, hd, todo,
                       batch, drain, made, boots, fails, log, gone, owed, unheard>>
    BY ReaderActs DEF Acknowledge, MayRead, Calling, At, flushVars, callVars, sysVars, sampleVars
  <1>2. \A a \in Actors : pc[a] \notin FlushPlaces \cup {"drain"}
    BY <1>1, TsConstants DEF ControlInv, Actors
  <1>3. \A i \in Slots : slots[i].pend = 0
    BY <1>1 DEF EventInv
  <1>4. TsInv'
    <2>1. fails' \in 0..MaxFails
      BY <1>1 DEF TypeOK
    <2> QED BY <1>1, <1>2, <1>3, <2>1, LockMoves
  <1>5. LogInv'
    BY <1>1, SameUntouched, UntouchedStep
  <1>6. \A u \in Readers : place[u] # "mark"
    BY <1>1, ReaderActs DEF MarkInv
  <1>7. MarkInv'
    BY <1>1, <1>3, <1>6 DEF MarkInv, Stops
  <1> QED BY <1>4, <1>5, <1>7

LEMMA WriteMarkStep ==
  ASSUME TsInv, LogInv, MarkInv, NEW r \in Readers, WriteMark(r)
  PROVE  /\ TsInv' /\ LogInv' /\ MarkInv'
         /\ UNCHANGED <<disk, slots, log, gone, made, hd, pc>>
  <1> USE DEF TsInv, StoreInv
  <1>1. /\ r \in Actors /\ r # NoActor /\ lock = r /\ lock' = NoActor /\ pc[r] = "idle"
        /\ place[r] = "mark" /\ place' = [place EXCEPT ![r] = "idle"]
        /\ slots' = [i \in Slots |-> [slots[i] EXCEPT !.pend = 0]]
        /\ released' = 0 /\ unheard' = unheard - Pend(slots) - released - 0
        /\ UNCHANGED <<disk, blocks, pending, sem, queued, pc, at, hd, todo,
                       batch, drain, made, boots, log, gone, owed>>
    BY ReaderActs DEF WriteMark, MarkInv, Unlock, At, flushVars, callVars, sampleVars
  <1>2. \A i \in Slots : slots[i].pend = 0
    BY <1>1 DEF MarkInv
  <1>3. slots' = slots
    <2>1. \A i \in Slots : slots[i] \in Slot /\ [slots[i] EXCEPT !.pend = 0] = slots[i]
      BY <1>2 DEF TypeOK, Slot
    <2> QED BY <1>1, <2>1 DEF TypeOK
  <1>4. released' = released /\ unheard' = unheard
    <2>1. Pend(slots) = 0 /\ released = 0 /\ unheard \in Int
      BY <1>2, PendZero DEF EventInv, TypeOK
    <2> QED BY <1>1, <2>1
  <1>5. \A a \in Actors : pc[a] \notin FlushPlaces \cup {"drain"}
    BY <1>1 DEF ControlInv, FlushPlaces
  <1>6. fails' \in 0..MaxFails
    <2>1. fails' = fails \/ (fails < MaxFails /\ fails' = fails + 1)
      BY DEF WriteMark, Fault
    <2> QED BY <2>1, TsConstants DEF TypeOK
  <1>7. TsInv'
    BY <1>1, <1>2, <1>3, <1>4, <1>5, <1>6, LockMoves
  <1>8. LogInv'
    BY <1>1, <1>3, SameUntouched, UntouchedStep
  <1>9. MarkInv'
    <2>1. \A u \in Readers : u # r => place[u] # "mark"
      BY <1>1 DEF MarkInv
    <2> QED BY <1>1, <1>3, <2>1 DEF MarkInv, Stops
  <1> QED BY <1>1, <1>3, <1>7, <1>8, <1>9

(* Every other step of a reader looks at the store and changes nothing in it. *)
Looks(r) ==
  \/ CursorOpen(r) \/ CallAggregate(r) \/ Resume(r) \/ OpenFile(r)
  \/ CursorNext(r) \/ ReadFile(r) \/ FindRam(r) \/ ReadRam(r)
  \/ CursorReset(r) \/ CursorClose(r) \/ ClearMark(r)

StopsAt(r) == \E p \in Stops \ {"mark"} : place' = [place EXCEPT ![r] = p]
LEMMA LookStep ==
  ASSUME MarkInv, NEW r \in Readers, Looks(r)
  PROVE  UNCHANGED vars /\ place[r] # "mark" /\ StopsAt(r)
  <1>1. UNCHANGED vars /\ place[r] # "mark"
    BY DEF Looks, CursorOpen, CallAggregate, Resume, OpenAs, OpenFile, CursorNext, ReadFile,
           FindRam, ReadRam, CursorReset, CursorClose, ClearMark, MayRead
  <1> SUFFICES StopsAt(r)
    BY <1>1
  <1>2. place \in [Readers -> Stops]
    BY DEF MarkInv
  <1>3. ASSUME UNCHANGED place PROVE StopsAt(r)
    BY <1>1, <1>2, <1>3 DEF StopsAt
  <1>4. ASSUME NEW p, At(r, p), p \in {"idle", "open", "file", "find", "ram", "answer"}
        PROVE  StopsAt(r)
    <2>1. p \in Stops \ {"mark"}
      BY <1>4 DEF Stops
    <2> QED BY <1>4, <2>1 DEF At, StopsAt
  <1>5. ASSUME NEW c, NEW w, Return(r, c, w) PROVE StopsAt(r)
    <2>1. \E p : At(r, p) /\ p \in {"file", "find", "answer", "idle"}
      <3>1. Start(c) \in {"find", "file"}
        BY DEF Start
      <3>2. At(r, Start(c)) \/ At(r, "answer") \/ At(r, "idle")
        BY <1>5 DEF Return
      <3> QED BY <3>1, <3>2
    <2> QED BY <1>4, <2>1
  <1>6. CASE CursorOpen(r) \/ CallAggregate(r) \/ Resume(r)
    <2>1. At(r, "open")
      BY <1>6 DEF CursorOpen, CallAggregate, Resume, OpenAs
    <2> QED BY <1>4, <2>1
  <1>7. CASE OpenFile(r) \/ CursorNext(r) \/ CursorClose(r)
    <2>1. At(r, "file") \/ At(r, "idle") \/ At(r, "find")
      BY <1>7 DEF OpenFile, CursorNext, CursorClose, Start
    <2> QED BY <1>4, <2>1
  <1>8. CASE CursorReset(r) \/ ClearMark(r)
    <2>1. UNCHANGED place
      BY <1>8 DEF CursorReset, ClearMark
    <2> QED BY <1>3, <2>1
  <1>9. ASSUME NEW c, FilesDone(r, c) \/ RamDone(r, c) PROVE StopsAt(r)
    <2>1. At(r, "find") \/ At(r, "file") \/ \E d, w : Return(r, d, w)
      BY <1>9 DEF FilesDone, RamDone
    <2> QED BY <1>4, <1>5, <2>1
  <1>10. CASE ReadFile(r)
    <2>1. ASSUME NEW c, NextSegment(r, c) PROVE StopsAt(r)
      <3>1. UNCHANGED place \/ \E d : FilesDone(r, d)
        BY <2>1 DEF NextSegment
      <3> QED BY <1>3, <1>9, <3>1
    <2>2. ASSUME NEW c, NEW x, Deliver(r, c, x) PROVE StopsAt(r)
      <3>1. UNCHANGED place \/ \E d, w : Return(r, d, w)
        BY <2>2 DEF Deliver
      <3> QED BY <1>3, <1>5, <3>1
    <2>3. \E c, x : FilesDone(r, c) \/ Return(r, c, x) \/ Deliver(r, c, x) \/ NextSegment(r, c)
      BY <1>10 DEF ReadFile
    <2> QED BY <1>5, <1>9, <2>1, <2>2, <2>3
  <1>11. CASE FindRam(r)
    <2>1. At(r, "ram") \/ \E d : RamDone(r, d)
      BY <1>11 DEF FindRam
    <2> QED BY <1>4, <1>9, <2>1
  <1>12. CASE ReadRam(r)
    <2>1. \E d, w : Return(r, d, w) \/ RamDone(r, d)
      BY <1>12 DEF ReadRam
    <2> QED BY <1>5, <1>9, <2>1
  <1> QED BY <1>6, <1>7, <1>8, <1>10, <1>11, <1>12 DEF Looks

LEMMA StoreNext ==
  ASSUME LogAssumptions, TsInv, LogInv, MarkInv, [ReadNext]_<<vars, readVars>>
  PROVE  TsInv' /\ LogInv' /\ MarkInv'
  <1>1. CASE StoreStep
    <2>1. UpNext /\ [Next]_vars /\ place' = place
      BY <1>1 DEF StoreStep, Next
    <2>2. TsInv' /\ LogInv'
      BY <2>1, TsNext, LogNext DEF LogAssumptions
    <2>3. ASSUME NEW r \in Readers, place'[r] = "mark"
          PROVE  lock' = r /\ pc'[r] = "idle" /\ \A i \in Slots : slots'[i].pend = 0
      <3>1. lock = r /\ pc[r] = "idle" /\ \A i \in Slots : slots[i].pend = 0
        BY <2>1, <2>3 DEF MarkInv
      <3>2. pc'[r] = pc[r]
        BY <1>1, <2>1, <2>3 DEF StoreStep
      <3> QED BY <2>1, <3>1, <3>2, ReaderActs, HeldStays
    <2> QED BY <2>1, <2>2, <2>3 DEF MarkInv
  <1>2. CASE Restart
    <2>1. [Next]_vars /\ place' = [r \in Readers |-> "idle"]
      BY <1>2 DEF Restart, Next
    <2>2. TsInv' /\ LogInv'
      BY <2>1, TsNext, LogNext DEF LogAssumptions
    <2> QED BY <2>1, <2>2 DEF MarkInv, Stops
  <1>3. ASSUME NEW r \in Readers, Looks(r) PROVE TsInv' /\ LogInv' /\ MarkInv'
    <2>1. UNCHANGED vars /\ place[r] # "mark"
      BY <1>3, LookStep
    <2>2. PICK p \in Stops \ {"mark"} : place' = [place EXCEPT ![r] = p]
      BY <1>3, LookStep DEF StopsAt
    <2>3. TsInv' /\ LogInv'
      BY <2>1, TsNext, LogNext DEF LogAssumptions
    <2>4. MarkInv'
      BY <2>1, <2>2 DEF MarkInv, vars
    <2> QED BY <2>3, <2>4
  <1>4. ASSUME NEW r \in Readers, Acknowledge(r) \/ WriteMark(r) PROVE TsInv' /\ LogInv' /\ MarkInv'
    BY <1>4, AcknowledgeStep, WriteMarkStep
  <1>5. CASE UNCHANGED <<vars, readVars>>
    <2>1. [Next]_vars /\ UNCHANGED <<place, lock, pc, slots>>
      BY <1>5 DEF readVars, vars
    <2>2. TsInv' /\ LogInv'
      BY <2>1, TsNext, LogNext DEF LogAssumptions
    <2> QED BY <2>1, <2>2 DEF MarkInv
  <1> QED BY <1>1, <1>2, <1>3, <1>4, <1>5 DEF ReadNext, Looks

LEMMA StoreBegins ==
  ASSUME LogAssumptions, ReadInit
  PROVE  TsInv /\ LogInv /\ MarkInv
  <1>1. TsInv /\ LogInv
    BY TsInit, LogInit DEF ReadInit, LogAssumptions
  <1>2. MarkInv
    BY DEF ReadInit, MarkInv, Stops
  <1> QED BY <1>1, <1>2
--------------------------------------------------------------------------------
(* Counting the records of a stream *)

LEMMA OnlyParts ==
  ASSUME NEW q \in Seq(Records)
  PROVE  /\ Len(q) = Len(Only(q, Samples)) + Len(Only(q, {Bad}))
         /\ Len(Only(q, Samples)) \in Nat /\ Len(Only(q, {Bad})) \in Nat
  <1> DEFINE X == {r \in Seq(Records) : Len(r) = Len(Only(r, Samples)) + Len(Only(r, {Bad}))}
  <1>1. \A r \in Seq(Records) : /\ Len(Only(r, Samples)) \in Nat /\ Len(Only(r, {Bad})) \in Nat
                                /\ Len(r) \in Nat
                                /\ Only(r, Samples) \in Seq(Records) /\ Only(r, {Bad}) \in Seq(Records)
    BY OnlyType, LenProperties
  <1>2. <<>> \in X
    BY OnlyEmpty
  <1>3. ASSUME NEW r \in X, NEW e \in Records PROVE Append(r, e) \in X
    <2>1. e \in Samples <=> e \notin {Bad}
      BY SamplesNat DEF Records
    <2>2. /\ Only(Append(r, e), Samples)
               = IF e \in Samples THEN Append(Only(r, Samples), e) ELSE Only(r, Samples)
          /\ Only(Append(r, e), {Bad})
               = IF e \in {Bad} THEN Append(Only(r, {Bad}), e) ELSE Only(r, {Bad})
      BY OnlyAppend
    <2>3. ASSUME NEW T \in Seq(Records)
          PROVE  Len(Append(T, e)) = Len(T) + 1 /\ Append(T, e) \in Seq(Records)
      BY AppendProperties
    <2> QED BY <1>1, <2>1, <2>2, <2>3
  <1>4. X \in SUBSET Seq(Records)
    OBVIOUS
  <1>5. X = Seq(Records)
    <2> HIDE DEF X
    <2> QED BY <1>2, <1>3, <1>4, SequenceInduction
  <1> QED BY <1>1, <1>5

Finite(S) == S \in SUBSET Nat /\ IsFiniteSet(S)
Counts(f, S) == \A x \in S : f[x] \in Nat

(* The sum of the values of f up to a number. *)
Below(f, S, m) == [n \in S |-> IF n < m THEN f[n] ELSE 0]
SumTo(f, S, m) == (CHOOSE g : Adds(g, Below(f, S, m), S))[S]

LEMMA AddsOnce ==
  ASSUME NEW S, NEW f, NEW g, NEW h, IsFiniteSet(S), \A x \in S : f[x] \in Nat,
         Adds(g, f, S), Adds(h, f, S)
  PROVE  g[S] = h[S] /\ g[S] \in Nat
  <1>1. g[S] \in Nat /\ h[S] \in Nat
    BY AddsType
  <1>2. CASE S = {}
    <2>1. \A x \in S : f[x] = 0
      BY <1>2
    <2> QED BY <1>1, <2>1, AddsZero
  <1>3. CASE S # {}
    <2>1. PICK i \in S : TRUE
      BY <1>3
    <2>2. PICK e : e = f
      OBVIOUS
    <2>3. \A x \in S : f[x] \in Nat /\ e[x] \in Nat /\ (x # i => e[x] = f[x])
      BY <2>2
    <2>4. Adds(h, e, S)
      BY <2>2
    <2>6. DifferAt(f, e, i, S)
      BY <2>3 DEF DifferAt
    <2>5. h[S] = g[S] - f[i] + e[i]
      BY <2>4, <2>6, AddsChange
    <2> QED BY <1>1, <2>2, <2>3, <2>5
  <1> QED BY <1>2, <1>3

LEMMA SumIs ==
  ASSUME NEW S, NEW f, NEW m \in Nat, Finite(S), Counts(f, S)
  PROVE  \E g : Adds(g, Below(f, S, m), S) /\ SumTo(f, S, m) = g[S] /\ g[S] \in Nat
  <1>0. S \in SUBSET Nat /\ IsFiniteSet(S) /\ \A x \in S : f[x] \in Nat
    BY DEF Finite, Counts
  <1>1. \E g : Adds(g, Below(f, S, m), S)
    BY <1>0, AddsExists
  <1>2. PICK g : g = (CHOOSE h : Adds(h, Below(f, S, m), S)) /\ Adds(g, Below(f, S, m), S)
    BY <1>1
  <1>3. \A x \in S : Below(f, S, m)[x] \in Nat
    BY <1>0 DEF Below
  <1>4. g[S] \in Nat
    BY <1>0, <1>2, <1>3, AddsOnce
  <1> QED BY <1>2, <1>4 DEF SumTo

LEMMA SumStep ==
  ASSUME NEW S, NEW f, NEW m \in Nat, Finite(S), Counts(f, S)
  PROVE  /\ SumTo(f, S, m) \in Nat /\ SumTo(f, S, 0) = 0
         /\ SumTo(f, S, m + 1) = SumTo(f, S, m) + (IF m \in S THEN f[m] ELSE 0)
  <1>0. S \in SUBSET Nat /\ IsFiniteSet(S) /\ \A x \in S : f[x] \in Nat
    BY DEF Finite, Counts
  <1>1. PICK g : Adds(g, Below(f, S, m), S) /\ SumTo(f, S, m) = g[S] /\ g[S] \in Nat
    BY SumIs
  <1>2. PICK h : Adds(h, Below(f, S, m + 1), S) /\ SumTo(f, S, m + 1) = h[S] /\ h[S] \in Nat
    BY SumIs
  <1>3. PICK z : Adds(z, Below(f, S, 0), S) /\ SumTo(f, S, 0) = z[S]
    BY SumIs
  <1>4. \A x \in S : Below(f, S, 0)[x] = 0
    BY <1>0 DEF Below
  <1>5. \A x \in S : /\ Below(f, S, m)[x] \in Nat /\ Below(f, S, m + 1)[x] \in Nat
                     /\ x # m => Below(f, S, m + 1)[x] = Below(f, S, m)[x]
    BY <1>0 DEF Below
  <1>8. SumTo(f, S, 0) = 0
    BY <1>0, <1>3, <1>4, AddsZero
  <1>6. CASE m \in S
    <2>1. Below(f, S, m)[m] = 0 /\ Below(f, S, m + 1)[m] = f[m] /\ f[m] \in Nat
      BY <1>0, <1>6 DEF Below
    <2>2. h[S] = g[S] - Below(f, S, m)[m] + Below(f, S, m + 1)[m]
      <3>1. PICK d, e : d = Below(f, S, m) /\ e = Below(f, S, m + 1)
        OBVIOUS
      <3>2. DifferAt(d, e, m, S)
        BY <1>5, <3>1 DEF DifferAt
      <3>3. Adds(g, d, S) /\ Adds(h, e, S)
        BY <1>1, <1>2, <3>1
      <3>4. h[S] = g[S] - d[m] + e[m]
        BY <1>0, <1>6, <3>2, <3>3, AddsChange
      <3> QED BY <3>1, <3>4
    <2> QED BY <1>1, <1>2, <1>6, <1>8, <2>1, <2>2
  <1>7. CASE m \notin S
    <2>1. Below(f, S, m + 1) = Below(f, S, m)
      BY <1>0, <1>7 DEF Below
    <2>2. h[S] = g[S]
      BY <1>0, <1>1, <1>2, <1>5, <2>1, AddsOnce
    <2> QED BY <1>1, <1>2, <1>7, <1>8, <2>2
  <1> QED BY <1>6, <1>7

LEMMA SumAll ==
  ASSUME NEW S \in SUBSET Nat, NEW f \in [S -> Nat], NEW m \in Nat, NEW g,
         IsFiniteSet(S), Adds(g, f, S), \A x \in S : x < m
  PROVE  g[S] = SumTo(f, S, m)
  <1>1. Below(f, S, m) = f
    BY DEF Below
  <1>2. PICK h : Adds(h, f, S) /\ SumTo(f, S, m) = h[S]
    <2>1. Finite(S) /\ Counts(f, S)
      BY DEF Finite, Counts
    <2> QED BY <1>1, <2>1, SumIs
  <1> QED BY <1>2, AddsOnce

(* What the files below number m hold, in order. *)
Before(fs, m) == IF m = 0 THEN <<>> ELSE Joined(Shown(fs))[m - 1]

LEMMA BeforeStep ==
  ASSUME NEW fs, FileSet(fs), NEW m \in Nat
  PROVE  /\ Before(fs, m) \in Seq(Samples) /\ Before(fs, 0) = <<>>
         /\ Shown(fs)[m] \in Seq(Samples)
         /\ Before(fs, m + 1) = Cat(Before(fs, m), Shown(fs)[m])
         /\ UpTo(fs, m) => StoredIn(fs) = Before(fs, m + 1)
  <1>1. Shown(fs) \in [Nat -> Seq(Samples)]
    BY ShownType
  <1>2. Joined(Shown(fs)) \in [Nat -> Seq(Samples)]
    BY <1>1, JoinedType
  <1>3. Before(fs, m) \in Seq(Samples)
    BY <1>2 DEF Before
  <1>4. Before(fs, m + 1) = Joined(Shown(fs))[m]
    BY DEF Before
  <1>5. Before(fs, m + 1) = Cat(Before(fs, m), Shown(fs)[m])
    <2>1. CASE m = 0
      BY <1>1, <1>4, <2>1, JoinedIs, CatEmpty DEF Before
    <2>2. CASE m # 0
      <3>1. m - 1 \in Nat /\ (m - 1) + 1 = m
        BY <2>2
      <3>2. Joined(Shown(fs))[(m - 1) + 1] = Joined(Shown(fs))[m - 1] \o Shown(fs)[(m - 1) + 1]
        BY <3>1, JoinedIs
      <3> QED BY <1>4, <2>2, <3>1, <3>2 DEF Before, Cat
    <2> QED BY <2>1, <2>2
  <1>6. UpTo(fs, m) => StoredIn(fs) = Before(fs, m + 1)
    BY <1>4, StoredIs
  <1>7. Before(fs, 0) = <<>>
    BY DEF Before
  <1> QED BY <1>1, <1>3, <1>5, <1>6, <1>7

HeadedIn(fs) == {n \in DOMAIN fs : fs[n].hdr}
Sizes(fs) == [n \in HeadedIn(fs) |-> Len(fs[n].recs)]
Bads(fs) == [n \in DOMAIN fs |-> Len(Only(fs[n].recs, {Bad}))]

LEMMA FileCounts ==
  ASSUME NEW fs, FileSet(fs), Headed(fs), IsFiniteSet(DOMAIN fs)
  PROVE  /\ IsFiniteSet(HeadedIn(fs)) /\ Sizes(fs) \in [HeadedIn(fs) -> Nat]
         /\ Bads(fs) \in [DOMAIN fs -> Nat]
         /\ \A m \in Nat : SumTo(Sizes(fs), HeadedIn(fs), m)
                             = Len(Before(fs, m)) + SumTo(Bads(fs), DOMAIN fs, m)
  <1>1. /\ HeadedIn(fs) \in SUBSET (DOMAIN fs) /\ DOMAIN fs \in SUBSET Nat
        /\ HeadedIn(fs) \in SUBSET Nat
    BY DEF HeadedIn, FileSet
  <1>2. IsFiniteSet(HeadedIn(fs))
    BY <1>1, FS_Subset
  <1>3. \A n \in DOMAIN fs : /\ fs[n].recs \in Seq(Records) /\ Len(fs[n].recs) \in Nat
                             /\ Len(Only(fs[n].recs, {Bad})) \in Nat
                             /\ Len(fs[n].recs) = Len(Only(fs[n].recs, Samples))
                                                  + Len(Only(fs[n].recs, {Bad}))
                             /\ Len(Only(fs[n].recs, Samples)) \in Nat
    <2> SUFFICES ASSUME NEW n \in DOMAIN fs
                 PROVE  /\ fs[n].recs \in Seq(Records) /\ Len(fs[n].recs) \in Nat
                        /\ Len(Only(fs[n].recs, {Bad})) \in Nat
                        /\ Len(fs[n].recs) = Len(Only(fs[n].recs, Samples))
                                             + Len(Only(fs[n].recs, {Bad}))
                        /\ Len(Only(fs[n].recs, Samples)) \in Nat
      OBVIOUS
    <2>1. PICK q \in Seq(Records) : q = fs[n].recs
      BY SegmentType DEF FileSet
    <2> QED BY <2>1, OnlyParts, LenProperties
  <1>4. Sizes(fs) \in [HeadedIn(fs) -> Nat] /\ Bads(fs) \in [DOMAIN fs -> Nat]
    BY <1>1, <1>3 DEF Sizes, Bads
  <1> DEFINE N == {m \in Nat : SumTo(Sizes(fs), HeadedIn(fs), m)
                                 = Len(Before(fs, m)) + SumTo(Bads(fs), DOMAIN fs, m)}
  <1>5. Finite(HeadedIn(fs)) /\ Counts(Sizes(fs), HeadedIn(fs))
    BY <1>1, <1>2, <1>4 DEF Finite, Counts
  <1>6. Finite(DOMAIN fs) /\ Counts(Bads(fs), DOMAIN fs)
    BY <1>1, <1>4 DEF Finite, Counts
  <1>10. \A m \in Nat :
           /\ SumTo(Bads(fs), DOMAIN fs, m) \in Nat
           /\ SumTo(Bads(fs), DOMAIN fs, m + 1) = SumTo(Bads(fs), DOMAIN fs, m)
                + (IF m \in DOMAIN fs THEN Bads(fs)[m] ELSE 0)
    <2>1. PICK D, c : D = DOMAIN fs /\ c = Bads(fs)
      OBVIOUS
    <2>2. Finite(D) /\ Counts(c, D)
      BY <1>6, <2>1
    <2>3. ASSUME NEW m \in Nat
          PROVE  SumTo(c, D, m) \in Nat /\ SumTo(c, D, m + 1) = SumTo(c, D, m) + (IF m \in D THEN c[m] ELSE 0)
      BY <2>2, SumStep
    <2> QED BY <2>1, <2>3
  <1>7. 0 \in N
    <2>1. SumTo(Sizes(fs), HeadedIn(fs), 0) = 0 /\ SumTo(Bads(fs), DOMAIN fs, 0) = 0
      BY <1>5, <1>6, SumStep
    <2>2. Len(Before(fs, 0)) = 0
      BY BeforeStep
    <2> QED BY <2>1, <2>2
  <1>8. ASSUME NEW m \in N PROVE m + 1 \in N
    <2>0. m \in Nat /\ m + 1 \in Nat
      OBVIOUS
    <2>1. PICK a \in Nat, b \in Nat :
            /\ a = SumTo(Sizes(fs), HeadedIn(fs), m) /\ b = SumTo(Bads(fs), DOMAIN fs, m)
            /\ SumTo(Sizes(fs), HeadedIn(fs), m + 1)
                 = a + (IF m \in HeadedIn(fs) THEN Sizes(fs)[m] ELSE 0)
            /\ SumTo(Bads(fs), DOMAIN fs, m + 1) = b + (IF m \in DOMAIN fs THEN Bads(fs)[m] ELSE 0)
      <3>1. /\ SumTo(Sizes(fs), HeadedIn(fs), m) \in Nat
            /\ SumTo(Sizes(fs), HeadedIn(fs), m + 1) = SumTo(Sizes(fs), HeadedIn(fs), m)
                 + (IF m \in HeadedIn(fs) THEN Sizes(fs)[m] ELSE 0)
        BY <1>5, <2>0, SumStep
      <3>2. /\ SumTo(Bads(fs), DOMAIN fs, m) \in Nat
            /\ SumTo(Bads(fs), DOMAIN fs, m + 1) = SumTo(Bads(fs), DOMAIN fs, m)
                 + (IF m \in DOMAIN fs THEN Bads(fs)[m] ELSE 0)
        BY <1>10, <2>0
      <3> QED BY <3>1, <3>2
    <2>2. PICK c \in Nat, d \in Nat : /\ c = Len(Before(fs, m)) /\ d = Len(Shown(fs)[m])
                                      /\ Len(Before(fs, m + 1)) = c + d
      <3>1. PICK p \in Seq(Samples), q \in Seq(Samples) :
               p = Before(fs, m) /\ q = Shown(fs)[m] /\ Before(fs, m + 1) = Cat(p, q)
        BY BeforeStep
      <3>2. Len(Cat(p, q)) = Len(p) + Len(q) /\ Len(p) \in Nat /\ Len(q) \in Nat
        BY CatLen
      <3> QED BY <3>1, <3>2
    <2>3. a = c + b
      BY <2>1, <2>2
    <2>4. (IF m \in HeadedIn(fs) THEN Sizes(fs)[m] ELSE 0)
            = d + (IF m \in DOMAIN fs THEN Bads(fs)[m] ELSE 0)
      <3>1. CASE m \notin DOMAIN fs
        BY <2>2, <3>1 DEF HeadedIn, Shown
      <3>2. CASE m \in DOMAIN fs /\ fs[m].hdr
        <4>1. Shown(fs)[m] = Only(fs[m].recs, Samples)
          BY <3>2 DEF Shown, Read
        <4>2. m \in HeadedIn(fs) /\ Sizes(fs)[m] = Len(fs[m].recs)
              /\ Bads(fs)[m] = Len(Only(fs[m].recs, {Bad}))
          BY <3>2 DEF HeadedIn, Sizes, Bads
        <4> QED BY <1>3, <2>2, <3>2, <4>1, <4>2
      <3>3. CASE m \in DOMAIN fs /\ ~fs[m].hdr
        <4>1. Shown(fs)[m] = <<>> /\ m \notin HeadedIn(fs)
          BY <3>3 DEF Shown, Read, HeadedIn
        <4>2. fs[m].recs = <<>>
          BY <3>3 DEF Headed, EmptyFile
        <4>3. Bads(fs)[m] = 0
          <5>1. Only(fs[m].recs, {Bad}) = <<>>
            BY <4>2, OnlyEmpty
          <5> QED BY <3>3, <5>1 DEF Bads
        <4> QED BY <2>2, <3>3, <4>1, <4>3
      <3> QED BY <3>1, <3>2, <3>3
    <2>5. PICK x : x = IF m \in DOMAIN fs THEN Bads(fs)[m] ELSE 0
      OBVIOUS
    <2>6. x \in Nat
      BY <1>6, <2>5 DEF Counts
    <2>7. SumTo(Sizes(fs), HeadedIn(fs), m + 1) = a + (d + x)
      BY <2>1, <2>4, <2>5
    <2>8. SumTo(Bads(fs), DOMAIN fs, m + 1) = b + x
      BY <2>1, <2>5
    <2>9. SumTo(Sizes(fs), HeadedIn(fs), m + 1)
            = Len(Before(fs, m + 1)) + SumTo(Bads(fs), DOMAIN fs, m + 1)
      <3>1. PICK y, z, w : /\ y = SumTo(Sizes(fs), HeadedIn(fs), m + 1)
                           /\ z = Len(Before(fs, m + 1)) /\ w = SumTo(Bads(fs), DOMAIN fs, m + 1)
        OBVIOUS
      <3>2. y = a + (d + x) /\ z = c + d /\ w = b + x
        BY <2>2, <2>7, <2>8, <3>1, Zenon
      <3>3. y = z + w
        <4> HIDE DEF N
        <4> QED BY <2>1, <2>2, <2>3, <2>6, <3>2
      <3> QED BY <3>1, <3>3, Zenon
    <2> QED BY <2>0, <2>9
  <1>9. N = Nat
    <2>1. N \in SUBSET Nat
      OBVIOUS
    <2> HIDE DEF N
    <2> QED BY <1>7, <1>8, <2>1, NumberInduction
  <1> QED BY <1>2, <1>4, <1>9

(* Sums over a set of files, as the fold of the model computes them. *)
SizeOf(fs, S) == MapThenSumSet(LAMBDA n : Len(fs[n].recs), S)
BadOf(fs, S) == MapThenSumSet(LAMBDA n : Len(Only(fs[n].recs, {Bad})), S)

LEMMA SumOfSizes ==
  ASSUME NEW fs, NEW S, IsFiniteSet(S)
  PROVE  \E g : /\ Adds(g, [n \in S |-> Len(fs[n].recs)], S)
                /\ SizeOf(fs, S) = g[S]
  <1> DEFINE D(g) == g = [T \in SUBSET S |->
                            IF T = {} THEN 0 ELSE Len(fs[Pick(T)].recs) + g[T \ {Pick(T)}]]
             f == [n \in S |-> Len(fs[n].recs)]
  <1>1. SizeOf(fs, S) = (CHOOSE g : D(g))[S]
    BY Zenon DEF SizeOf, MapThenSumSet, MapThenFoldSet, Pick
  <1>2. \A g : D(g) <=> Adds(g, f, S)
    BY PickIn DEF Adds
  <1>3. \E g : D(g)
    BY <1>2, AddsExists
  <1>4. D(CHOOSE g : D(g))
    BY <1>3
  <1> QED
    BY <1>1, <1>2, <1>4

LEMMA SumOfBads ==
  ASSUME NEW fs, NEW S, IsFiniteSet(S)
  PROVE  \E g : /\ Adds(g, [n \in S |-> Len(Only(fs[n].recs, {Bad}))], S)
                /\ BadOf(fs, S) = g[S]
  <1> DEFINE D(g) == g = [T \in SUBSET S |->
                            IF T = {} THEN 0
                            ELSE Len(Only(fs[Pick(T)].recs, {Bad})) + g[T \ {Pick(T)}]]
             f == [n \in S |-> Len(Only(fs[n].recs, {Bad}))]
  <1>1. BadOf(fs, S) = (CHOOSE g : D(g))[S]
    BY Zenon DEF BadOf, MapThenSumSet, MapThenFoldSet, Pick
  <1>2. \A g : D(g) <=> Adds(g, f, S)
    BY PickIn DEF Adds
  <1>3. \E g : D(g)
    BY <1>2, AddsExists
  <1>4. D(CHOOSE g : D(g))
    BY <1>3
  <1> QED
    BY <1>1, <1>2, <1>4

(* By size, the files of a stream hold its samples and its bad records. *)
LEMMA SizesCount ==
  ASSUME NEW fs, FileSet(fs), Headed(fs), NEW m \in Nat, UpTo(fs, m)
  PROVE  /\ SizeOf(fs, HeadedIn(fs))
              = Len(StoredIn(fs)) + BadOf(fs, DOMAIN fs)
         /\ BadOf(fs, DOMAIN fs) \in Nat
         /\ StoredIn(fs) \in Seq(Samples)
  <1>1. \A n \in DOMAIN fs : n \in 0..m /\ n < m + 1
    BY DEF FileSet, UpTo
  <1>2. IsFiniteSet(DOMAIN fs) /\ DOMAIN fs \in SUBSET Nat
    <2>1. IsFiniteSet(0..m)
      BY FS_Interval
    <2>2. DOMAIN fs \in SUBSET (0..m)
      BY <1>1
    <2> QED BY <2>1, <2>2, FS_Subset
  <1>3. /\ IsFiniteSet(HeadedIn(fs)) /\ Sizes(fs) \in [HeadedIn(fs) -> Nat]
        /\ Bads(fs) \in [DOMAIN fs -> Nat]
        /\ SumTo(Sizes(fs), HeadedIn(fs), m + 1)
             = Len(Before(fs, m + 1)) + SumTo(Bads(fs), DOMAIN fs, m + 1)
    BY <1>2, FileCounts
  <1>4. HeadedIn(fs) \in SUBSET Nat /\ \A n \in HeadedIn(fs) : n < m + 1
    BY <1>1, <1>2 DEF HeadedIn
  <1>5. SizeOf(fs, HeadedIn(fs)) = SumTo(Sizes(fs), HeadedIn(fs), m + 1)
    <2>1. PICK g : /\ Adds(g, Sizes(fs), HeadedIn(fs))
                   /\ SizeOf(fs, HeadedIn(fs)) = g[HeadedIn(fs)]
      <3>1. IsFiniteSet(HeadedIn(fs)) /\ Sizes(fs) = [n \in HeadedIn(fs) |-> Len(fs[n].recs)]
        BY <1>3 DEF Sizes
      <3> QED BY <3>1, SumOfSizes, Zenon
    <2>2. PICK S, f : S = HeadedIn(fs) /\ f = Sizes(fs)
      OBVIOUS
    <2>3. S \in SUBSET Nat /\ f \in [S -> Nat] /\ IsFiniteSet(S) /\ \A x \in S : x < m + 1
      BY <1>3, <1>4, <2>2
    <2>4. Adds(g, f, S) /\ m + 1 \in Nat
      BY <2>1, <2>2
    <2>5. g[S] = SumTo(f, S, m + 1)
      BY <2>3, <2>4, SumAll
    <2> QED BY <2>1, <2>2, <2>5, Zenon
  <1>6. BadOf(fs, DOMAIN fs)
          = SumTo(Bads(fs), DOMAIN fs, m + 1)
    <2>1. PICK g : /\ Adds(g, Bads(fs), DOMAIN fs)
                   /\ BadOf(fs, DOMAIN fs) = g[DOMAIN fs]
      <3>1. IsFiniteSet(DOMAIN fs) /\ Bads(fs) = [n \in DOMAIN fs |-> Len(Only(fs[n].recs, {Bad}))]
        BY <1>2 DEF Bads
      <3> QED BY <3>1, SumOfBads, Zenon
    <2>2. PICK S, f : S = DOMAIN fs /\ f = Bads(fs)
      OBVIOUS
    <2>3. S \in SUBSET Nat /\ f \in [S -> Nat] /\ IsFiniteSet(S) /\ \A x \in S : x < m + 1
      BY <1>1, <1>2, <1>3, <2>2
    <2>4. Adds(g, f, S) /\ m + 1 \in Nat
      BY <2>1, <2>2
    <2>5. g[S] = SumTo(f, S, m + 1)
      BY <2>3, <2>4, SumAll
    <2> QED BY <2>1, <2>2, <2>5, Zenon
  <1>7. SumTo(Bads(fs), DOMAIN fs, m + 1) \in Nat
    <2>1. Finite(DOMAIN fs) /\ Counts(Bads(fs), DOMAIN fs)
      BY <1>2, <1>3 DEF Finite, Counts
    <2>2. PICK S, f : S = DOMAIN fs /\ f = Bads(fs)
      OBVIOUS
    <2>3. Finite(S) /\ Counts(f, S) /\ m + 1 \in Nat
      BY <2>1, <2>2
    <2>4. SumTo(f, S, m + 1) \in Nat
      BY <2>3, SumStep
    <2> QED BY <2>2, <2>4
  <1>8. StoredIn(fs) = Before(fs, m + 1) /\ StoredIn(fs) \in Seq(Samples)
    BY BeforeStep, StoredIs
  <1> QED BY <1>3, <1>5, <1>6, <1>7, <1>8, Zenon

LEMMA CountHolds ==
  ASSUME LogAssumptions, TsInv, LogInv
  PROVE  CountExact
  <1> SUFFICES ASSUME NEW s \in Streams, slot_find(s) # 0, slots[slot_find(s)].scanned
               PROVE  count_all(s) = Len(Only(log[s], Samples \ gone)) + BadOf(disk[s], DOMAIN disk[s])
    BY Zenon DEF CountExact, BadOf
  <1>1. PICK fs, i : fs = disk[s] /\ i = slot_find(s)
    OBVIOUS
  <1>2. i \in Slots /\ slots[i].used /\ slots[i].scanned /\ slots[i].name = s
    BY <1>1, FindSlot DEF Open
  <1>3. FilesOK(disk) /\ FilesHeaded(disk) /\ slots[i] \in Slot
    BY <1>2, FilesNow DEF TsInv, StoreInv, TypeOK, HeaderInv, LogAssumptions
  <1>4. FileSet(fs) /\ Headed(fs) /\ \E m \in Nat : UpTo(fs, m)
    BY <1>1, <1>3 DEF FilesOK, FilesHeaded, FileSet, Headed, UpTo
  <1>5. PICK m \in Nat : UpTo(fs, m)
    BY <1>4
  <1>6. Covers(slots[i], fs)
    BY <1>1, <1>2 DEF LogInv, FileInv
  <1>7. {n \in Segments(slots[i]) \cap DOMAIN fs : fs[n].hdr} = HeadedIn(fs)
    <2>1. slots[i].oldest \in Nat /\ slots[i].cur \in Nat
      BY <1>3 DEF Slot
    <2>2. \A n \in DOMAIN fs : n \in Nat /\ slots[i].oldest <= n /\ n <= slots[i].cur
      BY <1>4, <1>6 DEF FileSet, Covers
    <2>3. \A n \in DOMAIN fs : n \in Segments(slots[i])
      BY <2>1, <2>2 DEF Segments
    <2> QED BY <2>3 DEF HeadedIn
  <1>8. count_all(s) = SizeOf(fs, HeadedIn(fs)) + Len(slots[i].buf)
    <2>1. count_all(s) = SizeOf(disk[s], {n \in Segments(slots[slot_find(s)]) \cap DOMAIN disk[s] : disk[s][n].hdr})
                         + Len(slots[slot_find(s)].buf)
      BY Zenon DEF count_all, SizeOf
    <2> QED BY <1>1, <1>7, <2>1, Zenon
  <1>9. PICK b : b = BadOf(fs, DOMAIN fs)
    OBVIOUS
  <1>10. PICK c : c = SizeOf(fs, HeadedIn(fs))
    OBVIOUS
  <1>11. c = Len(StoredIn(fs)) + b /\ b \in Nat /\ StoredIn(fs) \in Seq(Samples)
    BY <1>4, <1>5, <1>9, <1>10, SizesCount, Zenon
  <1>12. PICK p, q : p = StoredIn(fs) /\ q = slots[i].buf
    OBVIOUS
  <1>13. p \in Seq(Samples) /\ q \in Seq(Samples) /\ Cat(p, q) = Only(log[s], Samples \ gone)
    <2>1. Readable(s) = p /\ InRam(s) = q
      BY <1>1, <1>2, <1>12, ReadableIs, SlotOf
    <2>2. q \in Seq(Samples)
      BY <1>3, <1>12 DEF Slot
    <2> QED BY <1>11, <1>12, <2>1, <2>2 DEF LogInv, KeptInv
  <1>14. Len(Only(log[s], Samples \ gone)) = Len(p) + Len(q) /\ Len(p) \in Nat /\ Len(q) \in Nat
    BY <1>13, CatLen
  <1>15. count_all(s) = c + Len(q)
    BY <1>8, <1>10, <1>12, Zenon
  <1>16. count_all(s) = Len(Only(log[s], Samples \ gone)) + b
    <2>1. PICK x, y, z, w : x = count_all(s) /\ y = Len(p) /\ z = Len(q)
                            /\ w = Len(Only(log[s], Samples \ gone))
      OBVIOUS
    <2>2. x = c + z /\ c = y + b /\ w = y + z
      BY <1>11, <1>12, <1>14, <1>15, <2>1, Zenon
    <2>3. y \in Nat /\ z \in Nat /\ b \in Nat
      BY <1>11, <1>14, <2>1
    <2>4. x = w + b
      BY <2>2, <2>3
    <2> QED BY <2>1, <2>4, Zenon
  <1> QED BY <1>1, <1>9, <1>16, Zenon

(* What the time-series store keeps true holds beside its readers too. *)
LEMMA StoreInvariant ==
  ASSUME LogAssumptions
  PROVE  ReadSpec => [](TsInv /\ LogInv /\ MarkInv)
  <1> DEFINE I == TsInv /\ LogInv /\ MarkInv
  <1>1. ReadInit => I
    BY StoreBegins
  <1>2. I /\ [ReadNext]_<<vars, readVars>> => I'
    BY StoreNext
  <1> HIDE DEF I
  <1>3. ReadSpec => []I
    BY <1>1, <1>2, PTL DEF ReadSpec
  <1> QED BY <1>3 DEF I

(* zdb_ts_count_all() adds up file sizes: its answer is the number of samples   *)
(* appended and not gone, plus the stored records whose CRC fails; for every    *)
(* number of threads, readers, streams, segments and samples, beside any        *)
(* traffic, after any rollover, power loss and recovery.  As for                *)
(* SamplesAreKept, writes of records and of headers succeed.                    *)
THEOREM CountIsExact ==
  ASSUME LogAssumptions
  PROVE  ReadSpec => []CountExact
  <1>1. TsInv /\ LogInv /\ MarkInv => CountExact
    BY CountHolds
  <1> QED BY <1>1, StoreInvariant, PTL

--------------------------------------------------------------------------------
(* The order of the samples in the files and in the ingest buffer of a stream *)

LEMMA SampleSeq ==
  ASSUME NEW q \in Seq(Samples)
  PROVE  q \in Seq(Nat) /\ q \in Seq(Records) /\ Len(q) \in Nat /\ Range(q) \subseteq Samples
         /\ Range(q) = {q[i] : i \in 1..Len(q)} /\ \A i \in 1..Len(q) : q[i] \in Samples /\ q[i] \in Nat
  <1>1. Range(q) \subseteq Samples /\ Range(q) = {q[i] : i \in 1..Len(q)}
    BY RangeIs
  <1>2. Samples \subseteq Nat /\ Samples \subseteq Records
    BY SamplesNat DEF Records
  <1>3. q \in Seq(Nat) /\ q \in Seq(Records)
    BY <1>1, <1>2, SeqIn
  <1>4. Len(q) \in Nat /\ \A i \in 1..Len(q) : q[i] \in Samples
    BY LenProperties, ElementOfSeq
  <1> QED BY <1>1, <1>2, <1>3, <1>4

LEMMA OnlyOrdered ==
  ASSUME NEW q \in Seq(Records), Increasing(Only(q, Samples))
  PROVE  \A i, j \in 1..Len(q) : i < j /\ q[i] \in Samples /\ q[j] \in Samples => q[i] < q[j]
  <1> DEFINE P(r) == \A i, j \in 1..Len(r) : i < j /\ r[i] \in Samples /\ r[j] \in Samples => r[i] < r[j]
             X == {r \in Seq(Records) : Increasing(Only(r, Samples)) => P(r)}
  <1>1. <<>> \in X
    OBVIOUS
  <1>2. ASSUME NEW r \in X, NEW e \in Records PROVE Append(r, e) \in X
    <2>1. PICK w : w = Append(r, e)
      OBVIOUS
    <2>2. /\ r \in Seq(Records) /\ w \in Seq(Records) /\ Len(r) \in Nat /\ Len(w) = Len(r) + 1
          /\ \A i \in 1..Len(r) : w[i] = r[i]
          /\ w[Len(r) + 1] = e
      BY <2>1, AppendProperties, LenProperties
    <2>3. SUFFICES ASSUME Increasing(Only(w, Samples)) PROVE P(w)
      BY <2>1, <2>2
    <2>4. PICK p \in Seq(Samples) : p = Only(r, Samples) /\ Range(p) = Range(r) \cap Samples
      BY <2>2, OnlyIn, OnlyRange
    <2>5. p \in Seq(Nat)
      BY SampleSeq
    <2>6. Increasing(p) /\ (e \in Samples => \A x \in Range(p) : x < e)
      <3>1. Only(w, Samples) = IF e \in Samples THEN Append(p, e) ELSE p
        BY <2>1, <2>2, <2>4, OnlyAppend, SMTT(30)
      <3>2. CASE e \in Samples
        <4>1. Increasing(Append(p, e)) /\ e \in Nat
          BY <2>3, <3>1, <3>2, SamplesNat
        <4> QED BY <2>5, <4>1, IncreasingAppend
      <3>3. CASE e \notin Samples
        BY <2>3, <3>1, <3>3
      <3> QED BY <3>2, <3>3
    <2>7. P(r)
      BY <2>4, <2>6
    <2>8. \A i \in 1..Len(r) : r[i] \in Samples => r[i] \in Range(p)
      BY <2>2, <2>4, RangeIs
    <2> HIDE DEF X
    <2>9. SUFFICES ASSUME NEW i \in 1..Len(w), NEW j \in 1..Len(w), i < j, w[i] \in Samples, w[j] \in Samples
                   PROVE  w[i] < w[j]
      OBVIOUS
    <2>10. CASE j \in 1..Len(r)
      <3>1. i \in 1..Len(r)
        BY <2>2, <2>9, <2>10
      <3> QED BY <2>2, <2>7, <2>9, <2>10, <3>1
    <2>11. CASE j \notin 1..Len(r)
      <3>1. j = Len(r) + 1 /\ i \in 1..Len(r)
        <4>1. PICK n \in Nat : n = Len(r)
          BY <2>2
        <4>2. Len(w) = n + 1 /\ j \notin 1..n
          BY <2>2, <2>11, <4>1
        <4>3. i \in 1..(n + 1) /\ j \in 1..(n + 1) /\ i < j
          BY <2>9, <4>2
        <4>4. j = n + 1 /\ i \in 1..n
          BY <4>2, <4>3
        <4> QED BY <4>1, <4>4
      <3> QED BY <2>2, <2>6, <2>8, <2>9, <3>1
    <2> QED BY <2>10, <2>11
  <1>3. X \in SUBSET Seq(Records)
    OBVIOUS
  <1>4. X = Seq(Records)
    <2> HIDE DEF X
    <2> QED BY <1>1, <1>2, <1>3, SequenceInduction
  <1> QED BY <1>4

(* The files of a stream hold its samples in the order of their numbers, and    *)
(* the ingest buffer those behind them.                                         *)
Held1(f) == Range(f.recs) \cap Samples
Lined(fs, b) ==
  /\ \A n \in DOMAIN fs : \A i, j \in 1..Len(fs[n].recs) :
        i < j /\ fs[n].recs[i] \in Samples /\ fs[n].recs[j] \in Samples => fs[n].recs[i] < fs[n].recs[j]
  /\ \A n, m \in DOMAIN fs : n < m => \A x \in Held1(fs[n]), y \in Held1(fs[m]) : x < y
  /\ \A n \in DOMAIN fs : \A x \in Held1(fs[n]), y \in Range(b) : x < y
  /\ Increasing(b)

SortedTo(g, m) ==
  /\ \A n \in Nat : n < m => Increasing(g[n])
  /\ \A n, k \in Nat : n < k /\ k < m => \A x \in Range(g[n]), y \in Range(g[k]) : x < y

LEMMA BeforeSorted ==
  ASSUME NEW fs, FileSet(fs), NEW k \in Nat, Increasing(Before(fs, k))
  PROVE  SortedTo(Shown(fs), k)
  <1>1. PICK g \in [Nat -> Seq(Samples)] : g = Shown(fs)
    BY ShownType
  <1> DEFINE Within(m) == \A n \in Nat : n < m => Range(g[n]) \subseteq Range(Before(fs, m))
             X == {m \in Nat : Within(m) /\ (Increasing(Before(fs, m)) => SortedTo(g, m))}
  <1>2. 0 \in X
    BY DEF SortedTo
  <1>3. ASSUME NEW m \in X PROVE m + 1 \in X
    <2>1. m \in Nat /\ m + 1 \in Nat /\ Within(m) /\ (Increasing(Before(fs, m)) => SortedTo(g, m))
      OBVIOUS
    <2> HIDE DEF X
    <2>2. PICK p, w, q : /\ p \in Seq(Samples) /\ q = g[m] /\ q \in Seq(Samples)
                         /\ p = Before(fs, m) /\ w = Before(fs, m + 1) /\ w = Cat(p, q)
      <3>1. Before(fs, m) \in Seq(Samples) /\ Before(fs, m + 1) = Cat(Before(fs, m), Shown(fs)[m])
        BY <2>1, BeforeStep
      <3>2. g[m] \in Seq(Samples)
        BY <2>1
      <3> QED BY <1>1, <3>1, <3>2
    <2>3. Range(w) = Range(p) \cup Range(q)
      BY <2>2, CatRange, SMTT(30)
    <2>4. Within(m + 1)
      <3>1. \A n \in Nat : n < m + 1 => n < m \/ n = m
        BY <2>1
      <3>2. \A n \in Nat : n < m => Range(g[n]) \subseteq Range(p)
        BY <2>1, <2>2
      <3>3. \A n \in Nat : n < m + 1 => Range(g[n]) \subseteq Range(w)
        BY <2>2, <2>3, <3>1, <3>2
      <3> QED BY <2>2, <3>3
    <2>5. ASSUME Increasing(w) PROVE SortedTo(g, m + 1)
      <3>1. p \in Seq(Nat) /\ q \in Seq(Nat)
        BY <2>2, SampleSeq
      <3>2. Increasing(p) /\ Increasing(q) /\ \A x \in Range(p), y \in Range(q) : x < y
        BY <2>2, <2>5, <3>1, CatIncreasing
      <3>3. SortedTo(g, m)
        BY <2>1, <2>2, <3>2
      <3>4. \A n \in Nat : n < m + 1 => n < m \/ n = m
        BY <2>1
      <3>5. \A n \in Nat : n < m + 1 => Increasing(g[n])
        BY <2>2, <3>2, <3>3, <3>4 DEF SortedTo
      <3>6. ASSUME NEW n \in Nat, NEW l \in Nat, n < l, l < m + 1
            PROVE  \A x \in Range(g[n]), y \in Range(g[l]) : x < y
        <4>1. CASE l < m
          BY <3>3, <3>6, <4>1 DEF SortedTo
        <4>2. CASE l = m
          <5>1. Range(g[n]) \subseteq Range(p)
            BY <2>1, <2>2, <3>6, <4>2
          <5> QED BY <2>2, <3>2, <4>2, <5>1
        <4> QED BY <3>4, <3>6, <4>1, <4>2
      <3> QED BY <3>5, <3>6 DEF SortedTo
    <2> QED BY <2>1, <2>2, <2>4, <2>5 DEF X
  <1>4. X \in SUBSET Nat
    OBVIOUS
  <1>5. X = Nat
    <2> HIDE DEF X
    <2> QED BY <1>2, <1>3, <1>4, NumberInduction
  <1> QED BY <1>1, <1>5

LEMMA FilesHere ==
  ASSUME LogAssumptions, TsInv, NEW s \in Streams
  PROVE  /\ FileSet(disk[s]) /\ Headed(disk[s]) /\ Readable(s) = StoredIn(disk[s])
         /\ \E m \in Nat : UpTo(disk[s], m)
  <1>1. FilesOK(disk) /\ FilesHeaded(disk)
    BY FilesNow DEF TsInv, StoreInv, HeaderInv, LogAssumptions
  <1> QED BY <1>1, ReadableIs DEF FilesOK, FilesHeaded, FileSet, Headed, UpTo

LEMMA StreamLined ==
  ASSUME LogAssumptions, TsInv, LogInv, NEW s \in Streams
  PROVE  Lined(disk[s], InRam(s))
  <1>1. PICK fs, b, p : fs = disk[s] /\ b = InRam(s) /\ p = StoredIn(fs)
    OBVIOUS
  <1>2. FileSet(fs) /\ Headed(fs) /\ p = Readable(s)
    BY <1>1, FilesHere
  <1>3. PICK m \in Nat : UpTo(fs, m)
    BY <1>1, FilesHere
  <1>4. p \in Seq(Samples) /\ b \in Seq(Samples)
    BY <1>1, <1>2, RamType
  <1>5. p \in Seq(Nat) /\ b \in Seq(Nat)
    BY <1>4, SampleSeq
  <1>6. Increasing(Cat(p, b))
    <2>1. Cat(p, b) = Only(log[s], Samples \ gone)
      BY <1>1, <1>2 DEF LogInv, KeptInv
    <2>2. log[s] \in Seq(Nat) /\ Increasing(log[s])
      BY LogType DEF LogInv, HistInv
    <2> QED BY <2>1, <2>2, OnlyIncreasing
  <1>7. Increasing(p) /\ Increasing(b) /\ \A x \in Range(p), y \in Range(b) : x < y
    BY <1>5, <1>6, CatIncreasing
  <1>8. PICK g : g = Shown(fs) /\ SortedTo(g, m + 1)
    <2>1. p = Before(fs, m + 1)
      BY <1>1, <1>2, <1>3, BeforeStep
    <2>2. SortedTo(Shown(fs), m + 1)
      BY <1>2, <1>7, <2>1, BeforeSorted
    <2> QED BY <2>2
  <1>9. ASSUME NEW n \in DOMAIN fs
        PROVE  /\ n \in Nat /\ n < m + 1 /\ fs[n].recs \in Seq(Records)
               /\ g[n] = Only(fs[n].recs, Samples) /\ Range(g[n]) = Held1(fs[n])
               /\ Held1(fs[n]) \subseteq Range(p)
    <2>1. n \in Nat /\ n < m + 1 /\ fs[n] \in Segment /\ (fs[n].hdr \/ fs[n] = EmptyFile)
      BY <1>2, <1>3 DEF FileSet, UpTo, Headed
    <2>2. PICK q \in Seq(Records) : q = fs[n].recs
      BY <2>1, SegmentType
    <2>3. g[n] = Only(q, Samples)
      <3>1. g[n] = Read(fs[n])
        BY <1>8, <2>1 DEF Shown
      <3>2. CASE fs[n].hdr
        BY <2>2, <3>1, <3>2 DEF Read
      <3>3. CASE fs[n] = EmptyFile
        <4>1. q = <<>> /\ ~fs[n].hdr
          BY <2>2, <3>3 DEF EmptyFile
        <4> QED BY <3>1, <4>1, OnlyEmpty DEF Read
      <3> QED BY <2>1, <3>2, <3>3
    <2>4. Range(g[n]) = Range(q) \cap Samples
      BY <2>3, OnlyRange
    <2>5. \A x \in Range(q) \cap Samples : x \in Range(p)
      BY <1>1, <1>2, <1>3, <2>2, SamplesNat, StoredRange
    <2> QED BY <2>1, <2>2, <2>3, <2>4, <2>5 DEF Held1
  <1>10. ASSUME NEW n \in DOMAIN fs
         PROVE  \A i, j \in 1..Len(fs[n].recs) :
                  i < j /\ fs[n].recs[i] \in Samples /\ fs[n].recs[j] \in Samples
                    => fs[n].recs[i] < fs[n].recs[j]
    <2>1. PICK q \in Seq(Records) : q = fs[n].recs /\ g[n] = Only(q, Samples)
      BY <1>9
    <2>2. Increasing(Only(q, Samples))
      BY <1>8, <1>9, <2>1 DEF SortedTo
    <2>3. \A i, j \in 1..Len(q) : i < j /\ q[i] \in Samples /\ q[j] \in Samples => q[i] < q[j]
      BY <2>2, OnlyOrdered
    <2> QED BY <2>1, <2>3
  <1>11. ASSUME NEW n \in DOMAIN fs, NEW k \in DOMAIN fs, n < k
         PROVE  \A x \in Held1(fs[n]), y \in Held1(fs[k]) : x < y
    BY <1>8, <1>9, <1>11 DEF SortedTo
  <1>12. ASSUME NEW n \in DOMAIN fs PROVE \A x \in Held1(fs[n]), y \in Range(b) : x < y
    BY <1>7, <1>9
  <1>13. Lined(fs, b)
    BY <1>7, <1>10, <1>11, <1>12 DEF Lined
  <1> QED BY <1>1, <1>13

LEMMA NatAppend ==
  ASSUME NEW q \in Seq(Nat), NEW e \in Nat
  PROVE  Range(Append(q, e)) = Range(q) \cup {e}
  <1>1. PICK T : T = Nat
    OBVIOUS
  <1>2. q \in Seq(T) /\ e \in T
    BY <1>1
  <1> QED BY <1>2, RangeAppend

(* A sequence that increases is known by its members. *)
LEMMA IncreasingSame ==
  ASSUME NEW p \in Seq(Nat), NEW q \in Seq(Nat), Increasing(p), Increasing(q), Range(p) = Range(q)
  PROVE  p = q
  <1> DEFINE Alone(r) == \A w \in Seq(Nat) : Increasing(w) /\ Range(r) = Range(w) => r = w
             X == {r \in Seq(Nat) : Increasing(r) => Alone(r)}
  <1>0. \A w \in Seq(Nat) : Range(w) = {} => w = <<>>
    <2> SUFFICES ASSUME NEW w \in Seq(Nat), Range(w) = {} PROVE w = <<>>
      OBVIOUS
    <2>1. Len(w) \in Nat /\ Range(w) = {w[i] : i \in 1..Len(w)}
      BY RangeIs, LenProperties
    <2>2. Len(w) = 0
      <3> SUFFICES ASSUME Len(w) # 0 PROVE FALSE
        OBVIOUS
      <3>1. 1 \in 1..Len(w)
        BY <2>1
      <3> QED BY <2>1, <3>1
    <2> QED BY <2>2, EmptySeq
  <1>1. <<>> \in X
    BY <1>0, RangeEmpty
  <1>2. ASSUME NEW r \in X, NEW e \in Nat PROVE Append(r, e) \in X
    <2>1. PICK t : t = Append(r, e)
      OBVIOUS
    <2>2. r \in Seq(Nat) /\ t \in Seq(Nat) /\ Range(t) = Range(r) \cup {e}
      <3>1. r \in Seq(Nat)
        OBVIOUS
      <3>2. Append(r, e) \in Seq(Nat)
        BY <3>1, AppendProperties
      <3>3. Range(Append(r, e)) = Range(r) \cup {e}
        BY <3>1, NatAppend
      <3> QED BY <2>1, <3>1, <3>2, <3>3
    <2>3. SUFFICES ASSUME Increasing(t) PROVE Alone(t)
      BY <2>1, <2>2
    <2>4. Increasing(r) /\ \A x \in Range(r) : x < e
      BY <2>1, <2>2, <2>3, IncreasingAppend
    <2>5. Alone(r) /\ Range(r) \subseteq Nat
      BY <2>2, <2>4, RangeIs
    <2> HIDE DEF X
    <2>6. SUFFICES ASSUME NEW w \in Seq(Nat), Increasing(w), Range(t) = Range(w) PROVE t = w
      OBVIOUS
    <2>7. w # <<>>
      BY <2>2, <2>6, RangeEmpty
    <2>8. PICK v \in Seq(Nat), f \in Nat : w = Append(v, f)
      BY <2>7, SequenceEmptyOrAppend
    <2>9. Range(w) = Range(v) \cup {f} /\ Range(v) \subseteq Nat
      <3>1. Range(Append(v, f)) = Range(v) \cup {f}
        BY NatAppend
      <3>2. Range(v) \subseteq Nat
        BY RangeIs
      <3> QED BY <2>8, <3>1, <3>2
    <2>10. Increasing(v) /\ \A x \in Range(v) : x < f
      BY <2>6, <2>8, IncreasingAppend
    <2>11. e = f
      <3>1. e \in Range(v) \/ e = f
        BY <2>2, <2>6, <2>9
      <3>2. f \in Range(r) \/ f = e
        BY <2>2, <2>6, <2>9
      <3>3. ASSUME e \in Range(v), f \in Range(r) PROVE FALSE
        <4>1. e < f /\ f < e
          BY <2>4, <2>10, <3>3
        <4> QED BY <4>1
      <3> QED BY <3>1, <3>2, <3>3
    <2>12. Range(r) = Range(v)
      <3>1. e \notin Range(r) /\ e \notin Range(v)
        <4>1. \A x \in Nat : ~(x < x)
          OBVIOUS
        <4> QED BY <2>4, <2>10, <2>11, <4>1
      <3>2. Range(r) \cup {e} = Range(v) \cup {e}
        BY <2>2, <2>6, <2>9, <2>11
      <3>3. PICK A, B : A = Range(r) /\ B = Range(v)
        OBVIOUS
      <3>4. \A x : (x \in A \/ x = e) <=> (x \in B \/ x = e)
        BY <3>2, <3>3
      <3>5. \A x : x \in A <=> x \in B
        BY <3>1, <3>3, <3>4, Zenon
      <3> QED BY <3>3, <3>5, Zenon
    <2>13. r = v
      BY <2>5, <2>10, <2>12
    <2> QED BY <2>1, <2>8, <2>11, <2>13
  <1>3. X \in SUBSET Seq(Nat)
    OBVIOUS
  <1>4. X = Seq(Nat)
    <2> HIDE DEF X
    <2> QED BY <1>1, <1>2, <1>3, SequenceInduction
  <1> QED BY <1>4

--------------------------------------------------------------------------------
(* A walk, as a sequence of samples taken from a set *)

(* y comes behind x in the direction of the walk. *)
Behind(d, x, y) == IF d THEN y < x ELSE x < y
InOrder(d, q) == \A i, j \in 1..Len(q) : i < j => Behind(d, q[i], q[j])
AllBehind(d, P, R) == \A x \in P, y \in R : Behind(d, x, y)

(* Of the samples A due, q has been returned in order, and R is left to visit. *)
Walked(d, A, R, q) ==
  /\ q \in Seq(Samples) /\ A \subseteq Samples /\ R \subseteq Samples
  /\ Range(q) \subseteq A /\ A \subseteq Range(q) \cup R
  /\ AllBehind(d, Range(q), R) /\ InOrder(d, q)

LEMMA WalkedNew ==
  ASSUME NEW d, NEW A, NEW R, A \subseteq Samples, R \subseteq Samples, A \subseteq R
  PROVE  Walked(d, A, R, <<>>)
  <1>1. <<>> \in Seq(Samples) /\ Range(<<>>) = {} /\ Len(<<>>) = 0
    BY RangeEmpty
  <1>2. InOrder(d, <<>>)
    BY DEF InOrder
  <1> QED BY <1>1, <1>2 DEF Walked, AllBehind

(* Nothing due is passed over. *)
LEMMA WalkedOver ==
  ASSUME NEW d, NEW A, NEW R, NEW q, NEW S, Walked(d, A, R, q), S \subseteq R, R \cap A \subseteq S
  PROVE  Walked(d, A, S, q)
  BY DEF Walked, AllBehind

LEMMA WalkedTakes ==
  ASSUME NEW d, NEW A, NEW R, NEW q, NEW S, NEW x, Walked(d, A, R, q), x \in R, x \in A,
         S \subseteq R, R \cap A \subseteq S \cup {x}, AllBehind(d, {x}, S)
  PROVE  Walked(d, A, S, Append(q, x))
  <1>1. q \in Seq(Samples) /\ x \in Samples
    BY DEF Walked
  <1>2. PICK w : w = Append(q, x)
    OBVIOUS
  <1>3. w \in Seq(Samples) /\ Range(w) = Range(q) \cup {x}
    BY <1>1, <1>2, RangeAppend, AppendProperties
  <1>4. AllBehind(d, Range(w), S) /\ Range(w) \subseteq A /\ A \subseteq Range(w) \cup S
    BY <1>3 DEF Walked, AllBehind
  <1>5. InOrder(d, w)
    <2>1. /\ Len(q) \in Nat /\ Len(w) = Len(q) + 1
          /\ \A i \in 1..Len(q) : w[i] = q[i]
          /\ w[Len(q) + 1] = x
      BY <1>1, <1>2, AppendProperties, LenProperties
    <2>2. \A i \in 1..Len(q) : q[i] \in Range(q) /\ Behind(d, q[i], x)
      BY <1>1, RangeIs, SMTT(30) DEF Walked, AllBehind
    <2>3. SUFFICES ASSUME NEW i \in 1..Len(w), NEW j \in 1..Len(w), i < j
                   PROVE  Behind(d, w[i], w[j])
      BY DEF InOrder
    <2>4. PICK n \in Nat : n = Len(q)
      BY <2>1
    <2>5. i \in 1..n /\ (j \in 1..n \/ j = n + 1)
      BY <2>1, <2>3, <2>4
    <2>6. CASE j \in 1..n
      <3>1. Behind(d, q[i], q[j])
        BY <2>3, <2>4, <2>5, <2>6 DEF Walked, InOrder
      <3> QED BY <2>1, <2>4, <2>5, <2>6, <3>1
    <2>7. CASE j = n + 1
      BY <2>1, <2>2, <2>4, <2>5, <2>7
    <2> QED BY <2>5, <2>6, <2>7
  <1>6. Walked(d, A, S, w)
    BY <1>3, <1>4, <1>5 DEF Walked
  <1> QED BY <1>2, <1>6

(* More is appended, behind everything there is. *)
LEMMA WalkedMore ==
  ASSUME NEW d, NEW A, NEW R, NEW q, NEW B, NEW S, Walked(d, A, R, q),
         B \subseteq Samples, S \subseteq Samples, A \subseteq B, R \subseteq S,
         B \subseteq A \cup S, AllBehind(d, A, S \ R)
  PROVE  Walked(d, B, S, q)
  BY DEF Walked, AllBehind

(* A sequence in the order of the walk is known by its members. *)
Turn(d, p) == IF d THEN Reverse(p) ELSE p

LEMMA ReverseIs ==
  ASSUME NEW T, NEW p \in Seq(T)
  PROVE  /\ Reverse(p) \in Seq(T) /\ Len(Reverse(p)) = Len(p) /\ Range(Reverse(p)) = Range(p)
         /\ \A i \in 1..Len(p) : Reverse(p)[i] = p[(Len(p) - i) + 1]
         /\ Reverse(Reverse(p)) = p
  <1>0. PICK n \in Nat : n = Len(p)
    BY LenProperties
  <1>1. PICK w : w = Reverse(p)
    OBVIOUS
  <1>2. \A i \in 1..n : (n - i) + 1 \in 1..n /\ (n - ((n - i) + 1)) + 1 = i
    BY <1>0
  <1>3. w = [i \in 1..n |-> p[(n - i) + 1]]
    BY <1>0, <1>1 DEF Reverse
  <1>4. \A i \in 1..n : p[i] \in T /\ w[i] = p[(n - i) + 1] /\ w[i] \in T
    BY <1>0, <1>2, <1>3, ElementOfSeq
  <1>5. w \in Seq(T) /\ Len(w) = n
    BY <1>3, <1>4
  <1>6. Range(w) = {w[i] : i \in 1..n} /\ Range(p) = {p[i] : i \in 1..n}
    BY <1>0, <1>5, RangeIs
  <1>7. Range(w) = Range(p)
    BY <1>2, <1>4, <1>6
  <1>8. Reverse(w) = p
    <2>1. Reverse(w) = [i \in 1..n |-> w[(n - i) + 1]]
      BY <1>5 DEF Reverse
    <2>2. \A i \in 1..n : w[(n - i) + 1] = p[i]
      BY <1>2, <1>4
    <2>3. p = [i \in 1..n |-> p[i]]
      BY <1>0
    <2> QED BY <2>1, <2>2, <2>3
  <1> QED BY <1>0, <1>1, <1>4, <1>5, <1>7, <1>8

LEMMA OrderTurns ==
  ASSUME NEW d, NEW q \in Seq(Samples), InOrder(d, q)
  PROVE  Increasing(Turn(d, q)) /\ Turn(d, q) \in Seq(Nat) /\ Range(Turn(d, q)) = Range(q)
  <1>1. CASE ~d
    <2>1. Increasing(q)
      BY <1>1 DEF InOrder, Behind, Increasing
    <2> QED BY <1>1, <2>1, SampleSeq DEF Turn
  <1>2. CASE d
    <2>1. PICK w : w = Reverse(q)
      OBVIOUS
    <2>2. PICK n \in Nat : n = Len(q)
      BY LenProperties
    <2>3. /\ w \in Seq(Samples) /\ Len(w) = n /\ Range(w) = Range(q)
          /\ \A i \in 1..n : w[i] = q[(n - i) + 1]
      BY <2>1, <2>2, ReverseIs
    <2>4. Increasing(w)
      <3> SUFFICES ASSUME NEW i \in 1..n, NEW j \in 1..n, i < j PROVE w[i] < w[j]
        BY <2>3 DEF Increasing
      <3>1. (n - i) + 1 \in 1..n /\ (n - j) + 1 \in 1..n /\ (n - j) + 1 < (n - i) + 1
        OBVIOUS
      <3>2. Behind(d, q[(n - j) + 1], q[(n - i) + 1])
        BY <2>2, <3>1 DEF InOrder
      <3> QED BY <1>2, <2>3, <3>2 DEF Behind
    <2> QED BY <1>2, <2>1, <2>3, <2>4, SampleSeq DEF Turn
  <1> QED BY <1>1, <1>2

(* A walk with nothing left has returned all that was due, in order. *)
LEMMA WalkedEnd ==
  ASSUME NEW d, NEW A, NEW R, NEW q, NEW p \in Seq(Samples), Walked(d, A, R, q), R \cap A = {},
         Increasing(p), Range(p) = A
  PROVE  q = Turn(d, p)
  <1>1. q \in Seq(Samples) /\ InOrder(d, q) /\ Range(q) = A
    BY DEF Walked
  <1>2. /\ Increasing(Turn(d, q)) /\ Turn(d, q) \in Seq(Nat) /\ Range(Turn(d, q)) = A
    BY <1>1, OrderTurns
  <1>3. p \in Seq(Nat)
    BY SampleSeq
  <1>4. Turn(d, q) = p
    <2>1. PICK w \in Seq(Nat) : w = Turn(d, q)
      BY <1>2
    <2>2. Increasing(w) /\ Range(w) = Range(p)
      BY <1>2, <2>1
    <2>3. w = p
      BY <1>3, <2>2, IncreasingSame
    <2> QED BY <2>1, <2>3
  <1>5. Turn(d, Turn(d, q)) = q
    BY <1>1, ReverseIs DEF Turn
  <1> QED BY <1>4, <1>5

--------------------------------------------------------------------------------
(* What a position in the files and in the ingest buffer leaves to visit *)

(* Records behind position pos of a file, segments behind seg, and the k-th      *)
(* record of the ingest buffer, in direction d.                                 *)
Later(d, pos, j) == IF d THEN j <= pos ELSE j > pos
Further(d, seg, n) == IF d THEN n < seg ELSE n > seg
StartAt(d, f) == IF d THEN Len(f.recs) ELSE 0
Turned(d, b, k) == IF d THEN b[Len(b) - k + 1] ELSE b[k]

(* What a cursor in segment seg, at pos if its file is open, and ram records     *)
(* into the ingest buffer, has yet to visit.                                    *)
InFile(f, x) == \E j \in 1..Len(f.recs) : f.recs[j] = x
RestOfFile(d, pos, f, x) == \E j \in 1..Len(f.recs) : Later(d, pos, j) /\ f.recs[j] = x
FileRest(d, open, seg, pos, fs) ==
  {x \in Samples : \/ open /\ RestOfFile(d, pos, fs[seg], x)
                   \/ \E n \in DOMAIN fs : (Further(d, seg, n) \/ (n = seg /\ ~open)) /\ InFile(fs[n], x)}
RamRest(d, ram, b) == {x \in Samples : \E k \in 1..Len(b) : k > ram /\ x = Turned(d, b, k)}

(* What the stream holds, and what of it lies in window w. *)
Here(fs, b) == {x \in Samples : x \in Range(b) \/ \E n \in DOMAIN fs : InFile(fs[n], x)}
Due(w, fs, b) == {x \in Here(fs, b) : Matches(w, x)}

LEMMA FileIs ==
  ASSUME NEW fs, FileSet(fs), NEW n \in DOMAIN fs
  PROVE  /\ n \in Nat /\ fs[n].recs \in Seq(Records) /\ Len(fs[n].recs) \in Nat
         /\ \A x \in Samples : InFile(fs[n], x) <=> x \in Held1(fs[n])
  <1>1. PICK q \in Seq(Records) : n \in Nat /\ q = fs[n].recs
    BY SegmentType DEF FileSet
  <1>2. Range(q) = {q[i] : i \in 1..Len(q)} /\ Len(q) \in Nat
    BY RangeIs, LenProperties
  <1> QED BY <1>1, <1>2 DEF InFile, Held1

(* At its start a file is all to be visited. *)
LEMMA RestOfWhole ==
  ASSUME NEW d, NEW f, Len(f.recs) \in Nat, NEW x
  PROVE  RestOfFile(d, StartAt(d, f), f, x) <=> InFile(f, x)
  <1>1. \A j \in 1..Len(f.recs) : Later(d, StartAt(d, f), j)
    BY DEF Later, StartAt
  <1> QED BY <1>1 DEF RestOfFile, InFile

LEMMA RamAll ==
  ASSUME NEW d, NEW b \in Seq(Samples)
  PROVE  RamRest(d, 0, b) = Range(b) /\ \A ram \in Nat : RamRest(d, ram, b) \subseteq Range(b)
  <1>1. PICK n \in Nat : n = Len(b)
    BY LenProperties
  <1>2. Range(b) = {b[i] : i \in 1..n} /\ Range(b) \subseteq Samples
    BY <1>1, RangeIs
  <1>3. \A k \in 1..n : k > 0 /\ n - k + 1 \in 1..n /\ n - (n - k + 1) + 1 = k
    BY <1>1
  <1>4. ASSUME NEW ram \in Nat PROVE RamRest(d, ram, b) \subseteq Range(b)
    <2> SUFFICES ASSUME NEW k \in 1..n PROVE Turned(d, b, k) \in Range(b)
      BY <1>1 DEF RamRest
    <2> QED BY <1>1, <1>2, <1>3 DEF Turned
  <1>5. ASSUME NEW i \in 1..n PROVE b[i] \in RamRest(d, 0, b)
    <2>1. b[i] \in Samples
      BY <1>2
    <2>2. CASE ~d
      BY <1>1, <1>3, <2>1, <2>2 DEF RamRest, Turned
    <2>3. CASE d
      <3>1. PICK k \in 1..n : k = n - i + 1 /\ i = n - k + 1 /\ k > 0
        BY <1>3
      <3>2. b[i] = Turned(d, b, k)
        BY <1>1, <2>3, <3>1 DEF Turned
      <3> QED BY <1>1, <2>1, <3>1, <3>2 DEF RamRest
    <2> QED BY <2>2, <2>3
  <1> QED BY <1>2, <1>4, <1>5

LEMMA RestAll ==
  ASSUME NEW d, NEW fs, NEW b \in Seq(Samples), NEW open \in BOOLEAN, NEW seg, NEW pos, FileSet(fs),
         \A n \in DOMAIN fs : n = seg \/ Further(d, seg, n),
         open => seg \in DOMAIN fs /\ pos = StartAt(d, fs[seg])
  PROVE  Here(fs, b) \subseteq FileRest(d, open, seg, pos, fs) \cup RamRest(d, 0, b)
  <1>1. RamRest(d, 0, b) = Range(b)
    BY RamAll
  <1>2. ASSUME NEW n \in DOMAIN fs, NEW x \in Samples, InFile(fs[n], x)
        PROVE  x \in FileRest(d, open, seg, pos, fs)
    <2>1. CASE Further(d, seg, n) \/ ~open
      BY <1>2, <2>1 DEF FileRest
    <2>2. CASE n = seg /\ open
      <3>1. RestOfFile(d, pos, fs[seg], x)
        BY <1>2, <2>2, RestOfWhole, FileIs
      <3> QED BY <1>2, <2>2, <3>1 DEF FileRest
    <2> QED BY <2>1, <2>2
  <1> QED BY <1>1, <1>2 DEF Here

(* Opening a file changes nothing of what is to be visited. *)
LEMMA RestOpen ==
  ASSUME NEW d, NEW fs, NEW seg \in DOMAIN fs, NEW pos, NEW old, FileSet(fs),
         pos = StartAt(d, fs[seg])
  PROVE  FileRest(d, TRUE, seg, pos, fs) = FileRest(d, FALSE, seg, old, fs)
  <1>1. \A x : RestOfFile(d, pos, fs[seg], x) <=> InFile(fs[seg], x)
    BY RestOfWhole, FileIs
  <1> QED BY <1>1 DEF FileRest

(* A file that was read to its end, and the next one that holds anything. *)
Through(d, pos, f) == \A j \in 1..Len(f.recs) : ~Later(d, pos, j)

LEMMA RestNext ==
  ASSUME NEW d, NEW fs, NEW seg \in DOMAIN fs, NEW pos, NEW next \in DOMAIN fs, FileSet(fs),
         Through(d, pos, fs[seg]), Further(d, seg, next),
         \A n \in DOMAIN fs : Further(d, seg, n) => n = next \/ Further(d, next, n) \/ fs[n].recs = <<>>
  PROVE  FileRest(d, TRUE, next, StartAt(d, fs[next]), fs) = FileRest(d, TRUE, seg, pos, fs)
  <1>1. FileRest(d, TRUE, next, StartAt(d, fs[next]), fs) = FileRest(d, FALSE, next, 0, fs)
    BY RestOpen
  <1>2. \A n \in DOMAIN fs : fs[n].recs = <<>> => \A x : ~InFile(fs[n], x)
    BY DEF InFile
  <1>3. \A x : ~RestOfFile(d, pos, fs[seg], x)
    BY DEF Through, RestOfFile
  <1>4. \A n \in DOMAIN fs : Further(d, next, n) \/ n = next => Further(d, seg, n)
    BY FileIs DEF Further
  <1>5. \A x \in Samples :
          (\E n \in DOMAIN fs : (Further(d, next, n) \/ n = next) /\ InFile(fs[n], x))
            <=> \E n \in DOMAIN fs : Further(d, seg, n) /\ InFile(fs[n], x)
    BY <1>2, <1>4
  <1>6. FileRest(d, FALSE, next, 0, fs)
          = {x \in Samples : \E n \in DOMAIN fs : (Further(d, next, n) \/ n = next) /\ InFile(fs[n], x)}
    BY DEF FileRest
  <1>7. FileRest(d, TRUE, seg, pos, fs)
          = {x \in Samples : \E n \in DOMAIN fs : Further(d, seg, n) /\ InFile(fs[n], x)}
    BY <1>3 DEF FileRest
  <1> QED BY <1>1, <1>5, <1>6, <1>7

LEMMA RestFilesDone ==
  ASSUME NEW d, NEW fs, NEW seg \in DOMAIN fs, NEW pos, Through(d, pos, fs[seg]),
         \A n \in DOMAIN fs : Further(d, seg, n) => fs[n].recs = <<>>
  PROVE  FileRest(d, TRUE, seg, pos, fs) = {}
  <1>1. \A n \in DOMAIN fs : fs[n].recs = <<>> => \A x : ~InFile(fs[n], x)
    BY DEF InFile
  <1>2. \A x : ~RestOfFile(d, pos, fs[seg], x)
    BY DEF Through, RestOfFile
  <1> QED BY <1>1, <1>2 DEF FileRest

LEMMA PrefixIs ==
  ASSUME NEW T, NEW p \in Seq(T), NEW q \in Seq(T)
  PROVE  IsPrefix(p, q) <=> Len(p) <= Len(q) /\ \A i \in 1..Len(p) : p[i] = q[i]
  <1>1. PICK n \in Nat, m \in Nat : n = Len(p) /\ m = Len(q)
    BY LenProperties
  <1>2. SubSeq(p, 1, n) = [i \in 1..n |-> p[i]] /\ (n <= m => SubSeq(q, 1, n) = [i \in 1..n |-> q[i]])
    BY <1>1
  <1> QED BY <1>1, <1>2 DEF IsPrefix

(* One record of the open file is read. *)
RecordAt(d, pos) == IF d THEN pos ELSE pos + 1
PosAfter(d, pos) == IF d THEN pos - 1 ELSE pos + 1

LEMMA LaterSteps ==
  ASSUME NEW d, NEW pos \in Nat, NEW j \in Nat
  PROVE  /\ Later(d, pos, j) <=> Later(d, PosAfter(d, pos), j) \/ j = RecordAt(d, pos)
         /\ Later(d, PosAfter(d, pos), j) => IF d THEN j < RecordAt(d, pos) ELSE RecordAt(d, pos) < j
  BY DEF Later, PosAfter, RecordAt

(* B is what is left of A without x. *)
OneLess(A, B, x) == B \subseteq A /\ A \subseteq B \cup {x}

LEMMA RestRecord ==
  ASSUME NEW d, NEW fs, NEW b, NEW seg \in DOMAIN fs, NEW pos \in Nat, NEW x, FileSet(fs), Lined(fs, b),
         RecordAt(d, pos) \in 1..Len(fs[seg].recs), x = fs[seg].recs[RecordAt(d, pos)]
  PROVE  /\ OneLess(FileRest(d, TRUE, seg, pos, fs), FileRest(d, TRUE, seg, PosAfter(d, pos), fs), x)
         /\ x \in Samples => /\ x \in FileRest(d, TRUE, seg, pos, fs)
                            /\ AllBehind(d, {x}, FileRest(d, TRUE, seg, PosAfter(d, pos), fs))
         /\ x \in Samples => AllBehind(FALSE, {x}, Range(b))
  <1> DEFINE old == FileRest(d, TRUE, seg, pos, fs)
             new == FileRest(d, TRUE, seg, PosAfter(d, pos), fs)
  <1>1. PICK q, n, j : q = fs[seg].recs /\ n = Len(q) /\ j = RecordAt(d, pos)
    OBVIOUS
  <1>2. q \in Seq(Records) /\ n \in Nat /\ j \in 1..n /\ j \in Nat /\ x = q[j] /\ x = fs[seg].recs[j]
    BY <1>1, FileIs
  <1>3. \A y : RestOfFile(d, pos, fs[seg], y) <=> RestOfFile(d, PosAfter(d, pos), fs[seg], y) \/ y = x
    <2>1. \A i \in 1..n : i \in Nat /\ (Later(d, pos, i) <=> Later(d, PosAfter(d, pos), i) \/ i = j)
      BY <1>1, <1>2, LaterSteps
    <2>2. \A y, e : RestOfFile(d, e, fs[seg], y) <=> \E i \in 1..n : Later(d, e, i) /\ q[i] = y
      BY <1>1 DEF RestOfFile
    <2> QED BY <1>2, <2>1, <2>2
  <1>4. new \subseteq old /\ old \subseteq new \cup {x} /\ (x \in Samples => x \in old)
    BY <1>3 DEF FileRest
  <1>5. x \in Samples => x \in Held1(fs[seg])
    <2>1. InFile(fs[seg], x)
      BY <1>1, <1>2 DEF InFile
    <2> QED BY <2>1, FileIs
  <1>6. ASSUME x \in Samples, NEW y \in new PROVE Behind(d, x, y)
    <2>1. y \in Samples
      BY <1>6 DEF FileRest
    <2>2. CASE RestOfFile(d, PosAfter(d, pos), fs[seg], y)
      <3>1. PICK i \in 1..n : Later(d, PosAfter(d, pos), i) /\ q[i] = y
        BY <1>1, <2>2 DEF RestOfFile
      <3>2. IF d THEN i < j ELSE j < i
        BY <1>1, <1>2, <3>1, LaterSteps
      <3>3. \A a, c \in 1..n : a < c /\ q[a] \in Samples /\ q[c] \in Samples => q[a] < q[c]
        BY <1>1 DEF Lined
      <3> QED BY <1>2, <1>6, <2>1, <3>1, <3>2, <3>3 DEF Behind
    <2>3. CASE ~RestOfFile(d, PosAfter(d, pos), fs[seg], y)
      <3>1. PICK m \in DOMAIN fs : Further(d, seg, m) /\ InFile(fs[m], y)
        BY <1>6, <2>3 DEF FileRest
      <3>2. y \in Held1(fs[m])
        BY <2>1, <3>1, FileIs
      <3>3. m \in Nat /\ seg \in Nat
        BY FileIs
      <3> QED BY <1>5, <1>6, <3>1, <3>2, <3>3 DEF Lined, Further, Behind
    <2> QED BY <2>2, <2>3
  <1>7. ASSUME x \in Samples PROVE AllBehind(FALSE, {x}, Range(b))
    BY <1>5, <1>7 DEF AllBehind, Behind, Lined
  <1> QED BY <1>4, <1>6, <1>7 DEF AllBehind, OneLess

(* What is to be visited of the files lies before what the buffer holds. *)
LEMMA FilesFirst ==
  ASSUME NEW d, NEW fs, NEW b, NEW open, NEW seg, NEW pos, FileSet(fs), Lined(fs, b),
         open => seg \in DOMAIN fs
  PROVE  \A x \in FileRest(d, open, seg, pos, fs), y \in Range(b) : x < y
  <1> SUFFICES ASSUME NEW x \in FileRest(d, open, seg, pos, fs) PROVE \A y \in Range(b) : x < y
    OBVIOUS
  <1>1. \E n \in DOMAIN fs : InFile(fs[n], x)
    BY DEF FileRest, RestOfFile, InFile
  <1>2. x \in Samples
    BY DEF FileRest
  <1> QED BY <1>1, <1>2, FileIs DEF Lined

(* The next record of the buffer that matches, at k, is taken. *)
Skips(d, b, ram, k, x) ==
  \A y \in RamRest(d, ram, b) :
     \/ y \in RamRest(d, k, b) \/ y = x
     \/ \E m \in (ram + 1)..Len(b) : m < k /\ y = Turned(d, b, m)

LEMMA RamTakes ==
  ASSUME NEW d, NEW b \in Seq(Samples), NEW ram \in Nat, NEW k \in 1..Len(b), Increasing(b), k > ram,
         NEW x, x = Turned(d, b, k)
  PROVE  /\ RamRest(d, k, b) \subseteq RamRest(d, ram, b) /\ x \in RamRest(d, ram, b)
         /\ AllBehind(d, {x}, RamRest(d, k, b))
         /\ Skips(d, b, ram, k, x)
  <1>1. PICK n \in Nat : n = Len(b)
    BY LenProperties
  <1>2. k \in 1..n /\ \A m \in 1..n : n - m + 1 \in 1..n /\ b[m] \in Samples /\ Turned(d, b, m) \in Samples
    <2>1. \A m \in 1..n : n - m + 1 \in 1..n
      OBVIOUS
    <2>2. \A m \in 1..n : b[m] \in Samples
      BY <1>1, SampleSeq
    <2> QED BY <1>1, <2>1, <2>2 DEF Turned
  <1>3. \A e : RamRest(d, e, b) = {y \in Samples : \E m \in 1..n : m > e /\ y = Turned(d, b, m)}
    BY <1>1 DEF RamRest
  <1>4. RamRest(d, k, b) \subseteq RamRest(d, ram, b) /\ x \in RamRest(d, ram, b)
    BY <1>2, <1>3
  <1>5. ASSUME NEW m \in 1..n, m > k PROVE Behind(d, x, Turned(d, b, m))
    <2>1. \A i, j \in 1..n : i < j => b[i] < b[j]
      BY <1>1 DEF Increasing
    <2>2. CASE ~d
      BY <1>2, <1>5, <2>1, <2>2 DEF Turned, Behind
    <2>3. CASE d
      <3>1. n - m + 1 \in 1..n /\ n - k + 1 \in 1..n /\ n - m + 1 < n - k + 1
        BY <1>2, <1>5
      <3>2. b[n - m + 1] < b[n - k + 1]
        BY <2>1, <3>1
      <3> QED BY <1>1, <2>3, <3>2 DEF Turned, Behind
    <2> QED BY <2>2, <2>3
  <1>6. AllBehind(d, {x}, RamRest(d, k, b))
    BY <1>3, <1>5 DEF AllBehind
  <1>7. ASSUME NEW y \in RamRest(d, ram, b)
        PROVE  \/ y \in RamRest(d, k, b) \/ y = x
               \/ \E m \in (ram + 1)..Len(b) : m < k /\ y = Turned(d, b, m)
    <2>1. PICK m \in 1..n : m > ram /\ y = Turned(d, b, m) /\ y \in Samples
      BY <1>3
    <2>2. m \in (ram + 1)..n
      BY <2>1
    <2>3. m < k \/ m = k \/ m > k
      BY <1>2, <2>1
    <2> QED BY <1>1, <1>3, <2>1, <2>2, <2>3
  <1> QED BY <1>4, <1>6, <1>7 DEF Skips

LEMMA RamEmpty ==
  ASSUME NEW d, NEW b \in Seq(Samples), NEW ram \in Nat
  PROVE  /\ Len(b) <= ram => RamRest(d, ram, b) = {}
         /\ \A y \in RamRest(d, ram, b) : \E m \in (ram + 1)..Len(b) : y = Turned(d, b, m)
  <1>1. PICK n \in Nat : n = Len(b)
    BY LenProperties
  <1>2. \A y \in RamRest(d, ram, b) : \E m \in 1..n : m > ram /\ y = Turned(d, b, m)
    BY <1>1 DEF RamRest
  <1>3. \A m \in 1..n : m > ram => m \in (ram + 1)..n
    OBVIOUS
  <1>4. n <= ram => \A m \in 1..n : ~(m > ram)
    OBVIOUS
  <1> QED BY <1>1, <1>2, <1>3, <1>4

(* Samples appended to the buffer come behind everything there was. *)
LEMMA RamGrows ==
  ASSUME NEW fs, NEW b \in Seq(Samples), NEW e \in Seq(Samples), NEW ram \in Nat, ram <= Len(b),
         IsPrefix(b, e), Lined(fs, e), FileSet(fs)
  PROVE  /\ RamRest(FALSE, ram, b) \subseteq RamRest(FALSE, ram, e)
         /\ Here(fs, b) \subseteq Here(fs, e)
         /\ Here(fs, e) \subseteq Here(fs, b) \cup RamRest(FALSE, ram, e)
         /\ AllBehind(FALSE, Here(fs, b), RamRest(FALSE, ram, e) \ RamRest(FALSE, ram, b))
  <1>1. PICK n \in Nat, m \in Nat : n = Len(b) /\ m = Len(e)
    BY LenProperties
  <1>2. n <= m /\ \A i \in 1..n : i \in 1..m /\ b[i] = e[i]
    <2>1. Len(b) <= Len(e) /\ \A i \in 1..Len(b) : b[i] = e[i]
      BY PrefixIs
    <2> QED BY <1>1, <2>1
  <1>3. /\ RamRest(FALSE, ram, b) = {y \in Samples : \E i \in 1..n : i > ram /\ y = b[i]}
        /\ RamRest(FALSE, ram, e) = {y \in Samples : \E i \in 1..m : i > ram /\ y = e[i]}
    BY <1>1 DEF RamRest, Turned
  <1>4. Range(b) = {b[i] : i \in 1..n} /\ Range(e) = {e[i] : i \in 1..m}
    BY <1>1, RangeIs
  <1>5. RamRest(FALSE, ram, b) \subseteq RamRest(FALSE, ram, e) /\ Range(b) \subseteq Range(e)
    BY <1>2, <1>3, <1>4, ZenonT(30)
  <1>6. Here(fs, b) \subseteq Here(fs, e)
    BY <1>5 DEF Here
  <1>7. ASSUME NEW x \in Here(fs, e) PROVE x \in Here(fs, b) \cup RamRest(FALSE, ram, e)
    <2>1. CASE x \in Range(e) \ Range(b)
      <3>1. PICK i \in 1..m : x = e[i]
        BY <1>4, <2>1
      <3>2. i > n
        <4>1. i \notin 1..n
          BY <1>2, <1>4, <2>1, <3>1
        <4> QED BY <4>1
      <3>3. i > ram /\ x \in Samples
        BY <1>1, <1>7, <3>2 DEF Here
      <3> QED BY <1>3, <3>1, <3>3
    <2>2. CASE x \notin Range(e) \ Range(b)
      BY <1>7, <2>2 DEF Here
    <2> QED BY <2>1, <2>2
  <1>8. ASSUME NEW x \in Here(fs, b), NEW y \in RamRest(FALSE, ram, e), y \notin RamRest(FALSE, ram, b)
        PROVE  x < y
    <2>1. PICK i \in 1..m : i > ram /\ y = e[i] /\ y \in Samples
      BY <1>3, <1>8
    <2>2. i > n
      <3>1. i \notin 1..n
        BY <1>2, <1>3, <1>8, <2>1
      <3> QED BY <3>1
    <2>3. y \in Range(e)
      BY <1>4, <2>1
    <2>4. CASE x \in Range(b)
      <3>1. PICK j \in 1..n : x = e[j] /\ j \in 1..m
        BY <1>2, <1>4, <2>4
      <3>2. \A k, l \in 1..m : k < l => e[k] < e[l]
        BY <1>1 DEF Lined, Increasing
      <3> QED BY <2>1, <2>2, <3>1, <3>2
    <2>5. CASE x \notin Range(b)
      <3>1. PICK k \in DOMAIN fs : InFile(fs[k], x) /\ x \in Samples
        BY <1>8, <2>5 DEF Here
      <3>2. x \in Held1(fs[k])
        BY <3>1, FileIs
      <3> QED BY <2>3, <3>2 DEF Lined
    <2> QED BY <2>4, <2>5
  <1> QED BY <1>5, <1>6, <1>7, <1>8 DEF AllBehind, Behind

--------------------------------------------------------------------------------
(* A stream as a reader finds it *)

Sound(fs, b) ==
  /\ FileSet(fs) /\ Headed(fs) /\ \E m \in Nat : UpTo(fs, m)
  /\ b \in Seq(Samples) /\ Lined(fs, b) /\ Increasing(Cat(StoredIn(fs), b))

LEMMA StreamSound ==
  ASSUME LogAssumptions, TsInv, LogInv, NEW s \in Streams
  PROVE  Sound(disk[s], RamIn(slots, s))
  <1>1. RamIn(slots, s) = InRam(s) /\ StoredIn(disk[s]) = Readable(s)
    BY InRamIs, ReadableIs
  <1>2. Cat(Readable(s), InRam(s)) = Only(log[s], Samples \ gone)
    BY DEF LogInv, KeptInv
  <1>3. log[s] \in Seq(Nat) /\ Increasing(log[s])
    BY LogType DEF LogInv, HistInv
  <1>4. Increasing(Cat(StoredIn(disk[s]), RamIn(slots, s)))
    BY <1>1, <1>2, <1>3, OnlyIncreasing
  <1>5. Lined(disk[s], RamIn(slots, s)) /\ RamIn(slots, s) \in Seq(Samples)
    BY <1>1, StreamLined, RamType
  <1> QED BY <1>4, <1>5, FilesHere DEF Sound

Asked(w) == {x \in Samples : Matches(w, x)}
Answer(w, fs, b) == Only(Cat(StoredIn(fs), b), Asked(w))

LEMMA ContentIs ==
  ASSUME NEW s, NEW w, NEW d
  PROVE  Content(s, w, d) = Turn(d, Answer(w, disk[s], RamIn(slots, s)))
  <1>1. RamIn(slots, s) = InRam(s) /\ StoredIn(disk[s]) = Readable(s)
    BY InRamIs, ReadableIs
  <1> QED BY <1>1 DEF Content, Turn, Answer, Asked, Cat

LEMMA HereIs ==
  ASSUME NEW fs, NEW b, Sound(fs, b)
  PROVE  /\ StoredIn(fs) \in Seq(Samples) /\ Cat(StoredIn(fs), b) \in Seq(Samples)
         /\ Range(Cat(StoredIn(fs), b)) = Here(fs, b)
  <1>1. PICK m \in Nat : UpTo(fs, m)
    BY DEF Sound
  <1>2. FileSet(fs) /\ Headed(fs) /\ b \in Seq(Samples)
    BY DEF Sound
  <1>3. PICK p \in Seq(Samples) : p = StoredIn(fs)
    BY <1>1, <1>2, StoredIs
  <1>4. Cat(p, b) \in Seq(Samples) /\ Range(Cat(p, b)) = Range(p) \cup Range(b)
    BY <1>2, CatType, CatRange
  <1>5. Range(p) \subseteq Samples /\ Range(b) \subseteq Samples
    BY <1>2, RangeIs
  <1>6. \A x \in Samples : x \in Range(p) <=> \E n \in DOMAIN fs : InFile(fs[n], x)
    <2>1. \A x \in Samples : x # Bad
      BY SamplesNat
    <2>2. \A x : x \in Range(p) <=> x # Bad /\ \E n \in DOMAIN fs : x \in Range(fs[n].recs)
      BY <1>1, <1>2, <1>3, StoredRange
    <2>3. \A n \in DOMAIN fs : \A x \in Samples : InFile(fs[n], x) <=> x \in Range(fs[n].recs)
      BY <1>2, FileIs DEF Held1
    <2> QED BY <2>1, <2>2, <2>3
  <1> QED BY <1>3, <1>4, <1>5, <1>6 DEF Here

LEMMA AnswerIs ==
  ASSUME NEW w, NEW fs, NEW b, Sound(fs, b)
  PROVE  /\ Answer(w, fs, b) \in Seq(Samples) /\ Increasing(Answer(w, fs, b))
         /\ Range(Answer(w, fs, b)) = Due(w, fs, b)
         /\ Due(w, fs, b) \subseteq Samples
  <1>1. PICK q \in Seq(Samples) : q = Cat(StoredIn(fs), b) /\ Range(q) = Here(fs, b) /\ Increasing(q)
    BY HereIs DEF Sound
  <1>2. Only(q, Asked(w)) \in Seq(Samples) /\ Range(Only(q, Asked(w))) = Range(q) \cap Asked(w)
    BY OnlyType, OnlyRange
  <1>3. Increasing(Only(q, Asked(w)))
    BY <1>1, SampleSeq, OnlyIncreasing
  <1>4. Range(q) \cap Asked(w) = Due(w, fs, b)
    BY <1>1 DEF Due, Asked, Here
  <1> QED BY <1>1, <1>2, <1>3, <1>4 DEF Answer, Due, Here

--------------------------------------------------------------------------------
(* A cursor and where its walk stands *)

Cursor ==
  [s : Streams \cup {NoStream}, mode : ModeKinds, desc : BOOLEAN, win : Nat \X Nat, lo : Nat, hi : Nat,
   seg : Nat, open : BOOLEAN, view : Segment, size : Nat, pos : Nat, done : BOOLEAN,
   ram : Nat, slot : 0..MaxStreams, last : {"none", "ok", "end", "corrupt"},
   got : Seq(Samples), must : Seq(Samples), stored : SUBSET Samples, calm : BOOLEAN, fresh : BOOLEAN]

(* Nothing ran into the walk, and it began with the open or in the only segment. *)
Steady(c) == c.s # NoStream /\ c.calm /\ (c.fresh \/ c.lo = c.hi)

(* Of what is due, the walk has returned everything but what is left to visit,  *)
(* in order, and what is left comes behind what it returned.                    *)
Left(c, fs, b) ==
  (IF c.done THEN {} ELSE FileRest(c.desc, c.open, c.seg, c.pos, fs)) \cup RamRest(c.desc, c.ram, b)
Walks(c, fs, b) == Walked(c.desc, Due(c.win, fs, b), Left(c, fs, b), c.got)

(* Where the cursor stands: the window of segments covers every file, the view   *)
(* is the file, and files and ingest buffer are taken in the order of the walk. *)
Stands(c, p, fs, b) ==
  /\ \A n \in DOMAIN fs : c.lo <= n /\ n <= c.hi
  /\ c.open => /\ c.seg \in DOMAIN fs /\ c.view = fs[c.seg] /\ c.size = Len(fs[c.seg].recs)
               /\ c.desc => c.pos <= c.size
  /\ c.ram <= Len(b)
  /\ p = "open" => ~c.open /\ ~c.done
  /\ p # "open" => (c.open \/ c.done) /\ (c.lo = c.hi => c.open)
  /\ c.lo = c.hi => c.seg = c.lo
  /\ p = "file" => ~c.done /\ (c.desc => c.ram = Len(b))
  /\ p \in {"find", "ram"} => c.desc \/ c.done

(* What the stream held when the walk began, and what the end of it owes. *)
Promised(c, fs, b) ==
  IF c.desc THEN c.must = Turn(TRUE, Answer(c.win, fs, b)) ELSE IsPrefix(c.must, Answer(c.win, fs, b))
Served(c) == c.last = "end" => IF c.desc THEN c.got = c.must ELSE IsPrefix(c.must, c.got)

Looked(c, p, fs, b) == Stands(c, p, fs, b) /\ Walks(c, fs, b) /\ Promised(c, fs, b) /\ Served(c)

(* Fields that describe the walk and not its progress. *)
SameWalk(c, e) ==
  /\ e.s = c.s /\ e.mode = c.mode /\ e.desc = c.desc /\ e.win = c.win /\ e.lo = c.lo /\ e.hi = c.hi
  /\ e.must = c.must /\ e.calm = c.calm /\ e.fresh = c.fresh
SamePlace(c, e) ==
  /\ e.seg = c.seg /\ e.open = c.open /\ e.view = c.view /\ e.size = c.size /\ e.pos = c.pos
  /\ e.done = c.done

LEMMA EndsServed ==
  ASSUME NEW c \in Cursor, NEW fs, NEW b, Sound(fs, b), Walks(c, fs, b), Promised(c, fs, b),
         Left(c, fs, b) \cap Due(c.win, fs, b) = {}
  PROVE  IF c.desc THEN c.got = c.must ELSE IsPrefix(c.must, c.got)
  <1>1. PICK a \in Seq(Samples) : a = Answer(c.win, fs, b) /\ Increasing(a) /\ Range(a) = Due(c.win, fs, b)
    BY AnswerIs
  <1>2. c.got = Turn(c.desc, a)
    BY <1>1, WalkedEnd DEF Walks
  <1> QED BY <1>1, <1>2 DEF Promised, Turn

(* A call of zdb_cursor_next() returns. *)
LEMMA Returned ==
  ASSUME NEW c \in Cursor, NEW fs, NEW b, NEW e, NEW p, NEW what \in {"ok", "end", "corrupt"},
         Sound(fs, b), Stands(c, "idle", fs, b), Walks(c, fs, b), Promised(c, fs, b),
         what = "end" => Left(c, fs, b) \cap Due(c.win, fs, b) = {},
         e = [c EXCEPT !.last = what, !.slot = 0],
         p \in {"idle", "answer"} \/ p = Start(c)
  PROVE  Looked(e, p, fs, b)
  <1>1. SameWalk(c, e) /\ SamePlace(c, e) /\ e.ram = c.ram /\ e.got = c.got /\ e.last = what
    BY DEF Cursor, SameWalk, SamePlace
  <1>2. Walks(e, fs, b) /\ Promised(e, fs, b)
    BY <1>1 DEF SameWalk, SamePlace, Walks, Left, Promised
  <1>3. Served(e)
    BY <1>1, EndsServed DEF SameWalk, Served
  <1>4. p \in {"idle", "answer"} \/ (p = "find" /\ (c.desc \/ c.done)) \/ (p = "file" /\ ~c.desc /\ ~c.done)
    BY DEF Start
  <1>5. Stands(e, p, fs, b)
    BY <1>1, <1>4 DEF SameWalk, SamePlace, Stands
  <1> QED BY <1>2, <1>3, <1>5 DEF Looked

--------------------------------------------------------------------------------
(* The steps of a walk nothing runs into *)

Mid(c, fs, b) == Stands(c, "idle", fs, b) /\ Walks(c, fs, b) /\ Promised(c, fs, b)
Opens(c, n, f) ==
  [c EXCEPT !.seg = n, !.open = TRUE, !.view = f, !.size = Len(f.recs),
            !.pos = IF c.desc THEN Len(f.recs) ELSE 0]

LEMMA OpensIs ==
  ASSUME NEW c \in Cursor, NEW n \in Nat, NEW f \in Segment, NEW e, e = Opens(c, n, f)
  PROVE  /\ e \in Cursor /\ SameWalk(c, e) /\ e.ram = c.ram /\ e.got = c.got /\ e.last = c.last
         /\ e.done = c.done /\ e.slot = c.slot
         /\ e.seg = n /\ e.open /\ e.view = f /\ e.size = Len(f.recs) /\ e.pos = StartAt(c.desc, f)
  <1>1. Len(f.recs) \in Nat
    BY SegmentType, LenProperties
  <1>2. PICK k \in Nat : k = Len(f.recs)
    BY <1>1
  <1>3. PICK m \in Nat : m = IF c.desc THEN k ELSE 0
    OBVIOUS
  <1>4. e = [c EXCEPT !.seg = n, !.open = TRUE, !.view = f, !.size = k, !.pos = m]
    BY <1>2, <1>3 DEF Opens
  <1>5. m = StartAt(c.desc, f)
    BY <1>2, <1>3 DEF StartAt
  <1>6. e \in Cursor
    BY <1>4, ZenonT(60) DEF Cursor
  <1>7. SameWalk(c, e) /\ e.ram = c.ram /\ e.got = c.got /\ e.last = c.last
    BY <1>4 DEF Cursor, SameWalk
  <1>8. /\ e.done = c.done /\ e.slot = c.slot
        /\ e.seg = n /\ e.open = TRUE /\ e.view = f /\ e.size = k /\ e.pos = m
    BY <1>4 DEF Cursor
  <1> QED BY <1>2, <1>5, <1>6, <1>7, <1>8

(* e is cursor c with file f, number n, just opened. *)
Entered(c, n, f, e) ==
  /\ SameWalk(c, e) /\ e.ram = c.ram /\ e.got = c.got /\ e.last = c.last /\ e.done = c.done
  /\ e.seg = n /\ e.open /\ e.view = f /\ e.size = Len(f.recs) /\ e.pos = StartAt(c.desc, f)

LEMMA OpensEnters ==
  ASSUME NEW c \in Cursor, NEW n \in Nat, NEW f \in Segment
  PROVE  Entered(c, n, f, Opens(c, n, f))
  <1>1. PICK e : e = Opens(c, n, f)
    OBVIOUS
  <1>2. Entered(c, n, f, e)
    BY <1>1, OpensIs DEF Entered
  <1> QED BY <1>1, <1>2

LEMMA SeesFile ==
  ASSUME NEW fs, NEW b, Sound(fs, b), NEW n \in DOMAIN fs
  PROVE  n \in Nat /\ fs[n] \in Segment /\ Len(fs[n].recs) \in Nat /\ (~fs[n].hdr => fs[n].recs = <<>>)
  BY FileIs DEF Sound, FileSet, Headed, EmptyFile

LEMMA OpensFirst ==
  ASSUME NEW c \in Cursor, NEW fs, NEW b, NEW e, NEW p \in {"idle", "file"},
         Sound(fs, b), Looked(c, "open", fs, b), c.seg \in DOMAIN fs, p = "file" => ~c.desc,
         e = Opens(c, c.seg, fs[c.seg])
  PROVE  Looked(e, p, fs, b)
  <1>1. c.seg \in Nat /\ fs[c.seg] \in Segment
    BY SeesFile
  <1>2. /\ SameWalk(c, e) /\ e.ram = c.ram /\ e.got = c.got /\ e.last = c.last
        /\ e.done = c.done
        /\ e.seg = c.seg /\ e.open /\ e.view = fs[c.seg] /\ e.size = Len(fs[c.seg].recs)
        /\ e.pos = StartAt(c.desc, fs[c.seg])
    <2>1. PICK n \in Nat, f \in Segment : n = c.seg /\ f = fs[c.seg]
      BY <1>1
    <2>2. e = Opens(c, n, f)
      BY <2>1
    <2>3. /\ SameWalk(c, e) /\ e.ram = c.ram /\ e.got = c.got /\ e.last = c.last
          /\ e.done = c.done
          /\ e.seg = n /\ e.open /\ e.view = f /\ e.size = Len(f.recs)
          /\ e.pos = StartAt(c.desc, f)
      BY <2>2, OpensIs
    <2> QED BY <2>1, <2>3
  <1>3. ~c.open /\ ~c.done
    BY DEF Looked, Stands
  <1>4. Left(e, fs, b) = Left(c, fs, b)
    <2>1. FileRest(c.desc, TRUE, c.seg, e.pos, fs) = FileRest(c.desc, FALSE, c.seg, c.pos, fs)
      <3>1. PICK d, n, old, new : d = c.desc /\ n = c.seg /\ old = c.pos /\ new = e.pos
        OBVIOUS
      <3>2. new = StartAt(d, fs[n]) /\ FileSet(fs) /\ n \in DOMAIN fs
        BY <1>2, <3>1 DEF Sound
      <3>3. FileRest(d, TRUE, n, new, fs) = FileRest(d, FALSE, n, old, fs)
        BY <3>2, RestOpen
      <3> QED BY <3>1, <3>3
    <2>2. c.open = FALSE /\ e.open = TRUE
      BY <1>1, <1>2, <1>3, OpensIs DEF Cursor
    <2> QED BY <1>2, <1>3, <2>1, <2>2 DEF Left, SameWalk
  <1>5. Walks(e, fs, b) /\ Promised(e, fs, b) /\ Served(e)
    BY <1>2, <1>4 DEF Looked, Walks, Promised, Served, SameWalk
  <1>6. Stands(e, p, fs, b)
    <2>1. e.desc => e.pos <= e.size
      BY <1>1, <1>2, SeesFile DEF StartAt, SameWalk
    <2> QED BY <1>2, <1>3, <2>1 DEF Looked, Stands, SameWalk
  <1> QED BY <1>5, <1>6 DEF Looked

LEMMA OpensNext ==
  ASSUME NEW c \in Cursor, NEW fs, NEW b, NEW e, NEW n \in DOMAIN fs,
         Sound(fs, b), Looked(c, "file", fs, b), c.open, Through(c.desc, c.pos, fs[c.seg]),
         Further(c.desc, c.seg, n),
         \A m \in DOMAIN fs : Further(c.desc, c.seg, m) => m = n \/ Further(c.desc, n, m) \/ fs[m].recs = <<>>,
         e = Opens(c, n, fs[n])
  PROVE  Looked(e, "file", fs, b)
  <1>1. n \in Nat /\ fs[n] \in Segment
    BY SeesFile
  <1>2. /\ SameWalk(c, e) /\ e.ram = c.ram /\ e.got = c.got /\ e.last = c.last
        /\ e.done = c.done
        /\ e.seg = n /\ e.open /\ e.view = fs[n] /\ e.size = Len(fs[n].recs)
        /\ e.pos = StartAt(c.desc, fs[n])
    <2>1. Entered(c, n, fs[n], Opens(c, n, fs[n]))
      BY <1>1, OpensEnters
    <2>2. Entered(c, n, fs[n], e)
      BY <2>1
    <2> QED BY <2>2 DEF Entered
  <1>3. ~c.done /\ c.seg \in DOMAIN fs
    BY DEF Looked, Stands
  <1>4. Left(e, fs, b) = Left(c, fs, b)
    <2>1. FileRest(c.desc, TRUE, n, StartAt(c.desc, fs[n]), fs) = FileRest(c.desc, TRUE, c.seg, c.pos, fs)
      BY <1>3, RestNext DEF Sound
    <2>2. c.open = TRUE /\ e.open = TRUE
      BY <1>1, <1>2, OpensIs DEF Cursor
    <2> QED BY <1>2, <1>3, <2>1, <2>2 DEF Left, SameWalk
  <1>5. Walks(e, fs, b) /\ Promised(e, fs, b) /\ Served(e)
    BY <1>2, <1>4 DEF Looked, Walks, Promised, Served, SameWalk
  <1>6. Stands(e, "file", fs, b)
    <2>1. e.desc => e.pos <= e.size
      BY <1>1, <1>2, SeesFile DEF StartAt, SameWalk
    <2>2. c.lo # c.hi
      <3>1. c.lo \in Nat /\ c.hi \in Nat /\ c.seg \in Nat
        BY DEF Cursor
      <3>2. c.lo <= n /\ n <= c.hi /\ (c.lo = c.hi => c.seg = c.lo)
        BY DEF Looked, Stands
      <3> QED BY <1>1, <3>1, <3>2 DEF Further
    <2> QED BY <1>2, <1>3, <2>1, <2>2 DEF Looked, Stands, SameWalk
  <1> QED BY <1>5, <1>6 DEF Looked

LEMMA FilesEnd ==
  ASSUME NEW c \in Cursor, NEW fs, NEW b, NEW e, NEW end \in Nat,
         Sound(fs, b), Looked(c, "file", fs, b), c.open, Through(c.desc, c.pos, fs[c.seg]),
         \A m \in DOMAIN fs : Further(c.desc, c.seg, m) => fs[m].recs = <<>>,
         end = IF c.desc THEN c.lo ELSE c.hi,
         e = [[c EXCEPT !.open = c.open /\ c.seg = end, !.seg = end] EXCEPT !.done = TRUE]
  PROVE  /\ e \in Cursor /\ SameWalk(c, e) /\ e.last = c.last /\ e.got = c.got /\ e.done
         /\ Mid(e, fs, b) /\ (c.desc => Left(e, fs, b) = {})
         /\ (~c.desc => Looked(e, "find", fs, b))
  <1>1. /\ e \in Cursor /\ SameWalk(c, e) /\ e.ram = c.ram /\ e.got = c.got /\ e.last = c.last
        /\ e.done = TRUE /\ e.seg = end /\ e.open = (c.open /\ c.seg = end) /\ e.view = c.view
        /\ e.size = c.size /\ e.pos = c.pos
    BY ZenonT(30) DEF Cursor, SameWalk
  <1>2. ~c.done /\ c.seg \in DOMAIN fs /\ c.open = TRUE
    BY DEF Looked, Stands, Cursor
  <1>3. FileRest(c.desc, TRUE, c.seg, c.pos, fs) = {}
    BY <1>2, RestFilesDone
  <1>4. Left(e, fs, b) = RamRest(c.desc, c.ram, b) /\ Left(e, fs, b) = Left(c, fs, b)
    BY <1>1, <1>2, <1>3 DEF Left, SameWalk
  <1>5. Walks(e, fs, b) /\ Promised(e, fs, b) /\ Served(e)
    BY <1>1, <1>4, ZenonT(30) DEF Looked, Walks, Promised, Served, SameWalk
  <1>6. Stands(e, "idle", fs, b) /\ (~c.desc => Stands(e, "find", fs, b))
    BY <1>1, <1>2, ZenonT(60) DEF Looked, Stands, SameWalk
  <1>7. ASSUME c.desc PROVE Left(e, fs, b) = {}
    <2>1. c.ram = Len(b) /\ c.ram \in Nat /\ b \in Seq(Samples)
      BY <1>7 DEF Looked, Stands, Cursor, Sound
    <2>2. Len(b) <= c.ram
      BY <2>1
    <2> QED BY <1>4, <2>1, <2>2, RamEmpty
  <1> QED BY <1>1, <1>5, <1>6, <1>7 DEF Mid, Looked

(* e is cursor c at position n of its file, or with sample x returned. *)
StepsTo(c, e, n) ==
  /\ e \in Cursor /\ SameWalk(c, e) /\ e.ram = c.ram /\ e.got = c.got /\ e.last = c.last
  /\ e.seg = c.seg /\ e.open = c.open /\ e.view = c.view /\ e.size = c.size /\ e.done = c.done
  /\ e.slot = c.slot /\ e.pos = n
Gets(c, e, x) ==
  /\ e \in Cursor /\ SameWalk(c, e) /\ SamePlace(c, e) /\ e.ram = c.ram /\ e.last = c.last
  /\ e.slot = c.slot /\ e.got = Append(c.got, x)

LEMMA StepsToIs ==
  ASSUME NEW c \in Cursor, NEW n \in Nat
  PROVE  StepsTo(c, [c EXCEPT !.pos = n], n)
  <1>1. PICK e : e = [c EXCEPT !.pos = n]
    OBVIOUS
  <1>2. e \in Cursor
    BY <1>1 DEF Cursor
  <1>3. SameWalk(c, e) /\ e.ram = c.ram /\ e.got = c.got /\ e.last = c.last
    BY <1>1 DEF Cursor, SameWalk
  <1>4. /\ e.seg = c.seg /\ e.open = c.open /\ e.view = c.view /\ e.size = c.size /\ e.done = c.done
        /\ e.slot = c.slot /\ e.pos = n
    BY <1>1 DEF Cursor
  <1> QED BY <1>1, <1>2, <1>3, <1>4 DEF StepsTo

LEMMA GetsIs ==
  ASSUME NEW c \in Cursor, NEW x \in Samples
  PROVE  Gets(c, [c EXCEPT !.got = Append(c.got, x)], x)
  <1>1. PICK q : q = Append(c.got, x)
    OBVIOUS
  <1>2. q \in Seq(Samples)
    BY <1>1, AppendProperties DEF Cursor
  <1>3. PICK e : e = [c EXCEPT !.got = q]
    OBVIOUS
  <1>4. e \in Cursor
    BY <1>2, <1>3 DEF Cursor
  <1>5. SameWalk(c, e) /\ SamePlace(c, e)
    BY <1>3 DEF Cursor, SameWalk, SamePlace
  <1>6. e.ram = c.ram /\ e.last = c.last /\ e.slot = c.slot /\ e.got = q
    BY <1>3 DEF Cursor
  <1> QED BY <1>1, <1>3, <1>4, <1>5, <1>6 DEF Gets

(* Taking x off what is left, as the walk sees it. *)
LEMMA GotOne ==
  ASSUME NEW c \in Cursor, NEW e \in Cursor, NEW g, NEW fs, NEW b, NEW x \in Samples, Gets(e, g, x),
         SameWalk(c, e), e.got = c.got, Walks(c, fs, b), Stands(e, "idle", fs, b), Promised(c, fs, b),
         x \in Left(c, fs, b), x \in Due(c.win, fs, b), Left(e, fs, b) \subseteq Left(c, fs, b),
         Left(c, fs, b) \cap Due(c.win, fs, b) \subseteq Left(e, fs, b) \cup {x},
         AllBehind(c.desc, {x}, Left(e, fs, b))
  PROVE  g \in Cursor /\ SameWalk(c, g) /\ Mid(g, fs, b)
  <1>1. PICK A, R, S, q : /\ A = Due(c.win, fs, b) /\ R = Left(c, fs, b) /\ S = Left(e, fs, b)
                          /\ q = Append(c.got, x)
    OBVIOUS
  <1>2. Walked(c.desc, A, R, c.got)
    BY <1>1 DEF Walks
  <1>3. Walked(c.desc, A, S, q)
    BY <1>1, <1>2, WalkedTakes
  <1>4. /\ g \in Cursor /\ SameWalk(e, g) /\ SamePlace(e, g) /\ g.ram = e.ram /\ g.got = q
    BY <1>1 DEF Gets
  <1>5. SameWalk(c, g)
    BY <1>4 DEF SameWalk
  <1>6. Left(g, fs, b) = S
    BY <1>1, <1>4 DEF Left, SameWalk, SamePlace
  <1>7. g.desc = c.desc /\ g.win = c.win
    BY <1>5 DEF SameWalk
  <1>8. Walks(g, fs, b)
    BY <1>1, <1>3, <1>4, <1>6, <1>7 DEF Walks
  <1>9. Stands(g, "idle", fs, b)
    BY <1>4 DEF Stands, SameWalk, SamePlace
  <1>10. Promised(g, fs, b)
    BY <1>5 DEF Promised, SameWalk
  <1> QED BY <1>4, <1>5, <1>8, <1>9, <1>10 DEF Mid

(* One record of the file: passed over, or returned. *)
LEMMA ReadsRecord ==
  ASSUME NEW c \in Cursor, NEW fs, NEW b, NEW x, NEW n, NEW e, NEW g,
         Sound(fs, b), Looked(c, "file", fs, b), c.open, n = RecordAt(c.desc, c.pos),
         n \in 1..Len(fs[c.seg].recs), x = fs[c.seg].recs[n],
         StepsTo(c, e, PosAfter(c.desc, c.pos)), x \in Samples => Gets(e, g, x)
  PROVE  /\ x \notin Samples \/ ~Matches(c.win, x) => Looked(e, "file", fs, b)
         /\ x \in Samples /\ Matches(c.win, x) => g \in Cursor /\ SameWalk(c, g) /\ Mid(g, fs, b)
  <1>1. PICK d, seg, pos, ram, new, old, rest : 
          /\ d = c.desc /\ seg = c.seg /\ pos = c.pos /\ ram = c.ram
          /\ old = FileRest(d, TRUE, seg, pos, fs)
          /\ new = FileRest(d, TRUE, seg, PosAfter(d, pos), fs)
          /\ rest = RamRest(d, ram, b)
    OBVIOUS
  <1>2. /\ pos \in Nat /\ ram \in Nat /\ seg \in DOMAIN fs /\ c.open = TRUE /\ ~c.done
        /\ d \in BOOLEAN /\ (d => ram = Len(b) /\ pos <= c.size) /\ c.size = Len(fs[seg].recs)
    BY <1>1 DEF Cursor, Looked, Stands
  <1>3. FileSet(fs) /\ Lined(fs, b) /\ b \in Seq(Samples) /\ Len(fs[seg].recs) \in Nat
    BY <1>2, FileIs DEF Sound
  <1>4. PosAfter(d, pos) \in Nat /\ (d => PosAfter(d, pos) <= c.size)
    <2>1. n \in Nat /\ n >= 1
      OBVIOUS
    <2> QED BY <1>1, <1>2, <1>3, <2>1 DEF PosAfter, RecordAt
  <1>5. /\ e \in Cursor /\ SameWalk(c, e) /\ e.ram = c.ram /\ e.got = c.got /\ e.last = c.last
        /\ e.seg = c.seg /\ e.open = c.open /\ e.view = c.view /\ e.size = c.size /\ e.done = c.done
        /\ e.pos = PosAfter(d, pos)
    BY <1>1 DEF StepsTo
  <1>6. Left(c, fs, b) = old \cup rest /\ Left(e, fs, b) = new \cup rest
    BY <1>1, <1>2, <1>5 DEF Left, SameWalk
  <1>7. /\ new \subseteq old /\ old \subseteq new \cup {x}
        /\ x \in Samples => x \in old /\ AllBehind(d, {x}, new)
        /\ x \in Samples => AllBehind(FALSE, {x}, Range(b))
    <2>1. PICK y : y = x
      OBVIOUS
    <2>2. /\ RecordAt(d, pos) \in 1..Len(fs[seg].recs) /\ y = fs[seg].recs[RecordAt(d, pos)]
          /\ seg \in DOMAIN fs /\ pos \in Nat /\ FileSet(fs) /\ Lined(fs, b)
      BY <1>1, <1>2, <1>3, <2>1
    <2>3. /\ OneLess(FileRest(d, TRUE, seg, pos, fs), FileRest(d, TRUE, seg, PosAfter(d, pos), fs), y)
          /\ y \in Samples => /\ y \in FileRest(d, TRUE, seg, pos, fs)
                             /\ AllBehind(d, {y}, FileRest(d, TRUE, seg, PosAfter(d, pos), fs))
          /\ y \in Samples => AllBehind(FALSE, {y}, Range(b))
      BY <2>2, RestRecord
    <2> QED BY <1>1, <2>1, <2>3 DEF OneLess
  <1>8. x \in Samples => AllBehind(d, {x}, new \cup rest)
    <2>1. d => rest = {}
      <3>1. d => Len(b) <= ram
        BY <1>2
      <3> QED BY <1>1, <1>2, <1>3, <3>1, RamEmpty
    <2>2. rest \subseteq Range(b)
      BY <1>1, <1>2, <1>3, RamAll
    <2> QED BY <1>2, <1>7, <2>1, <2>2 DEF AllBehind, Behind
  <1>9. PICK A : A = Due(c.win, fs, b) /\ Walked(d, A, old \cup rest, c.got)
    BY <1>1, <1>6 DEF Looked, Walks
  <1>10. Stands(e, "file", fs, b) /\ Promised(e, fs, b) /\ Served(e)
    BY <1>1, <1>2, <1>4, <1>5 DEF Looked, Stands, Promised, Served, SameWalk
  <1>11. ASSUME x \notin Samples \/ ~Matches(c.win, x) PROVE Looked(e, "file", fs, b)
    <2>1. x \notin A
      BY <1>9, <1>11 DEF Due, Here
    <2>2. Walked(d, A, new \cup rest, c.got)
      BY <1>7, <1>9, <2>1, WalkedOver
    <2>3. Walks(e, fs, b)
      BY <1>1, <1>5, <1>6, <1>9, <2>2 DEF Walks, SameWalk
    <2> QED BY <1>10, <2>3 DEF Looked
  <1>12. ASSUME x \in Samples, Matches(c.win, x)
         PROVE  g \in Cursor /\ SameWalk(c, g) /\ Mid(g, fs, b)
    <2>1. x \in A
      <3>1. InFile(fs[seg], x)
        BY <1>1 DEF InFile
      <3> QED BY <1>2, <1>9, <1>12, <3>1 DEF Due, Here
    <2>2. Stands(e, "idle", fs, b)
      BY <1>10 DEF Stands
    <2>3. Gets(e, g, x) /\ Walks(c, fs, b) /\ Promised(c, fs, b)
      BY <1>12, SMTT(30) DEF Looked
    <2>4. /\ x \in Left(c, fs, b) /\ x \in Due(c.win, fs, b) /\ Left(e, fs, b) \subseteq Left(c, fs, b)
          /\ Left(c, fs, b) \cap Due(c.win, fs, b) \subseteq Left(e, fs, b) \cup {x}
          /\ AllBehind(c.desc, {x}, Left(e, fs, b))
      BY <1>1, <1>6, <1>7, <1>8, <1>9, <1>12, <2>1
    <2> QED BY <1>5, <1>12, <2>2, <2>3, <2>4, GotOne, ZenonT(30)
  <1> QED BY <1>11, <1>12

(* A partial record behind the last whole one. *)
LEMMA ReadsTorn ==
  ASSUME NEW c \in Cursor, NEW fs, NEW b, NEW e,
         Sound(fs, b), Looked(c, "file", fs, b), c.open, ~c.desc, c.pos = Len(fs[c.seg].recs),
         StepsTo(c, e, c.pos + 1)
  PROVE  Mid(e, fs, b)
  <1>1. c.pos \in Nat /\ c.pos + 1 \in Nat /\ c.open = TRUE /\ ~c.done
    BY SMTT(30) DEF Cursor, Looked, Stands
  <1>2. /\ e \in Cursor /\ SameWalk(c, e) /\ e.ram = c.ram /\ e.got = c.got /\ e.last = c.last
        /\ e.seg = c.seg /\ e.open = c.open /\ e.view = c.view /\ e.size = c.size /\ e.done = c.done
        /\ e.pos = c.pos + 1
    BY DEF StepsTo
  <1>3. \A x : RestOfFile(c.desc, c.pos, fs[c.seg], x) <=> RestOfFile(c.desc, c.pos + 1, fs[c.seg], x)
    <2>1. \A j \in 1..Len(fs[c.seg].recs) : ~Later(c.desc, c.pos, j) /\ ~Later(c.desc, c.pos + 1, j)
      BY <1>1 DEF Later
    <2> QED BY <2>1 DEF RestOfFile
  <1>4. FileRest(c.desc, c.open, c.seg, c.pos, fs) = FileRest(c.desc, c.open, c.seg, c.pos + 1, fs)
    BY <1>3 DEF FileRest
  <1>5. Left(e, fs, b) = Left(c, fs, b)
    BY <1>2, <1>4 DEF Left, SameWalk
  <1>6. Walks(e, fs, b) /\ Promised(e, fs, b) /\ Stands(e, "idle", fs, b)
    BY <1>1, <1>2, <1>5 DEF Looked, Walks, Promised, Stands, SameWalk
  <1> QED BY <1>2, <1>6 DEF Mid

(* e is cursor c with k records of the buffer behind it, or with another slot. *)
RamTo(c, e, k) ==
  /\ e \in Cursor /\ SameWalk(c, e) /\ SamePlace(c, e) /\ e.got = c.got /\ e.last = c.last
  /\ e.slot = c.slot /\ e.ram = k
Takes(c, e, i) ==
  /\ e \in Cursor /\ SameWalk(c, e) /\ SamePlace(c, e) /\ e.got = c.got /\ e.last = c.last
  /\ e.ram = c.ram /\ e.slot = i

LEMMA RamToIs ==
  ASSUME NEW c \in Cursor, NEW k \in Nat
  PROVE  RamTo(c, [c EXCEPT !.ram = k], k)
  <1>1. PICK e : e = [c EXCEPT !.ram = k]
    OBVIOUS
  <1>2. e \in Cursor
    BY <1>1 DEF Cursor
  <1>3. SameWalk(c, e) /\ SamePlace(c, e)
    BY <1>1 DEF Cursor, SameWalk, SamePlace
  <1>4. e.got = c.got /\ e.last = c.last /\ e.slot = c.slot /\ e.ram = k
    BY <1>1 DEF Cursor
  <1> QED BY <1>1, <1>2, <1>3, <1>4 DEF RamTo

LEMMA TakesIs ==
  ASSUME NEW c \in Cursor, NEW i \in 0..MaxStreams
  PROVE  Takes(c, [c EXCEPT !.slot = i], i)
  <1>1. PICK e : e = [c EXCEPT !.slot = i]
    OBVIOUS
  <1>2. e \in Cursor
    BY <1>1 DEF Cursor
  <1>3. SameWalk(c, e) /\ SamePlace(c, e)
    BY <1>1 DEF Cursor, SameWalk, SamePlace
  <1>4. e.got = c.got /\ e.last = c.last /\ e.ram = c.ram /\ e.slot = i
    BY <1>1 DEF Cursor
  <1> QED BY <1>1, <1>2, <1>3, <1>4 DEF Takes

LEMMA TakesSlot ==
  ASSUME NEW c \in Cursor, NEW e, NEW i, NEW p, NEW q, NEW fs, NEW b, Takes(c, e, i), Looked(c, p, fs, b),
         \/ p = "find" /\ q = "ram"
         \/ p \in {"find", "ram"} /\ q = "file" /\ c.desc /\ ~c.done /\ c.ram = Len(b)
  PROVE  Looked(e, q, fs, b)
  <1>1. e \in Cursor /\ SameWalk(c, e) /\ SamePlace(c, e) /\ e.got = c.got /\ e.last = c.last /\ e.ram = c.ram
    BY DEF Takes
  <1>2. Left(e, fs, b) = Left(c, fs, b)
    BY <1>1 DEF Left, SameWalk, SamePlace
  <1>3. Walks(e, fs, b) /\ Promised(e, fs, b) /\ Served(e)
    BY <1>1, <1>2 DEF Looked, Walks, Promised, Served, SameWalk
  <1>4. Stands(e, q, fs, b)
    BY <1>1 DEF Looked, Stands, SameWalk, SamePlace
  <1> QED BY <1>3, <1>4 DEF Looked

(* No record left in the buffer matches. *)
NoHit(c, b) == \A m \in (c.ram + 1)..Len(b) : ~Matches(c.win, Turned(c.desc, b, m))

LEMMA RamEnds ==
  ASSUME NEW c \in Cursor, NEW e, NEW p \in {"find", "ram"}, NEW fs, NEW b,
         Sound(fs, b), Looked(c, p, fs, b), NoHit(c, b), RamTo(c, e, Len(b))
  PROVE  /\ Looked(e, p, fs, b) /\ Mid(e, fs, b)
         /\ ~(c.desc /\ ~c.done) => Left(e, fs, b) = {}
  <1>1. /\ e \in Cursor /\ SameWalk(c, e) /\ SamePlace(c, e) /\ e.got = c.got /\ e.last = c.last
        /\ e.ram = Len(b)
    BY DEF RamTo
  <1>2. b \in Seq(Samples) /\ Len(b) \in Nat /\ c.ram \in Nat
    BY LenProperties DEF Sound, Cursor
  <1>3. PICK d, ram, n, F, A :
          /\ d = c.desc /\ ram = c.ram /\ n = Len(b) /\ A = Due(c.win, fs, b)
          /\ F = IF c.done THEN {} ELSE FileRest(c.desc, c.open, c.seg, c.pos, fs)
    OBVIOUS
  <1>4. Left(c, fs, b) = F \cup RamRest(d, ram, b) /\ Left(e, fs, b) = F \cup RamRest(d, n, b)
    BY <1>1, <1>3 DEF Left, SameWalk, SamePlace
  <1>5. RamRest(d, n, b) = {}
    <2>1. n \in Nat /\ Len(b) <= n
      BY <1>2, <1>3
    <2> QED BY <1>2, <2>1, RamEmpty
  <1>6. \A y \in RamRest(d, ram, b) : y \notin A
    <2> SUFFICES ASSUME NEW y \in RamRest(d, ram, b) PROVE y \notin A
      OBVIOUS
    <2>1. PICK m \in (ram + 1)..Len(b) : y = Turned(d, b, m)
      BY <1>2, <1>3, RamEmpty
    <2> QED BY <1>3, <2>1 DEF NoHit, Due
  <1>7. Walked(d, A, F \cup RamRest(d, ram, b), c.got)
    BY <1>3, <1>4 DEF Looked, Walks
  <1>8. Walked(d, A, F, c.got)
    BY <1>6, <1>7, WalkedOver
  <1>9. Walks(e, fs, b)
    BY <1>1, <1>3, <1>4, <1>5, <1>8 DEF Walks, SameWalk
  <1>10. Promised(e, fs, b) /\ Served(e)
    BY <1>1 DEF Looked, Promised, Served, SameWalk
  <1>11. Stands(e, p, fs, b) /\ Stands(e, "idle", fs, b)
    BY <1>1, <1>2 DEF Looked, Stands, SameWalk, SamePlace
  <1>12. ASSUME ~(c.desc /\ ~c.done) PROVE Left(e, fs, b) = {}
    <2>1. c.done
      BY <1>12 DEF Looked, Stands
    <2> QED BY <1>3, <1>4, <1>5, <2>1
  <1> QED BY <1>9, <1>10, <1>11, <1>12 DEF Looked, Mid

(* The nearest record of the buffer that matches is returned. *)
LEMMA RamHit ==
  ASSUME NEW c \in Cursor, NEW e, NEW g, NEW p \in {"find", "ram"}, NEW fs, NEW b, NEW k, NEW x,
         Sound(fs, b), Looked(c, p, fs, b), k \in (c.ram + 1)..Len(b), x = Turned(c.desc, b, k),
         Matches(c.win, x),
         \A m \in (c.ram + 1)..Len(b) : m < k => ~Matches(c.win, Turned(c.desc, b, m)),
         RamTo(c, e, k), Gets(e, g, x)
  PROVE  x \in Samples /\ g \in Cursor /\ SameWalk(c, g) /\ Mid(g, fs, b)
  <1>1. /\ e \in Cursor /\ SameWalk(c, e) /\ SamePlace(c, e) /\ e.got = c.got /\ e.ram = k
    BY DEF RamTo
  <1>2. /\ b \in Seq(Samples) /\ Len(b) \in Nat /\ c.ram \in Nat /\ Increasing(b)
        /\ FileSet(fs) /\ Lined(fs, b)
    BY LenProperties DEF Sound, Cursor, Lined
  <1>3. PICK d, ram, F, A :
          /\ d = c.desc /\ ram = c.ram /\ A = Due(c.win, fs, b)
          /\ F = IF c.done THEN {} ELSE FileRest(c.desc, c.open, c.seg, c.pos, fs)
    OBVIOUS
  <1>4. Left(c, fs, b) = F \cup RamRest(d, ram, b) /\ Left(e, fs, b) = F \cup RamRest(d, k, b)
    BY <1>1, <1>3 DEF Left, SameWalk, SamePlace
  <1>5. k \in 1..Len(b) /\ k > ram /\ k \in Nat /\ ram \in Nat
    BY <1>2, <1>3
  <1>6. x = Turned(d, b, k)
    BY <1>3
  <1>7. /\ RamRest(d, k, b) \subseteq RamRest(d, ram, b) /\ x \in RamRest(d, ram, b)
        /\ AllBehind(d, {x}, RamRest(d, k, b))
        /\ \A y \in RamRest(d, ram, b) :
              \/ y \in RamRest(d, k, b) \/ y = x
              \/ \E m \in (ram + 1)..Len(b) : m < k /\ y = Turned(d, b, m)
    <2>1. PICK y : y = x
      OBVIOUS
    <2>2. b \in Seq(Samples) /\ ram \in Nat /\ k \in 1..Len(b) /\ Increasing(b) /\ k > ram /\ y = Turned(d, b, k)
      BY <1>2, <1>5, <1>6, <2>1
    <2>3. /\ RamRest(d, k, b) \subseteq RamRest(d, ram, b) /\ y \in RamRest(d, ram, b)
          /\ AllBehind(d, {y}, RamRest(d, k, b))
          /\ Skips(d, b, ram, k, y)
      BY <2>2, RamTakes
    <2> QED BY <2>1, <2>3 DEF Skips
  <1>8. x \in Range(b) /\ x \in Samples
    <2>1. RamRest(d, ram, b) \subseteq Range(b) /\ Range(b) \subseteq Samples
      BY <1>2, <1>5, RamAll, SampleSeq
    <2> QED BY <1>7, <2>1
  <1>9. x \in A
    BY <1>3, <1>8 DEF Due, Here
  <1>10. \A y \in RamRest(d, ram, b) : y \in A => y \in RamRest(d, k, b) \cup {x}
    <2> SUFFICES ASSUME NEW y \in RamRest(d, ram, b), y \in A, y # x PROVE y \in RamRest(d, k, b)
      OBVIOUS
    <2>1. Matches(c.win, y)
      BY <1>3 DEF Due
    <2> QED BY <1>3, <1>7, <2>1
  <1>11. AllBehind(d, {x}, F)
    <2>1. CASE c.done
      BY <1>3, <2>1 DEF AllBehind
    <2>2. CASE ~c.done
      <3>1. d /\ (c.open => c.seg \in DOMAIN fs) /\ F = FileRest(c.desc, c.open, c.seg, c.pos, fs)
        BY <1>3, <2>2 DEF Looked, Stands
      <3>2. \A y \in F : y < x
        BY <1>2, <1>8, <3>1, FilesFirst
      <3> QED BY <3>1, <3>2 DEF AllBehind, Behind
    <2> QED BY <2>1, <2>2
  <1>12. Stands(e, "idle", fs, b)
    <2>1. k <= Len(b)
      BY <1>2, <1>5
    <2> QED BY <1>1, <2>1 DEF Looked, Stands, SameWalk, SamePlace
  <1>13. Walks(c, fs, b) /\ Promised(c, fs, b)
    BY DEF Looked
  <1>14. /\ x \in Left(c, fs, b) /\ x \in Due(c.win, fs, b) /\ Left(e, fs, b) \subseteq Left(c, fs, b)
         /\ Left(c, fs, b) \cap Due(c.win, fs, b) \subseteq Left(e, fs, b) \cup {x}
         /\ AllBehind(c.desc, {x}, Left(e, fs, b))
    BY <1>3, <1>4, <1>7, <1>9, <1>10, <1>11 DEF AllBehind
  <1> QED BY <1>1, <1>8, <1>12, <1>13, <1>14, GotOne

--------------------------------------------------------------------------------
(* A reader, wherever its call is *)

(* What a cursor is, whatever runs into its walk. *)
Kind(c, p) ==
  /\ c \in Cursor
  /\ c.s = NoStream => c = NoCursor /\ p = "idle"
  /\ p = "ram" => c.slot \in Slots
  /\ p = "mark" => c.got # <<>> /\ c.mode = "feed"
  /\ c.mode # "walk" => ~c.desc /\ c.fresh
  /\ p = "answer" => /\ c.mode \in {"sum", "count"} /\ c.last \in {"ok", "end", "corrupt"}
                     /\ c.last = "ok" => c.mode = "sum" /\ Len(c.got) > MaxAggPoints

(* And as long as nothing does, where its walk stands. *)
ReaderInv(c, p, dk, sl) ==
  /\ Kind(c, p)
  /\ Steady(c) => /\ Looked(c, p, dk[c.s], RamIn(sl, c.s))
                  /\ p = "ram" => sl[c.slot].name = c.s

LEMMA NoCursorIs ==
  /\ NoCursor \in Cursor /\ NoCursor.s = NoStream /\ NoCursor.mode = "walk" /\ NoCursor.last = "none"
  /\ \A dk, sl : ReaderInv(NoCursor, "idle", dk, sl)
  <1>1. EmptyFile \in Segment
    BY EmptySeq DEF EmptyFile, Segment
  <1>2. <<>> \in Seq(Samples) /\ MaxStreams \in Nat
    BY EmptySeq, TsConstants
  <1>3. NoCursor \in Cursor
    BY <1>1, <1>2 DEF NoCursor, Cursor, ModeKinds
  <1>4. NoCursor.s = NoStream /\ NoCursor.mode = "walk" /\ NoCursor.last = "none"
    BY DEF NoCursor
  <1> QED BY <1>3, <1>4 DEF ReaderInv, Kind, Steady

(* What a step keeps of a cursor in use. *)
LEMMA SameSteady ==
  ASSUME NEW c \in Cursor, NEW e, SameWalk(c, e)
  PROVE  Steady(e) <=> Steady(c)
  BY DEF SameWalk, Steady

LEMMA KindSame ==
  ASSUME NEW c \in Cursor, NEW e \in Cursor, NEW p, NEW q \in {"idle", "open", "file", "find"},
         c.s # NoStream, Kind(c, p), SameWalk(c, e)
  PROVE  Kind(e, q)
  BY DEF Kind, SameWalk

(* zdb_cursor_next() returns. *)
Answered(c, what) == [c EXCEPT !.last = what, !.slot = 0]

LEMMA AnsweredIs ==
  ASSUME NEW c \in Cursor, NEW what \in {"ok", "end", "corrupt"}
  PROVE  /\ Answered(c, what) \in Cursor /\ SameWalk(c, Answered(c, what))
         /\ Answered(c, what).last = what /\ Answered(c, what).got = c.got
  <1>1. PICK e : e = Answered(c, what)
    OBVIOUS
  <1>2. 0 \in 0..MaxStreams
    BY TsConstants
  <1>3. e \in Cursor
    BY <1>1, <1>2 DEF Answered, Cursor
  <1>4. SameWalk(c, e)
    BY <1>1 DEF Answered, Cursor, SameWalk
  <1>5. e.last = what /\ e.got = c.got
    BY <1>1 DEF Answered, Cursor
  <1> QED BY <1>1, <1>3, <1>4, <1>5

LEMMA ReturnKeeps ==
  ASSUME NEW r \in Readers, NEW c \in Cursor, NEW d, NEW what \in {"ok", "end", "corrupt"}, NEW p,
         NEW s, NEW fs, NEW b, s = d.s, fs = disk[s], b = RamIn(slots, s),
         cur \in [Readers -> Cursor], place \in [Readers -> Stops],
         d \in Cursor, d.s # NoStream, Kind(d, p), SameWalk(d, c), Return(r, c, what),
         Steady(d) => /\ Sound(fs, b) /\ Mid(c, fs, b)
                      /\ what = "end" => Left(c, fs, b) = {}
  PROVE  /\ cur' = [cur EXCEPT ![r] = cur'[r]] /\ place' = [place EXCEPT ![r] = place'[r]]
         /\ ReaderInv(cur'[r], place'[r], disk, slots)
  <1>1. PICK e, q : e = Answered(c, what) /\ cur' = [cur EXCEPT ![r] = e]
                    /\ place' = [place EXCEPT ![r] = q]
                    /\ q = CASE GoesOn(c, what) -> Start(c)
                             [] ~GoesOn(c, what) /\ c.mode \in {"sum", "count"} -> "answer"
                             [] OTHER -> "idle"
    BY DEF Return, SetCursor, At, Answered
  <1>2. cur'[r] = e /\ place'[r] = q
    BY <1>1
  <1>3. e \in Cursor /\ SameWalk(c, e) /\ e.last = what /\ e.got = c.got
    BY <1>1, AnsweredIs
  <1>4. \/ q = "idle" \/ q = Start(c)
        \/ q = "answer" /\ c.mode \in {"sum", "count"} /\ ~GoesOn(c, what)
    BY <1>1
  <1>5. Start(c) \in {"file", "find"}
    BY DEF Start
  <1>6. Kind(e, q)
    <2>1. c.s # NoStream /\ (c.mode # "walk" => ~c.desc /\ c.fresh)
      BY DEF Kind, SameWalk
    <2>2. CASE q # "answer"
      BY <1>3, <1>4, <1>5, <2>1, <2>2 DEF Kind, SameWalk
    <2>3. CASE q = "answer"
      <3>1. c.mode \in {"sum", "count"} /\ ~GoesOn(c, what)
        BY <1>4, <1>5, <2>3
      <3>2. Len(c.got) \in Nat /\ MaxAggPoints \in Nat
        BY ReadConstants, LenProperties DEF Cursor
      <3>3. what = "ok" => c.mode = "sum" /\ Len(c.got) > MaxAggPoints
        BY <3>1, <3>2 DEF GoesOn
      <3> QED BY <1>3, <2>1, <2>3, <3>1, <3>3 DEF Kind, SameWalk
    <2> QED BY <2>2, <2>3
  <1>7. ASSUME Steady(e) PROVE Looked(e, q, fs, b) /\ q # "ram"
    <2>1. Steady(d)
      BY <1>3, <1>7, SameSteady
    <2>2. q \in {"idle", "answer"} \/ q = Start(c)
      BY <1>4
    <2>3. e = [c EXCEPT !.last = what, !.slot = 0]
      BY <1>1 DEF Answered
    <2>4. Stands(c, "idle", fs, b) /\ Walks(c, fs, b) /\ Promised(c, fs, b)
      BY <2>1, SMTT(30) DEF Mid
    <2>5. Looked(e, q, fs, b)
      BY <2>1, <2>2, <2>3, <2>4, Returned
    <2> QED BY <1>5, <2>2, <2>5
  <1>8. e.s = s
    BY <1>3 DEF SameWalk
  <1>9. ReaderInv(e, q, disk, slots)
    BY <1>6, <1>7, <1>8 DEF ReaderInv
  <1> QED BY <1>1, <1>2, <1>9

(* The inductive invariant of the walks. *)
ReadInv ==
  /\ mark \in [Streams -> Nat] /\ cur \in [Readers -> Cursor]
  /\ \A r \in Readers : ReaderInv(cur[r], place[r], disk, slots)

(* A cursor that stays in use keeps its stream, its use and its window. *)
Kin(c, e) == \/ c.s = NoStream \/ e.s = NoStream
             \/ e.s = c.s /\ e.mode = c.mode /\ e.win = c.win

(* Only reader r moves, and keeps its part. *)
StepOf(r) ==
  /\ Kin(cur[r], cur'[r])
  /\ cur' = [cur EXCEPT ![r] = cur'[r]] /\ place' = [place EXCEPT ![r] = place'[r]]
  /\ ReaderInv(cur'[r], place'[r], disk, slots)

LEMMA StepOfIs ==
  ASSUME NEW r \in Readers, NEW e, NEW q, cur \in [Readers -> Cursor], place \in [Readers -> Stops],
         cur' = [cur EXCEPT ![r] = e], place' = [place EXCEPT ![r] = q] \/ (place' = place /\ q = place[r]),
         ReaderInv(e, q, disk, slots), Kin(cur[r], e)
  PROVE  StepOf(r)
  <1>1. cur'[r] = e
    OBVIOUS
  <1>2. place'[r] = q /\ place' = [place EXCEPT ![r] = q]
    OBVIOUS
  <1> QED BY <1>1, <1>2 DEF StepOf

(* Walk d, at p, of stream s with files fs and buffer b. *)
At0(r, d, p, fs, b) ==
  /\ cur \in [Readers -> Cursor] /\ place \in [Readers -> Stops] /\ r \in Readers
  /\ d = cur[r] /\ d \in Cursor /\ p = place[r] /\ Kind(d, p) /\ d.s # NoStream /\ d.s \in Streams
  /\ fs = disk[d.s] /\ b = RamIn(slots, d.s)
  /\ Steady(d) => /\ Sound(fs, b) /\ Looked(d, p, fs, b)
                  /\ p = "ram" => slots[d.slot].name = d.s

LEMMA AtIs ==
  ASSUME LogAssumptions, TsInv, LogInv, MarkInv, ReadInv, NEW r \in Readers, Used(r)
  PROVE  At0(r, cur[r], place[r], disk[cur[r].s], RamIn(slots, cur[r].s))
  <1>1. PICK d, s : d = cur[r] /\ s = d.s
    OBVIOUS
  <1>2. d \in Cursor /\ s # NoStream /\ s \in Streams
    BY <1>1 DEF ReadInv, Used, Cursor
  <1>3. Sound(disk[s], RamIn(slots, s))
    BY <1>2, StreamSound
  <1>4. ReaderInv(d, place[r], disk, slots)
    BY <1>1 DEF ReadInv
  <1> QED BY <1>1, <1>2, <1>3, <1>4 DEF At0, ReaderInv, MarkInv, ReadInv

LEMMA ReturnSteps ==
  ASSUME NEW r, NEW c \in Cursor, NEW d, NEW what \in {"ok", "end", "corrupt"}, NEW p, NEW fs, NEW b,
         At0(r, d, p, fs, b), SameWalk(d, c), Return(r, c, what),
         Steady(d) => Mid(c, fs, b) /\ (what = "end" => Left(c, fs, b) = {})
  PROVE  StepOf(r)
  <1>1. PICK s : s = d.s
    OBVIOUS
  <1>2. /\ fs = disk[s] /\ b = RamIn(slots, s) /\ cur \in [Readers -> Cursor] /\ r \in Readers
        /\ place \in [Readers -> Stops] /\ d \in Cursor /\ d.s # NoStream /\ Kind(d, p)
        /\ (Steady(d) => Sound(fs, b))
    BY <1>1 DEF At0
  <1>3. /\ cur' = [cur EXCEPT ![r] = cur'[r]] /\ place' = [place EXCEPT ![r] = place'[r]]
        /\ ReaderInv(cur'[r], place'[r], disk, slots)
    BY <1>1, <1>2, ReturnKeeps
  <1>4. Kin(cur[r], cur'[r])
    <2>1. d = cur[r] /\ r \in Readers
      BY DEF At0
    <2>2. cur'[r] = Answered(c, what)
      BY <1>2, <2>1 DEF Return, SetCursor, Answered
    <2>3. SameWalk(c, cur'[r])
      BY <2>2, AnsweredIs
    <2> QED BY <2>1, <2>3 DEF Kin, SameWalk
  <1> QED BY <1>3, <1>4 DEF StepOf

(* The reader goes on to place q with cursor e. *)
LEMMA GoesTo ==
  ASSUME NEW r, NEW e \in Cursor, NEW d, NEW p, NEW q, NEW fs, NEW b,
         At0(r, d, p, fs, b), SameWalk(d, e), q \in {"idle", "open", "file", "find"} \/ (q = "ram" /\ e.slot \in Slots),
         cur' = [cur EXCEPT ![r] = e], place' = [place EXCEPT ![r] = q] \/ (place' = place /\ q = p),
         Steady(d) => Looked(e, q, fs, b) /\ (q = "ram" => slots[e.slot].name = e.s)
  PROVE  StepOf(r)
  <1>1. /\ fs = disk[d.s] /\ b = RamIn(slots, d.s) /\ cur \in [Readers -> Cursor] /\ r \in Readers
        /\ place \in [Readers -> Stops] /\ d \in Cursor /\ d.s # NoStream /\ Kind(d, p) /\ p = place[r]
    BY DEF At0
  <1>2. e.s = d.s /\ (Steady(e) => Steady(d))
    BY <1>1, SameSteady DEF SameWalk
  <1>3. Kind(e, q)
    BY <1>1 DEF Kind, SameWalk
  <1>4. ReaderInv(e, q, disk, slots)
    BY <1>1, <1>2, <1>3 DEF ReaderInv
  <1>5. Kin(cur[r], e)
    BY DEF At0, Kin, SameWalk
  <1> QED BY <1>1, <1>4, <1>5, StepOfIs

Finished(c) == [c EXCEPT !.done = TRUE]

LEMMA FilesDoneSteps ==
  ASSUME NEW r, NEW c \in Cursor, NEW d, NEW fs, NEW b,
         At0(r, d, "file", fs, b), SameWalk(d, c), FilesDone(r, c),
         Steady(d) => /\ Mid(Finished(c), fs, b) /\ (c.desc => Left(Finished(c), fs, b) = {})
                      /\ (~c.desc => Looked(Finished(c), "find", fs, b))
  PROVE  StepOf(r)
  <1>1. PICK e : e = Finished(c)
    OBVIOUS
  <1>2. e \in Cursor
    BY <1>1 DEF Finished, Cursor
  <1>3. SameWalk(c, e)
    BY <1>1 DEF Finished, Cursor, SameWalk
  <1>4. SameWalk(d, e)
    BY <1>3 DEF SameWalk
  <1>5. CASE c.desc
    <2>1. Return(r, e, "end")
      BY <1>1, <1>5 DEF FilesDone, Finished
    <2> QED BY <1>1, <1>2, <1>4, <1>5, <2>1, ReturnSteps
  <1>6. CASE ~c.desc
    <2>1. cur' = [cur EXCEPT ![r] = e] /\ place' = [place EXCEPT ![r] = "find"]
      BY <1>1, <1>6 DEF FilesDone, Finished, SetCursor, At
    <2> QED BY <1>1, <1>2, <1>4, <1>6, <2>1, GoesTo
  <1> QED BY <1>5, <1>6

LEMMA RamDoneSteps ==
  ASSUME NEW r, NEW c \in Cursor, NEW d, NEW p \in {"find", "ram"}, NEW fs, NEW b,
         At0(r, d, p, fs, b), SameWalk(d, c), RamDone(r, c),
         Steady(d) => /\ Looked(c, p, fs, b) /\ Mid(c, fs, b) /\ c.ram = Len(b)
                      /\ ~(c.desc /\ ~c.done) => Left(c, fs, b) = {}
  PROVE  StepOf(r)
  <1>1. CASE c.desc /\ ~c.done
    <2>1. PICK e : e = [c EXCEPT !.slot = 0]
      OBVIOUS
    <2>2. 0 \in 0..MaxStreams
      BY TsConstants
    <2>3. Takes(c, e, 0)
      BY <2>1, <2>2, TakesIs
    <2>4. e \in Cursor /\ SameWalk(d, e)
      BY <2>3 DEF Takes, SameWalk
    <2>5. Steady(d) => Looked(e, "file", fs, b)
      BY <1>1, <2>3, TakesSlot
    <2>6. cur' = [cur EXCEPT ![r] = e] /\ place' = [place EXCEPT ![r] = "file"]
      BY <1>1, <2>1 DEF RamDone, SetCursor, At
    <2> QED BY <2>4, <2>5, <2>6, GoesTo
  <1>2. CASE ~(c.desc /\ ~c.done)
    <2>1. Return(r, c, "end")
      BY <1>2 DEF RamDone
    <2> QED BY <1>2, <2>1, ReturnSteps
  <1> QED BY <1>1, <1>2

--------------------------------------------------------------------------------
(* The steps of a reader *)

LEMMA FindRamSteps ==
  ASSUME LogAssumptions, TsInv, LogInv, MarkInv, ReadInv, NEW r \in Readers, FindRam(r)
  PROVE  StepOf(r)
  <1>1. PICK d, s, fs, b, i : /\ d = cur[r] /\ s = d.s /\ fs = disk[s] /\ b = RamIn(slots, s)
                              /\ i = slot_find(s)
    OBVIOUS
  <1>2. place[r] = "find" /\ Used(r)
    BY DEF FindRam, ReadInv, ReaderInv, Kind, Used
  <1>3. At0(r, d, "find", fs, b)
    BY <1>1, <1>2, AtIs
  <1>4. d \in Cursor /\ (Steady(d) => Sound(fs, b) /\ Looked(d, "find", fs, b))
    BY <1>3 DEF At0
  <1>5. SameWalk(d, d) /\ SamePlace(d, d)
    BY DEF SameWalk, SamePlace
  <1>6. CASE i = 0
    <2>1. RamDone(r, d)
      BY <1>1, <1>6 DEF FindRam
    <2>2. b = <<>>
      <3>1. b = InRam(s)
        BY <1>1, InRamIs
      <3> QED BY <1>1, <1>6, <3>1 DEF InRam
    <2>3. ASSUME Steady(d)
          PROVE  /\ Looked(d, "find", fs, b) /\ Mid(d, fs, b) /\ d.ram = Len(b)
                 /\ ~(d.desc /\ ~d.done) => Left(d, fs, b) = {}
      <3>1. Len(b) = 0 /\ d.ram = 0
        BY <1>4, <2>2, <2>3 DEF Looked, Stands, Cursor
      <3>2. RamTo(d, d, Len(b))
        BY <1>4, <1>5, <3>1 DEF RamTo
      <3>3. NoHit(d, b)
        BY <3>1 DEF NoHit
      <3> QED BY <1>4, <2>3, <3>1, <3>2, <3>3, RamEnds
    <2> QED BY <1>3, <1>4, <1>5, <2>1, <2>3, RamDoneSteps
  <1>7. CASE i # 0
    <2>1. i \in Open(s) /\ i \in Slots
      BY <1>1, <1>7, FindSlot
    <2>2. i \in 0..MaxStreams /\ slots[i].name = s
      BY <2>1, TsConstants DEF Open, Slots
    <2>3. PICK e : e = [d EXCEPT !.slot = i]
      OBVIOUS
    <2>4. cur' = [cur EXCEPT ![r] = e] /\ place' = [place EXCEPT ![r] = "ram"]
      BY <1>1, <1>7, <2>3 DEF FindRam, SetCursor, At
    <2>5. Takes(d, e, i)
      BY <1>4, <2>2, <2>3, TakesIs
    <2>6. e \in Cursor /\ SameWalk(d, e) /\ e.slot = i /\ e.s = s
      BY <1>1, <2>5 DEF Takes, SameWalk
    <2>7. Steady(d) => Looked(e, "ram", fs, b)
      BY <1>4, <2>5, TakesSlot
    <2> QED BY <1>3, <2>1, <2>2, <2>4, <2>6, <2>7, GoesTo
  <1> QED BY <1>6, <1>7

LEMMA RamSlot ==
  ASSUME TsInv, NEW s \in Streams, NEW i \in Slots, slots[i].name = s
  PROVE  RamIn(slots, s) = slots[i].buf
  <1>1. i \in Open(s)
    BY TsConstants DEF TsInv, StoreInv, SlotInv, FreeSlot, Open
  <1>2. slot_find(s) \in Open(s) /\ slot_find(s) \in Slots
    BY <1>1, FindSlot
  <1>3. slot_find(s) = i
    BY <1>1, <1>2 DEF TsInv, StoreInv, SlotInv, Open
  <1>4. i # 0
    BY DEF Slots
  <1>5. RamIn(slots, s) = InRam(s)
    BY InRamIs
  <1> QED BY <1>3, <1>4, <1>5 DEF InRam

LEMMA ReadRamSteps ==
  ASSUME LogAssumptions, TsInv, LogInv, MarkInv, ReadInv, NEW r \in Readers, ReadRam(r)
  PROVE  StepOf(r)
  <1>1. PICK d, s, fs, b, v, hits, k :
           /\ d = cur[r] /\ s = d.s /\ fs = disk[s] /\ b = RamIn(slots, s) /\ v = slots[d.slot].buf
           /\ hits = {m \in (d.ram + 1)..Len(v) : Matches(d.win, Buffer(d, v, m))}
           /\ k = Lowest(hits)
    OBVIOUS
  <1>2. place[r] = "ram" /\ Used(r)
    BY DEF ReadRam, ReadInv, ReaderInv, Kind, Used
  <1>3. At0(r, d, "ram", fs, b)
    BY <1>1, <1>2, AtIs
  <1>4. /\ d \in Cursor /\ s \in Streams /\ d.slot \in Slots
        /\ (Steady(d) => Sound(fs, b) /\ Looked(d, "ram", fs, b) /\ slots[d.slot].name = s)
    BY <1>1, <1>3 DEF At0, Kind
  <1>5. Steady(d) => v = b
    BY <1>1, <1>4, RamSlot
  <1>6. v \in Seq(Samples) /\ Len(v) \in Nat /\ d.ram \in Nat
    <2>1. slots \in [Slots -> Slot]
      BY DEF TsInv, StoreInv, TypeOK
    <2>2. v \in Seq(Samples)
      BY <1>1, <1>4, <2>1 DEF Slot
    <2> QED BY <1>4, <2>2, LenProperties DEF Cursor
  <1>7. \A m : Buffer(d, v, m) = Turned(d.desc, v, m)
    BY DEF Buffer, Turned
  <1>8. CASE hits # {}
    <2>1. PICK e, g, x : /\ x = Buffer(d, v, k) /\ e = [d EXCEPT !.ram = k]
                         /\ g = [d EXCEPT !.ram = k, !.got = Append(d.got, x)]
      BY ZenonT(30)
    <2>2. Return(r, g, "ok")
      BY <1>1, <1>8, <2>1 DEF ReadRam
    <2>3. k \in hits /\ \A m \in hits : k <= m
      <3>1. hits \in SUBSET Nat
        BY <1>1, <1>6
      <3> QED BY <1>1, <1>8, <3>1, LowestIsLeast
    <2>4. k \in (d.ram + 1)..Len(v) /\ k \in Nat /\ Matches(d.win, x)
      <3>1. k \in (d.ram + 1)..Len(v) /\ Matches(d.win, Buffer(d, v, k))
        <4>1. k \in {m \in (d.ram + 1)..Len(v) : Matches(d.win, Buffer(d, v, m))}
          BY <1>1, <2>3, Zenon
        <4> QED BY <4>1, Zenon
      <3>2. Matches(d.win, x)
        BY <2>1, <3>1, Zenon
      <3>3. k \in Nat
        BY <1>6, <3>1
      <3> QED BY <3>1, <3>2, <3>3
    <2>5. x \in Samples
      <3>1. k \in 1..Len(v) /\ Len(v) - k + 1 \in 1..Len(v)
        BY <1>6, <2>4
      <3> QED BY <1>6, <2>1, <3>1, ElementOfSeq DEF Buffer
    <2>6. RamTo(d, e, k)
      BY <1>4, <2>1, <2>4, RamToIs
    <2>7. e \in Cursor /\ SameWalk(d, e) /\ e.got = d.got
      BY <2>6 DEF RamTo
    <2>8. g = [e EXCEPT !.got = Append(e.got, x)]
      BY <1>4, <2>1 DEF Cursor
    <2>9. Gets(e, g, x)
      BY <2>5, <2>7, <2>8, GetsIs
    <2>10. g \in Cursor /\ SameWalk(d, g)
      BY <2>7, <2>9 DEF Gets, SameWalk
    <2>11. ASSUME Steady(d) PROVE Mid(g, fs, b)
      <3>1. k \in (d.ram + 1)..Len(b) /\ x = Turned(d.desc, b, k)
        BY <1>5, <1>7, <2>1, <2>4, <2>11, SMTT(30)
      <3>2. \A m \in (d.ram + 1)..Len(b) : m < k => ~Matches(d.win, Turned(d.desc, b, m))
        BY <1>1, <1>5, <1>6, <1>7, <2>3, <2>4, <2>11
      <3> QED BY <1>4, <2>4, <2>6, <2>9, <2>11, <3>1, <3>2, RamHit
    <2> QED BY <1>3, <2>2, <2>10, <2>11, ReturnSteps
  <1>9. CASE hits = {}
    <2>1. PICK n \in Nat : n = IF Len(v) > d.ram THEN Len(v) ELSE d.ram
      BY <1>6, SMTT(30)
    <2>2. PICK e : e = [d EXCEPT !.ram = n]
      OBVIOUS
    <2>3. RamDone(r, e)
      BY <1>1, <1>9, <2>1, <2>2 DEF ReadRam
    <2>4. RamTo(d, e, n)
      BY <1>4, <2>2, RamToIs
    <2>5. e \in Cursor /\ SameWalk(d, e) /\ e.ram = n /\ e.desc = d.desc /\ e.done = d.done
      BY <2>4 DEF RamTo, SameWalk, SamePlace
    <2>6. ASSUME Steady(d)
          PROVE  /\ Looked(e, "ram", fs, b) /\ Mid(e, fs, b) /\ e.ram = Len(b)
                 /\ ~(e.desc /\ ~e.done) => Left(e, fs, b) = {}
      <3>1. n = Len(b)
        BY <1>4, <1>5, <1>6, <2>1, <2>6 DEF Looked, Stands
      <3>2. NoHit(d, b)
        BY <1>1, <1>5, <1>7, <1>9, <2>6 DEF NoHit
      <3>3. /\ Looked(e, "ram", fs, b) /\ Mid(e, fs, b)
            /\ ~(d.desc /\ ~d.done) => Left(e, fs, b) = {}
        BY <1>4, <2>4, <2>6, <3>1, <3>2, RamEnds
      <3> QED BY <2>5, <3>1, <3>3
    <2> QED BY <1>3, <2>3, <2>5, <2>6, RamDoneSteps
  <1> QED BY <1>8, <1>9

(* What a reader at work on its file knows. *)
AtFile(r, d, fs, b, w) ==
  /\ At0(r, d, "file", fs, b) /\ w = IF d.view.hdr THEN Len(d.view.recs) ELSE 0

LEMMA FileFacts ==
  ASSUME NEW r, NEW d, NEW fs, NEW b, NEW w, AtFile(r, d, fs, b, w)
  PROVE  /\ d \in Cursor /\ d.view \in Segment /\ d.pos \in Nat /\ d.seg \in Nat /\ w \in Nat
         /\ w <= Len(d.view.recs) /\ Len(d.view.recs) \in Nat /\ d.view.recs \in Seq(Records)
         /\ Steady(d) /\ d.open =>
              /\ Sound(fs, b) /\ Looked(d, "file", fs, b) /\ d.seg \in DOMAIN fs
              /\ d.view = fs[d.seg] /\ w = Len(fs[d.seg].recs) /\ (d.desc => d.pos <= w)
  <1>1. d \in Cursor /\ w = (IF d.view.hdr THEN Len(d.view.recs) ELSE 0)
    BY DEF AtFile, At0
  <1>2. d.view \in Segment /\ d.pos \in Nat /\ d.seg \in Nat
    BY <1>1 DEF Cursor
  <1>3. Len(d.view.recs) \in Nat /\ d.view.recs \in Seq(Records)
    BY <1>2, SegmentType, LenProperties DEF Records
  <1>4. w \in Nat /\ w <= Len(d.view.recs)
    BY <1>1, <1>3
  <1>5. ASSUME Steady(d), d.open
        PROVE  /\ Sound(fs, b) /\ Looked(d, "file", fs, b) /\ d.seg \in DOMAIN fs
               /\ d.view = fs[d.seg] /\ w = Len(fs[d.seg].recs) /\ (d.desc => d.pos <= w)
    <2>1. Sound(fs, b) /\ Looked(d, "file", fs, b)
      BY <1>5 DEF AtFile, At0
    <2>2. d.seg \in DOMAIN fs /\ d.view = fs[d.seg] /\ d.size = Len(fs[d.seg].recs) /\ (d.desc => d.pos <= d.size)
      BY <1>5, <2>1 DEF Looked, Stands
    <2>3. ~fs[d.seg].hdr => fs[d.seg].recs = <<>>
      BY <2>1, <2>2, SeesFile
    <2>4. w = Len(fs[d.seg].recs)
      BY <1>1, <2>2, <2>3
    <2> QED BY <2>1, <2>2, <2>4
  <1> QED BY <1>1, <1>2, <1>3, <1>4, <1>5

(* A whole record. *)
LEMMA RecordSteps ==
  ASSUME NEW r, NEW d, NEW fs, NEW b, NEW w, NEW n, NEW e, AtFile(r, d, fs, b, w), d.open,
         n = RecordAt(d.desc, d.pos), n \in 1..w, e = [d EXCEPT !.pos = PosAfter(d.desc, d.pos)],
         IF d.view.recs[n] = Bad THEN Return(r, e, "corrupt") ELSE Deliver(r, e, d.view.recs[n])
  PROVE  StepOf(r)
  <1>1. PICK x, m : x = d.view.recs[n] /\ m = PosAfter(d.desc, d.pos)
    OBVIOUS
  <1>2. /\ d \in Cursor /\ d.pos \in Nat /\ w \in Nat /\ w <= Len(d.view.recs) /\ Len(d.view.recs) \in Nat
        /\ d.view.recs \in Seq(Records)
    BY FileFacts
  <1>3. x \in Samples \cup {Bad}
    <2>1. n \in 1..Len(d.view.recs)
      BY <1>2
    <2> QED BY <1>1, <1>2, <2>1, ElementOfSeq DEF Records
  <1>4. m \in Nat
    BY <1>1, <1>2 DEF PosAfter, RecordAt
  <1>5. StepsTo(d, e, m)
    BY <1>1, <1>2, <1>4, StepsToIs
  <1>6. e \in Cursor /\ SameWalk(d, e) /\ e.win = d.win
    BY <1>5 DEF StepsTo, SameWalk
  <1>7. PICK g : g = [e EXCEPT !.got = Append(e.got, x)]
    OBVIOUS
  <1>8. x \in Samples => Gets(e, g, x)
    BY <1>6, <1>7, GetsIs
  <1>9. Bad \notin Samples
    BY SamplesNat
  <1>10. ASSUME Steady(d)
         PROVE  /\ x \notin Samples \/ ~Matches(d.win, x) => Looked(e, "file", fs, b)
                /\ x \in Samples /\ Matches(d.win, x) => g \in Cursor /\ SameWalk(d, g) /\ Mid(g, fs, b)
    <2>1. /\ Sound(fs, b) /\ Looked(d, "file", fs, b) /\ n \in 1..Len(fs[d.seg].recs)
          /\ x = fs[d.seg].recs[n]
      BY <1>1, <1>10, FileFacts
    <2>2. StepsTo(d, e, PosAfter(d.desc, d.pos))
      BY <1>1, <1>5
    <2> QED BY <1>2, <1>8, <2>1, <2>2, ReadsRecord
  <1>11. At0(r, d, "file", fs, b)
    BY DEF AtFile
  <1>12. CASE x = Bad
    <2>1. Return(r, e, "corrupt")
      BY <1>1, <1>12
    <2>2. Steady(d) => Mid(e, fs, b)
      BY <1>9, <1>10, <1>12 DEF Looked, Mid, Stands
    <2> QED BY <1>6, <1>11, <2>1, <2>2, ReturnSteps
  <1>13. CASE x # Bad /\ Matches(d.win, x)
    <2>1. Return(r, g, "ok")
      BY <1>1, <1>6, <1>7, <1>13 DEF Deliver
    <2>2. x \in Samples
      BY <1>3, <1>13
    <2>3. g \in Cursor /\ SameWalk(d, g)
      BY <1>6, <1>8, <2>2 DEF Gets, SameWalk
    <2> QED BY <1>10, <1>11, <1>13, <2>1, <2>2, <2>3, ReturnSteps
  <1>14. CASE x # Bad /\ ~Matches(d.win, x)
    <2>1. cur' = [cur EXCEPT ![r] = e] /\ place' = place
      BY <1>1, <1>6, <1>14 DEF Deliver, SetCursor
    <2> QED BY <1>6, <1>10, <1>11, <1>14, <2>1, GoesTo
  <1> QED BY <1>12, <1>13, <1>14

LEMMA TornSteps ==
  ASSUME NEW r, NEW d, NEW fs, NEW b, NEW w, NEW e, AtFile(r, d, fs, b, w), d.open, ~d.desc,
         d.pos + 1 = w + 1, e = [d EXCEPT !.pos = d.pos + 1], Return(r, e, "corrupt")
  PROVE  StepOf(r)
  <1>1. d \in Cursor /\ d.pos \in Nat /\ w \in Nat
    BY FileFacts
  <1>2. PICK m \in Nat : m = d.pos + 1
    BY <1>1
  <1>3. StepsTo(d, e, m)
    BY <1>1, <1>2, StepsToIs
  <1>4. e \in Cursor /\ SameWalk(d, e)
    BY <1>3 DEF StepsTo
  <1>5. ASSUME Steady(d) PROVE Mid(e, fs, b)
    <2>1. Sound(fs, b) /\ Looked(d, "file", fs, b) /\ d.pos = Len(fs[d.seg].recs)
      BY <1>1, <1>5, FileFacts
    <2>2. StepsTo(d, e, d.pos + 1)
      BY <1>2, <1>3
    <2> QED BY <1>1, <2>1, <2>2, ReadsTorn
  <1>6. At0(r, d, "file", fs, b)
    BY DEF AtFile
  <1> QED BY <1>4, <1>5, <1>6, ReturnSteps

LEMMA DiskFiles ==
  ASSUME TsInv, NEW s \in Streams, NEW n \in DOMAIN disk[s]
  PROVE  n \in Nat /\ disk[s][n] \in Segment
  BY FilesNow DEF TsInv, StoreInv, FilesOK

Nearest(c, S) == IF c.desc THEN Highest(S) ELSE Lowest(S)

LEMMA NearestAhead ==
  ASSUME TsInv, NEW c \in Cursor, c.s \in Streams, Ahead(c) # {}, NEW n, n = Nearest(c, Ahead(c))
  PROVE  /\ n \in Ahead(c) /\ n \in DOMAIN disk[c.s] /\ n \in Nat /\ Further(c.desc, c.seg, n)
         /\ \A m \in Ahead(c) : m = n \/ Further(c.desc, n, m)
  <1>1. PICK S : S = Ahead(c)
    OBVIOUS
  <1>2. S \in SUBSET Nat /\ S \subseteq DOMAIN disk[c.s] /\ c.seg \in Nat
    BY <1>1, DiskFiles DEF Ahead, Cursor
  <1>3. \A m \in S : Further(c.desc, c.seg, m)
    BY <1>1, <1>2 DEF Ahead, Further
  <1>4. CASE c.desc
    <2>1. \A m \in S : m <= c.seg
      BY <1>2, <1>3, <1>4 DEF Further
    <2>2. Highest(S) \in S /\ \A m \in S : Highest(S) >= m
      BY <1>1, <1>2, <2>1, HighestIsGreatest
    <2>3. n = Highest(S)
      BY <1>1, <1>4 DEF Nearest
    <2> QED BY <1>1, <1>2, <1>3, <1>4, <2>2, <2>3 DEF Further
  <1>5. CASE ~c.desc
    <2>1. Lowest(S) \in S /\ \A m \in S : Lowest(S) <= m
      BY <1>1, <1>2, LowestIsLeast
    <2>2. n = Lowest(S)
      BY <1>1, <1>5 DEF Nearest
    <2> QED BY <1>1, <1>2, <1>3, <1>5, <2>1, <2>2 DEF Further
  <1> QED BY <1>4, <1>5

LEMMA NextSegmentSteps ==
  ASSUME TsInv, NEW r, NEW d, NEW fs, NEW b, NEW w, AtFile(r, d, fs, b, w), d.open,
         RecordAt(d.desc, d.pos) \notin 1..w, NextSegment(r, d)
  PROVE  StepOf(r)
  <1>1. At0(r, d, "file", fs, b) /\ d \in Cursor /\ d.s \in Streams /\ fs = disk[d.s]
    BY DEF AtFile, At0
  <1>2. ASSUME Steady(d)
        PROVE  /\ Sound(fs, b) /\ Looked(d, "file", fs, b) /\ d.seg \in DOMAIN fs
               /\ Through(d.desc, d.pos, fs[d.seg])
               /\ \A m \in DOMAIN fs : Further(d.desc, d.seg, m) => m \in Ahead(d) \/ fs[m].recs = <<>>
    <2>1. /\ Sound(fs, b) /\ Looked(d, "file", fs, b) /\ d.seg \in DOMAIN fs /\ d.pos \in Nat /\ w \in Nat
          /\ w = Len(fs[d.seg].recs) /\ (d.desc => d.pos <= w)
      BY <1>2, FileFacts
    <2>2. Through(d.desc, d.pos, fs[d.seg])
      BY <2>1 DEF Through, Later, RecordAt
    <2>3. ASSUME NEW m \in DOMAIN fs, Further(d.desc, d.seg, m), fs[m].recs # <<>>
          PROVE  m \in Ahead(d)
      <3>1. fs[m].hdr /\ d.lo <= m /\ m <= d.hi
        BY <2>1, <2>3, SeesFile DEF Looked, Stands
      <3>2. m \in Nat /\ d.seg \in Nat
        BY <1>1, <2>1, SeesFile DEF Cursor
      <3> QED BY <1>1, <2>3, <3>1, <3>2 DEF Ahead, Openable, Further
    <2> QED BY <2>1, <2>2, <2>3
  <1>3. CASE Ahead(d) # {}
    <2>1. PICK n : n = Nearest(d, Ahead(d))
      OBVIOUS
    <2>2. /\ n \in DOMAIN fs /\ n \in Nat /\ Further(d.desc, d.seg, n)
          /\ \A m \in Ahead(d) : m = n \/ Further(d.desc, n, m)
      BY <1>1, <1>3, <2>1, NearestAhead
    <2>3. PICK e, f : f = fs[n] /\ e = Opens(d, n, f)
      OBVIOUS
    <2>4. f \in Segment
      BY <1>1, <2>2, <2>3, DiskFiles
    <2>5. cur' = [cur EXCEPT ![r] = e] /\ place' = place
      <3>1. OpenSegment(d, n) = e
        BY <1>1, <2>3 DEF OpenSegment, Opens
      <3>2. SetCursor(r, OpenSegment(d, n)) /\ place' = place
        BY <1>3, <2>1 DEF NextSegment, Nearest
      <3> QED BY <3>1, <3>2 DEF SetCursor
    <2>6. e \in Cursor /\ SameWalk(d, e)
      BY <1>1, <2>2, <2>3, <2>4, OpensIs
    <2>7. ASSUME Steady(d) PROVE Looked(e, "file", fs, b)
      <3>1. \A m \in DOMAIN fs : Further(d.desc, d.seg, m) => m = n \/ Further(d.desc, n, m) \/ fs[m].recs = <<>>
        BY <1>2, <2>2, <2>7
      <3>2. e = Opens(d, n, fs[n])
        BY <2>3
      <3> QED BY <1>1, <1>2, <2>2, <2>7, <3>1, <3>2, OpensNext
    <2> QED BY <1>1, <2>5, <2>6, <2>7, GoesTo
  <1>4. CASE Ahead(d) = {}
    <2>1. PICK end \in Nat : end = IF d.desc THEN d.lo ELSE d.hi
      BY <1>1 DEF Cursor
    <2>2. PICK g, e : /\ g = [d EXCEPT !.open = d.open /\ d.seg = end, !.seg = end]
                      /\ e = [g EXCEPT !.done = TRUE]
      OBVIOUS
    <2>3. FilesDone(r, g)
      BY <1>4, <2>1, <2>2 DEF NextSegment
    <2>4. g \in Cursor
      BY <1>1, <2>2, ZenonT(30) DEF Cursor
    <2>5. SameWalk(d, g)
      BY <1>1, <2>2 DEF Cursor, SameWalk
    <2>6. Finished(g) = e /\ g.desc = d.desc
      BY <2>2, <2>5, SMTT(30) DEF Finished, SameWalk
    <2>7. ASSUME Steady(d)
          PROVE  Mid(e, fs, b) /\ (d.desc => Left(e, fs, b) = {}) /\ (~d.desc => Looked(e, "find", fs, b))
      <3>1. \A m \in DOMAIN fs : Further(d.desc, d.seg, m) => fs[m].recs = <<>>
        BY <1>2, <1>4, <2>7
      <3>2. e = [[d EXCEPT !.open = d.open /\ d.seg = end, !.seg = end] EXCEPT !.done = TRUE]
        BY <2>2
      <3> QED BY <1>1, <1>2, <2>1, <2>7, <3>1, <3>2, FilesEnd
    <2> QED BY <1>1, <2>3, <2>4, <2>5, <2>6, <2>7, FilesDoneSteps
  <1> QED BY <1>3, <1>4

LEMMA ReadFileSteps ==
  ASSUME LogAssumptions, TsInv, LogInv, MarkInv, ReadInv, NEW r \in Readers, ReadFile(r)
  PROVE  StepOf(r)
  <1>1. PICK d, fs, b, w, n, e :
           /\ d = cur[r] /\ fs = disk[d.s] /\ b = RamIn(slots, d.s)
           /\ w = (IF d.view.hdr THEN Len(d.view.recs) ELSE 0) /\ n = RecordAt(d.desc, d.pos)
           /\ e = [d EXCEPT !.pos = PosAfter(d.desc, d.pos)]
    OBVIOUS
  <1>2. place[r] = "file" /\ Used(r)
    BY DEF ReadFile, ReadInv, ReaderInv, Kind, Used
  <1>3. At0(r, d, "file", fs, b) /\ AtFile(r, d, fs, b, w)
    BY <1>1, <1>2, AtIs DEF AtFile
  <1>4. \/ ~d.open /\ FilesDone(r, d)
        \/ /\ d.open /\ n \in 1..w
           /\ IF d.view.recs[n] = Bad THEN Return(r, e, "corrupt") ELSE Deliver(r, e, d.view.recs[n])
        \/ d.open /\ ~d.desc /\ n = w + 1 /\ Return(r, e, "corrupt")
        \/ d.open /\ n \notin 1..w /\ NextSegment(r, d)
    BY <1>1, Zenon DEF ReadFile, RecordAt, PosAfter
  <1>5. CASE ~d.open /\ FilesDone(r, d)
    <2>1. ~Steady(d)
      BY <1>3, <1>5 DEF At0, Looked, Stands
    <2>2. d \in Cursor /\ SameWalk(d, d)
      BY <1>3 DEF At0, SameWalk
    <2> QED BY <1>3, <1>5, <2>1, <2>2, FilesDoneSteps
  <1>6. CASE /\ d.open /\ n \in 1..w
             /\ IF d.view.recs[n] = Bad THEN Return(r, e, "corrupt") ELSE Deliver(r, e, d.view.recs[n])
    BY <1>1, <1>3, <1>6, RecordSteps
  <1>7. CASE d.open /\ ~d.desc /\ n = w + 1 /\ Return(r, e, "corrupt")
    <2>1. d.pos + 1 = w + 1 /\ e = [d EXCEPT !.pos = d.pos + 1]
      BY <1>1, <1>7 DEF RecordAt, PosAfter
    <2> QED BY <1>3, <1>7, <2>1, TornSteps
  <1>8. CASE d.open /\ n \notin 1..w /\ NextSegment(r, d)
    BY <1>1, <1>3, <1>8, NextSegmentSteps
  <1> QED BY <1>4, <1>5, <1>6, <1>7, <1>8

LEMMA OpenFileSteps ==
  ASSUME LogAssumptions, TsInv, LogInv, MarkInv, ReadInv, NEW r \in Readers, OpenFile(r)
  PROVE  StepOf(r)
  <1>1. PICK d, fs, b, n : d = cur[r] /\ fs = disk[d.s] /\ b = RamIn(slots, d.s) /\ n = d.seg
    OBVIOUS
  <1>2. place[r] = "open" /\ Used(r)
    BY DEF OpenFile, ReadInv, ReaderInv, Kind, Used
  <1>3. At0(r, d, "open", fs, b)
    BY <1>1, <1>2, AtIs
  <1>4. /\ d \in Cursor /\ d.s \in Streams /\ fs = disk[d.s] /\ (d.mode # "walk" => ~d.desc)
        /\ cur \in [Readers -> Cursor] /\ place \in [Readers -> Stops]
        /\ Steady(d) => Sound(fs, b) /\ Looked(d, "open", fs, b)
    BY <1>3 DEF At0, Kind
  <1>5. CASE Openable(d, n)
    <2>1. n \in DOMAIN fs
      BY <1>4, <1>5 DEF Openable
    <2>2. n \in Nat /\ fs[n] \in Segment
      BY <1>4, <2>1, DiskFiles
    <2>3. PICK e, f, q : /\ f = fs[n] /\ e = Opens(d, n, f)
                         /\ q = IF d.mode \in {"sum", "count"} THEN "file" ELSE "idle"
      OBVIOUS
    <2>4. cur' = [cur EXCEPT ![r] = e] /\ place' = [place EXCEPT ![r] = q]
      <3>1. OpenSegment(d, n) = e
        BY <1>4, <2>3 DEF OpenSegment, Opens
      <3>2. SetCursor(r, OpenSegment(d, n)) /\ At(r, q)
        BY <1>1, <1>5, <2>3 DEF OpenFile
      <3> QED BY <3>1, <3>2 DEF SetCursor, At
    <2>5. e \in Cursor /\ SameWalk(d, e)
      BY <1>4, <2>2, <2>3, OpensIs
    <2>6. q \in {"idle", "file"} /\ (q = "file" => ~d.desc)
      BY <1>4, <2>3
    <2>7. ASSUME Steady(d) PROVE Looked(e, q, fs, b)
      <3>1. e = Opens(d, d.seg, fs[d.seg]) /\ d.seg \in DOMAIN fs
        BY <1>1, <2>1, <2>3
      <3> QED BY <1>4, <2>6, <2>7, <3>1, OpensFirst
    <2> QED BY <1>3, <2>4, <2>5, <2>6, <2>7, GoesTo
  <1>6. CASE ~Openable(d, n)
    <2>1. cur' = [cur EXCEPT ![r] = NoCursor] /\ place' = [place EXCEPT ![r] = "idle"]
      BY <1>1, <1>6 DEF OpenFile, SetCursor, At
    <2>2. ReaderInv(NoCursor, "idle", disk, slots)
      BY NoCursorIs
    <2>3. Kin(cur[r], NoCursor)
      BY NoCursorIs DEF Kin
    <2> QED BY <1>4, <2>1, <2>2, <2>3, StepOfIs
  <1> QED BY <1>5, <1>6

LEMMA CursorNextSteps ==
  ASSUME LogAssumptions, TsInv, LogInv, MarkInv, ReadInv, NEW r \in Readers, CursorNext(r)
  PROVE  StepOf(r)
  <1>1. PICK d, fs, b, q : d = cur[r] /\ fs = disk[d.s] /\ b = RamIn(slots, d.s) /\ q = Start(d)
    OBVIOUS
  <1>2. place[r] = "idle" /\ Used(r) /\ place' = [place EXCEPT ![r] = q] /\ cur' = cur
    BY <1>1 DEF CursorNext, MayRead, At
  <1>3. At0(r, d, "idle", fs, b)
    BY <1>1, <1>2, AtIs
  <1>4. d \in Cursor /\ (Steady(d) => Looked(d, "idle", fs, b)) /\ SameWalk(d, d) /\ cur \in [Readers -> Cursor]
    BY <1>3 DEF At0, SameWalk
  <1>5. cur' = [cur EXCEPT ![r] = d]
    BY <1>1, <1>2, <1>4
  <1>6. (q = "find" /\ (d.desc \/ d.done)) \/ (q = "file" /\ ~d.desc /\ ~d.done)
    BY <1>1 DEF Start
  <1>7. Steady(d) => Looked(d, q, fs, b)
    BY <1>4, <1>6 DEF Looked, Stands
  <1> QED BY <1>2, <1>3, <1>4, <1>5, <1>6, <1>7, GoesTo

LEMMA CursorCloseSteps ==
  ASSUME MarkInv, ReadInv, NEW r \in Readers, CursorClose(r)
  PROVE  StepOf(r)
  <1>1. cur' = [cur EXCEPT ![r] = NoCursor] /\ place' = [place EXCEPT ![r] = "idle"]
    BY DEF CursorClose, SetCursor, At
  <1>2. ReaderInv(NoCursor, "idle", disk, slots)
    BY NoCursorIs
  <1>3. Kin(cur[r], NoCursor)
    BY NoCursorIs DEF Kin
  <1> QED BY <1>1, <1>2, <1>3, StepOfIs DEF MarkInv, ReadInv

(* What the stream holds when a walk begins. *)
LEMMA ContentType ==
  ASSUME LogAssumptions, TsInv, LogInv, NEW s \in Streams, NEW w, NEW d \in BOOLEAN
  PROVE  /\ Content(s, w, d) \in Seq(Samples)
         /\ Content(s, w, d) = Turn(d, Answer(w, disk[s], RamIn(slots, s)))
         /\ Answer(w, disk[s], RamIn(slots, s)) \in Seq(Samples)
         /\ IsPrefix(Answer(w, disk[s], RamIn(slots, s)), Answer(w, disk[s], RamIn(slots, s)))
  <1>1. PICK a \in Seq(Samples) : a = Answer(w, disk[s], RamIn(slots, s))
    BY StreamSound, AnswerIs
  <1>2. Turn(d, a) \in Seq(Samples)
    BY ReverseIs DEF Turn
  <1>3. IsPrefix(a, a)
    <2>1. Len(a) \in Nat
      BY LenProperties
    <2>2. Len(a) <= Len(a)
      BY <2>1
    <2> QED BY <2>2, PrefixIs
  <1> QED BY <1>1, <1>2, <1>3, ContentIs

(* A walk that begins, at place p. *)
LEMMA WalkBegins ==
  ASSUME NEW c \in Cursor, NEW fs, NEW b, Sound(fs, b), c.got = <<>>, c.ram = 0, ~c.done, c.last = "none",
         c.must = Turn(c.desc, Answer(c.win, fs, b)),
         \A n \in DOMAIN fs : n = c.seg \/ Further(c.desc, c.seg, n),
         c.open => c.seg \in DOMAIN fs /\ c.pos = StartAt(c.desc, fs[c.seg])
  PROVE  Walks(c, fs, b) /\ Promised(c, fs, b) /\ Served(c)
  <1>1. PICK d, open, seg, pos, A, R :
           /\ d = c.desc /\ open = c.open /\ seg = c.seg /\ pos = c.pos /\ A = Due(c.win, fs, b)
           /\ R = FileRest(d, open, seg, pos, fs) \cup RamRest(d, 0, b)
    OBVIOUS
  <1>2. Left(c, fs, b) = R
    BY <1>1 DEF Left
  <1>3. b \in Seq(Samples) /\ FileSet(fs) /\ open \in BOOLEAN
    BY <1>1 DEF Sound, Cursor
  <1>4. Here(fs, b) \subseteq R
    BY <1>1, <1>3, RestAll
  <1>5. A \subseteq R /\ A \subseteq Samples /\ R \subseteq Samples
    BY <1>1, <1>4 DEF Due, Here, FileRest, RamRest
  <1>6. Walked(d, A, R, <<>>)
    BY <1>5, WalkedNew
  <1>7. Walks(c, fs, b)
    BY <1>1, <1>2, <1>6 DEF Walks
  <1>8. Promised(c, fs, b)
    <2>1. PICK a \in Seq(Samples) : a = Answer(c.win, fs, b)
      BY AnswerIs
    <2>2. Len(a) \in Nat
      BY LenProperties
    <2>3. Len(a) <= Len(a)
      BY <2>2
    <2>4. IsPrefix(a, a)
      BY <2>3, PrefixIs
    <2> QED BY <2>1, <2>4 DEF Promised, Turn
  <1> QED BY <1>7, <1>8 DEF Served

Rewound(c, k, m) ==
  [c EXCEPT !.ram = 0, !.done = FALSE, !.pos = k, !.last = "none", !.got = <<>>, !.fresh = FALSE, !.must = m]

LEMMA RewoundIs ==
  ASSUME NEW c \in Cursor, NEW k \in Nat, NEW m \in Seq(Samples), NEW e, e = Rewound(c, k, m)
  PROVE  /\ e \in Cursor /\ e.s = c.s /\ e.mode = c.mode /\ e.desc = c.desc /\ e.win = c.win /\ e.lo = c.lo
         /\ e.hi = c.hi /\ e.seg = c.seg /\ e.open = c.open /\ e.view = c.view /\ e.size = c.size
         /\ e.pos = k /\ ~e.done /\ e.ram = 0 /\ e.last = "none" /\ e.got = <<>> /\ e.must = m
         /\ e.calm = c.calm /\ ~e.fresh
  <1>1. <<>> \in Seq(Samples)
    BY EmptySeq
  <1>2. e \in Cursor
    BY <1>1 DEF Rewound, Cursor
  <1>3. /\ e.s = c.s /\ e.mode = c.mode /\ e.desc = c.desc /\ e.win = c.win /\ e.lo = c.lo
        /\ e.hi = c.hi /\ e.seg = c.seg /\ e.open = c.open /\ e.view = c.view /\ e.size = c.size
    BY DEF Rewound, Cursor
  <1>4. /\ e.pos = k /\ e.done = FALSE /\ e.ram = 0 /\ e.last = "none" /\ e.got = <<>> /\ e.must = m
        /\ e.calm = c.calm /\ e.fresh = FALSE
    BY DEF Rewound, Cursor
  <1> QED BY <1>2, <1>3, <1>4

LEMMA CursorResetSteps ==
  ASSUME LogAssumptions, TsInv, LogInv, MarkInv, ReadInv, NEW r \in Readers, CursorReset(r)
  PROVE  StepOf(r)
  <1>1. PICK d, s, fs, b : d = cur[r] /\ s = d.s /\ fs = disk[s] /\ b = RamIn(slots, s)
    OBVIOUS
  <1>2. place[r] = "idle" /\ Used(r) /\ d.mode = "walk" /\ d.fresh
    BY <1>1 DEF CursorReset, MayRead
  <1>3. At0(r, d, "idle", fs, b)
    BY <1>1, <1>2, AtIs
  <1>4. /\ d \in Cursor /\ s \in Streams /\ s # NoStream /\ cur \in [Readers -> Cursor]
        /\ place \in [Readers -> Stops] /\ (Steady(d) => Looked(d, "idle", fs, b))
    BY <1>1, <1>3 DEF At0
  <1>5. Sound(fs, b)
    BY <1>1, <1>4, StreamSound
  <1>6. PICK m \in Seq(Samples) : m = Content(s, d.win, d.desc) /\ m = Turn(d.desc, Answer(d.win, fs, b))
    <2>1. d.desc \in BOOLEAN
      BY <1>4 DEF Cursor
    <2> QED BY <1>1, <1>4, <2>1, ContentType
  <1>7. PICK k \in Nat : k = IF d.desc THEN d.size ELSE 0
    BY <1>4 DEF Cursor
  <1>8. PICK e : e = Rewound(d, k, m)
    OBVIOUS
  <1>9. cur' = [cur EXCEPT ![r] = e] /\ place' = place
    BY <1>1, <1>6, <1>7, <1>8 DEF CursorReset, SetCursor, Rewound
  <1>10. /\ e \in Cursor /\ e.s = s /\ e.mode = d.mode /\ e.desc = d.desc /\ e.win = d.win /\ e.lo = d.lo
         /\ e.hi = d.hi /\ e.seg = d.seg /\ e.open = d.open /\ e.view = d.view /\ e.size = d.size
         /\ e.pos = k /\ ~e.done /\ e.ram = 0 /\ e.last = "none" /\ e.got = <<>> /\ e.must = m
         /\ e.calm = d.calm /\ ~e.fresh
    BY <1>1, <1>4, <1>8, RewoundIs, SMTT(30)
  <1>11. Kind(e, "idle")
    BY <1>2, <1>4, <1>10 DEF Kind
  <1>12. ASSUME Steady(e) PROVE Looked(e, "idle", fs, b)
    <2>1. e.lo = e.hi /\ Steady(d)
      BY <1>2, <1>4, <1>10, <1>12, <1>1 DEF Steady
    <2>2. d.open /\ d.seg = d.lo /\ d.seg \in DOMAIN fs /\ d.view = fs[d.seg] /\ d.size = Len(fs[d.seg].recs)
      BY <1>4, <1>10, <2>1 DEF Looked, Stands
    <2>3. \A n \in DOMAIN fs : d.lo <= n /\ n <= d.hi
      BY <1>4, <2>1 DEF Looked, Stands
    <2>4. \A n \in DOMAIN fs : n = d.seg
      <3>1. d.lo \in Nat
        BY <1>4 DEF Cursor
      <3>2. \A n \in DOMAIN fs : n \in Nat
        BY <1>5, SeesFile
      <3> QED BY <1>10, <2>1, <2>2, <2>3, <3>1, <3>2
    <2>5. k = StartAt(d.desc, fs[d.seg])
      BY <1>7, <2>2 DEF StartAt
    <2>6. Walks(e, fs, b) /\ Promised(e, fs, b) /\ Served(e)
      <3>1. e.must = Turn(e.desc, Answer(e.win, fs, b))
        BY <1>6, <1>10
      <3>2. \A n \in DOMAIN fs : n = e.seg \/ Further(e.desc, e.seg, n)
        BY <1>10, <2>4
      <3>3. e.seg \in DOMAIN fs /\ e.pos = StartAt(e.desc, fs[e.seg])
        BY <1>10, <2>2, <2>5
      <3> QED BY <1>5, <1>10, <3>1, <3>2, <3>3, WalkBegins
    <2>7. Len(b) \in Nat /\ d.size \in Nat
      BY <1>4, <1>5, LenProperties DEF Sound, Cursor
    <2>8. Stands(e, "idle", fs, b)
      BY <1>7, <1>10, <2>2, <2>3, <2>7 DEF Stands
    <2> QED BY <2>6, <2>8 DEF Looked
  <1>13. ReaderInv(e, "idle", disk, slots)
    BY <1>1, <1>10, <1>11, <1>12 DEF ReaderInv
  <1>14. Kin(cur[r], e)
    BY <1>1, <1>10 DEF Kin
  <1> QED BY <1>2, <1>4, <1>9, <1>13, <1>14, StepOfIs

Opened(s, mode, desc, w, lo, hi, seg, must, stored) ==
  [NoCursor EXCEPT !.s = s, !.mode = mode, !.desc = desc, !.win = w, !.lo = lo, !.hi = hi,
                   !.seg = seg, !.must = must, !.stored = stored]

LEMMA OpenedIs ==
  ASSUME NEW s \in Streams, NEW mode \in ModeKinds, NEW desc \in BOOLEAN, NEW w \in Nat \X Nat,
         NEW lo \in Nat, NEW hi \in Nat, NEW seg \in Nat, NEW must \in Seq(Samples),
         NEW stored \in SUBSET Samples, NEW e, e = Opened(s, mode, desc, w, lo, hi, seg, must, stored)
  PROVE  /\ e \in Cursor /\ e.s = s /\ e.mode = mode /\ e.desc = desc /\ e.win = w /\ e.lo = lo /\ e.hi = hi
         /\ e.seg = seg /\ ~e.open /\ ~e.done /\ e.ram = 0 /\ e.last = "none" /\ e.got = <<>>
         /\ e.must = must /\ e.calm /\ e.fresh
  <1>1. NoCursor \in Cursor
    BY NoCursorIs
  <1>2. e \in Cursor
    BY <1>1, ZenonT(30) DEF Opened, Cursor
  <1>3. /\ e.s = s /\ e.mode = mode /\ e.desc = desc /\ e.win = w /\ e.lo = lo /\ e.hi = hi
        /\ e.seg = seg /\ e.must = must
    BY DEF Opened, NoCursor
  <1>4. /\ e.open = FALSE /\ e.done = FALSE /\ e.ram = 0 /\ e.last = "none" /\ e.got = <<>>
        /\ e.calm = TRUE /\ e.fresh = TRUE
    BY DEF Opened, NoCursor
  <1> QED BY <1>2, <1>3, <1>4

LEMMA OpenSteps ==
  ASSUME LogAssumptions, TsInv, LogInv, MarkInv, ReadInv, NEW r \in Readers, NEW mode \in ModeKinds,
         NEW desc \in BOOLEAN, NEW w \in Nat \X Nat, mode # "walk" => ~desc, OpenAs(r, mode, desc, w)
  PROVE  /\ StepOf(r)
         /\ cur'[r].s = hd[r] /\ cur'[r].mode = mode /\ cur'[r].win = w /\ cur'[r].got = <<>>
         /\ place'[r] = "open" /\ hd[r] \in Streams
  <1>1. PICK s, i, fs, b, sl : /\ s = hd[r] /\ i = slot_find(s) /\ fs = disk[s] /\ b = RamIn(slots, s)
                               /\ sl = slots[i]
    OBVIOUS
  <1>2. /\ place[r] = "idle" /\ ~Calling(r) /\ s # NoStream /\ i # 0
    BY <1>1 DEF OpenAs, MayRead
  <1>3. r \in Threads /\ hd \in [Threads -> Streams \cup {NoStream}] /\ slots \in [Slots -> Slot]
    BY ReaderActs DEF TsInv, StoreInv, TypeOK
  <1>4. s \in Streams
    BY <1>1, <1>2, <1>3
  <1>5. i \in Open(s) /\ i \in Slots /\ sl \in Slot /\ sl.used /\ sl.name = s
    BY <1>1, <1>2, <1>3, FindSlot DEF Open
  <1>6. sl.scanned
    <2>1. ~Opening(r)
      BY <1>2 DEF Opening, Calling
    <2>2. \A j \in Open(hd[r]) : slots[j].scanned
      BY <1>1, <1>2, <1>3, <2>1 DEF TsInv, StoreInv, SlotInv
    <2> QED BY <1>1, <1>5, <2>2
  <1>7. \A n \in DOMAIN fs : sl.oldest <= n /\ n <= sl.cur
    <2>1. Covers(sl, disk[sl.name])
      BY <1>1, <1>5, <1>6 DEF LogInv, FileInv
    <2> QED BY <1>1, <1>5, <2>1 DEF Covers
  <1>8. Sound(fs, b)
    BY <1>1, <1>4, StreamSound
  <1>9. PICK must \in Seq(Samples) : must = Content(s, w, desc) /\ must = Turn(desc, Answer(w, fs, b))
    BY <1>1, <1>4, ContentType
  <1>10. PICK lo \in Nat, hi \in Nat, seg \in Nat, stored \in SUBSET Samples :
            /\ lo = sl.oldest /\ hi = sl.cur /\ seg = (IF desc THEN hi ELSE lo)
            /\ stored = {x \in Range(Readable(s)) : Matches(w, x)}
    <2>1. sl.oldest \in Nat /\ sl.cur \in Nat
      BY <1>5 DEF Slot
    <2>2. Readable(s) \in Seq(Samples)
      BY <1>1, <1>4, <1>8, HereIs, ReadableIs
    <2>3. Range(Readable(s)) \subseteq Samples
      BY <2>2, RangeIs
    <2> QED BY <2>1, <2>3
  <1>11. PICK e : e = Opened(s, mode, desc, w, lo, hi, seg, must, stored)
    OBVIOUS
  <1>12. cur' = [cur EXCEPT ![r] = e] /\ place' = [place EXCEPT ![r] = "open"]
    BY <1>1, <1>9, <1>10, <1>11 DEF OpenAs, SetCursor, At, Opened
  <1>13. /\ e \in Cursor /\ e.s = s /\ e.mode = mode /\ e.desc = desc /\ e.win = w /\ e.lo = lo /\ e.hi = hi
         /\ e.seg = seg /\ ~e.open /\ ~e.done /\ e.ram = 0 /\ e.last = "none" /\ e.got = <<>>
         /\ e.must = must /\ e.calm /\ e.fresh
    BY <1>4, <1>11, OpenedIs
  <1>14. Kind(e, "open")
    BY <1>2, <1>13 DEF Kind
  <1>15. Looked(e, "open", fs, b)
    <2>1. \A n \in DOMAIN fs : n \in Nat /\ (n = seg \/ Further(desc, seg, n))
      <3>1. \A n \in DOMAIN fs : n \in Nat
        BY <1>8, SeesFile
      <3> QED BY <1>7, <1>10, <3>1 DEF Further
    <2>2. Walks(e, fs, b) /\ Promised(e, fs, b) /\ Served(e)
      <3>1. e.must = Turn(e.desc, Answer(e.win, fs, b))
        BY <1>9, <1>13
      <3>2. \A n \in DOMAIN fs : n = e.seg \/ Further(e.desc, e.seg, n)
        BY <1>13, <2>1
      <3> QED BY <1>8, <1>13, <3>1, <3>2, WalkBegins
    <2>3. Len(b) \in Nat
      BY <1>8, LenProperties DEF Sound
    <2>4. \A n \in DOMAIN fs : e.lo <= n /\ n <= e.hi
      BY <1>7, <1>10, <1>13
    <2>5. e.lo = e.hi => e.seg = e.lo
      BY <1>10, <1>13
    <2>6. Stands(e, "open", fs, b)
      BY <1>13, <2>3, <2>4, <2>5 DEF Stands
    <2> QED BY <2>2, <2>6 DEF Looked
  <1>16. ReaderInv(e, "open", disk, slots)
    BY <1>1, <1>13, <1>14, <1>15 DEF ReaderInv
  <1>17. StepOf(r)
    <2>1. Kin(cur[r], e)
      BY DEF OpenAs, Used, Kin
    <2> QED BY <1>12, <1>16, <2>1, StepOfIs DEF MarkInv, ReadInv
  <1>18. cur'[r] = e /\ place'[r] = "open"
    BY <1>12 DEF MarkInv, ReadInv
  <1> QED BY <1>1, <1>4, <1>13, <1>17, <1>18

(* The invariant of the readers, when one of them moves and the store does not. *)
LEMMA OneMoves ==
  ASSUME ReadInv, MarkInv, NEW r \in Readers, StepOf(r), UNCHANGED <<disk, slots>>,
         mark' \in [Streams -> Nat]
  PROVE  ReadInv'
  <1>1. /\ cur' = [cur EXCEPT ![r] = cur'[r]] /\ place' = [place EXCEPT ![r] = place'[r]]
        /\ ReaderInv(cur'[r], place'[r], disk, slots)
    BY DEF StepOf
  <1>2. cur \in [Readers -> Cursor] /\ place \in [Readers -> Stops]
    BY DEF ReadInv, MarkInv
  <1>3. cur'[r] \in Cursor
    BY <1>1 DEF ReaderInv, Kind
  <1>4. cur' \in [Readers -> Cursor]
    BY <1>1, <1>2, <1>3
  <1>5. ASSUME NEW u \in Readers PROVE ReaderInv(cur'[u], place'[u], disk, slots)
    <2>1. CASE u = r
      BY <1>1, <2>1
    <2>2. CASE u # r
      <3>1. cur'[u] = cur[u] /\ place'[u] = place[u]
        BY <1>1, <1>2, <2>2
      <3> QED BY <3>1 DEF ReadInv
    <2> QED BY <2>1, <2>2
  <1>6. \A u \in Readers : ReaderInv(cur'[u], place'[u], disk', slots')
    BY <1>5
  <1> QED BY <1>4, <1>6 DEF ReadInv

--------------------------------------------------------------------------------
(* The store moves beside a walk, and consumers write their marks *)

(* A step of the store that leaves stream s what a walk of it relies on. *)
LEMMA StillRam ==
  ASSUME TsInv, TsInv', NEW s \in Streams, NEW d, Still(s, d)
  PROVE  /\ disk'[s] = disk[s]
         /\ \A i \in Slots : slots[i].name = s => slots'[i].name = s
         /\ IF d THEN RamIn(slots', s) = RamIn(slots, s) ELSE IsPrefix(RamIn(slots, s), RamIn(slots', s))
  <1>1. /\ disk'[s] = disk[s]
        /\ \A i \in Slots : slots[i].name = s \/ slots'[i].name = s =>
              /\ slots'[i].name = s /\ slots[i].name = s
              /\ IF d THEN slots'[i].buf = slots[i].buf ELSE IsPrefix(slots[i].buf, slots'[i].buf)
    BY DEF Still
  <1>2. /\ \A i \in Slots : slots[i].name = s => slots[i].used
        /\ \A i \in Slots : slots'[i].name = s => slots'[i].used
    <2>1. FreeSlot.name = NoStream /\ s # NoStream
      BY TsConstants DEF FreeSlot
    <2> QED BY <2>1 DEF TsInv, StoreInv, SlotInv
  <1>3. OpenIn(slots', s) = OpenIn(slots, s)
    BY <1>1, <1>2 DEF OpenIn
  <1>4. PICK i : i = FindIn(slots, s) /\ i = FindIn(slots', s)
    BY <1>3 DEF FindIn
  <1>5. CASE i = 0
    <2>1. RamIn(slots, s) = <<>> /\ RamIn(slots', s) = <<>>
      BY <1>4, <1>5 DEF RamIn
    <2>2. <<>> \in Seq(Samples) /\ Len(<<>>) = 0
      BY EmptySeq
    <2>3. IsPrefix(<<>>, <<>>)
      <3>1. PICK e \in Seq(Samples) : e = <<>> /\ Len(e) = 0
        BY <2>2
      <3>2. Len(e) <= Len(e) /\ \A j \in 1..Len(e) : e[j] = e[j]
        BY <3>1
      <3>3. IsPrefix(e, e)
        BY <3>2, PrefixIs
      <3> QED BY <3>1, <3>3
    <2> QED BY <1>1, <2>1, <2>3
  <1>6. CASE i # 0
    <2>1. i \in OpenIn(slots, s)
      <3>1. OpenIn(slots, s) \in SUBSET Nat /\ OpenIn(slots, s) # {}
        BY <1>4, <1>6, SlotsFinite DEF FindIn, OpenIn
      <3> QED BY <1>4, <3>1, LowestIsLeast DEF FindIn
    <2>2. i \in Slots /\ slots[i].name = s
      BY <2>1 DEF OpenIn
    <2>3. RamIn(slots, s) = slots[i].buf /\ RamIn(slots', s) = slots'[i].buf
      BY <1>4, <1>6 DEF RamIn
    <2> QED BY <1>1, <2>2, <2>3
  <1> QED BY <1>5, <1>6

(* More in the buffer is more at the end of the answer. *)
LEMMA AnswerGrows ==
  ASSUME NEW w, NEW fs, NEW b, NEW v, Sound(fs, b), Sound(fs, v), IsPrefix(b, v)
  PROVE  IsPrefix(Answer(w, fs, b), Answer(w, fs, v))
  <1>1. PICK p \in Seq(Samples), x \in Seq(Samples), y \in Seq(Samples) : p = StoredIn(fs) /\ x = b /\ y = v
    BY HereIs DEF Sound
  <1>2. PICK z \in Seq(Samples) : y = Cat(x, z)
    <2>1. PICK n \in Nat, m \in Nat : n = Len(x) /\ m = Len(y)
      BY LenProperties
    <2>2. n <= m /\ \A i \in 1..n : x[i] = y[i]
      BY <1>1, <2>1, PrefixIs
    <2>3. PICK z : z = SubSeq(y, n + 1, m)
      OBVIOUS
    <2>4. z \in Seq(Samples) /\ Len(z) = m - n /\ \A i \in 1..(m - n) : z[i] = y[n + i]
      <3>1. \A i \in (n + 1)..m : i \in 1..m /\ y[i] \in Samples
        BY <2>1, <2>2, ElementOfSeq
      <3> QED BY <2>1, <2>2, <2>3, <3>1, SubSeqProperties
    <2>5. /\ Cat(x, z) \in Seq(Samples) /\ Len(Cat(x, z)) = n + Len(z)
          /\ \A i \in 1..(n + Len(z)) : Cat(x, z)[i] = IF i <= n THEN x[i] ELSE z[i - n]
      BY <2>1, <2>4, ConcatProperties DEF Cat
    <2>6. PICK q : q = Cat(x, z)
      OBVIOUS
    <2>7. Len(q) = m /\ q \in Seq(Samples)
      BY <2>1, <2>2, <2>4, <2>5, <2>6
    <2>8. \A i \in 1..m : q[i] = y[i]
      <3> SUFFICES ASSUME NEW i \in 1..m PROVE q[i] = y[i]
        OBVIOUS
      <3>1. i \in 1..(n + Len(z))
        BY <2>1, <2>2, <2>4
      <3>2. CASE i <= n
        BY <2>2, <2>5, <2>6, <3>1, <3>2
      <3>3. CASE ~(i <= n)
        <4>0. i - n \in 1..(m - n) /\ n + (i - n) = i
          BY <2>1, <2>2, <3>3
        <4>1. PICK j \in 1..(m - n) : j = i - n /\ n + j = i
          BY <4>0
        <4> QED BY <2>4, <2>5, <2>6, <3>1, <3>3, <4>1
      <3> QED BY <3>2, <3>3
    <2>9. q = y
      BY <2>1, <2>7, <2>8, SeqEqual
    <2> QED BY <2>4, <2>6, <2>9
  <1>3. PICK S, a, c, t :
           /\ S = Asked(w) /\ a = Only(Cat(p, x), S) /\ c = Only(z, S) /\ t = Only(Cat(p, y), S)
           /\ a \in Seq(Samples) /\ c \in Seq(Samples) /\ t \in Seq(Samples)
    BY CatType, OnlyType
  <1>4. t = Cat(a, c)
    <2>1. Cat(p, y) = Cat(Cat(p, x), z) /\ Cat(p, x) \in Seq(Samples)
      BY <1>2, CatAssoc, CatType
    <2> QED BY <1>3, <2>1, CatOnly
  <1>5. Len(a) \in Nat /\ Len(c) \in Nat
    BY LenProperties
  <1>6. Len(t) = Len(a) + Len(c) /\ \A i \in 1..Len(a) : t[i] = a[i]
    BY <1>4, <1>5, ConcatProperties DEF Cat
  <1>7. IsPrefix(a, t)
    <2>1. Len(a) <= Len(t)
      BY <1>5, <1>6
    <2> QED BY <1>3, <1>6, <2>1, PrefixIs
  <1> QED BY <1>1, <1>3, <1>7 DEF Answer

LEMMA PrefixOfPrefix ==
  ASSUME NEW p \in Seq(Samples), NEW q \in Seq(Samples), NEW t \in Seq(Samples), IsPrefix(p, q), IsPrefix(q, t)
  PROVE  IsPrefix(p, t)
  <1>1. PICK i \in Nat, j \in Nat, k \in Nat : i = Len(p) /\ j = Len(q) /\ k = Len(t)
    BY LenProperties
  <1>2. i <= j /\ j <= k /\ (\A n \in 1..i : p[n] = q[n]) /\ \A n \in 1..j : q[n] = t[n]
    BY <1>1, PrefixIs
  <1>3. i <= k /\ \A n \in 1..i : p[n] = t[n]
    BY <1>2
  <1> QED BY <1>1, <1>3, PrefixIs

(* The buffer grows under a forward walk. *)
LEMMA LookedMore ==
  ASSUME NEW c \in Cursor, NEW p, NEW fs, NEW b, NEW v, Sound(fs, b), Sound(fs, v), IsPrefix(b, v),
         ~c.desc, Looked(c, p, fs, b)
  PROVE  Looked(c, p, fs, v)
  <1>1. b \in Seq(Samples) /\ v \in Seq(Samples) /\ FileSet(fs) /\ Lined(fs, v)
    BY DEF Sound
  <1>2. PICK n \in Nat, m \in Nat : n = Len(b) /\ m = Len(v)
    BY <1>1, LenProperties
  <1>3. n <= m
    BY <1>1, <1>2, PrefixIs
  <1>4. c.ram \in Nat /\ c.ram <= n /\ c.desc = FALSE
    BY <1>2 DEF Looked, Stands, Cursor
  <1>5. Stands(c, p, fs, v)
    <2>1. c.ram <= Len(v)
      BY <1>2, <1>3, <1>4
    <2> QED BY <2>1 DEF Looked, Stands
  <1>6. Promised(c, fs, v)
    <2>1. Answer(c.win, fs, b) \in Seq(Samples) /\ Answer(c.win, fs, v) \in Seq(Samples) /\ c.must \in Seq(Samples)
      BY AnswerIs DEF Cursor
    <2>2. IsPrefix(Answer(c.win, fs, b), Answer(c.win, fs, v))
      BY AnswerGrows
    <2>3. IsPrefix(c.must, Answer(c.win, fs, b))
      BY DEF Looked, Promised
    <2>4. IsPrefix(c.must, Answer(c.win, fs, v))
      BY <2>1, <2>2, <2>3, PrefixOfPrefix
    <2> QED BY <2>4 DEF Promised
  <1>7. Walks(c, fs, v)
    <2>1. PICK F, R, S, ram : 
             /\ F = (IF c.done THEN {} ELSE FileRest(c.desc, c.open, c.seg, c.pos, fs)) /\ ram = c.ram
             /\ R = RamRest(FALSE, ram, b) /\ S = RamRest(FALSE, ram, v)
      OBVIOUS
    <2>2. /\ R \subseteq S /\ Here(fs, b) \subseteq Here(fs, v) /\ Here(fs, v) \subseteq Here(fs, b) \cup S
          /\ AllBehind(FALSE, Here(fs, b), S \ R)
      BY <1>1, <1>2, <1>4, <2>1, RamGrows
    <2>3. Walked(FALSE, Due(c.win, fs, b), F \cup R, c.got)
      BY <1>4, <2>1 DEF Looked, Walks, Left
    <2>4. Walked(FALSE, Due(c.win, fs, v), F \cup S, c.got)
      <3>1. PICK A, B : A = Due(c.win, fs, b) /\ B = Due(c.win, fs, v)
        OBVIOUS
      <3>2. A \subseteq B /\ B \subseteq A \cup S /\ A \subseteq Here(fs, b) /\ B \subseteq Samples
        BY <2>2, <3>1 DEF Due, Here
      <3>3. F \cup S \subseteq Samples
        BY <2>1 DEF FileRest, RamRest
      <3>4. AllBehind(FALSE, A, (F \cup S) \ (F \cup R))
        BY <2>2, <3>2 DEF AllBehind
      <3> QED BY <2>2, <2>3, <3>1, <3>2, <3>3, <3>4, WalkedMore
    <2> QED BY <1>4, <2>1, <2>4 DEF Walks, Left
  <1> QED BY <1>5, <1>6, <1>7 DEF Looked

LEMMA SoundNext ==
  ASSUME LogAssumptions, NEW s \in Streams
  PROVE  TsInv' /\ LogInv' => Sound(disk'[s], RamIn(slots', s))
  <1>1. TsInv /\ LogInv => Sound(disk[s], RamIn(slots, s))
    BY StreamSound
  <1>2. (TsInv /\ LogInv => Sound(disk[s], RamIn(slots, s)))'
    BY <1>1, PTL
  <1> QED BY <1>2

(* A cursor beside a step of the store. *)
Watched(c, f, still) == [c EXCEPT !.view = f, !.calm = c.calm /\ still]

LEMMA WatchedIs ==
  ASSUME NEW c \in Cursor, NEW f \in Segment, NEW still \in BOOLEAN, NEW e, e = Watched(c, f, still)
  PROVE  /\ e \in Cursor /\ e.s = c.s /\ e.mode = c.mode /\ e.desc = c.desc /\ e.win = c.win /\ e.lo = c.lo
         /\ e.hi = c.hi /\ e.seg = c.seg /\ e.open = c.open /\ e.view = f /\ e.size = c.size /\ e.pos = c.pos
         /\ e.done = c.done /\ e.ram = c.ram /\ e.slot = c.slot /\ e.last = c.last /\ e.got = c.got
         /\ e.must = c.must /\ e.calm = (c.calm /\ still) /\ e.fresh = c.fresh
  <1>1. e \in Cursor
    BY ZenonT(30) DEF Watched, Cursor
  <1>2. /\ e.s = c.s /\ e.mode = c.mode /\ e.desc = c.desc /\ e.win = c.win /\ e.lo = c.lo
        /\ e.hi = c.hi /\ e.seg = c.seg /\ e.open = c.open /\ e.view = f /\ e.size = c.size /\ e.pos = c.pos
    BY DEF Watched, Cursor
  <1>3. /\ e.done = c.done /\ e.ram = c.ram /\ e.slot = c.slot /\ e.last = c.last /\ e.got = c.got
        /\ e.must = c.must /\ e.calm = (c.calm /\ still) /\ e.fresh = c.fresh
    BY DEF Watched, Cursor
  <1> QED BY <1>1, <1>2, <1>3

LEMMA FollowKeeps ==
  ASSUME LogAssumptions, TsInv, LogInv, TsInv', LogInv', NEW c, NEW p, ReaderInv(c, p, disk, slots)
  PROVE  /\ ReaderInv(Follow(c), p, disk', slots')
         /\ Follow(c).s = c.s /\ Follow(c).mode = c.mode /\ Follow(c).desc = c.desc
         /\ Follow(c).win = c.win /\ Follow(c).got = c.got /\ (Follow(c).calm => c.calm)
         /\ Follow(c).fresh = c.fresh
  <1>0. c \in Cursor /\ Kind(c, p)
    BY DEF ReaderInv, Kind
  <1>1. CASE c.s = NoStream
    <2>1. Follow(c) = c /\ c = NoCursor /\ p = "idle"
      BY <1>0, <1>1 DEF Follow, Kind
    <2> QED BY <2>1, NoCursorIs
  <1>2. CASE c.s # NoStream
    <2>1. c.s \in Streams
      BY <1>0, <1>2 DEF Cursor
    <2>2. PICK s, f, still, e :
             /\ s = c.s /\ still = Still(c.s, c.desc) /\ e = Follow(c)
             /\ f = IF live /\ c.open /\ c.seg \in DOMAIN disk'[c.s] THEN disk'[c.s][c.seg] ELSE c.view
      OBVIOUS
    <2>3. e = Watched(c, f, still) /\ still \in BOOLEAN
      BY <1>2, <2>2 DEF Follow, Watched, Still
    <2>4. f \in Segment
      <3>1. \A n \in DOMAIN disk'[c.s] : disk'[c.s][n] \in Segment
        BY <2>1, FilesNow DEF TsInv, StoreInv, TypeOK
      <3> QED BY <1>0, <2>2, <3>1 DEF Cursor
    <2>5. /\ e \in Cursor /\ e.s = c.s /\ e.mode = c.mode /\ e.desc = c.desc /\ e.win = c.win /\ e.lo = c.lo
          /\ e.hi = c.hi /\ e.seg = c.seg /\ e.open = c.open /\ e.view = f /\ e.size = c.size /\ e.pos = c.pos
          /\ e.done = c.done /\ e.ram = c.ram /\ e.slot = c.slot /\ e.last = c.last /\ e.got = c.got
          /\ e.must = c.must /\ e.calm = (c.calm /\ still) /\ e.fresh = c.fresh
      BY <1>0, <2>3, <2>4, WatchedIs
    <2>6. Kind(e, p)
      BY <1>0, <1>2, <2>5 DEF Kind
    <2>7. ASSUME Steady(e)
          PROVE  Looked(e, p, disk'[s], RamIn(slots', s)) /\ (p = "ram" => slots'[e.slot].name = s)
      <3>1. Steady(c) /\ Still(s, c.desc)
        BY <2>2, <2>5, <2>7 DEF Steady
      <3>2. PICK fs, b, v : fs = disk[s] /\ b = RamIn(slots, s) /\ v = RamIn(slots', s)
        OBVIOUS
      <3>3. /\ disk'[s] = fs /\ \A i \in Slots : slots[i].name = s => slots'[i].name = s
            /\ IF c.desc THEN v = b ELSE IsPrefix(b, v)
        BY <2>1, <2>2, <3>1, <3>2, StillRam
      <3>4. Looked(c, p, fs, b) /\ (p = "ram" => slots[c.slot].name = s /\ c.slot \in Slots)
        BY <1>0, <2>2, <3>1, <3>2 DEF ReaderInv, Kind
      <3>5. Sound(fs, b)
        BY <2>1, <2>2, <3>2, StreamSound
      <3>6. Sound(fs, v)
        BY <2>1, <2>2, <3>2, <3>3, SoundNext
      <3>7. Looked(c, p, fs, v)
        BY <1>0, <3>3, <3>4, <3>5, <3>6, LookedMore
      <3>8. f = c.view
        BY <2>2, <3>3, <3>7 DEF Looked, Stands
      <3>9. Left(e, fs, v) = Left(c, fs, v)
        BY <2>5 DEF Left
      <3>10. Walks(e, fs, v) /\ Promised(e, fs, v) /\ Served(e)
        BY <2>5, <3>7, <3>9 DEF Looked, Walks, Promised, Served
      <3>11. Stands(e, p, fs, v)
        BY <2>5, <3>7, <3>8 DEF Looked, Stands
      <3> QED BY <2>5, <3>2, <3>3, <3>4, <3>10, <3>11 DEF Looked
    <2>8. ReaderInv(e, p, disk', slots')
      BY <2>2, <2>5, <2>6, <2>7 DEF ReaderInv
    <2> QED BY <2>2, <2>5, <2>8
  <1> QED BY <1>1, <1>2

(* The consumer writes its watermark. *)
LEMMA AcknowledgeReads ==
  ASSUME LogAssumptions, TsInv, LogInv, MarkInv, ReadInv, NEW r \in Readers, Acknowledge(r)
  PROVE  ReadInv'
  <1>1. PICK d, fs, b : d = cur[r] /\ fs = disk[d.s] /\ b = RamIn(slots, d.s)
    OBVIOUS
  <1>2. /\ place[r] = "idle" /\ d.mode = "feed" /\ d.got # <<>> /\ cur' = cur
        /\ place' = [place EXCEPT ![r] = "mark"] /\ UNCHANGED <<disk, slots>>
        /\ mark' = mark \/ mark' = [mark EXCEPT ![d.s] = 0]
    BY <1>1 DEF Acknowledge, MayRead, At
  <1>3. Used(r)
    <2>1. d.s = NoStream => d = NoCursor
      BY <1>1 DEF ReadInv, ReaderInv, Kind
    <2> QED BY <1>1, <1>2, <2>1, NoCursorIs DEF Used
  <1>4. At0(r, d, "idle", fs, b)
    BY <1>1, <1>2, <1>3, AtIs
  <1>5. /\ Kind(d, "idle") /\ (Steady(d) => Looked(d, "idle", fs, b))
        /\ fs = disk[d.s] /\ b = RamIn(slots, d.s)
        /\ cur \in [Readers -> Cursor] /\ place \in [Readers -> Stops]
    BY <1>4 DEF At0
  <1>6. Kind(d, "mark")
    BY <1>1, <1>2, <1>3, <1>5 DEF Kind, Used
  <1>7. Steady(d) => Looked(d, "mark", fs, b)
    BY <1>5 DEF Looked, Stands
  <1>8. ReaderInv(d, "mark", disk, slots)
    BY <1>5, <1>6, <1>7 DEF ReaderInv
  <1>9. cur' = [cur EXCEPT ![r] = d]
    BY <1>1, <1>2, <1>5
  <1>10. StepOf(r)
    <2>1. Kin(cur[r], d)
      BY <1>1 DEF Kin
    <2> QED BY <1>2, <1>5, <1>8, <1>9, <2>1, StepOfIs
  <1>11. mark' \in [Streams -> Nat]
    BY <1>2 DEF ReadInv
  <1> QED BY <1>2, <1>10, <1>11, OneMoves

LEMMA LastOf ==
  ASSUME NEW q \in Seq(Samples), q # <<>>
  PROVE  Last(q) \in Samples /\ Last(q) \in Range(q) /\ Last(q) = q[Len(q)] /\ Len(q) \in Nat /\ Len(q) >= 1
  <1>1. PICK n \in Nat : n = Len(q)
    BY LenProperties
  <1>2. n # 0
    BY <1>1, EmptySeq
  <1>3. n \in 1..n /\ q[n] \in Samples
    BY <1>1, <1>2, ElementOfSeq
  <1>4. Last(q) = q[n]
    BY <1>1 DEF Last
  <1>5. Range(q) = {q[i] : i \in 1..n}
    BY <1>1, RangeIs
  <1> QED BY <1>1, <1>2, <1>3, <1>4, <1>5

LEMMA WriteMarkReads ==
  ASSUME LogAssumptions, TsInv, LogInv, MarkInv, ReadInv, NEW r \in Readers, WriteMark(r)
  PROVE  ReadInv' /\ cur' = cur /\ place' = [place EXCEPT ![r] = "idle"]
         /\ UNCHANGED <<disk, slots, log, gone, made, handled, cut>>
         /\ cur[r].got \in Seq(Samples) /\ cur[r].got # <<>> /\ cur[r].s \in Streams /\ cur[r].mode = "feed"
         /\ \/ mark' = mark \/ mark' = [mark EXCEPT ![cur[r].s] = 0]
            \/ mark' = [mark EXCEPT ![cur[r].s] = Last(cur[r].got)]
  <1>1. PICK d, fs, b : d = cur[r] /\ fs = disk[d.s] /\ b = RamIn(slots, d.s)
    OBVIOUS
  <1>2. place[r] = "mark" /\ cur' = cur /\ place' = [place EXCEPT ![r] = "idle"] /\ UNCHANGED <<handled, cut>>
    BY DEF WriteMark, At
  <1>3. \/ mark' = mark \/ mark' = [mark EXCEPT ![d.s] = 0]
        \/ mark' = [mark EXCEPT ![d.s] = Last(d.got)]
    BY <1>1 DEF WriteMark, MarkOf
  <1>4. UNCHANGED <<disk, slots, log, gone, made>>
    BY WriteMarkStep
  <1>5. Used(r)
    BY <1>2 DEF ReadInv, ReaderInv, Kind, Used
  <1>6. At0(r, d, "mark", fs, b)
    BY <1>1, <1>2, <1>5, AtIs
  <1>7. /\ Kind(d, "mark") /\ (Steady(d) => Looked(d, "mark", fs, b)) /\ d \in Cursor /\ d.s \in Streams
        /\ fs = disk[d.s] /\ b = RamIn(slots, d.s) /\ d.got # <<>> /\ d.mode = "feed" /\ d.s # NoStream
        /\ cur \in [Readers -> Cursor] /\ place \in [Readers -> Stops]
    BY <1>6 DEF At0, Kind
  <1>8. Kind(d, "idle")
    BY <1>7 DEF Kind
  <1>9. Steady(d) => Looked(d, "idle", fs, b)
    BY <1>7 DEF Looked, Stands
  <1>10. ReaderInv(d, "idle", disk, slots)
    BY <1>7, <1>8, <1>9 DEF ReaderInv
  <1>11. cur' = [cur EXCEPT ![r] = d]
    BY <1>1, <1>2, <1>7
  <1>12. StepOf(r)
    <2>1. Kin(cur[r], d)
      BY <1>1 DEF Kin
    <2> QED BY <1>2, <1>7, <1>10, <1>11, <2>1, StepOfIs
  <1>13. d.got \in Seq(Samples)
    BY <1>7 DEF Cursor
  <1>14. mark' \in [Streams -> Nat]
    <2>1. Last(d.got) \in Nat
      BY <1>7, <1>13, LastOf, SamplesNat
    <2> QED BY <1>3, <2>1 DEF ReadInv
  <1>15. ReadInv'
    BY <1>4, <1>12, <1>14, OneMoves
  <1> QED BY <1>1, <1>2, <1>3, <1>4, <1>7, <1>13, <1>15

(* A consumer opens its cursor behind its watermark. *)
LEMMA ResumeSteps ==
  ASSUME LogAssumptions, TsInv, LogInv, MarkInv, ReadInv, NEW r \in Readers, Resume(r)
  PROVE  /\ StepOf(r) /\ cur'[r].s = hd[r] /\ cur'[r].mode = "feed" /\ hd[r] \in Streams
         /\ cur'[r].win = IF mark[hd[r]] = 0 THEN <<0, 0>> ELSE <<mark[hd[r]] + 1, 0>>
  <1>1. PICK w : w = (IF mark[hd[r]] = 0 THEN <<0, 0>> ELSE <<mark[hd[r]] + 1, 0>>) /\ OpenAs(r, "feed", FALSE, w)
    BY DEF Resume
  <1>2. hd[r] \in Streams
    <2>1. r \in Threads /\ hd \in [Threads -> Streams \cup {NoStream}] /\ hd[r] # NoStream
      BY <1>1, ReaderActs DEF TsInv, StoreInv, TypeOK, OpenAs
    <2> QED BY <2>1
  <1>3. w \in Nat \X Nat /\ "feed" \in ModeKinds /\ FALSE \in BOOLEAN
    BY <1>1, <1>2 DEF ReadInv, ModeKinds
  <1>4. StepOf(r) /\ cur'[r].s = hd[r] /\ cur'[r].mode = "feed" /\ cur'[r].win = w
    <2>1. PICK mode, desc : mode = "feed" /\ desc = FALSE
      OBVIOUS
    <2>2. mode \in ModeKinds /\ desc \in BOOLEAN /\ ~desc /\ OpenAs(r, mode, desc, w)
      BY <1>1, <1>3, <2>1
    <2>3. StepOf(r) /\ cur'[r].s = hd[r] /\ cur'[r].mode = mode /\ cur'[r].win = w
      BY <1>3, <2>2, OpenSteps
    <2> QED BY <2>1, <2>3
  <1> QED BY <1>1, <1>2, <1>4

LEMMA LookSteps ==
  ASSUME LogAssumptions, TsInv, LogInv, MarkInv, ReadInv, NEW r \in Readers, Looks(r), ~ClearMark(r)
  PROVE  StepOf(r)
  <1>1. CASE CursorOpen(r)
    <2>1. PICK desc \in Descends, w \in Windows : OpenAs(r, "walk", desc, w)
      BY <1>1 DEF CursorOpen
    <2>2. desc \in BOOLEAN /\ w \in Nat \X Nat /\ "walk" \in ModeKinds
      BY ReadConstants DEF ModeKinds
    <2> QED BY <2>1, <2>2, OpenSteps
  <1>2. CASE CallAggregate(r)
    <2>1. PICK mode \in {"sum", "count"}, w \in Windows : OpenAs(r, mode, FALSE, w)
      BY <1>2 DEF CallAggregate
    <2>2. mode \in ModeKinds /\ w \in Nat \X Nat /\ FALSE \in BOOLEAN
      BY ReadConstants DEF ModeKinds
    <2> QED BY <2>1, <2>2, OpenSteps
  <1>3. CASE Resume(r)
    BY <1>3, ResumeSteps
  <1>4. CASE OpenFile(r) \/ CursorNext(r) \/ ReadFile(r) \/ FindRam(r) \/ ReadRam(r)
    BY <1>4, OpenFileSteps, CursorNextSteps, ReadFileSteps, FindRamSteps, ReadRamSteps
  <1>5. CASE CursorReset(r) \/ CursorClose(r)
    BY <1>5, CursorResetSteps, CursorCloseSteps, SMTT(30)
  <1> QED BY <1>1, <1>2, <1>3, <1>4, <1>5 DEF Looks

LEMMA LookLeaves ==
  ASSUME NEW r, Looks(r)
  PROVE  UNCHANGED <<handled, cut>> /\ (~ClearMark(r) => mark' = mark)
  BY DEF Looks, CursorOpen, CallAggregate, Resume, OpenAs, OpenFile, CursorNext, ReadFile,
         FindRam, ReadRam, CursorReset, CursorClose, ClearMark

LEMMA LookReads ==
  ASSUME LogAssumptions, TsInv, LogInv, MarkInv, ReadInv, NEW r \in Readers, Looks(r)
  PROVE  ReadInv'
  <1>1. UNCHANGED <<disk, slots>>
    BY LookStep DEF vars
  <1>2. CASE ClearMark(r)
    <2>1. mark' \in [Streams -> Nat] /\ cur' = cur /\ place' = place
      BY <1>2 DEF ClearMark, ReadInv
    <2> QED BY <1>1, <2>1 DEF ReadInv
  <1>3. CASE ~ClearMark(r)
    BY <1>1, <1>3, LookSteps, LookLeaves, OneMoves DEF ReadInv
  <1> QED BY <1>2, <1>3

--------------------------------------------------------------------------------
(* The walks, whatever runs beside them *)

LEMMA ReadBegins ==
  ASSUME ReadInit
  PROVE  ReadInv
  <1>1. \A r \in Readers : cur[r] = NoCursor /\ place[r] = "idle"
    BY DEF ReadInit
  <1>2. cur \in [Readers -> Cursor] /\ mark \in [Streams -> Nat]
    BY NoCursorIs DEF ReadInit
  <1>3. \A r \in Readers : ReaderInv(cur[r], place[r], disk, slots)
    BY <1>1, NoCursorIs
  <1> QED BY <1>2, <1>3 DEF ReadInv

LEMMA StoreStepReads ==
  ASSUME LogAssumptions, TsInv, LogInv, MarkInv, ReadInv, TsInv', LogInv', StoreStep
  PROVE  ReadInv'
  <1>1. cur' = [r \in Readers |-> Follow(cur[r])] /\ place' = place /\ mark' = mark
    BY DEF StoreStep
  <1>2. ASSUME NEW r \in Readers PROVE ReaderInv(cur'[r], place'[r], disk', slots')
    <2>1. ReaderInv(cur[r], place[r], disk, slots)
      BY DEF ReadInv
    <2>2. ReaderInv(Follow(cur[r]), place[r], disk', slots')
      BY <2>1, FollowKeeps
    <2> QED BY <1>1, <2>2
  <1>3. cur' \in [Readers -> Cursor]
    BY <1>1, <1>2 DEF ReaderInv, Kind
  <1> QED BY <1>1, <1>2, <1>3 DEF ReadInv

LEMMA ReadStep ==
  ASSUME LogAssumptions, TsInv, LogInv, MarkInv, ReadInv, [ReadNext]_<<vars, readVars>>
  PROVE  ReadInv'
  <1>0. TsInv' /\ LogInv'
    BY StoreNext
  <1>1. CASE StoreStep
    BY <1>0, <1>1, StoreStepReads
  <1>2. CASE Restart
    <2>1. cur' = [r \in Readers |-> NoCursor] /\ place' = [r \in Readers |-> "idle"] /\ mark' = mark
      BY <1>2 DEF Restart
    <2>2. \A r \in Readers : cur'[r] = NoCursor /\ place'[r] = "idle"
      BY <2>1
    <2>3. cur' \in [Readers -> Cursor]
      BY <2>1, NoCursorIs
    <2>4. \A r \in Readers : ReaderInv(cur'[r], place'[r], disk', slots')
      BY <2>2, NoCursorIs
    <2> QED BY <2>1, <2>3, <2>4 DEF ReadInv
  <1>3. ASSUME NEW r \in Readers, Looks(r) PROVE ReadInv'
    BY <1>3, LookReads
  <1>4. ASSUME NEW r \in Readers, Acknowledge(r) \/ WriteMark(r) PROVE ReadInv'
    BY <1>4, AcknowledgeReads, WriteMarkReads
  <1>5. CASE UNCHANGED <<vars, readVars>>
    <2>1. UNCHANGED <<cur, place, mark, disk, slots>>
      BY <1>5 DEF readVars, vars
    <2> QED BY <2>1 DEF ReadInv
  <1> QED BY <1>1, <1>2, <1>3, <1>4, <1>5 DEF ReadNext, Looks

LEMMA ReadInvariant ==
  ASSUME LogAssumptions
  PROVE  ReadSpec => [](TsInv /\ LogInv /\ MarkInv /\ ReadInv)
  <1> DEFINE I == TsInv /\ LogInv /\ MarkInv /\ ReadInv
  <1>1. ReadInit => I
    BY StoreBegins, ReadBegins
  <1>2. I /\ [ReadNext]_<<vars, readVars>> => I'
    BY StoreNext, ReadStep
  <1> HIDE DEF I
  <1>3. ReadSpec => []I
    BY <1>1, <1>2, PTL DEF ReadSpec
  <1> QED BY <1>3 DEF I

LEMMA CompleteHolds ==
  ASSUME ReadInv
  PROVE  WalkComplete
  <1> SUFFICES ASSUME NEW r \in Readers, NEW c, c = cur[r], c.last = "end", c.calm,
                      c.fresh \/ c.lo = c.hi
               PROVE  IF c.desc THEN c.got = c.must ELSE IsPrefix(c.must, c.got)
    BY DEF WalkComplete
  <1>1. ReaderInv(c, place[r], disk, slots)
    BY DEF ReadInv
  <1>2. c.s # NoStream
    BY <1>1, NoCursorIs DEF ReaderInv, Kind
  <1>3. Steady(c)
    BY <1>2 DEF Steady
  <1>4. Served(c)
    BY <1>1, <1>3 DEF ReaderInv, Looked
  <1> QED BY <1>4 DEF Served

(* A walk that ended has returned what the stream held in its window when it    *)
(* began, in order, from segment files and ingest buffer, in both directions:   *)
(* zdb_ts_cursor_next_segment(), zdb_ts_cursor_read_file_record() and           *)
(* zdb_ts_cursor_next_ram() leave no sample out and return none twice, beside   *)
(* any number of threads and readers, as long as no flush ran into the walk     *)
(* (and backwards no append).                                                   *)
THEOREM WalksAreComplete ==
  ASSUME LogAssumptions
  PROVE  ReadSpec => []WalkComplete
  <1>1. TsInv /\ LogInv /\ MarkInv /\ ReadInv => WalkComplete
    BY CompleteHolds
  <1> QED BY <1>1, ReadInvariant, PTL

LEMMA OnlyShorter ==
  ASSUME NEW T, NEW q \in Seq(T), NEW S
  PROVE  Len(Only(q, S)) <= Len(q)
  <1> DEFINE X == {r \in Seq(T) : Len(Only(r, S)) <= Len(r)}
  <1>1. \A r \in Seq(T) : Len(r) \in Nat /\ Len(Only(r, S)) \in Nat /\ Only(r, S) \in Seq(T)
    BY OnlyType, LenProperties
  <1>2. <<>> \in X
    BY OnlyEmpty
  <1>3. ASSUME NEW r \in X, NEW e \in T PROVE Append(r, e) \in X
    <2>1. Only(Append(r, e), S) = IF e \in S THEN Append(Only(r, S), e) ELSE Only(r, S)
      BY OnlyAppend
    <2>2. \A t \in Seq(T) : Len(Append(t, e)) = Len(t) + 1 /\ Append(t, e) \in Seq(T)
      BY AppendProperties
    <2> QED BY <1>1, <2>1, <2>2
  <1>4. X \in SUBSET Seq(T)
    OBVIOUS
  <1>5. X = Seq(T)
    <2> HIDE DEF X
    <2> QED BY <1>2, <1>3, <1>4, SequenceInduction
  <1> QED BY <1>5

(* An ordered walk returned no more than there is. *)
LEMMA WalkedShorter ==
  ASSUME NEW A, NEW R, NEW q, NEW p \in Seq(Samples), Walked(FALSE, A, R, q), Increasing(p), Range(p) = A
  PROVE  Len(q) <= Len(p)
  <1>1. q \in Seq(Samples) /\ Range(q) \subseteq Range(p) /\ InOrder(FALSE, q)
    BY DEF Walked
  <1>2. Increasing(q)
    BY <1>1, OrderTurns DEF Turn
  <1>3. PICK o : o = Only(p, Range(q))
    OBVIOUS
  <1>4. o \in Seq(Samples) /\ Increasing(o) /\ Range(o) = Range(q) /\ Len(o) <= Len(p)
    <2>1. p \in Seq(Nat)
      BY SampleSeq
    <2>2. Increasing(o)
      BY <1>3, <2>1, OnlyIncreasing
    <2>3. o \in Seq(Samples) /\ Range(o) = Range(p) \cap Range(q) /\ Len(o) <= Len(p)
      BY <1>3, OnlyType, OnlyRange, OnlyShorter
    <2> QED BY <1>1, <2>2, <2>3
  <1>5. q \in Seq(Nat) /\ o \in Seq(Nat)
    BY <1>1, <1>4, SampleSeq
  <1>6. o = q
    BY <1>2, <1>4, <1>5, IncreasingSame
  <1> QED BY <1>4, <1>6

LEMMA HonestHolds ==
  ASSUME LogAssumptions, TsInv, LogInv, MarkInv, ReadInv
  PROVE  AggregateHonest
  <1> SUFFICES ASSUME NEW r \in Readers, NEW c, c = cur[r], place[r] = "answer", c.calm,
                      c.last # "corrupt"
               PROVE  IF c.mode = "sum" /\ Len(c.got) > MaxAggPoints
                      THEN Len(Content(c.s, c.win, FALSE)) > MaxAggPoints
                      ELSE IsPrefix(c.must, c.got)
    BY DEF AggregateHonest
  <1>1. ReaderInv(c, "answer", disk, slots)
    BY DEF ReadInv
  <1>2. /\ c \in Cursor /\ c.s # NoStream /\ ~c.desc /\ c.fresh /\ c.last \in {"ok", "end"}
        /\ c.last = "ok" => c.mode = "sum" /\ Len(c.got) > MaxAggPoints
    BY <1>1 DEF ReaderInv, Kind
  <1>3. Steady(c) /\ c.s \in Streams
    BY <1>2 DEF Steady, Cursor
  <1>4. PICK fs, b : fs = disk[c.s] /\ b = RamIn(slots, c.s)
    OBVIOUS
  <1>5. Looked(c, "answer", fs, b)
    BY <1>1, <1>3, <1>4 DEF ReaderInv
  <1>6. CASE c.mode = "sum" /\ Len(c.got) > MaxAggPoints
    <2>1. Sound(fs, b)
      BY <1>3, <1>4, StreamSound
    <2>2. PICK a, w, D, R, q : a = Answer(c.win, fs, b) /\ w = c.win /\ D = Due(c.win, fs, b)
                               /\ R = Left(c, fs, b) /\ q = c.got
      OBVIOUS
    <2>3. a \in Seq(Samples) /\ Increasing(a) /\ Range(a) = D
      BY <2>1, <2>2, AnswerIs
    <2>4. Walked(FALSE, D, R, q)
      <3>1. c.desc = FALSE
        BY <1>2 DEF Cursor
      <3> QED BY <1>5, <2>2, <3>1 DEF Looked, Walks
    <2>5. Len(q) <= Len(a) /\ Len(a) \in Nat /\ Len(q) \in Nat
      <3>1. q \in Seq(Samples)
        BY <2>4 DEF Walked
      <3> QED BY <2>3, <2>4, <3>1, WalkedShorter, LenProperties
    <2>6. Content(c.s, c.win, FALSE) = a
      BY <1>4, <2>2, ContentIs DEF Turn
    <2>7. Len(a) > MaxAggPoints
      BY <1>6, <2>2, <2>5, ReadConstants
    <2> QED BY <1>6, <2>6, <2>7
  <1>7. CASE ~(c.mode = "sum" /\ Len(c.got) > MaxAggPoints)
    <2>1. c.last = "end"
      BY <1>2, <1>7
    <2>2. IsPrefix(c.must, c.got)
      BY <1>2, <1>5, <2>1 DEF Looked, Served
    <2> QED BY <1>7, <2>2
  <1> QED BY <1>6, <1>7

(* An answer of zdb_ts_query_aggregate() that is not marked truncated covers    *)
(* every sample in the window, one that is marked so leaves some out, for every *)
(* cap CONFIG_ZDB_TS_MAX_AGG_POINTS: the call asks once more than the cap.      *)
(* While no flush runs into the scan, and unless it meets a corrupt record.     *)
THEOREM AggregatesAreHonest ==
  ASSUME LogAssumptions
  PROVE  ReadSpec => []AggregateHonest
  <1>1. TsInv /\ LogInv /\ MarkInv /\ ReadInv => AggregateHonest
    BY HonestHolds
  <1> QED BY <1>1, ReadInvariant, PTL

--------------------------------------------------------------------------------
(* The consumer and its watermark *)

(* What the history of the store may do in a step: samples are numbered in the  *)
(* order of the appends, over all streams, and what is gone stays so.           *)
Grows ==
  /\ gone \subseteq gone' /\ made \in Nat /\ made' \in Nat /\ made <= made'
  /\ \A s \in Streams : \A x \in Range(log'[s]) : x \in Range(log[s]) \/ (x \in Nat /\ x > made)

LEMMA HistoryGrows ==
  ASSUME TsInv, [Next]_vars
  PROVE  Grows
  <1>0. made \in Nat /\ \A s \in Streams : log[s] \in Seq(Nat)
    BY LogType, SamplesNat, TsConstants DEF TsInv, StoreInv, TypeOK
  <1>1. ASSUME log' = log, made' = made, gone \subseteq gone' PROVE Grows
    BY <1>0, <1>1 DEF Grows
  <1>2. ASSUME NEW t \in Threads, Call(t) PROVE log' = log /\ made' = made /\ gone \subseteq gone'
    BY <1>2 DEF Call, CallOpen, CallAppend, CallClose, CallFlushAsync, CallFlushSync, sampleVars, sysVars
  <1>3. ASSUME NEW a \in Actors, FlushStep(a)
        PROVE  log' = log /\ made' = made /\ gone \subseteq gone'
    <2>1. CASE FlushWrite(a) \/ StartSegment(a)
      BY <2>1, Zenon DEF FlushWrite, StartSegment, sampleVars
    <2>2. CASE DiscardOldest(a)
      <3>1. log' = log /\ made' = made /\ (gone' = gone \/ \E X : gone' = gone \cup X)
        BY <2>2, Zenon DEF DiscardOldest
      <3> QED BY <3>1
    <2> QED BY <1>3, <2>1, <2>2 DEF FlushStep
  <1>4. ASSUME NEW t \in Threads, AppendBuffer(t) PROVE Grows
    <2>1. made' = made + 1 /\ log' = [log EXCEPT ![hd[t]] = Append(log[hd[t]], made + 1)] /\ gone' = gone
      BY <1>4, Zenon DEF AppendBuffer
    <2>2. ASSUME NEW s \in Streams, NEW x \in Range(log'[s])
          PROVE  x \in Range(log[s]) \/ (x \in Nat /\ x > made)
      <3>1. log'[s] = log[s] \/ log'[s] = Append(log[s], made + 1)
        BY <2>1, Zenon DEF TsInv, StoreInv, TypeOK
      <3>2. Range(Append(log[s], made + 1)) = Range(log[s]) \cup {made + 1}
        BY <1>0, NatAppend
      <3>3. x \in Range(log[s]) \/ x = made + 1
        BY <2>2, <3>1, <3>2, Zenon
      <3> QED BY <1>0, <3>3
    <2> QED BY <1>0, <2>1, <2>2 DEF Grows
  <1>5. ASSUME NEW t \in Threads, InCall(t), ~FlushStep(t), ~AppendBuffer(t)
        PROVE  log' = log /\ made' = made /\ gone \subseteq gone'
    <2>1. CASE OpenJoin(t) \/ OpenClaim(t)
      BY <2>1, Zenon DEF OpenJoin, OpenClaim, sampleVars, sysVars
    <2>2. CASE OpenRecover(t)
      <3>1. log' = log /\ made' = made /\ (gone' = gone \/ \E X : gone' = gone \cup X)
        BY <2>2, Zenon DEF OpenRecover
      <3> QED BY <3>1
    <2>3. CASE CloseRelease(t)
      <3>1. log' = log /\ made' = made /\ (gone' = gone \/ \E X : gone' = gone \cup X)
        BY <2>3, Zenon DEF CloseRelease, sysVars
      <3> QED BY <3>1
    <2>4. CASE BatchFull(t) \/ AppendFails(t)
      BY <2>4, Zenon DEF BatchFull, AppendFails, sampleVars, sysVars
    <2>5. CASE FlushNotQueued(t) \/ SyncCheck(t) \/ SyncTake(t) \/ SyncWoken(t) \/ SyncReturn(t)
      BY <2>5 DEF FlushNotQueued, SyncCheck, SyncTake, SyncWoken, SyncReturn, sampleVars, sysVars
    <2> QED BY <1>5, <2>1, <2>2, <2>3, <2>4, <2>5 DEF InCall
  <1>6. ASSUME NEW t \in Threads, WaitsForLock(t) \/ SyncTimeout(t)
        PROVE  log' = log /\ made' = made /\ gone \subseteq gone'
    BY <1>6 DEF WaitsForLock, AppendLock, FlushAsync, SyncTimeout, sampleVars, sysVars
  <1>7. ASSUME WorkerStep \/ WorkerLock, ~FlushStep(Worker)
        PROVE  log' = log /\ made' = made /\ gone \subseteq gone'
    BY <1>7 DEF WorkerStep, WorkerLock, WorkerStart, DrainNext, DrainDone, WorkerEnd, sampleVars, sysVars
  <1>8. ASSUME NEW s \in Streams, Rot(s) PROVE log' = log /\ made' = made /\ gone \subseteq gone'
    <2>1. log' = log /\ made' = made /\ \E X : gone' = gone \cup X
      BY <1>8, Zenon DEF Rot
    <2> QED BY <2>1
  <1>9. ASSUME PowerLoss \/ Deinit PROVE log' = log /\ made' = made /\ gone \subseteq gone'
    BY <1>9 DEF PowerLoss, Deinit, RamLost
  <1>10. ASSUME UNCHANGED vars PROVE log' = log /\ made' = made /\ gone \subseteq gone'
    BY <1>10 DEF vars
  <1>11. Threads \subseteq Actors /\ Worker \in Actors
    BY ActorsAre
  <1> QED BY <1>1, <1>2, <1>3, <1>4, <1>5, <1>6, <1>7, <1>8, <1>9, <1>10, <1>11 DEF Next, UpNext

(* Everything below m was delivered, or is gone, and m is no later than the     *)
(* next sample.                                                                 *)
Passed(q, h, m, n) == m \in Nat /\ m <= n + 1 /\ \A x \in Range(q) : x < m => x \in h

LEMMA PassedGrows ==
  ASSUME NEW s \in Streams, NEW m, NEW h, NEW g, Grows, Passed(log[s], h, m, made), h \subseteq g
  PROVE  Passed(log'[s], g, m, made')
  <1>1. made \in Nat /\ made' \in Nat /\ made <= made' /\ m \in Nat /\ m <= made + 1
    BY DEF Grows, Passed
  <1>2. ASSUME NEW x \in Range(log'[s]), x < m PROVE x \in g
    <2>1. x \in Range(log[s]) \/ (x \in Nat /\ x > made)
      BY DEF Grows
    <2>2. CASE x \in Range(log[s])
      BY <1>2, <2>2 DEF Passed
    <2>3. CASE x \in Nat /\ x > made
      BY <1>1, <1>2, <2>3
    <2> QED BY <2>1, <2>2, <2>3
  <1> QED BY <1>1, <1>2 DEF Passed

(* The cursor of a consumer begins behind what was delivered before; where its  *)
(* mark is about to be written, everything up to the mark was.                  *)
Fed(c, p, q, h, n) ==
  /\ c.win[2] = 0 /\ Passed(q, h, c.win[1], n)
  /\ p = "mark" => Passed(q, h, Last(c.got) + 1, n)
Feeds(c) == c.s # NoStream /\ c.mode = "feed"

FeedInv ==
  ~cut => /\ \A s \in Streams : Passed(log[s], handled \cup gone, mark[s] + 1, made)
          /\ \A r \in Readers : Feeds(cur[r]) =>
                Fed(cur[r], place[r], log[cur[r].s], handled \cup gone, made)

(* No sample has number 0. *)
LEMMA PassedNone ==
  ASSUME TsInv, LogInv, NEW s \in Streams, NEW h, NEW m \in {0, 1}
  PROVE  Passed(log[s], h, m, made)
  <1>1. Range(log[s]) \subseteq 1..made /\ made \in Nat
    BY LogType DEF LogInv, HistInv
  <1> QED BY <1>1 DEF Passed

(* The store moves on, or the instance ends; consumers do not. *)
LEMMA StoreFeeds ==
  ASSUME LogAssumptions, TsInv, LogInv, MarkInv, ReadInv, FeedInv, Grows, UNCHANGED <<mark, handled, cut>>,
         \A r \in Readers : Feeds(cur'[r]) =>
            /\ Feeds(cur[r]) /\ cur'[r].s = cur[r].s /\ cur'[r].win = cur[r].win
            /\ cur'[r].got = cur[r].got /\ place'[r] = place[r]
  PROVE  FeedInv'
  <1> SUFFICES ASSUME ~cut
               PROVE  /\ \A s \in Streams : Passed(log'[s], handled \cup gone', mark[s] + 1, made')
                      /\ \A r \in Readers : Feeds(cur'[r]) =>
                            Fed(cur'[r], place'[r], log'[cur'[r].s], handled \cup gone', made')
    BY DEF FeedInv
  <1>1. PICK h, g : h = handled \cup gone /\ g = handled \cup gone'
    OBVIOUS
  <1>2. h \subseteq g
    BY <1>1 DEF Grows
  <1>3. ASSUME NEW s \in Streams PROVE Passed(log'[s], g, mark[s] + 1, made')
    BY <1>1, <1>2, <1>3, PassedGrows DEF FeedInv
  <1>4. ASSUME NEW r \in Readers, Feeds(cur'[r])
        PROVE  Fed(cur'[r], place'[r], log'[cur'[r].s], g, made')
    <2>1. PICK c, s, p, l : c = cur[r] /\ s = c.s /\ p = place[r] /\ l = Last(c.got) + 1
      OBVIOUS
    <2>2. /\ Feeds(c) /\ cur'[r].s = s /\ cur'[r].win = c.win /\ cur'[r].got = c.got /\ place'[r] = p
      BY <1>4, <2>1
    <2>3. s \in Streams
      BY <2>1, <2>2 DEF ReadInv, Cursor, Feeds
    <2>4. c.win[2] = 0 /\ Passed(log[s], h, c.win[1], made) /\ (p = "mark" => Passed(log[s], h, l, made))
      BY <1>1, <2>1, <2>2, ZenonT(30) DEF FeedInv, Fed
    <2>5. Passed(log'[s], g, c.win[1], made') /\ (p = "mark" => Passed(log'[s], g, l, made'))
      BY <1>2, <2>3, <2>4, PassedGrows
    <2> QED BY <2>1, <2>2, <2>4, <2>5 DEF Fed
  <1> QED BY <1>1, <1>3, <1>4

LEMMA LookFeeds ==
  ASSUME LogAssumptions, TsInv, LogInv, MarkInv, ReadInv, FeedInv, NEW r \in Readers, Looks(r)
  PROVE  FeedInv'
  <1>1. UNCHANGED <<log, gone, made, handled, cut>> /\ place[r] # "mark" /\ StopsAt(r)
    BY LookStep, LookLeaves DEF vars
  <1> SUFFICES ASSUME ~cut
               PROVE  /\ \A s \in Streams : Passed(log[s], handled \cup gone, mark'[s] + 1, made)
                      /\ \A u \in Readers : Feeds(cur'[u]) =>
                            Fed(cur'[u], place'[u], log[cur'[u].s], handled \cup gone, made)
    BY <1>1 DEF FeedInv
  <1>2. PICK h : h = handled \cup gone
    OBVIOUS
  <1>3. /\ \A s \in Streams : Passed(log[s], h, mark[s] + 1, made)
        /\ \A u \in Readers : Feeds(cur[u]) => Fed(cur[u], place[u], log[cur[u].s], h, made)
    BY <1>2 DEF FeedInv
  <1>4. CASE ClearMark(r)
    <2>1. mark' = [mark EXCEPT ![hd[r]] = 0] /\ cur' = cur /\ place' = place
      BY <1>4 DEF ClearMark
    <2>2. ASSUME NEW s \in Streams PROVE Passed(log[s], h, mark'[s] + 1, made)
      <3>1. mark'[s] = mark[s] \/ mark'[s] + 1 = 1
        BY <2>1 DEF ReadInv
      <3> QED BY <1>3, <3>1, PassedNone
    <2> QED BY <1>2, <1>3, <2>1, <2>2
  <1>5. CASE ~ClearMark(r)
    <2>1. mark' = mark /\ cur' = [cur EXCEPT ![r] = cur'[r]] /\ place' = [place EXCEPT ![r] = place'[r]]
          /\ Kin(cur[r], cur'[r])
      BY <1>5, LookSteps, LookLeaves DEF StepOf
    <2>2. cur \in [Readers -> Cursor] /\ place \in [Readers -> Stops] /\ mark \in [Streams -> Nat]
      BY DEF ReadInv, MarkInv
    <2>3. place'[r] # "mark"
      BY <1>1, <2>2 DEF StopsAt
    <2>4. ASSUME Feeds(cur'[r]) PROVE Fed(cur'[r], place'[r], log[cur'[r].s], h, made)
      <3>1. CASE Feeds(cur[r])
        <4>1. Fed(cur[r], place[r], log[cur[r].s], h, made)
          BY <1>3, <3>1
        <4>2. cur'[r].s = cur[r].s /\ cur'[r].win = cur[r].win
          BY <2>1, <2>4, <3>1 DEF Kin, Feeds
        <4> QED BY <2>3, <4>1, <4>2 DEF Fed
      <3>2. CASE ~Feeds(cur[r])
        <4>1. cur[r].s = NoStream
          BY <2>1, <2>4, <3>2 DEF Kin, Feeds
        <4>2. place[r] = "idle" /\ cur[r] = NoCursor
          BY <4>1 DEF ReadInv, ReaderInv, Kind
        <4>3. ~CursorClose(r)
          <5>1. CursorClose(r) => cur' = [cur EXCEPT ![r] = NoCursor]
            BY DEF CursorClose, SetCursor
          <5> QED BY <2>2, <2>4, <5>1, NoCursorIs DEF Feeds
        <4>4. CursorOpen(r) \/ CallAggregate(r) \/ Resume(r)
          BY <1>5, <4>1, <4>2, <4>3 DEF Looks, OpenFile, CursorNext, ReadFile, FindRam, ReadRam, CursorReset, Used
        <4>5. ~CursorOpen(r)
          <5>1. ASSUME NEW desc \in Descends, NEW w \in Windows, OpenAs(r, "walk", desc, w)
                PROVE  FALSE
            <6>1. PICK mode : mode = "walk"
              OBVIOUS
            <6>2. desc \in BOOLEAN /\ w \in Nat \X Nat /\ mode \in ModeKinds /\ OpenAs(r, mode, desc, w)
              BY <5>1, <6>1, ReadConstants DEF ModeKinds
            <6>3. cur'[r].mode = mode
              BY <6>1, <6>2, OpenSteps
            <6> QED BY <2>4, <6>1, <6>3 DEF Feeds
          <5> QED BY <5>1 DEF CursorOpen
        <4>6. ~CallAggregate(r)
          <5>1. ASSUME NEW mode \in {"sum", "count"}, NEW w \in Windows, OpenAs(r, mode, FALSE, w)
                PROVE  FALSE
            <6>1. PICK desc : desc = FALSE
              OBVIOUS
            <6>2. desc \in BOOLEAN /\ w \in Nat \X Nat /\ mode \in ModeKinds /\ OpenAs(r, mode, desc, w)
              BY <5>1, <6>1, ReadConstants DEF ModeKinds
            <6>3. cur'[r].mode = mode
              BY <6>1, <6>2, OpenSteps
            <6> QED BY <2>4, <5>1, <6>3 DEF Feeds
          <5> QED BY <5>1 DEF CallAggregate
        <4>7. PICK s, w : s = hd[r] /\ w = cur'[r].win
          OBVIOUS
        <4>8. cur'[r].s = s /\ s \in Streams /\ w = IF mark[s] = 0 THEN <<0, 0>> ELSE <<mark[s] + 1, 0>>
          BY <4>4, <4>5, <4>6, <4>7, ResumeSteps
        <4>9. w[2] = 0 /\ (w[1] = 0 \/ w[1] = mark[s] + 1)
          BY <2>2, <4>8
        <4>10. Passed(log[s], h, w[1], made)
          BY <1>3, <4>8, <4>9, PassedNone
        <4> QED BY <2>3, <4>7, <4>8, <4>9, <4>10 DEF Fed
      <3> QED BY <3>1, <3>2
    <2>5. ASSUME NEW u \in Readers, Feeds(cur'[u])
          PROVE  Fed(cur'[u], place'[u], log[cur'[u].s], h, made)
      <3>1. CASE u = r
        BY <2>4, <2>5, <3>1
      <3>2. CASE u # r
        <4>1. cur'[u] = cur[u] /\ place'[u] = place[u]
          BY <2>1, <2>2, <3>2
        <4> QED BY <1>3, <2>5, <4>1
      <3> QED BY <3>1, <3>2
    <2> QED BY <1>2, <1>3, <2>1, <2>5
  <1> QED BY <1>4, <1>5

LEMMA PassedMore ==
  ASSUME NEW q, NEW h, NEW g, NEW m, NEW n, Passed(q, h, m, n), h \subseteq g
  PROVE  Passed(q, g, m, n)
  BY DEF Passed

(* A forward walk whose window has no upper end has returned everything up to   *)
(* the last sample it returned, from the beginning of its window on.            *)
LEMMA WalkPasses ==
  ASSUME LogAssumptions, TsInv, LogInv, NEW c \in Cursor, NEW s \in Streams, NEW h, NEW g, NEW p,
         c.s = s, ~c.desc, c.got # <<>>, c.win[2] = 0, Looked(c, p, disk[s], RamIn(slots, s)),
         Passed(log[s], h, c.win[1], made), gone \subseteq g, h \subseteq g, Range(c.got) \subseteq g
  PROVE  Passed(log[s], g, Last(c.got) + 1, made)
  <1>1. PICK fs, b, w, q, D, R, l :
           /\ fs = disk[s] /\ b = RamIn(slots, s) /\ w = c.win /\ q = c.got
           /\ D = Due(w, fs, b) /\ R = Left(c, fs, b) /\ l = Last(q)
    OBVIOUS
  <1>2. Walked(FALSE, D, R, q)
    <2>1. c.desc = FALSE
      BY DEF Cursor
    <2> QED BY <1>1, <2>1 DEF Looked, Walks
  <1>3. l \in Samples /\ l \in Range(q) /\ l \in Nat
    BY <1>1, LastOf, SamplesNat DEF Cursor
  <1>4. Here(fs, b) = Range(log[s]) \ gone
    <2>1. RamIn(slots, s) = InRam(s) /\ StoredIn(disk[s]) = Readable(s)
      BY InRamIs, ReadableIs
    <2>2. Cat(Readable(s), InRam(s)) = Only(log[s], Samples \ gone)
      BY DEF LogInv, KeptInv
    <2>3. Sound(fs, b)
      BY <1>1, StreamSound
    <2>4. Range(Cat(StoredIn(fs), b)) = Here(fs, b)
      BY <2>3, HereIs
    <2>5. log[s] \in Seq(Samples)
      BY LogType
    <2>6. Range(Only(log[s], Samples \ gone)) = Range(log[s]) \cap (Samples \ gone) /\ Range(log[s]) \subseteq Samples
      BY <2>5, OnlyRange, RangeIs
    <2> QED BY <1>1, <2>1, <2>2, <2>4, <2>6
  <1>5. made \in Nat /\ Range(log[s]) \subseteq 1..made
    BY LogType DEF LogInv, HistInv
  <1>6. l \in 1..made
    BY <1>2, <1>3, <1>4, <1>1, <1>5 DEF Walked, Due
  <1>7. w \in Nat \X Nat
    BY <1>1 DEF Cursor
  <1>8. ASSUME NEW x \in Range(log[s]), x < l + 1 PROVE x \in g
    <2>1. x \in Nat /\ x <= l
      BY <1>3, <1>5, <1>8
    <2>2. CASE x < w[1]
      BY <1>1, <2>2 DEF Passed
    <2>3. CASE ~(x < w[1]) /\ x \notin gone
      <3>1. Matches(w, x)
        BY <1>1, <1>7, <2>1, <2>3 DEF Matches
      <3>2. x \in D
        BY <1>1, <1>4, <2>3, <3>1 DEF Due
      <3>3. x \in Range(q) \/ x \in R
        BY <1>2, <3>2 DEF Walked
      <3>4. x \notin R
        BY <1>2, <1>3, <2>1 DEF Walked, AllBehind, Behind
      <3> QED BY <1>1, <3>3, <3>4
    <2> QED BY <2>2, <2>3
  <1> QED BY <1>1, <1>5, <1>6, <1>8 DEF Passed

LEMMA AcknowledgeFeeds ==
  ASSUME LogAssumptions, TsInv, LogInv, MarkInv, ReadInv, FeedInv, NEW r \in Readers, Acknowledge(r)
  PROVE  FeedInv'
  <1>1. PICK c, s, h, g : c = cur[r] /\ s = c.s /\ h = handled \cup gone /\ g = handled' \cup gone
    OBVIOUS
  <1>2. /\ place[r] = "idle" /\ c.mode = "feed" /\ c.got # <<>> /\ cur' = cur
        /\ place' = [place EXCEPT ![r] = "mark"]
        /\ mark' = mark \/ mark' = [mark EXCEPT ![s] = 0]
        /\ handled' = handled \cup Range(c.got) /\ cut' = (cut \/ ~c.calm)
        /\ UNCHANGED <<log, gone, made>>
    BY <1>1 DEF Acknowledge, MayRead, At, sampleVars, sysVars
  <1> SUFFICES ASSUME ~cut, c.calm
               PROVE  /\ \A u \in Streams : Passed(log[u], g, mark'[u] + 1, made)
                      /\ \A u \in Readers : Feeds(cur[u]) =>
                            Fed(cur[u], place'[u], log[cur[u].s], g, made)
    <2>1. FeedInv' <=> (~cut' => /\ \A u \in Streams : Passed(log'[u], handled' \cup gone', mark'[u] + 1, made')
                                 /\ \A u \in Readers : Feeds(cur'[u]) =>
                                      Fed(cur'[u], place'[u], log'[cur'[u].s], handled' \cup gone', made'))
      BY DEF FeedInv
    <2> QED BY <1>1, <1>2, <2>1
  <1>3. h \subseteq g /\ gone \subseteq g /\ Range(c.got) \subseteq g
    BY <1>1, <1>2
  <1>4. /\ \A u \in Streams : Passed(log[u], h, mark[u] + 1, made)
        /\ \A u \in Readers : Feeds(cur[u]) => Fed(cur[u], place[u], log[cur[u].s], h, made)
    BY <1>1 DEF FeedInv
  <1>5. c \in Cursor /\ ReaderInv(c, "idle", disk, slots) /\ place \in [Readers -> Stops] /\ mark \in [Streams -> Nat]
    BY <1>1, <1>2 DEF ReadInv, MarkInv
  <1>6. s # NoStream /\ s \in Streams /\ ~c.desc /\ c.fresh
    BY <1>1, <1>2, <1>5, NoCursorIs DEF ReaderInv, Kind, Cursor
  <1>7. Looked(c, "idle", disk[s], RamIn(slots, s))
    BY <1>1, <1>5, <1>6 DEF ReaderInv, Steady
  <1>8. Fed(c, "idle", log[s], h, made)
    BY <1>1, <1>2, <1>4, <1>6 DEF Feeds
  <1>9. Passed(log[s], g, Last(c.got) + 1, made)
    BY <1>1, <1>2, <1>3, <1>5, <1>6, <1>7, <1>8, WalkPasses DEF Fed
  <1>10. ASSUME NEW u \in Streams PROVE Passed(log[u], g, mark'[u] + 1, made)
    <2>1. mark'[u] = mark[u] \/ mark'[u] + 1 = 1
      BY <1>2, <1>5
    <2>2. CASE mark'[u] = mark[u]
      BY <1>3, <1>4, <2>2, PassedMore
    <2>3. CASE mark'[u] + 1 = 1
      BY <2>3, PassedNone
    <2> QED BY <2>1, <2>2, <2>3
  <1>11. ASSUME NEW u \in Readers, Feeds(cur[u])
         PROVE  Fed(cur[u], place'[u], log[cur[u].s], g, made)
    <2>1. PICK e, m, k : e = cur[u] /\ m = e.win[1] /\ k = Last(e.got) + 1
      OBVIOUS
    <2>2. e.win[2] = 0 /\ Passed(log[e.s], h, m, made) /\ (place[u] = "mark" => Passed(log[e.s], h, k, made))
      BY <1>4, <1>11, <2>1 DEF Fed
    <2>3. Passed(log[e.s], g, m, made) /\ (place[u] = "mark" => Passed(log[e.s], g, k, made))
      BY <1>3, <2>2, PassedMore
    <2>4. place'[u] = "mark" => u = r \/ place[u] = "mark"
      BY <1>2, <1>5
    <2>5. u = r => Passed(log[e.s], g, k, made)
      BY <1>1, <1>9, <2>1
    <2> QED BY <2>1, <2>2, <2>3, <2>4, <2>5 DEF Fed
  <1> QED BY <1>10, <1>11

LEMMA WriteMarkFeeds ==
  ASSUME LogAssumptions, TsInv, LogInv, MarkInv, ReadInv, FeedInv, NEW r \in Readers, WriteMark(r)
  PROVE  FeedInv'
  <1>1. PICK c, s, h, l : c = cur[r] /\ s = c.s /\ h = handled \cup gone /\ l = Last(c.got)
    OBVIOUS
  <1>2. /\ cur' = cur /\ place' = [place EXCEPT ![r] = "idle"] /\ UNCHANGED <<log, gone, made, handled, cut>>
        /\ s \in Streams /\ c.mode = "feed"
        /\ mark' = mark \/ mark' = [mark EXCEPT ![s] = 0] \/ mark' = [mark EXCEPT ![s] = l]
    BY <1>1, WriteMarkReads
  <1>3. place[r] = "mark" /\ place \in [Readers -> Stops] /\ mark \in [Streams -> Nat] /\ s # NoStream
    BY <1>1 DEF WriteMark, MarkInv, ReadInv, ReaderInv, Kind
  <1> SUFFICES ASSUME ~cut
               PROVE  /\ \A u \in Streams : Passed(log[u], h, mark'[u] + 1, made)
                      /\ \A u \in Readers : Feeds(cur[u]) =>
                            Fed(cur[u], place'[u], log[cur[u].s], h, made)
    BY <1>1, <1>2 DEF FeedInv
  <1>4. /\ \A u \in Streams : Passed(log[u], h, mark[u] + 1, made)
        /\ \A u \in Readers : Feeds(cur[u]) => Fed(cur[u], place[u], log[cur[u].s], h, made)
    BY <1>1 DEF FeedInv
  <1>5. Passed(log[s], h, l + 1, made)
    BY <1>1, <1>2, <1>3, <1>4 DEF Feeds, Fed
  <1>6. ASSUME NEW u \in Streams PROVE Passed(log[u], h, mark'[u] + 1, made)
    <2>1. mark'[u] = mark[u] \/ mark'[u] + 1 = 1 \/ (u = s /\ mark'[u] = l)
      BY <1>2, <1>3
    <2>2. CASE mark'[u] + 1 = 1
      BY <2>2, PassedNone
    <2> QED BY <1>4, <1>5, <2>1, <2>2
  <1>7. ASSUME NEW u \in Readers, Feeds(cur[u]) PROVE Fed(cur[u], place'[u], log[cur[u].s], h, made)
    <2>1. place'[u] = "mark" => place[u] = "mark"
      BY <1>2, <1>3
    <2> QED BY <1>4, <1>7, <2>1 DEF Fed
  <1> QED BY <1>6, <1>7

LEMMA FeedStep ==
  ASSUME LogAssumptions, TsInv, LogInv, MarkInv, ReadInv, FeedInv, [ReadNext]_<<vars, readVars>>
  PROVE  FeedInv'
  <1>0. TsInv' /\ LogInv'
    BY StoreNext
  <1>1. CASE StoreStep
    <2>1. [Next]_vars /\ cur' = [r \in Readers |-> Follow(cur[r])] /\ place' = place /\ UNCHANGED <<mark, handled, cut>>
      BY <1>1 DEF StoreStep, Next
    <2>2. ASSUME NEW r \in Readers
          PROVE  cur'[r].s = cur[r].s /\ cur'[r].mode = cur[r].mode /\ cur'[r].win = cur[r].win /\ cur'[r].got = cur[r].got
      <3>1. ReaderInv(cur[r], place[r], disk, slots) /\ cur'[r] = Follow(cur[r])
        BY <2>1 DEF ReadInv
      <3> QED BY <1>0, <3>1, FollowKeeps
    <2>3. Grows
      BY <2>1, HistoryGrows
    <2> QED BY <2>1, <2>2, <2>3, StoreFeeds DEF Feeds
  <1>2. CASE Restart
    <2>1. [Next]_vars /\ cur' = [r \in Readers |-> NoCursor] /\ UNCHANGED <<mark, handled, cut>>
      BY <1>2 DEF Restart, Next
    <2>2. \A r \in Readers : ~Feeds(cur'[r])
      BY <2>1, NoCursorIs DEF Feeds
    <2>3. Grows
      BY <2>1, HistoryGrows
    <2> QED BY <2>1, <2>2, <2>3, StoreFeeds
  <1>3. ASSUME NEW r \in Readers, Looks(r) PROVE FeedInv'
    BY <1>3, LookFeeds
  <1>4. ASSUME NEW r \in Readers, Acknowledge(r) \/ WriteMark(r) PROVE FeedInv'
    BY <1>4, AcknowledgeFeeds, WriteMarkFeeds
  <1>5. CASE UNCHANGED <<vars, readVars>>
    <2>1. UNCHANGED <<cur, place, mark, handled, cut, log, gone, made>>
      BY <1>5 DEF readVars, vars
    <2> QED BY <2>1 DEF FeedInv
  <1> QED BY <1>1, <1>2, <1>3, <1>4, <1>5 DEF ReadNext, Looks

LEMMA FeedBegins ==
  ASSUME LogAssumptions, ReadInit
  PROVE  FeedInv
  <1>1. TsInv /\ LogInv
    BY StoreBegins
  <1>2. \A s \in Streams : mark[s] + 1 = 1 /\ Passed(log[s], handled \cup gone, 1, made)
    BY <1>1, PassedNone DEF ReadInit
  <1>3. \A r \in Readers : ~Feeds(cur[r])
    BY NoCursorIs DEF ReadInit, Feeds
  <1> QED BY <1>2, <1>3 DEF FeedInv

(* The consumer that zephyrdb.h describes, which resumes behind the watermark   *)
(* it stored with zdb_ts_watermark_set(), never skips a sample it did not       *)
(* handle: across power losses, rollover, failing and interrupted watermark     *)
(* writes and zdb_ts_watermark_clear(), with any number of consumers, streams   *)
(* and samples, as long as no flush ran into a walk that was acknowledged.      *)
THEOREM ConsumersSkipNothing ==
  ASSUME LogAssumptions
  PROVE  ReadSpec => []ConsumerSkipsNothing
  <1> DEFINE I == TsInv /\ LogInv /\ MarkInv /\ ReadInv /\ FeedInv
  <1>1. ReadInit => I
    BY StoreBegins, ReadBegins, FeedBegins
  <1>2. I /\ [ReadNext]_<<vars, readVars>> => I'
    BY StoreNext, ReadStep, FeedStep
  <1>3. I => ConsumerSkipsNothing
    <2> SUFFICES ASSUME I, ~cut, NEW s \in Streams, NEW x \in Range(log[s]), x <= mark[s]
                 PROVE  x \in handled \cup gone
      BY DEF ConsumerSkipsNothing
    <2>1. Passed(log[s], handled \cup gone, mark[s] + 1, made)
      BY DEF FeedInv
    <2>2. x \in Nat /\ mark[s] \in Nat
      <3>1. Range(log[s]) \subseteq 1..made /\ made \in Nat /\ mark[s] \in Nat
        BY LogType DEF LogInv, HistInv, ReadInv
      <3> QED BY <3>1
    <2>3. x < mark[s] + 1
      BY <2>2
    <2> QED BY <2>1, <2>3 DEF Passed
  <1> HIDE DEF I
  <1> QED BY <1>1, <1>2, <1>3, PTL DEF ReadSpec

================================================================================
