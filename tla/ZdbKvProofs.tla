------------------------------ MODULE ZdbKvProofs ------------------------------
(***************************************************************************)
(* Proofs about ZdbKv, for any number of threads, keys, slots and index    *)
(* entries, any table of defaults and any pattern of calls: the types, and *)
(* that ZdbKv implements ZdbKvMap while writes, the heap and the slab fail *)
(* and power is lost, as long as the backend reads what it stored.         *)
(***************************************************************************)
EXTENDS ZdbKv, FiniteSetTheorems, WellFoundedInduction, TLAPS

(* What the place of a thread says about its locals. *)
Control(t) ==
  /\ pc[t] = "idle" => op[t].kind = "none"
  /\ op[t].kind # "none" \/ pc[t] \in {"ret", "stale"} => op[t].key \in Keys
  /\ op[t].kind = "set" => op[t].val \in Values
  /\ pc[t] \in LoadPlaces => op[t].kind \in {"none", "set"}
  /\ pc[t] \in {"load", "scan", "track"} <=> ld[t].ptr # 0
  /\ pc[t] \in {"track", "write", "drop"} => op[t].kind = "set"
  /\ pc[t] = "unindex" => op[t].kind = "delete"
  /\ pc[t] = "out" => op[t].kind \in {"set", "delete"}
  /\ pc[t] = "lock" => op[t].kind # "none"
  /\ job[t].stage # "walk" /\ (op[t].kind # "none" \/ pc[t] = "ret")
        => job[t].pos <= Len(Defaults)
  /\ job[t].kind = "iter" => job[t].stage = "walk"
  /\ pc[t] \in {"next", "stale"} => job[t].stage = "walk"
  /\ pc[t] \in {"ret", "next", "stale", "seed"} => op[t].kind = "none"
  /\ pc[t] \in LoadPlaces /\ op[t].kind = "none" => job[t].stage = "walk"

(* A record with the KV magic names the key it was written for. *)
RecordsWhole == \A i \in Ids : rec[i].kind = "kv" => rec[i].key \in Keys

(* The inductive form of the type invariant. *)
Shape == TypeOK /\ RecordsWhole /\ \A t \in Threads : Control(t)

--------------------------------------------------------------------------------
(* Facts about the sequence operators of the index. *)

LEMMA ReplaceInSeq ==
  ASSUME NEW S, NEW s \in Seq(S), NEW i \in 1..Len(s), NEW x \in S
  PROVE  [s EXCEPT ![i] = x] \in Seq(S) /\ Len([s EXCEPT ![i] = x]) = Len(s)
  OBVIOUS

LEMMA CompactType ==
  ASSUME NEW S, NEW s \in Seq(S), Len(s) > 0, NEW p \in 1..Len(s)
  PROVE  Compact(s, p) \in Seq(S) /\ Len(Compact(s, p)) = Len(s) - 1
  BY DEF Compact

LEMMA CounterUpdate ==
  ASSUME NEW f \in [Keys -> 0..2], NEW k, NEW n \in 0..2
  PROVE  [f EXCEPT ![k] = n] \in [Keys -> 0..2]
  OBVIOUS

LEMMA LeastNatural ==
  ASSUME NEW S \in SUBSET Nat, S # {}
  PROVE  \E i \in S : \A j \in S : i <= j
  <1> DEFINE R == OpToRel(<, Nat)
  <1>1. IsWellFoundedOn(R, Nat)
    BY NatLessThanWellFounded
  <1>2. PICK i \in S : \A j \in S : <<j, i>> \notin R
    <2> HIDE DEF R
    <2> QED BY <1>1, WFMin
  <1>3. \A j \in S : ~(j < i)
    BY <1>2 DEF OpToRel
  <1> QED
    BY <1>3

LEMMA FindEntry ==
  ASSUME NEW s \in Seq(Keys), NEW k \in Members(s)
  PROVE  find_entry(s, k) \in 1..Len(s) /\ s[find_entry(s, k)] = k
  <1> DEFINE T == {j \in 1..Len(s) : s[j] = k}
  <1>1. T \in SUBSET Nat /\ T # {}
    BY DEF Members
  <1>2. PICK j \in T : \A m \in T : j <= m
    <2> HIDE DEF T
    <2> QED BY <1>1, LeastNatural
  <1>3. j \in 1..Len(s) /\ s[j] = k /\ \A m \in 1..(j - 1) : s[m] # k
    BY <1>2
  <1> QED
    BY <1>3 DEF find_entry

LEMMA FirstType ==
  ASSUME NEW S \in SUBSET Nat, S # {}
  PROVE  First(S) \in S
  BY LeastNatural DEF First

LEMMA IdsOfType ==
  ASSUME NEW s \in Seq(Keys)
  PROVE  IdsOf(s) \in Seq(Ids) /\ Len(IdsOf(s)) = Len(s)
  BY KvConstants DEF IdsOf

--------------------------------------------------------------------------------
(* Type correctness. *)

LEMMA NoneTypes == NoJob \in Job /\ NoOp \in Op /\ NoLoad \in Load
  BY DEF NoJob, Job, NoOp, Op, NoLoad, Load

LEMMA LoadAt ==
  ASSUME NEW p \in Nat
  PROVE  [NoLoad EXCEPT !.ptr = p] \in Load /\ [NoLoad EXCEPT !.ptr = p].ptr = p
  BY NoneTypes DEF Load

LEMMA ShapeInit == Init => Shape
  <1> SUFFICES ASSUME Init PROVE Shape
    OBVIOUS
  <1>1. FlashType
    BY KvConstants DEF Init, FlashType, Record, ForeignRecord, NoRecord
  <1>2. IndexType
    BY DEF Init, IndexType, NoLoad
  <1>3. ThreadType
    BY NoneTypes DEF Init, ThreadType, Places
  <1>4. SystemType /\ HistoryType
    <2>1. MaxBoots \in Nat
      BY KvConstants
    <2>2. boots \in 0..MaxBoots
      BY <2>1 DEF Init
    <2>3. booted \in BOOLEAN
      BY DEF Init
    <2> QED BY <2>2, <2>3 DEF Init, HistoryType, SystemType
  <1>5. ASSUME NEW t \in Threads PROVE Control(t)
    BY <1>5 DEF Init, Control, NoOp, NoJob, NoLoad, LoadPlaces
  <1>6. RecordsWhole
    BY DEF Init, RecordsWhole, ForeignRecord, NoRecord
  <1> QED BY <1>1, <1>2, <1>3, <1>4, <1>5, <1>6 DEF Shape, TypeOK

(* An index that loses or gains an entry, in RAM and on flash. *)
LEMMA TrackDelete ==
  ASSUME Shape, NEW k \in Keys, track_delete(k)
  PROVE  /\ heap' \in Seq(Seq(Keys))
         /\ Len(heap') = Len(heap)
         /\ flashIndex' \in Seq(Ids)
  <1>1. heap \in Seq(Seq(Keys)) /\ flashIndex \in Seq(Ids) /\ kvCtx \in 0..Len(heap)
    BY DEF Shape, TypeOK, IndexType, FlashType
  <1>2. CASE k \notin Members(Live)
    BY <1>1, <1>2 DEF track_delete
  <1>3. CASE k \in Members(Live)
    <2> DEFINE left == Compact(Live, find_entry(Live, k))
    <2>1. kvCtx \in 1..Len(heap) /\ Live = heap[kvCtx] /\ Live \in Seq(Keys) /\ Len(Live) > 0
      BY <1>1, <1>3 DEF Live, Members
    <2>2. left \in Seq(Keys)
      BY <1>3, <2>1, FindEntry, CompactType
    <2>3. heap' = [heap EXCEPT ![kvCtx] = left] /\ index_store(left)
      BY <1>3 DEF track_delete
    <2>4. flashIndex' \in Seq(Ids)
      BY <1>1, <2>2, <2>3, IdsOfType DEF index_store
    <2> HIDE DEF left
    <2> QED BY <1>1, <2>1, <2>2, <2>3, <2>4, ReplaceInSeq
  <1> QED BY <1>2, <1>3

(* A thread leaves the index lookup with context p. *)
LEMMA HaveCtxTypes ==
  ASSUME Shape, NEW t \in Threads, NEW p \in 0..Len(heap), HaveCtx(t, p)
  PROVE  /\ pc' \in [Threads -> Places]
         /\ ld' \in [Threads -> Load]
         /\ \A u \in Threads : ld'[u].ptr \in 0..Len(heap)
  <1>1. pc \in [Threads -> Places] /\ ld \in [Threads -> Load] /\ Len(heap) \in Nat
    BY DEF Shape, TypeOK, ThreadType, IndexType
  <1>2. \A u \in Threads : ld[u].ptr \in 0..Len(heap)
    BY DEF Shape, TypeOK, IndexType
  <1>3. pc' \in [Threads -> Places]
    BY <1>1 DEF HaveCtx, Places
  <1>4. PICK x \in Load : ld' = [ld EXCEPT ![t] = x] /\ x.ptr \in {0, p}
    <2>1. NoLoad \in Load /\ NoLoad.ptr = 0
      BY NoneTypes DEF NoLoad
    <2>2. [NoLoad EXCEPT !.ptr = p] \in Load /\ [NoLoad EXCEPT !.ptr = p].ptr = p
      BY LoadAt
    <2> QED BY <2>1, <2>2 DEF HaveCtx
  <1> QED BY <1>1, <1>2, <1>3, <1>4

LEMMA IndexStepShape ==
  ASSUME Shape, NEW t \in Threads, IndexStep(t)
  PROVE  Shape'
  <1> USE DEF Shape, TypeOK, flashVars, ctxVars, sysVars, walkVars
  <1>1. CASE CtxCheck(t)
    <2>1. FlashType' /\ RecordsWhole' /\ SystemType' /\ HistoryType'
      BY <1>1 DEF CtxCheck, FlashType, RecordsWhole, SystemType, HistoryType
    <2>2. IndexType' /\ ThreadType'
      <3>1. CASE kvCtx # 0
        <4>1. HaveCtx(t, kvCtx) /\ kvCtx \in 0..Len(heap)
          BY <1>1, <3>1 DEF CtxCheck, IndexType
        <4> QED BY <1>1, <4>1, HaveCtxTypes DEF CtxCheck, IndexType, ThreadType
      <3>2. CASE kvCtx = 0
        BY <1>1, <3>2 DEF CtxCheck, IndexType, ThreadType, Places
      <3> QED BY <3>1, <3>2
    <2>3. ASSUME NEW u \in Threads PROVE Control(u)'
      BY <1>1, <2>3
       DEF ThreadType, IndexType, CtxCheck, HaveCtx, Control, LoadPlaces, Places, Load, NoLoad
    <2> QED BY <2>1, <2>2, <2>3
  <1>2. CASE CtxAlloc(t)
    <2>1. FlashType' /\ RecordsWhole' /\ SystemType' /\ HistoryType'
      BY <1>2 DEF CtxAlloc, FlashType, RecordsWhole, SystemType, HistoryType
    <2>2. heap' \in Seq(Seq(Keys)) /\ Len(heap') = Len(heap) + 1
      <3>1. <<>> \in Seq(Keys) /\ heap \in Seq(Seq(Keys))
        BY DEF IndexType
      <3> QED BY <1>2, <3>1 DEF CtxAlloc
    <2>3. IndexType'
      BY <1>2, <2>2 DEF CtxAlloc, IndexType, ThreadType, NoLoad, Load
    <2>4. ThreadType'
      <3>1. Len(heap) + 1 \in Nat
        BY DEF IndexType
      <3> QED BY <1>2, <3>1, LoadAt DEF CtxAlloc, ThreadType, Places
    <2>5. ASSUME NEW u \in Threads PROVE Control(u)'
      BY <1>2, <2>5 DEF ThreadType, IndexType, CtxAlloc, Control, LoadPlaces, Places, Load, NoLoad
    <2> QED BY <2>1, <2>3, <2>4, <2>5
  <1>3. CASE CtxAllocFails(t)
    <2>1. FlashType' /\ RecordsWhole' /\ SystemType' /\ HistoryType' /\ IndexType'
      BY <1>3 DEF CtxAllocFails, FlashType, RecordsWhole, SystemType, HistoryType, IndexType
    <2>2. ThreadType'
      BY <1>3, NoneTypes DEF CtxAllocFails, ThreadType, Places
    <2>3. ASSUME NEW u \in Threads PROVE Control(u)'
      BY <1>3, <2>3 DEF ThreadType, CtxAllocFails, Control, LoadPlaces, Places, NoJob
    <2> QED BY <2>1, <2>2, <2>3
  <1>4. CASE LoadBegin(t)
    <2>1. FlashType' /\ RecordsWhole' /\ SystemType' /\ HistoryType'
      BY <1>4 DEF LoadBegin, FlashType, RecordsWhole, SystemType, HistoryType
    <2>2. IndexType' /\ ThreadType'
      <3>1. CASE HaveCtx(t, ld[t].ptr)
        <4>1. ld[t].ptr \in 0..Len(heap)
          BY DEF IndexType
        <4> QED BY <1>4, <3>1, <4>1, HaveCtxTypes DEF LoadBegin, IndexType, ThreadType
      <3>2. CASE /\ pc' = [pc EXCEPT ![t] = "scan"]
                 /\ ld' = [ld EXCEPT ![t] = [ld[t] EXCEPT !.buf = flashIndex]]
        <4>1. [ld[t] EXCEPT !.buf = flashIndex] \in Load
          BY DEF ThreadType, FlashType, Load
        <4>2. [ld[t] EXCEPT !.buf = flashIndex].ptr = ld[t].ptr
          BY DEF ThreadType, Load
        <4> QED BY <1>4, <3>2, <4>1, <4>2 DEF LoadBegin, IndexType, ThreadType, Places
      <3> QED BY <1>4, <3>1, <3>2 DEF LoadBegin
    <2>3. ASSUME NEW u \in Threads PROVE Control(u)'
      BY <1>4, <2>3 DEF ThreadType, LoadBegin, HaveCtx, Control, LoadPlaces, Places, Load, NoLoad
    <2> QED BY <2>1, <2>2, <2>3
  <1>5. CASE LoadEntry(t)
    <2> DEFINE r == rec[Head(ld[t].buf)]
    <2>1. ld[t].buf \in Seq(Ids) /\ ld[t].buf # <<>> /\ ld[t].ptr \in 1..Len(heap)
      BY <1>5 DEF LoadEntry, ThreadType, Load, IndexType, Control
    <2>2. Tail(ld[t].buf) \in Seq(Ids) /\ Head(ld[t].buf) \in Ids
      BY <2>1
    <2>3. r \in Record
      BY <2>2 DEF FlashType
    <2>4. FlashType' /\ RecordsWhole' /\ SystemType' /\ HistoryType'
      BY <1>5 DEF LoadEntry, FlashType, RecordsWhole, SystemType, HistoryType
    <2>5. r.kind = "kv" => r.key \in Keys
      BY <1>5, <2>2 DEF RecordsWhole
    <2>6. heap' \in Seq(Seq(Keys)) /\ Len(heap') = Len(heap)
      <3>1. heap \in Seq(Seq(Keys)) /\ heap[ld[t].ptr] \in Seq(Keys)
        BY <2>1 DEF IndexType
      <3>2. CASE UNCHANGED heap
        BY <3>1, <3>2
      <3>3. CASE /\ r.kind = "kv"
                  /\ heap' = [heap EXCEPT ![ld[t].ptr] = Append(heap[ld[t].ptr], r.key)]
        <4>1. Append(heap[ld[t].ptr], r.key) \in Seq(Keys)
          BY <2>5, <3>1, <3>3
        <4> QED BY <2>1, <3>1, <3>3, <4>1, ReplaceInSeq
      <3> QED BY <1>5, <3>2, <3>3 DEF LoadEntry
    <2>7. IndexType'
      BY <1>5, <2>6, ZenonT(40) DEF LoadEntry, IndexType, ThreadType, Load
    <2>8. ThreadType'
      BY <1>5, <2>2, ZenonT(40) DEF LoadEntry, ThreadType, Load
    <2>9. ASSUME NEW u \in Threads PROVE Control(u)'
      BY <1>5, <2>9 DEF ThreadType, LoadEntry, Control, LoadPlaces, Load
    <2> QED BY <2>4, <2>7, <2>8, <2>9
  <1>6. CASE LoadEnd(t)
    <2>1. heap[ld[t].ptr] \in Seq(Keys)
      BY <1>6 DEF LoadEnd, IndexType, Control
    <2>2. FlashType' /\ RecordsWhole'
      BY <1>6, <2>1, IdsOfType DEF LoadEnd, index_store, FlashType, RecordsWhole
    <2>3. SystemType' /\ HistoryType'
      BY <1>6 DEF LoadEnd, SystemType, HistoryType
    <2>4. ld[t].ptr \in 0..Len(heap) /\ HaveCtx(t, ld[t].ptr)
      BY <1>6 DEF LoadEnd, IndexType
    <2>5. IndexType' /\ ThreadType'
      BY <1>6, <2>4, HaveCtxTypes DEF LoadEnd, IndexType, ThreadType
    <2>6. ASSUME NEW u \in Threads PROVE Control(u)'
      BY <1>6, <2>6 DEF ThreadType, LoadEnd, HaveCtx, Control, LoadPlaces, Places, Load, NoLoad
    <2> QED BY <2>2, <2>3, <2>5, <2>6
  <1> QED
    BY <1>1, <1>2, <1>3, <1>4, <1>5, <1>6 DEF IndexStep

(* The end of an operation, and the start of one. *)
Statuses == {"OK", "NOT_FOUND", "COLLISION", "NOMEM", "IO"}

LEMMA FinishTypes ==
  ASSUME Shape, NEW t \in Threads, NEW j, NEW k \in Keys, NEW s \in Statuses, Finish(t, j, k, s)
  PROVE  /\ pc' \in [Threads -> Places]
         /\ op' \in [Threads -> Op]
         /\ pc' = [pc EXCEPT ![t] = IF j.kind = "none" THEN "idle" ELSE "ret"]
         /\ \A u \in Threads \ {t} : op'[u] = op[u]
         /\ op'[t].kind = "none"
         /\ j.kind # "none" => op'[t].key = k
  <1>1. pc \in [Threads -> Places] /\ op \in [Threads -> Op]
    BY DEF Shape, TypeOK, ThreadType
  <1>2. pc' \in [Threads -> Places]
    BY <1>1 DEF Finish, Places
  <1>3. NoOp \in Op /\ NoOp.kind = "none"
    BY NoneTypes DEF NoOp
  <1> DEFINE y == [NoOp EXCEPT !.key = k, !.rc = s]
             x == IF j.kind = "none" THEN NoOp ELSE y
  <1>4. y \in Op /\ y.kind = "none" /\ y.key = k
    BY <1>3 DEF Op, Statuses
  <1>5. op' = [op EXCEPT ![t] = x]
    BY DEF Finish
  <1> HIDE DEF y
  <1>6. x \in Op /\ x.kind = "none" /\ (j.kind # "none" => x.key = k)
    BY <1>3, <1>4
  <1> HIDE DEF x
  <1> QED BY <1>1, <1>2, <1>5, <1>6 DEF Finish

LEMMA EnterShape ==
  ASSUME Shape, NEW t \in Threads, NEW j \in Job, NEW o \in {"set", "get", "delete"},
         NEW k \in Keys, NEW v \in Values \cup {NoVal}, Enter(t, j, o, k, v),
         o = "set" => v \in Values,
         j.stage # "walk" => j.pos <= Len(Defaults),
         j.kind = "iter" => j.stage = "walk",
         pc[t] \in {"idle", "next", "seed", "ret"}
  PROVE  Shape'
  <1> USE DEF Shape, TypeOK, flashVars, ctxVars, sysVars, walkVars
  <1>1. FlashType' /\ RecordsWhole' /\ SystemType' /\ HistoryType' /\ IndexType'
    BY DEF Enter, FlashType, RecordsWhole, SystemType, HistoryType, IndexType
  <1>2. job' = [job EXCEPT ![t] = j] /\ job' \in [Threads -> Job]
    BY DEF Enter, ThreadType
  <1>3. CASE FreeBlocks > 0
    <2>1. pc' = [pc EXCEPT ![t] = "lock"]
      BY <1>3 DEF Enter
    <2> DEFINE x == [NoOp EXCEPT !.kind = o, !.key = k, !.val = v]
    <2>2. x \in Op /\ x.kind = o /\ x.key = k /\ x.val = v
      BY NoneTypes DEF Op
    <2>3. op' = [op EXCEPT ![t] = x]
      BY <1>3 DEF Enter
    <2> HIDE DEF x
    <2>4. ThreadType'
      BY <1>2, <2>1, <2>2, <2>3 DEF Enter, ThreadType, Places
    <2>5. ASSUME NEW u \in Threads PROVE Control(u)'
      BY <1>2, <2>1, <2>2, <2>3, <2>5 DEF Enter, ThreadType, Control, LoadPlaces
    <2> QED BY <1>1, <2>4, <2>5
  <1>4. CASE ~(FreeBlocks > 0)
    <2>1. Finish(t, j, k, "NOMEM")
      BY <1>4 DEF Enter
    <2>2. /\ pc' \in [Threads -> Places]
          /\ op' \in [Threads -> Op]
          /\ pc' = [pc EXCEPT ![t] = IF j.kind = "none" THEN "idle" ELSE "ret"]
          /\ \A u \in Threads \ {t} : op'[u] = op[u]
          /\ op'[t].kind = "none"
          /\ j.kind # "none" => op'[t].key = k
      BY <2>1, FinishTypes DEF Statuses
    <2>3. ThreadType'
      BY <1>2, <2>2 DEF Enter, ThreadType
    <2>4. ASSUME NEW u \in Threads PROVE Control(u)'
      BY <1>2, <2>2, <2>4 DEF Enter, ThreadType, Control, LoadPlaces
    <2> QED BY <1>1, <2>3, <2>4
  <1> QED BY <1>3, <1>4

(* An operation that returns without having changed flash or index. *)
LEMMA ReturnShape ==
  ASSUME Shape, NEW t \in Threads, NEW s \in Statuses, Finish(t, job[t], op[t].key, s),
         op[t].kind # "none", lock' \in Threads \cup {NoThread}, pc[t] \in {"lock", "out"},
         UNCHANGED <<flashVars, ctxVars, job, ld, sysVars, unlisted, walkVars>>
  PROVE  Shape'
  <1>1. op[t].key \in Keys
    BY DEF Shape, Control
  <1>2. /\ pc' \in [Threads -> Places]
        /\ op' \in [Threads -> Op]
        /\ pc' = [pc EXCEPT ![t] = IF job[t].kind = "none" THEN "idle" ELSE "ret"]
        /\ \A u \in Threads \ {t} : op'[u] = op[u]
        /\ op'[t].kind = "none"
        /\ job[t].kind # "none" => op'[t].key = op[t].key
    BY <1>1, FinishTypes, ZenonT(40)
  <1> USE DEF Shape, TypeOK, flashVars, ctxVars, sysVars, walkVars
  <1>3. FlashType' /\ RecordsWhole' /\ SystemType' /\ HistoryType' /\ IndexType'
    BY DEF FlashType, RecordsWhole, SystemType, HistoryType, IndexType
  <1>4. ThreadType'
    BY <1>2 DEF ThreadType
  <1>5. ASSUME NEW u \in Threads PROVE Control(u)'
    BY <1>1, <1>2, <1>5 DEF ThreadType, Control, LoadPlaces
  <1> QED BY <1>3, <1>4, <1>5

LEMMA NoJobIdle == NoJob \in Job /\ NoJob.kind = "none" /\ NoJob.stage = "walk"
  BY NoneTypes DEF NoJob

LEMMA OpStepShape ==
  ASSUME Shape, NEW t \in Threads, OpStep(t)
  PROVE  Shape'
  <1>1. CASE CallSet(t)
    <2>1. PICK k \in Keys, v \in Values : Enter(t, NoJob, "set", k, v)
      BY <1>1 DEF CallSet
    <2> QED BY <1>1, <2>1, NoJobIdle, EnterShape DEF CallSet, MayCall
  <1>2. CASE SetLock(t)
    <2>1. CASE /\ Finish(t, job[t], op[t].key, "COLLISION")
               /\ UNCHANGED lock
      <3>1. lock' \in Threads \cup {NoThread} /\ op[t].kind # "none"
        BY <1>2, <2>1 DEF SetLock, Shape, TypeOK, ThreadType
      <3> QED BY <1>2, <2>1, <3>1, ReturnShape DEF SetLock, Statuses
    <2>2. CASE pc' = [pc EXCEPT ![t] = "ctx"] /\ lock' = t /\ UNCHANGED op
      <3> USE DEF Shape, TypeOK, flashVars, ctxVars, sysVars, walkVars
      <3>1. FlashType' /\ RecordsWhole' /\ SystemType' /\ HistoryType' /\ IndexType'
        BY <1>2 DEF SetLock, FlashType, RecordsWhole, SystemType, HistoryType, IndexType
      <3>2. ThreadType'
        BY <1>2, <2>2 DEF SetLock, ThreadType, Places
      <3>3. ASSUME NEW u \in Threads PROVE Control(u)'
        BY <1>2, <2>2, <3>3 DEF SetLock, ThreadType, Control, LoadPlaces
      <3> QED BY <3>1, <3>2, <3>3
    <2> QED BY <1>2, <2>1, <2>2 DEF SetLock
  <1>3. CASE Out(t)
    <2>1. PICK s \in Statuses : Finish(t, job[t], op[t].key, s)
      BY <1>3 DEF Out, Statuses, Shape, TypeOK, ThreadType, Op
    <2>2. lock' \in Threads \cup {NoThread} /\ op[t].kind # "none"
      BY <1>3 DEF Out, Shape, TypeOK, ThreadType, Control
    <2> QED BY <1>3, <2>1, <2>2, ReturnShape DEF Out
  <1>4. CASE CallGet(t)
    <2>1. PICK k \in Keys : Enter(t, NoJob, "get", k, NoVal)
      BY <1>4 DEF CallGet
    <2> QED BY <1>4, <2>1, NoJobIdle, EnterShape DEF CallGet, MayCall
  <1>5. CASE Get(t)
    <2>1. PICK s \in Statuses : Finish(t, job[t], op[t].key, s)
      BY <1>5 DEF Get, Statuses
    <2>2. lock' \in Threads \cup {NoThread} /\ op[t].kind # "none"
      BY <1>5 DEF Get, Shape, TypeOK, ThreadType, Control
    <2> QED BY <1>5, <2>1, <2>2, ReturnShape DEF Get
  <1>6. CASE CallDelete(t)
    <2>1. PICK k \in Keys : Enter(t, NoJob, "delete", k, NoVal)
      BY <1>6 DEF CallDelete
    <2> QED BY <1>6, <2>1, NoJobIdle, EnterShape DEF CallDelete, MayCall
  <1>7. CASE DeleteRefused(t)
    <2>1. PICK s \in Statuses : Finish(t, job[t], op[t].key, s)
      BY <1>7 DEF DeleteRefused, Statuses
    <2>2. lock' \in Threads \cup {NoThread} /\ op[t].kind # "none"
      BY <1>7 DEF DeleteRefused, Shape, TypeOK, ThreadType, Control
    <2> QED BY <1>7, <2>1, <2>2, ReturnShape DEF DeleteRefused
  <1> USE DEF Shape, TypeOK, flashVars, ctxVars, sysVars, walkVars
  <1>8. CASE SetTrack(t)
    <2> DEFINE s == heap[ld[t].ptr]
    <2>1. s \in Seq(Keys) /\ ld[t].ptr \in 1..Len(heap) /\ op[t].key \in Keys
      <3>1. op[t].kind = "set" /\ ld[t].ptr # 0 /\ op[t].key \in Keys
        BY <1>8 DEF SetTrack, Control
      <3>2. heap \in Seq(Seq(Keys)) /\ ld[t].ptr \in 0..Len(heap)
        BY DEF IndexType
      <3> QED BY <3>1, <3>2
    <2>2. Append(s, op[t].key) \in Seq(Keys)
      BY <2>1
    <2>3. rec' \in [Ids -> Record] /\ RecordsWhole'
      BY <1>8 DEF SetTrack, FlashType, RecordsWhole
    <2>4. flashIndex' \in Seq(Ids)
      BY <1>8, <2>2, IdsOfType DEF SetTrack, FlashType, index_store
    <2>5. SystemType' /\ HistoryType'
      BY <1>8 DEF SetTrack, SystemType, HistoryType
    <2>6. heap' \in Seq(Seq(Keys)) /\ Len(heap') = Len(heap)
      <3>1. heap \in Seq(Seq(Keys))
        BY DEF IndexType
      <3>2. heap' = heap \/ heap' = [heap EXCEPT ![ld[t].ptr] = Append(s, op[t].key)]
        BY <1>8 DEF SetTrack
      <3>3. CASE heap' = [heap EXCEPT ![ld[t].ptr] = Append(s, op[t].key)]
        <4> DEFINE x == Append(s, op[t].key)
        <4>1. x \in Seq(Keys) /\ heap' = [heap EXCEPT ![ld[t].ptr] = x]
          BY <2>2, <3>3
        <4> HIDE DEF x, s
        <4> QED BY <2>1, <3>1, <4>1, ReplaceInSeq
      <3> QED BY <3>1, <3>2, <3>3
    <2>7. IndexType'
      BY <1>8, <2>6 DEF SetTrack, IndexType, ThreadType, NoLoad, Load
    <2>8. ThreadType'
      <3>1. \A b \in BOOLEAN : [op[t] EXCEPT !.indexed = b] \in Op
        BY DEF ThreadType, Op
      <3>2. PICK b \in BOOLEAN : op' = [op EXCEPT ![t] = [op[t] EXCEPT !.indexed = b]]
        BY <1>8 DEF SetTrack
      <3>3. op' \in [Threads -> Op]
        BY <3>1, <3>2 DEF ThreadType
      <3> QED BY <1>8, <3>3, NoneTypes DEF SetTrack, ThreadType, Places
    <2>9. ASSUME NEW u \in Threads PROVE Control(u)'
      BY <1>8, <2>9 DEF ThreadType, SetTrack, Control, LoadPlaces, Places, Load, NoLoad, Op
    <2> QED BY <2>3, <2>4, <2>5, <2>7, <2>8, <2>9 DEF FlashType
  <1>9. CASE SetWrite(t)
    <2>1. op[t].key \in Keys /\ op[t].val \in Values /\ IdOf[op[t].key] \in Ids
      BY <1>9, KvConstants DEF SetWrite, Control
    <2> DEFINE r == record_build(op[t].key, op[t].val)
    <2>2. r \in Record /\ r.key \in Keys
      BY <2>1 DEF record_build, Record
    <2>3. rec' = [rec EXCEPT ![IdOf[op[t].key]] = r]
      BY <1>9 DEF SetWrite
    <2> HIDE DEF r
    <2>4. FlashType' /\ RecordsWhole'
      BY <1>9, <2>1, <2>2, <2>3 DEF SetWrite, FlashType, RecordsWhole
    <2>5. SystemType' /\ HistoryType' /\ IndexType'
      BY <1>9, <2>1 DEF SetWrite, SystemType, HistoryType, IndexType, DueAfterWrite
    <2>6. ThreadType'
      BY <1>9 DEF SetWrite, ThreadType, Places
    <2>7. ASSUME NEW u \in Threads PROVE Control(u)'
      BY <1>9, <2>7 DEF SetWrite, ThreadType, Control, LoadPlaces, Places
    <2> QED BY <2>4, <2>5, <2>6, <2>7
  <1>10. CASE SetWriteFails(t)
    <2>1. FlashType' /\ RecordsWhole' /\ SystemType' /\ HistoryType' /\ IndexType'
      BY <1>10 DEF SetWriteFails, FlashType, RecordsWhole, SystemType, HistoryType, IndexType
    <2>2. ThreadType'
      BY <1>10, NoneTypes DEF SetWriteFails, ThreadType, Places, Op
    <2>3. ASSUME NEW u \in Threads PROVE Control(u)'
      BY <1>10, <2>3 DEF SetWriteFails, ThreadType, Control, LoadPlaces, Places, Op
    <2> QED BY <2>1, <2>2, <2>3
  <1>11. CASE SetDrop(t)
    <2>1. op[t].key \in Keys /\ track_delete(op[t].key)
      BY <1>11 DEF SetDrop, Control
    <2>2. /\ heap' \in Seq(Seq(Keys))
          /\ Len(heap') = Len(heap)
          /\ flashIndex' \in Seq(Ids)
      BY <2>1, TrackDelete
    <2>3. FlashType' /\ RecordsWhole' /\ SystemType' /\ HistoryType' /\ IndexType'
      BY <1>11, <2>2 DEF SetDrop, FlashType, RecordsWhole, SystemType, HistoryType, IndexType
    <2>4. ThreadType'
      BY <1>11, NoneTypes DEF SetDrop, ThreadType, Places
    <2>5. ASSUME NEW u \in Threads PROVE Control(u)'
      BY <1>11, <2>5 DEF SetDrop, ThreadType, Control, LoadPlaces, Places
    <2> QED BY <2>3, <2>4, <2>5
  <1>12. CASE DeleteErase(t)
    <2>1. op[t].key \in Keys /\ IdOf[op[t].key] \in Ids
      BY <1>12, KvConstants DEF DeleteErase, Control
    <2>2. NoRecord \in Record /\ NoRecord.kind = "none"
      BY DEF NoRecord, Record
    <2>3. rec' = [rec EXCEPT ![IdOf[op[t].key]] = NoRecord]
      BY <1>12 DEF DeleteErase
    <2>4. FlashType' /\ RecordsWhole'
      BY <1>12, <2>1, <2>2, <2>3 DEF DeleteErase, FlashType, RecordsWhole
    <2>5. SystemType' /\ HistoryType' /\ IndexType'
      <3>1. seen' \in [Threads -> [Keys -> 0..2]]
        <4>1. \A u \in Threads : [seen[u] EXCEPT ![op[t].key] = 0] \in [Keys -> 0..2]
          BY CounterUpdate DEF HistoryType
        <4>2. seen' = [u \in Threads |-> [seen[u] EXCEPT ![op[t].key] = 0]]
          BY <1>12 DEF DeleteErase, SeenAfterErase
        <4> QED BY <4>1, <4>2
      <3>2. due' \in [Threads -> SUBSET Keys]
        BY <1>12 DEF DeleteErase, HistoryType, DueAfterErase
      <3> QED BY <1>12, <3>1, <3>2 DEF DeleteErase, SystemType, HistoryType, IndexType
    <2>6. ThreadType'
      BY <1>12 DEF DeleteErase, ThreadType, Places
    <2>7. ASSUME NEW u \in Threads PROVE Control(u)'
      BY <1>12, <2>7 DEF DeleteErase, ThreadType, Control, LoadPlaces, Places
    <2> QED BY <2>4, <2>5, <2>6, <2>7
  <1>13. CASE DeleteUnindex(t)
    <2>1. op[t].key \in Keys /\ track_delete(op[t].key)
      BY <1>13 DEF DeleteUnindex, Control
    <2>2. /\ heap' \in Seq(Seq(Keys))
          /\ Len(heap') = Len(heap)
          /\ flashIndex' \in Seq(Ids)
      BY <2>1, TrackDelete
    <2>3. FlashType' /\ RecordsWhole' /\ SystemType' /\ HistoryType' /\ IndexType'
      BY <1>13, <2>2 DEF DeleteUnindex, FlashType, RecordsWhole, SystemType, HistoryType, IndexType
    <2>4. ThreadType'
      BY <1>13, NoneTypes DEF DeleteUnindex, ThreadType, Places
    <2>5. ASSUME NEW u \in Threads PROVE Control(u)'
      BY <1>13, <2>5 DEF DeleteUnindex, ThreadType, Control, LoadPlaces, Places
    <2> QED BY <2>3, <2>4, <2>5
  <1> QED
    BY <1>1, <1>2, <1>3, <1>4, <1>5, <1>6, <1>7, <1>8, <1>9, <1>10, <1>11, <1>12, <1>13 DEF OpStep

(* The entries of a walk are keys of the index. *)
LEMMA CandidateType ==
  ASSUME Shape, NEW t \in Threads, NEW c, c = Candidates(job[t].ns, job[t].pos), c # {}
  PROVE  /\ First(c) \in 1..Len(Live)
         /\ Live[First(c)] \in Keys
  <1>1. job[t].pos \in Nat \ {0}
    BY DEF Shape, TypeOK, ThreadType, Job
  <1>2. Live \in Seq(Keys)
    BY DEF Shape, TypeOK, IndexType, Live
  <1>3. c \in SUBSET (1..Len(Live)) /\ c \in SUBSET Nat
    BY <1>1, <1>2 DEF Candidates
  <1>4. First(c) \in c
    BY <1>3, FirstType
  <1> QED BY <1>2, <1>3, <1>4

LEMMA EndWalkShape ==
  ASSUME Shape, NEW t \in Threads, EndWalk(t), pc[t] \in {"next", "exhausted", "ret", "reset_done"}
  PROVE  Shape'
  <1> USE DEF Shape, TypeOK, flashVars, ctxVars, sysVars, walkVars
  <1>1. seen' \in [Threads -> [Keys -> 0..2]]
    <2>1. [k \in Keys |-> 0] \in [Keys -> 0..2]
      OBVIOUS
    <2> QED BY <2>1 DEF EndWalk, HistoryType
  <1>2. FlashType' /\ RecordsWhole' /\ SystemType' /\ HistoryType' /\ IndexType'
    BY <1>1 DEF EndWalk, FlashType, RecordsWhole, SystemType, HistoryType, IndexType
  <1>3. ThreadType'
    BY NoneTypes DEF EndWalk, ThreadType, Places
  <1>4. ASSUME NEW u \in Threads PROVE Control(u)'
    BY <1>4 DEF EndWalk, ThreadType, Control, LoadPlaces, Places, NoOp, NoJob
  <1> QED BY <1>2, <1>3, <1>4

LEMMA CallWalkShape ==
  ASSUME Shape, NEW t \in Threads, NEW c \in {"iter", "reset"}, CallWalk(t, c)
  PROVE  Shape'
  <1> USE DEF Shape, TypeOK, flashVars, ctxVars, sysVars, walkVars
  <1>1. PICK ns \in Namespaces :
          /\ job' = [job EXCEPT ![t] = [NoJob EXCEPT !.kind = c, !.ns = ns]]
          /\ due' = [due EXCEPT ![t] = {k \in InNs(ns) : Stored(k)} \ unlisted]
    BY DEF CallWalk
  <1> DEFINE j == [NoJob EXCEPT !.kind = c, !.ns = ns]
  <1>2. j \in Job /\ j.stage = "walk"
    BY NoJobIdle DEF Job
  <1>3. job' = [job EXCEPT ![t] = j]
    BY <1>1
  <1> HIDE DEF j
  <1>4. due' \in [Threads -> SUBSET Keys]
    BY <1>1 DEF HistoryType, InNs
  <1>5. FlashType' /\ RecordsWhole' /\ SystemType' /\ HistoryType' /\ IndexType'
    BY <1>4 DEF CallWalk, FlashType, RecordsWhole, SystemType, HistoryType, IndexType
  <1>6. ThreadType'
    BY <1>2, <1>3 DEF CallWalk, ThreadType, Places
  <1>7. ASSUME NEW u \in Threads PROVE Control(u)'
    BY <1>2, <1>3, <1>7 DEF CallWalk, MayCall, ThreadType, Control, LoadPlaces, Places
  <1> QED BY <1>5, <1>6, <1>7

LEMMA WalkStepShape ==
  ASSUME Shape, NEW t \in Threads, WalkStep(t)
  PROVE  Shape'
  <1>1. CASE CallWalk(t, "iter") \/ CallWalk(t, "reset")
    BY <1>1, CallWalkShape
  <1>2. CASE IterNext(t)
    <2> DEFINE c == Candidates(job[t].ns, job[t].pos)
               j == [job[t] EXCEPT !.pos = First(c) + 1]
    <2>1. c # {} /\ Enter(t, j, "get", Live[First(c)], NoVal)
      BY <1>2 DEF IterNext
    <2>2. First(c) \in Nat /\ Live[First(c)] \in Keys
      BY <2>1, CandidateType
    <2>3. job[t] \in Job /\ job[t].stage = "walk"
      BY <1>2 DEF IterNext, Shape, TypeOK, ThreadType, Control
    <2> HIDE DEF c
    <2>4. j \in Job /\ j.stage = "walk"
      BY <2>2, <2>3 DEF Job
    <2> HIDE DEF j
    <2> QED BY <1>2, <2>1, <2>2, <2>4, EnterShape DEF IterNext
  <1>3. CASE ResetNext(t)
    <2> DEFINE c == Candidates(job[t].ns, job[t].pos)
               j == [job[t] EXCEPT !.at = First(c)]
    <2>1. c # {} /\ Enter(t, j, "delete", Live[First(c)], NoVal)
      BY <1>3 DEF ResetNext
    <2>2. First(c) \in Nat \ {0} /\ Live[First(c)] \in Keys
      BY <2>1, CandidateType
    <2>3. job[t] \in Job /\ job[t].stage = "walk"
      BY <1>3 DEF ResetNext, Shape, TypeOK, ThreadType, Control
    <2> HIDE DEF c
    <2>4. j \in Job /\ j.stage = "walk"
      BY <2>2, <2>3 DEF Job
    <2> HIDE DEF j
    <2> QED BY <1>3, <2>1, <2>2, <2>4, EnterShape DEF ResetNext
  <1>4. CASE IterClose(t) \/ ResetReturn(t)
    BY <1>4, EndWalkShape DEF IterClose, ResetReturn
  <1> USE DEF Shape, TypeOK, flashVars, ctxVars, sysVars, walkVars
  <1>5. CASE IterEnd(t)
    <2>1. FlashType' /\ RecordsWhole' /\ SystemType' /\ HistoryType' /\ IndexType'
      BY <1>5 DEF IterEnd, FlashType, RecordsWhole, SystemType, HistoryType, IndexType
    <2>2. ThreadType'
      BY <1>5, NoneTypes DEF IterEnd, ThreadType, Places
    <2>3. ASSUME NEW u \in Threads PROVE Control(u)'
      BY <1>5, <2>3 DEF IterEnd, ThreadType, Control, LoadPlaces, Places
    <2> QED BY <2>1, <2>2, <2>3
  <1>6. CASE IterGot(t)
    <2>1. seen' \in [Threads -> [Keys -> 0..2]]
      <3>1. seen \in [Threads -> [Keys -> 0..2]] /\ op[t].key \in Keys
        BY <1>6 DEF IterGot, HistoryType, Control
      <3>2. CASE seen[t][op[t].key] < 2
        <4>1. seen[t][op[t].key] + 1 \in 0..2
          BY <3>1, <3>2
        <4>2. [seen[t] EXCEPT ![op[t].key] = seen[t][op[t].key] + 1] \in [Keys -> 0..2]
          BY <3>1, <4>1, CounterUpdate
        <4>3. seen' = seen \/
              seen' = [seen EXCEPT ![t] = [seen[t] EXCEPT ![op[t].key] = seen[t][op[t].key] + 1]]
          BY <1>6, <3>1 DEF IterGot
        <4> QED BY <3>1, <4>2, <4>3
      <3>3. CASE ~(seen[t][op[t].key] < 2)
        BY <1>6, <3>1, <3>3 DEF IterGot
      <3> QED BY <3>2, <3>3
    <2>2. FlashType' /\ RecordsWhole' /\ SystemType' /\ HistoryType' /\ IndexType'
      BY <1>6, <2>1 DEF IterGot, FlashType, RecordsWhole, SystemType, HistoryType, IndexType
    <2>3. ThreadType'
      BY <1>6, NoneTypes DEF IterGot, ThreadType, Places
    <2>4. ASSUME NEW u \in Threads PROVE Control(u)'
      BY <1>6, <2>4 DEF IterGot, ThreadType, Control, LoadPlaces, NoOp
    <2> QED BY <2>2, <2>3, <2>4
  <1>7. CASE ResetWalked(t)
    <2> DEFINE j == [job[t] EXCEPT !.stage = "get", !.pos = 1, !.at = 1]
    <2>1. j \in Job /\ j.kind = "reset" /\ job' = [job EXCEPT ![t] = j]
      <3>1. job[t] \in Job /\ job[t].kind = "reset" /\ 1 \in Nat \ {0}
        BY <1>7 DEF ResetWalked, ThreadType
      <3>2. j \in Job /\ j.kind = "reset"
        BY <3>1 DEF Job
      <3> QED BY <1>7, <3>2 DEF ResetWalked
    <2> HIDE DEF j
    <2>2. FlashType' /\ RecordsWhole' /\ SystemType' /\ HistoryType' /\ IndexType'
      BY <1>7 DEF ResetWalked, FlashType, RecordsWhole, SystemType, HistoryType, IndexType
    <2>3. ThreadType'
      BY <1>7, <2>1 DEF ResetWalked, ThreadType, Places
    <2>4. ASSUME NEW u \in Threads PROVE Control(u)'
      <3>1. CASE u = t
        <4>1. pc'[t] = "seed" /\ job'[t] = j /\ op'[t].kind = "none" /\ op' = op
          BY <1>7, <2>1 DEF ResetWalked, ThreadType, Control
        <4>2. ld'[t].ptr = 0
          BY <1>7 DEF ResetWalked, Control
        <4> QED BY <2>1, <3>1, <4>1, <4>2 DEF Control, LoadPlaces
      <3>2. CASE u # t
        BY <1>7, <2>1, <2>4, <3>2 DEF ResetWalked, ThreadType, Control, LoadPlaces
      <3> QED BY <3>1, <3>2
    <2> QED BY <2>2, <2>3, <2>4
  <1>8. CASE ResetDeleted(t)
    <2> DEFINE j == IF op[t].rc \in {"OK", "NOT_FOUND"} THEN job[t]
                    ELSE [job[t] EXCEPT !.pos = job[t].at + 1, !.err = TRUE]
               o == IF op[t].rc = "NOT_FOUND" THEN op[t] ELSE NoOp
    <2>1. job' = [job EXCEPT ![t] = j] /\ op' = [op EXCEPT ![t] = o]
      BY <1>8 DEF ResetDeleted
    <2>2. j \in Job /\ j.stage = "walk"
      <3>1. job[t] \in Job /\ job[t].stage = "walk" /\ job[t].at + 1 \in Nat \ {0}
        BY <1>8 DEF ResetDeleted, ThreadType, Job
      <3>2. CASE op[t].rc \in {"OK", "NOT_FOUND"}
        BY <3>1, <3>2
      <3>3. CASE op[t].rc \notin {"OK", "NOT_FOUND"}
        <4>1. j = [job[t] EXCEPT !.pos = job[t].at + 1, !.err = TRUE]
          BY <3>3
        <4> HIDE DEF j
        <4> QED BY <3>1, <4>1 DEF Job
      <3> QED BY <3>2, <3>3
    <2>3. o \in Op /\ o.kind = "none" /\ (op[t].rc = "NOT_FOUND" => o.key \in Keys)
      BY <1>8, NoneTypes DEF ResetDeleted, ThreadType, Control, NoOp
    <2> HIDE DEF j, o
    <2>4. FlashType' /\ RecordsWhole' /\ SystemType' /\ HistoryType' /\ IndexType'
      BY <1>8 DEF ResetDeleted, FlashType, RecordsWhole, SystemType, HistoryType, IndexType
    <2>5. ThreadType'
      BY <1>8, <2>1, <2>2, <2>3 DEF ResetDeleted, ThreadType, Places
    <2>6. ASSUME NEW u \in Threads PROVE Control(u)'
      <3>1. CASE u = t
        <4>1. /\ pc'[t] = IF op[t].rc = "NOT_FOUND" THEN "stale" ELSE "next"
              /\ job'[t] = j
              /\ op'[t] = o
          BY <1>8, <2>1 DEF ResetDeleted, ThreadType
        <4>2. ld'[t].ptr = 0
          BY <1>8 DEF ResetDeleted, Control
        <4> QED BY <2>2, <2>3, <3>1, <4>1, <4>2 DEF Control, LoadPlaces
      <3>2. CASE u # t
        BY <1>8, <2>1, <2>6, <3>2 DEF ResetDeleted, ThreadType, Control, LoadPlaces
      <3> QED BY <3>1, <3>2
    <2> QED BY <2>4, <2>5, <2>6
  <1>9. CASE ResetStale(t)
    <2>1. op[t].key \in Keys /\ track_delete(op[t].key)
      BY <1>9 DEF ResetStale, Control
    <2>2. /\ heap' \in Seq(Seq(Keys))
          /\ Len(heap') = Len(heap)
          /\ flashIndex' \in Seq(Ids)
      BY <2>1, TrackDelete
    <2>3. FlashType' /\ RecordsWhole' /\ SystemType' /\ HistoryType' /\ IndexType'
      BY <1>9, <2>2 DEF ResetStale, FlashType, RecordsWhole, SystemType, HistoryType, IndexType
    <2>4. ThreadType'
      BY <1>9, NoneTypes DEF ResetStale, ThreadType, Places
    <2>5. ASSUME NEW u \in Threads PROVE Control(u)'
      BY <1>9, <2>5 DEF ResetStale, ThreadType, Control, LoadPlaces, NoOp
    <2> QED BY <2>3, <2>4, <2>5
  <1> QED
    BY <1>1, <1>2, <1>3, <1>4, <1>5, <1>6, <1>7, <1>8, <1>9 DEF WalkStep

LEMMA StartSeedShape ==
  ASSUME Shape, NEW t \in Threads, NEW c \in {"defaults", "init"}, StartSeed(t, c), pc[t] = "idle",
         heap' \in Seq(Seq(Keys)), kvCtx' \in 0..Len(heap'),
         \A u \in Threads : ld[u].ptr \in 0..Len(heap')
  PROVE  Shape'
  <1> USE DEF Shape, TypeOK, flashVars, ctxVars, sysVars, walkVars
  <1> DEFINE j == [NoJob EXCEPT !.kind = c, !.stage = "get"]
  <1>1. j \in Job /\ j.kind # "iter"
    BY NoJobIdle DEF Job
  <1>2. job' = [job EXCEPT ![t] = j]
    BY DEF StartSeed
  <1> HIDE DEF j
  <1>3. FlashType' /\ RecordsWhole' /\ SystemType' /\ HistoryType' /\ IndexType'
    BY DEF StartSeed, FlashType, RecordsWhole, SystemType, HistoryType, IndexType
  <1>4. ThreadType'
    BY <1>1, <1>2 DEF StartSeed, ThreadType, Places
  <1>5. ASSUME NEW u \in Threads PROVE Control(u)'
    BY <1>1, <1>2, <1>5 DEF StartSeed, ThreadType, Control, LoadPlaces
  <1> QED BY <1>3, <1>4, <1>5

LEMMA DefaultEntry ==
  ASSUME NEW i \in Nat \ {0}, i <= Len(Defaults)
  PROVE  Defaults[i].key \in Keys /\ Defaults[i].val \in Values
  <1>1. Defaults \in Seq([key : Keys, val : Values])
    BY KvConstants
  <1> DEFINE E == [key : Keys, val : Values]
  <1>2. Defaults[i] \in E
    <2> HIDE DEF E
    <2>1. Len(Defaults) \in Nat /\ i \in 1..Len(Defaults) /\ Defaults \in Seq(E)
      BY <1>1 DEF E
    <2> QED BY <2>1
  <1> QED BY <1>2

LEMMA SeedStepShape ==
  ASSUME Shape, NEW t \in Threads, SeedStep(t)
  PROVE  Shape'
  <1>1. CASE CallDefaults(t)
    <2>1. heap' \in Seq(Seq(Keys)) /\ kvCtx' \in 0..Len(heap')
      BY <1>1 DEF CallDefaults, ctxVars, Shape, TypeOK, IndexType
    <2>2. \A u \in Threads : ld[u].ptr \in 0..Len(heap')
      BY <1>1 DEF CallDefaults, ctxVars, Shape, TypeOK, IndexType
    <2> QED BY <1>1, <2>1, <2>2, StartSeedShape DEF CallDefaults, MayCall
  <1>2. CASE CallInit(t)
    <2>1. heap' \in Seq(Seq(Keys)) /\ kvCtx' \in 0..Len(heap')
      BY <1>2 DEF CallInit
    <2>2. \A u \in Threads : ld[u].ptr \in 0..Len(heap')
      <3>1. \A u \in Threads : ld[u].ptr = 0
        BY <1>2 DEF CallInit, Shape, Control
      <3>2. heap' = <<>> /\ Len(heap') = 0
        BY <1>2 DEF CallInit
      <3> QED BY <3>1, <3>2
    <2> QED BY <1>2, <2>1, <2>2, StartSeedShape DEF CallInit
  <1>3. CASE SeedGet(t)
    <2>1. job[t] \in Job /\ job[t].pos \in Nat \ {0} /\ job[t].pos <= Len(Defaults)
      BY <1>3 DEF SeedGet, Shape, TypeOK, ThreadType, Job
    <2>2. job[t].kind = "iter" => job[t].stage = "walk"
      BY DEF Shape, Control
    <2>3. Defaults[job[t].pos].key \in Keys
      BY <2>1, DefaultEntry
    <2> QED BY <1>3, <2>1, <2>2, <2>3, EnterShape DEF SeedGet
  <1>4. CASE SeedMissing(t)
    <2> DEFINE j == [job[t] EXCEPT !.stage = "set"]
               v == Defaults[job[t].pos].val
    <2>1. job[t] \in Job /\ job[t].pos \in Nat \ {0} /\ job[t].stage = "get"
      BY <1>4 DEF SeedMissing, Shape, TypeOK, ThreadType, Job
    <2>2. job[t].kind # "iter" /\ job[t].pos <= Len(Defaults) /\ op[t].key \in Keys
      BY <1>4, <2>1 DEF SeedMissing, Shape, Control
    <2>3. j \in Job /\ j.kind # "iter" /\ j.pos <= Len(Defaults)
      BY <2>1, <2>2 DEF Job
    <2>4. v \in Values
      BY <2>1, <2>2, DefaultEntry
    <2>5. Enter(t, j, "set", op[t].key, v)
      BY <1>4 DEF SeedMissing
    <2> HIDE DEF j, v
    <2> QED BY <1>4, <2>2, <2>3, <2>4, <2>5, EnterShape DEF SeedMissing
  <1> USE DEF Shape, TypeOK, flashVars, ctxVars, sysVars, walkVars
  <1>5. CASE SeedSkip(t)
    <2> DEFINE j == [job[t] EXCEPT !.pos = job[t].pos + 1]
    <2>1. job[t] \in Job /\ job[t].pos + 1 \in Nat \ {0} /\ job[t].kind = "reset"
      BY <1>5 DEF SeedSkip, ThreadType, Job
    <2>2. j \in Job /\ j.kind = "reset" /\ job' = [job EXCEPT ![t] = j]
      BY <1>5, <2>1 DEF SeedSkip, Job
    <2> HIDE DEF j
    <2>3. FlashType' /\ RecordsWhole' /\ SystemType' /\ HistoryType' /\ IndexType'
      BY <1>5 DEF SeedSkip, FlashType, RecordsWhole, SystemType, HistoryType, IndexType
    <2>4. ThreadType'
      BY <1>5, <2>2 DEF SeedSkip, ThreadType
    <2>5. ASSUME NEW u \in Threads PROVE Control(u)'
      BY <1>5, <2>2, <2>5 DEF SeedSkip, ThreadType, Control, LoadPlaces
    <2> QED BY <2>3, <2>4, <2>5
  <1>6. CASE SeedEntryDone(t)
    <2> DEFINE b == job[t].err \/ op[t].rc # "OK"
               j == [job[t] EXCEPT !.stage = "get", !.pos = job[t].pos + 1, !.err = b]
    <2>1. job[t] \in Job /\ job[t].pos + 1 \in Nat \ {0} /\ job[t].kind # "iter"
      BY <1>6 DEF SeedEntryDone, ThreadType, Job, Control
    <2>2. b \in BOOLEAN
      OBVIOUS
    <2>3. job' = [job EXCEPT ![t] = j]
      BY <1>6 DEF SeedEntryDone
    <2> HIDE DEF b
    <2>4. j \in Job /\ j.kind # "iter"
      BY <2>1, <2>2 DEF Job
    <2> HIDE DEF j
    <2>5. FlashType' /\ RecordsWhole' /\ SystemType' /\ HistoryType' /\ IndexType'
      BY <1>6 DEF SeedEntryDone, FlashType, RecordsWhole, SystemType, HistoryType, IndexType
    <2>6. ThreadType'
      BY <1>6, <2>3, <2>4, NoneTypes DEF SeedEntryDone, ThreadType, Places
    <2>7. ASSUME NEW u \in Threads PROVE Control(u)'
      BY <1>6, <2>3, <2>4, <2>7 DEF SeedEntryDone, ThreadType, Control, LoadPlaces, NoOp
    <2> QED BY <2>5, <2>6, <2>7
  <1>7. CASE SeedEnd(t)
    <2>1. booted' \in BOOLEAN
      BY <1>7 DEF SeedEnd, SystemType
    <2>2. FlashType' /\ RecordsWhole' /\ SystemType' /\ HistoryType' /\ IndexType'
      BY <1>7, <2>1 DEF SeedEnd, FlashType, RecordsWhole, SystemType, HistoryType, IndexType
    <2>3. ThreadType'
      BY <1>7, NoneTypes DEF SeedEnd, ThreadType, Places
    <2>4. ASSUME NEW u \in Threads PROVE Control(u)'
      BY <1>7, <2>4 DEF SeedEnd, ThreadType, Control, LoadPlaces, NoJob
    <2> QED BY <2>2, <2>3, <2>4
  <1> QED
    BY <1>1, <1>2, <1>3, <1>4, <1>5, <1>6, <1>7 DEF SeedStep

LEMMA PowerLossShape == Shape /\ PowerLoss => Shape'
  <1> SUFFICES ASSUME Shape, PowerLoss PROVE Shape'
    OBVIOUS
  <1> USE DEF Shape, TypeOK, flashVars, ctxVars, sysVars, walkVars
  <1>1. FlashType' /\ RecordsWhole'
    BY DEF PowerLoss, FlashType, RecordsWhole
  <1>2. IndexType'
    BY DEF PowerLoss, IndexType, NoLoad
  <1>3. ThreadType'
    BY NoneTypes DEF PowerLoss, ThreadType, Places
  <1>4. boots' \in 0..MaxBoots /\ booted' \in BOOLEAN
    <2>1. MaxBoots \in Nat /\ boots \in 0..MaxBoots /\ boots < MaxBoots /\ boots' = boots + 1
      BY KvConstants DEF PowerLoss, SystemType
    <2>2. booted' \in BOOLEAN
      BY DEF PowerLoss
    <2> QED BY <2>1, <2>2
  <1>5. HistoryType'
    BY DEF PowerLoss, HistoryType
  <1>6. ASSUME NEW t \in Threads PROVE Control(t)'
    BY <1>6 DEF PowerLoss, Control, NoOp, NoJob, NoLoad, LoadPlaces
  <1> QED BY <1>1, <1>2, <1>3, <1>4, <1>5, <1>6 DEF SystemType

LEMMA ShapeStep == Shape /\ [Next]_vars => Shape'
  <1> SUFFICES ASSUME Shape, [Next]_vars PROVE Shape'
    OBVIOUS
  <1>1. CASE UNCHANGED vars
    BY <1>1 DEF vars, Shape, TypeOK, FlashType, IndexType, ThreadType, SystemType, HistoryType,
                RecordsWhole, Control
  <1>2. CASE PowerLoss
    BY <1>2, PowerLossShape
  <1>3. CASE \E t \in Threads : IndexStep(t) \/ OpStep(t) \/ WalkStep(t) \/ SeedStep(t)
    BY <1>3, IndexStepShape, OpStepShape, WalkStepShape, SeedStepShape
  <1> QED BY <1>1, <1>2, <1>3 DEF Next

(* Type correctness of the key-value store, for every value of the constants: *)
(* whatever threads, faults and power losses do, every variable stays in its  *)
(* range, db->kv_ctx and the contexts threads work on are allocated ones.     *)
THEOREM TypeCorrect == Spec => []TypeOK
  <1>1. Shape => TypeOK
    BY DEF Shape
  <1> QED
    BY <1>1, ShapeInit, ShapeStep, PTL DEF Spec

--------------------------------------------------------------------------------
(* The store implements the map *)

(* Thread t is between the lock and the unlock of a set or delete. *)
SetPlaces == {"ctx", "alloc", "load", "scan", "track", "write"}
Holds(t) ==
  \/ op[t].kind = "set" /\ pc[t] \in SetPlaces \cup {"drop"}
  \/ pc[t] \in {"unindex", "out"}
Exclusive == \A t \in Threads : Holds(t) => lock = t

(* A set that passed the pre-read of its slot has nobody else's record in it. *)
Claimed(t) ==
  (op[t].kind = "set" /\ pc[t] \in SetPlaces /\ rec[IdOf[op[t].key]].kind = "kv")
     => rec[IdOf[op[t].key]].key = op[t].key

(* The status a set or delete carries on its way. *)
Status(t) ==
  /\ op[t].kind \in {"set", "delete"} /\ pc[t] \in SetPlaces \cup {"lock", "unindex"}
        => op[t].rc = "OK"
  /\ pc[t] = "drop" => op[t].rc = "IO"

(* The inductive invariant of the refinement. *)
MapInv == Shape /\ Exclusive /\ \A t \in Threads : Claimed(t) /\ Status(t)

--------------------------------------------------------------------------------
(* A step of thread t leaves the place and the operation of the others alone. *)
Local(t) == \A u \in Threads \ {t} : pc'[u] = pc[u] /\ op'[u] = op[u]

LEMMA FinishLocal ==
  ASSUME Shape, NEW t \in Threads, NEW j, NEW k, NEW s, Finish(t, j, k, s)
  PROVE  Local(t)
  BY DEF Finish, Local, Shape, TypeOK, ThreadType

LEMMA EnterLocal ==
  ASSUME Shape, NEW t \in Threads, NEW j, NEW o, NEW k, NEW v, Enter(t, j, o, k, v)
  PROVE  Local(t) /\ UNCHANGED <<rec, lock>>
  BY FinishLocal DEF Enter, Local, Shape, TypeOK, ThreadType, flashVars

LEMMA IndexStepLocal ==
  ASSUME Shape, NEW t \in Threads, IndexStep(t)
  PROVE  Local(t) /\ UNCHANGED <<rec, lock, op>>
  BY DEF IndexStep, CtxCheck, CtxAlloc, CtxAllocFails, LoadBegin, LoadEntry, LoadEnd, HaveCtx,
         Local, Shape, TypeOK, ThreadType, flashVars

LEMMA OpStepLocal ==
  ASSUME Shape, NEW t \in Threads, OpStep(t)
  PROVE  Local(t)
  <1> USE DEF Local, Shape, TypeOK, ThreadType
  <1>1. CASE CallSet(t) \/ CallGet(t) \/ CallDelete(t)
    BY <1>1, EnterLocal DEF CallSet, CallGet, CallDelete
  <1>2. CASE SetLock(t)
    BY <1>2, FinishLocal DEF SetLock
  <1>3. CASE SetTrack(t) \/ SetWrite(t) \/ SetWriteFails(t) \/ SetDrop(t)
    BY <1>3 DEF SetTrack, SetWrite, SetWriteFails, SetDrop
  <1>4. CASE Out(t) \/ Get(t) \/ DeleteRefused(t)
    BY <1>4, FinishLocal DEF Out, Get, DeleteRefused
  <1>5. CASE DeleteErase(t) \/ DeleteUnindex(t)
    BY <1>5 DEF DeleteErase, DeleteUnindex
  <1> QED BY <1>1, <1>2, <1>3, <1>4, <1>5 DEF OpStep

LEMMA WalkStepLocal ==
  ASSUME Shape, NEW t \in Threads, WalkStep(t)
  PROVE  Local(t) /\ UNCHANGED <<rec, lock>>
  <1>1. CASE IterNext(t) \/ ResetNext(t)
    BY <1>1, EnterLocal DEF IterNext, ResetNext
  <1> USE DEF Shape, TypeOK, ThreadType, flashVars
  <1>2. CASE IterClose(t) \/ ResetReturn(t)
    BY <1>2 DEF IterClose, ResetReturn, EndWalk, Local
  <1>3. CASE CallWalk(t, "iter") \/ CallWalk(t, "reset")
    BY <1>3 DEF CallWalk, Local
  <1>4. CASE IterEnd(t) \/ IterGot(t)
    BY <1>4 DEF IterEnd, IterGot, Local
  <1>5. CASE ResetWalked(t) \/ ResetDeleted(t) \/ ResetStale(t)
    BY <1>5 DEF ResetWalked, ResetDeleted, ResetStale, Local
  <1> QED BY <1>1, <1>2, <1>3, <1>4, <1>5 DEF WalkStep

LEMMA SeedStepLocal ==
  ASSUME Shape, NEW t \in Threads, SeedStep(t)
  PROVE  Local(t) /\ UNCHANGED <<rec, lock>>
  <1>1. CASE SeedGet(t) \/ SeedMissing(t)
    BY <1>1, EnterLocal DEF SeedGet, SeedMissing
  <1> USE DEF Shape, TypeOK, ThreadType, flashVars
  <1>2. CASE CallDefaults(t) \/ CallInit(t)
    BY <1>2 DEF CallDefaults, CallInit, StartSeed, Local
  <1>3. CASE SeedSkip(t) \/ SeedEntryDone(t) \/ SeedEnd(t)
    BY <1>3 DEF SeedSkip, SeedEntryDone, SeedEnd, Local
  <1> QED BY <1>1, <1>2, <1>3 DEF SeedStep

--------------------------------------------------------------------------------
(* Where Finish() and Enter() leave a thread. *)

LEMMA FinishResult ==
  ASSUME Shape, NEW t \in Threads, NEW j, NEW k, NEW s, Finish(t, j, k, s)
  PROVE  pc'[t] \in {"idle", "ret"} /\ op'[t].kind = "none"
  BY DEF Finish, NoOp, Shape, TypeOK, ThreadType

LEMMA EnterResult ==
  ASSUME Shape, NEW t \in Threads, NEW j, NEW o, NEW k, NEW v, Enter(t, j, o, k, v)
  PROVE  \/ pc'[t] \in {"idle", "ret"} /\ op'[t].kind = "none"
         \/ /\ pc'[t] = "lock"
            /\ op'[t].kind = o /\ op'[t].key = k /\ op'[t].val = v /\ op'[t].rc = "OK"
  <1>1. CASE FreeBlocks > 0
    BY <1>1 DEF Enter, NoOp, Shape, TypeOK, ThreadType
  <1>2. CASE ~(FreeBlocks > 0)
    BY <1>2, FinishResult DEF Enter
  <1> QED BY <1>1, <1>2

(* A thread in a walk or a defaults pass holds no lock between two of its       *)
(* operations.                                                                  *)
LEMMA WalkStepResult ==
  ASSUME Shape, NEW t \in Threads, WalkStep(t)
  PROVE  /\ op[t].kind = "none" \/ pc[t] \in {"exhausted", "reset_done"}
         /\ pc[t] \notin {"unindex", "out", "drop", "lock"}
         /\ \/ pc'[t] \in {"idle", "ctx", "next", "stale", "seed", "exhausted", "ret"}
               /\ (op'[t].kind = "none" \/ pc'[t] = "exhausted")
            \/ pc'[t] = "lock" /\ op'[t].kind = "get"
            \/ /\ pc'[t] = "lock" /\ op'[t].kind = "delete" /\ op'[t].rc = "OK"
               /\ op'[t].val = NoVal
  <1> USE DEF Shape, Control
  <1>1. CASE IterNext(t)
    <2>1. PICK j, k : Enter(t, j, "get", k, NoVal)
      BY <1>1 DEF IterNext
    <2> QED BY <1>1, <2>1, EnterResult DEF IterNext
  <1>2. CASE ResetNext(t)
    <2>1. PICK j, k : Enter(t, j, "delete", k, NoVal)
      BY <1>2 DEF ResetNext
    <2> QED BY <1>2, <2>1, EnterResult DEF ResetNext
  <1> USE DEF TypeOK, ThreadType
  <1>3. CASE IterClose(t) \/ ResetReturn(t)
    BY <1>3 DEF IterClose, ResetReturn, EndWalk, NoOp
  <1>4. CASE CallWalk(t, "iter") \/ CallWalk(t, "reset")
    BY <1>4 DEF CallWalk, MayCall
  <1>5. CASE IterEnd(t) \/ IterGot(t)
    BY <1>5 DEF IterEnd, IterGot, NoOp
  <1>6. CASE ResetWalked(t) \/ ResetDeleted(t) \/ ResetStale(t)
    BY <1>6 DEF ResetWalked, ResetDeleted, ResetStale, NoOp
  <1> QED BY <1>1, <1>2, <1>3, <1>4, <1>5, <1>6 DEF WalkStep

LEMMA SeedStepResult ==
  ASSUME Shape, NEW t \in Threads, SeedStep(t)
  PROVE  /\ op[t].kind = "none"
         /\ pc[t] \in {"idle", "seed", "ret"}
         /\ \/ pc'[t] \in {"idle", "seed", "ret", "reset_done"} /\ op'[t].kind = "none"
            \/ pc'[t] = "lock" /\ op'[t].kind = "get"
            \/ /\ pc'[t] = "lock" /\ op'[t].kind = "set" /\ op'[t].rc = "OK"
               /\ op'[t].val \in Values
  <1> USE DEF Shape, Control
  <1>1. CASE SeedGet(t)
    <2>1. PICK j, k : Enter(t, j, "get", k, NoVal)
      BY <1>1 DEF SeedGet
    <2> QED BY <1>1, <2>1, EnterResult DEF SeedGet
  <1>2. CASE SeedMissing(t)
    <2>1. job[t].pos \in 1..Len(Defaults)
      BY <1>2 DEF SeedMissing, TypeOK, ThreadType, Job
    <2>2. Defaults[job[t].pos].val \in Values
      BY <2>1, DefaultEntry
    <2>3. PICK j, k : Enter(t, j, "set", k, Defaults[job[t].pos].val)
      BY <1>2 DEF SeedMissing
    <2> QED BY <1>2, <2>2, <2>3, EnterResult DEF SeedMissing
  <1> USE DEF TypeOK, ThreadType
  <1>3. CASE CallDefaults(t) \/ CallInit(t)
    BY <1>3 DEF CallDefaults, CallInit, StartSeed, MayCall
  <1>4. CASE SeedSkip(t) \/ SeedEntryDone(t) \/ SeedEnd(t)
    BY <1>4 DEF SeedSkip, SeedEntryDone, SeedEnd, NoOp
  <1> QED BY <1>1, <1>2, <1>3, <1>4 DEF SeedStep

LEMMA IndexStepResult ==
  ASSUME Shape, NEW t \in Threads, IndexStep(t)
  PROVE  /\ op[t].kind \in {"none", "set"}
         /\ pc[t] \in LoadPlaces
         /\ op[t].kind = "set" => pc'[t] \in SetPlaces
         /\ op[t].kind = "none" => pc'[t] \in LoadPlaces \cup {"next", "idle"}
  BY DEF IndexStep, CtxCheck, CtxAlloc, CtxAllocFails, LoadBegin, LoadEntry, LoadEnd, HaveCtx,
         Shape, Control, TypeOK, ThreadType, LoadPlaces, SetPlaces

--------------------------------------------------------------------------------
(* Mutual exclusion of sets and deletes, faults or not. *)

LEMMA StaysExclusive ==
  ASSUME Exclusive, NEW t \in Threads, Local(t), UNCHANGED lock, Holds(t)' => Holds(t)
  PROVE  Exclusive'
  BY DEF Exclusive, Local, Holds

LEMMA TakesLock ==
  ASSUME Exclusive, NEW t \in Threads, Local(t), lock = NoThread, lock' = t
  PROVE  Exclusive'
  BY KvConstants DEF Exclusive, Local, Holds

LEMMA OpStepExclusive ==
  ASSUME Shape, Exclusive, NEW t \in Threads, OpStep(t)
  PROVE  Exclusive'
  <1>l. Local(t)
    BY OpStepLocal
  <1> USE DEF Holds, SetPlaces
  <1>1. CASE CallSet(t) \/ CallGet(t) \/ CallDelete(t)
    <2>1. PICK j, o, k, v : Enter(t, j, o, k, v)
      BY <1>1 DEF CallSet, CallGet, CallDelete
    <2>2. ~Holds(t)' /\ UNCHANGED lock
      BY <2>1, EnterResult, EnterLocal
    <2> QED BY <1>l, <2>2, StaysExclusive
  <1>2. CASE SetLock(t)
    <2>1. CASE lock' = t
      BY <1>l, <1>2, <2>1, TakesLock DEF SetLock
    <2>2. CASE Finish(t, job[t], op[t].key, "COLLISION") /\ UNCHANGED lock
      BY <1>l, <2>2, FinishResult, StaysExclusive
    <2> QED BY <1>2, <2>1, <2>2 DEF SetLock
  <1>3. CASE SetTrack(t) \/ SetWrite(t) \/ SetWriteFails(t) \/ SetDrop(t)
    <2>1. Holds(t)
      BY <1>3 DEF SetTrack, SetWrite, SetWriteFails, SetDrop, Shape, Control
    <2>2. UNCHANGED lock
      BY <1>3 DEF SetTrack, SetWrite, SetWriteFails, SetDrop
    <2> HIDE DEF Holds
    <2> QED BY <1>l, <2>1, <2>2, StaysExclusive
  <1>4. CASE Get(t) \/ DeleteRefused(t)
    <2>1. UNCHANGED lock /\ \E s : Finish(t, job[t], op[t].key, s)
      BY <1>4 DEF Get, DeleteRefused
    <2> QED BY <1>l, <2>1, FinishResult, StaysExclusive
  <1>5. CASE Out(t)
    <2>1. lock = t /\ Finish(t, job[t], op[t].key, op[t].rc)
      BY <1>5 DEF Out, Exclusive
    <2>2. ~Holds(t)'
      BY <2>1, FinishResult
    <2>3. ASSUME NEW u \in Threads, u # t PROVE ~Holds(u)'
      BY <1>l, <2>1, <2>3 DEF Exclusive, Local
    <2> QED BY <2>2, <2>3 DEF Exclusive
  <1>6. CASE DeleteErase(t)
    BY <1>l, <1>6, TakesLock DEF DeleteErase
  <1>7. CASE DeleteUnindex(t)
    BY <1>l, <1>7, StaysExclusive DEF DeleteUnindex
  <1> QED BY <1>1, <1>2, <1>3, <1>4, <1>5, <1>6, <1>7 DEF OpStep

LEMMA ExclusiveStep ==
  ASSUME Shape, Exclusive, [Next]_vars
  PROVE  Exclusive'
  <1>1. CASE UNCHANGED vars
    BY <1>1 DEF vars, Exclusive, Holds
  <1>2. CASE PowerLoss
    BY <1>2 DEF PowerLoss, Exclusive, Holds, NoOp
  <1>3. ASSUME NEW t \in Threads, OpStep(t) PROVE Exclusive'
    BY <1>3, OpStepExclusive
  <1>4. ASSUME NEW t \in Threads, IndexStep(t) PROVE Exclusive'
    <2>1. Local(t) /\ UNCHANGED <<lock, op>>
      BY <1>4, IndexStepLocal
    <2>2. Holds(t)' => Holds(t)
      BY <1>4, <2>1, IndexStepResult DEF Holds, SetPlaces, LoadPlaces
    <2> QED BY <2>1, <2>2, StaysExclusive
  <1>5. ASSUME NEW t \in Threads, WalkStep(t) PROVE Exclusive'
    <2>1. Local(t) /\ UNCHANGED lock
      BY <1>5, WalkStepLocal
    <2>2. ~Holds(t)'
      BY <1>5, WalkStepResult DEF Holds, SetPlaces
    <2> QED BY <2>1, <2>2, StaysExclusive
  <1>6. ASSUME NEW t \in Threads, SeedStep(t) PROVE Exclusive'
    <2>1. Local(t) /\ UNCHANGED lock
      BY <1>6, SeedStepLocal
    <2>2. ~Holds(t)'
      BY <1>6, SeedStepResult DEF Holds, SetPlaces
    <2> QED BY <2>1, <2>2, StaysExclusive
  <1> QED BY <1>1, <1>2, <1>3, <1>4, <1>5, <1>6 DEF Next

--------------------------------------------------------------------------------
(* The invariant of the refinement. *)

LEMMA StatusStep ==
  ASSUME Shape, NEW t \in Threads, \A u \in Threads : Status(u),
         IndexStep(t) \/ OpStep(t) \/ WalkStep(t) \/ SeedStep(t)
  PROVE  \A u \in Threads : Status(u)'
  <1>1. Local(t)
    BY IndexStepLocal, OpStepLocal, WalkStepLocal, SeedStepLocal
  <1> SUFFICES Status(t)'
    BY <1>1 DEF Status, Local
  <1>2. CASE IndexStep(t)
    BY <1>2, IndexStepLocal, IndexStepResult DEF Status, SetPlaces, LoadPlaces
  <1>3. CASE WalkStep(t)
    BY <1>3, WalkStepResult DEF Status, SetPlaces
  <1>4. CASE SeedStep(t)
    BY <1>4, SeedStepResult DEF Status, SetPlaces
  <1>5. CASE CallSet(t) \/ CallGet(t) \/ CallDelete(t)
    <2>1. PICK j, o, k, v : Enter(t, j, o, k, v)
      BY <1>5 DEF CallSet, CallGet, CallDelete
    <2> QED BY <2>1, EnterResult DEF Status, SetPlaces
  <1>6. CASE Get(t) \/ DeleteRefused(t) \/ Out(t)
    <2>1. \E s : Finish(t, job[t], op[t].key, s)
      BY <1>6 DEF Get, DeleteRefused, Out
    <2> QED BY <2>1, FinishResult DEF Status
  <1>7. CASE SetLock(t)
    <2>1. CASE Finish(t, job[t], op[t].key, "COLLISION")
      BY <2>1, FinishResult DEF Status
    <2>2. CASE pc' = [pc EXCEPT ![t] = "ctx"] /\ UNCHANGED op
      BY <1>7, <2>2 DEF SetLock, Status, Shape, TypeOK, ThreadType
    <2> QED BY <1>7, <2>1, <2>2 DEF SetLock
  <1>8. CASE SetTrack(t) \/ SetWrite(t) \/ SetWriteFails(t) \/ SetDrop(t)
    BY <1>8 DEF SetTrack, SetWrite, SetWriteFails, SetDrop, Status, SetPlaces, Shape, Control,
                TypeOK, ThreadType, Op
  <1>9. CASE DeleteErase(t) \/ DeleteUnindex(t)
    BY <1>9 DEF DeleteErase, DeleteUnindex, Status, SetPlaces, Shape, TypeOK, ThreadType
  <1> QED BY <1>2, <1>3, <1>4, <1>5, <1>6, <1>7, <1>8, <1>9 DEF OpStep

LEMMA ClaimedKept ==
  ASSUME \A u \in Threads : Claimed(u), NEW t \in Threads, Local(t), UNCHANGED rec, Claimed(t)'
  PROVE  \A u \in Threads : Claimed(u)'
  BY DEF Claimed, Local

(* A write happens while no other thread is inside a set. *)
LEMMA ClaimedAlone ==
  ASSUME Exclusive, NEW t \in Threads, Local(t), lock \in {t, NoThread}, Claimed(t)'
  PROVE  \A u \in Threads : Claimed(u)'
  BY KvConstants DEF Claimed, Local, Exclusive, Holds

LEMMA ClaimedStep ==
  ASSUME "read" \notin Faults, Shape, Exclusive, NEW t \in Threads,
         \A u \in Threads : Claimed(u),
         IndexStep(t) \/ OpStep(t) \/ WalkStep(t) \/ SeedStep(t)
  PROVE  \A u \in Threads : Claimed(u)'
  <1>l. Local(t)
    BY IndexStepLocal, OpStepLocal, WalkStepLocal, SeedStepLocal
  <1>1. CASE IndexStep(t)
    <2>1. UNCHANGED <<rec, op>>
      BY <1>1, IndexStepLocal
    <2>2. Claimed(t)'
      BY <1>1, <2>1, IndexStepResult DEF Claimed, SetPlaces, LoadPlaces
    <2> QED BY <1>l, <2>1, <2>2, ClaimedKept
  <1>2. CASE WalkStep(t)
    <2>1. UNCHANGED rec
      BY <1>2, WalkStepLocal
    <2>2. Claimed(t)'
      BY <1>2, WalkStepResult DEF Claimed, SetPlaces
    <2> QED BY <1>l, <2>1, <2>2, ClaimedKept
  <1>3. CASE SeedStep(t)
    <2>1. UNCHANGED rec
      BY <1>3, SeedStepLocal
    <2>2. Claimed(t)'
      BY <1>3, SeedStepResult DEF Claimed, SetPlaces
    <2> QED BY <1>l, <2>1, <2>2, ClaimedKept
  <1>4. CASE CallSet(t) \/ CallGet(t) \/ CallDelete(t)
    <2>1. PICK j, o, k, v : Enter(t, j, o, k, v)
      BY <1>4 DEF CallSet, CallGet, CallDelete
    <2>2. Claimed(t)' /\ UNCHANGED rec
      BY <2>1, EnterResult, EnterLocal DEF Claimed, SetPlaces
    <2> QED BY <1>l, <2>2, ClaimedKept
  <1>5. CASE Get(t) \/ DeleteRefused(t) \/ Out(t)
    <2>1. UNCHANGED rec /\ \E s : Finish(t, job[t], op[t].key, s)
      BY <1>5 DEF Get, DeleteRefused, Out, flashVars
    <2>2. Claimed(t)'
      BY <2>1, FinishResult DEF Claimed
    <2> QED BY <1>l, <2>1, <2>2, ClaimedKept
  <1>6. CASE SetLock(t)
    <2>1. UNCHANGED rec
      BY <1>6 DEF SetLock, flashVars
    <2>2. CASE Finish(t, job[t], op[t].key, "COLLISION")
      BY <1>l, <2>1, <2>2, FinishResult, ClaimedKept DEF Claimed
    <2>3. CASE /\ record_check(rec[IdOf[op[t].key]], op[t].key) # "MISMATCH"
               /\ UNCHANGED op
      BY <1>l, <2>1, <2>3, ClaimedKept DEF Claimed, record_check
    <2> QED BY <1>6, <2>2, <2>3 DEF SetLock, Outcomes
  <1>7. CASE SetTrack(t) \/ SetWriteFails(t) \/ SetDrop(t)
    <2>1. UNCHANGED rec
      BY <1>7 DEF SetTrack, SetWriteFails, SetDrop, flashVars
    <2>2. op'[t].kind = op[t].kind /\ op'[t].key = op[t].key
      BY <1>7 DEF SetTrack, SetWriteFails, SetDrop, Shape, TypeOK, ThreadType, Op
    <2>3. pc'[t] \in SetPlaces => pc[t] \in SetPlaces
      BY <1>7 DEF SetTrack, SetWriteFails, SetDrop, SetPlaces, Shape, TypeOK, ThreadType
    <2>4. Claimed(t)'
      BY <2>1, <2>2, <2>3 DEF Claimed
    <2> QED BY <1>l, <2>1, <2>4, ClaimedKept
  <1>8. CASE SetWrite(t)
    <2>1. lock = t
      BY <1>8 DEF SetWrite, Exclusive, Holds, SetPlaces, Shape, Control
    <2>2. Claimed(t)'
      BY <1>8 DEF SetWrite, Claimed, SetPlaces, Shape, TypeOK, ThreadType
    <2> QED BY <1>l, <2>1, <2>2, ClaimedAlone
  <1>9. CASE DeleteErase(t)
    <2>1. lock = NoThread
      BY <1>9 DEF DeleteErase
    <2>2. Claimed(t)'
      BY <1>9 DEF DeleteErase, Claimed, SetPlaces, Shape, TypeOK, ThreadType
    <2> QED BY <1>l, <2>1, <2>2, ClaimedAlone
  <1>10. CASE DeleteUnindex(t)
    <2>1. UNCHANGED rec /\ Claimed(t)'
      BY <1>10 DEF DeleteUnindex, Claimed, SetPlaces, Shape, TypeOK, ThreadType
    <2> QED BY <1>l, <2>1, ClaimedKept
  <1> QED BY <1>1, <1>2, <1>3, <1>4, <1>5, <1>6, <1>7, <1>8, <1>9, <1>10 DEF OpStep

LEMMA MapInvInit == Init => MapInv
  <1> SUFFICES ASSUME Init PROVE MapInv
    OBVIOUS
  <1>1. Shape
    BY ShapeInit
  <1>2. Exclusive
    BY DEF Init, Exclusive, Holds, NoOp
  <1>3. ASSUME NEW t \in Threads PROVE Claimed(t) /\ Status(t)
    BY <1>3 DEF Init, Claimed, Status, SetPlaces, NoOp
  <1> QED BY <1>1, <1>2, <1>3 DEF MapInv

LEMMA MapInvStep ==
  ASSUME "read" \notin Faults
  PROVE  MapInv /\ [Next]_vars => MapInv'
  <1> SUFFICES ASSUME MapInv, [Next]_vars PROVE MapInv'
    OBVIOUS
  <1>1. Shape /\ Exclusive /\ \A t \in Threads : Claimed(t) /\ Status(t)
    BY DEF MapInv
  <1>2. Shape' /\ Exclusive'
    BY <1>1, ShapeStep, ExclusiveStep
  <1>3. CASE UNCHANGED vars
    BY <1>1, <1>2, <1>3 DEF vars, Claimed, Status, MapInv
  <1>4. CASE PowerLoss
    <2>1. ASSUME NEW t \in Threads PROVE Claimed(t)' /\ Status(t)'
      BY <1>4, <2>1 DEF PowerLoss, Claimed, Status, SetPlaces, NoOp
    <2> QED BY <1>2, <2>1 DEF MapInv
  <1>5. CASE \E t \in Threads : IndexStep(t) \/ OpStep(t) \/ WalkStep(t) \/ SeedStep(t)
    BY <1>1, <1>2, <1>5, StatusStep, ClaimedStep DEF MapInv
  <1> QED BY <1>3, <1>4, <1>5 DEF Next

--------------------------------------------------------------------------------
(* The refinement mapping, thread by thread. *)

ReqOf(t) ==
  IF Pending(t) \/ Effective(t)
  THEN [op |-> op[t].kind, key |-> op[t].key, val |-> op[t].val, done |-> Effective(t)]
  ELSE NoReq

LEMMA RequestsAre == Requests = [t \in Threads |-> ReqOf(t)]
  BY DEF Requests, ReqOf

(* What a place and an operation mean to the map. *)
LEMMA PendingReq ==
  ASSUME NEW t \in Threads, Pending(t)
  PROVE  ReqOf(t) = [op |-> op[t].kind, key |-> op[t].key, val |-> op[t].val, done |-> FALSE]
  BY DEF ReqOf, Pending, Effective

LEMMA EffectiveReq ==
  ASSUME NEW t \in Threads, Effective(t)
  PROVE  ReqOf(t) = [op |-> op[t].kind, key |-> op[t].key, val |-> op[t].val, done |-> TRUE]
  BY DEF ReqOf

LEMMA NoRequest ==
  ASSUME NEW t \in Threads, ~Pending(t), ~Effective(t)
  PROVE  ReqOf(t) = NoReq
  BY DEF ReqOf

LEMMA RequestType ==
  ASSUME Shape, NEW t \in Threads, Pending(t) \/ Effective(t)
  PROVE  /\ op[t].kind \in {"set", "delete"} /\ op[t].key \in Keys
         /\ op[t].val \in Values \cup {NoVal}
         /\ ReqOf(t) # NoReq
  <1>1. op[t].kind \in {"set", "delete"}
    BY DEF Pending, Effective
  <1>2. op[t].key \in Keys /\ op[t].val \in Values \cup {NoVal}
    BY <1>1 DEF Shape, Control, TypeOK, ThreadType, Op
  <1>3. Effective(t) \in BOOLEAN
    BY DEF Effective
  <1>4. ReqOf(t) = [op |-> op[t].kind, key |-> op[t].key, val |-> op[t].val,
                    done |-> Effective(t)]
    BY DEF ReqOf
  <1> QED BY <1>1, <1>2, <1>3, <1>4, NoReqAssumption

(* Thread t alone moves: the other requests stay. *)
LEMMA OthersKeep ==
  ASSUME NEW t \in Threads, Local(t)
  PROVE  Requests' = [Requests EXCEPT ![t] = ReqOf(t)']
  <1>1. \A u \in Threads \ {t} : ReqOf(u)' = ReqOf(u)
    BY DEF Local, ReqOf, Pending, Effective
  <1>2. Requests = [u \in Threads |-> ReqOf(u)] /\ Requests' = [u \in Threads |-> ReqOf(u)']
    BY DEF Requests, ReqOf
  <1> QED BY <1>1, <1>2

LEMMA Stutters ==
  ASSUME NEW t \in Threads, Local(t), UNCHANGED rec, ReqOf(t)' = ReqOf(t)
  PROVE  UNCHANGED Map!vars
  <1>1. UNCHANGED StoredMap
    BY DEF StoredMap, Stored
  <1>2. UNCHANGED Requests
    BY OthersKeep, RequestsAre
  <1> QED BY <1>1, <1>2 DEF Map!vars

LEMMA Begins ==
  ASSUME Shape', NEW t \in Threads, Local(t), UNCHANGED rec, ReqOf(t) = NoReq, Pending(t)'
  PROVE  Map!Call(t)
  <1>1. UNCHANGED StoredMap
    BY DEF StoredMap, Stored
  <1> DEFINE r == [op |-> op'[t].kind, key |-> op'[t].key, val |-> op'[t].val, done |-> FALSE]
  <1>2. ReqOf(t)' = r
    BY DEF ReqOf, Pending, Effective
  <1>3. op'[t].kind \in {"set", "delete"}
    BY DEF Pending
  <1>4. op'[t].key \in Keys /\ op'[t].val \in Values \cup {NoVal}
    BY <1>3 DEF Shape, Control, TypeOK, ThreadType, Op
  <1>5. r \in Map!Request /\ ~r.done
    BY <1>3, <1>4 DEF Map!Request
  <1>6. Requests[t] = NoReq /\ Requests' = [Requests EXCEPT ![t] = r]
    BY <1>2, OthersKeep, RequestsAre
  <1> HIDE DEF r
  <1> QED BY <1>1, <1>5, <1>6 DEF Map!Call

LEMMA Leaves ==
  ASSUME NEW t \in Threads, Local(t), UNCHANGED rec, ReqOf(t) # NoReq, ReqOf(t)' = NoReq
  PROVE  Map!Leave(t)
  <1>1. UNCHANGED StoredMap
    BY DEF StoredMap, Stored
  <1>2. Requests[t] # NoReq /\ Requests' = [Requests EXCEPT ![t] = NoReq]
    BY OthersKeep, RequestsAre
  <1> QED BY <1>1, <1>2 DEF Map!Leave

(* A record of key k, or none, replaces k's own, or bytes that are no key's: of *)
(* all keys that hash to the slot, only k can tell.                             *)
LEMMA OneKeyChanges ==
  ASSUME Shape, NEW k \in Keys, NEW v \in Values \cup {NoVal}, NEW r,
         rec[IdOf[k]].kind = "kv" => rec[IdOf[k]].key = k,
         rec' = [rec EXCEPT ![IdOf[k]] = r],
         \/ r = record_build(k, v)
         \/ r = NoRecord /\ v = NoVal
  PROVE  StoredMap' = [StoredMap EXCEPT ![k] = v]
  <1>1. IdOf \in [Keys -> Ids] /\ rec \in [Ids -> Record]
    BY KvConstants DEF Shape, TypeOK, FlashType
  <1>2. ASSUME NEW m \in Keys, m # k PROVE StoredMap'[m] = StoredMap[m]
    <2>1. CASE IdOf[m] # IdOf[k]
      BY <1>1, <1>2, <2>1 DEF StoredMap, Stored
    <2>2. CASE IdOf[m] = IdOf[k]
      <3>1. ~Stored(m)
        BY <1>1, <1>2, <2>2 DEF Stored, record_check
      <3>2. rec'[IdOf[m]] = r
        BY <1>1, <2>2
      <3>3. ~Stored(m)'
        BY <1>2, <3>2 DEF Stored, record_check, record_build, NoRecord
      <3> QED BY <1>2, <3>1, <3>3 DEF StoredMap
    <2> QED BY <2>1, <2>2
  <1>3. StoredMap'[k] = v
    <2>1. rec'[IdOf[k]] = r
      BY <1>1
    <2>2. CASE r = record_build(k, v)
      BY <2>1, <2>2 DEF StoredMap, Stored, record_check, record_build
    <2>3. CASE r = NoRecord /\ v = NoVal
      BY <2>1, <2>3 DEF StoredMap, Stored, record_check, NoRecord
    <2> QED BY <2>2, <2>3
  <1>4. StoredMap = [m \in Keys |-> StoredMap[m]] /\ StoredMap' = [m \in Keys |-> StoredMap'[m]]
    BY DEF StoredMap
  <1> QED BY <1>2, <1>3, <1>4

LEMMA Applies ==
  ASSUME Shape, NEW t \in Threads, Local(t), UNCHANGED op, Pending(t), Effective(t)',
         op[t].kind \in {"set", "delete"},
         StoredMap' = [StoredMap EXCEPT
                         ![op[t].key] = IF op[t].kind = "set" THEN op[t].val ELSE NoVal]
  PROVE  Map!Apply(t)
  <1> DEFINE r == [op |-> op[t].kind, key |-> op[t].key, val |-> op[t].val, done |-> FALSE]
  <1>1. ReqOf(t) = r /\ r # NoReq
    BY PendingReq, RequestType
  <1>2. ReqOf(t)' = [op |-> op[t].kind, key |-> op[t].key, val |-> op[t].val, done |-> TRUE]
    BY DEF ReqOf
  <1>3. Requests[t] = r /\ Requests' = [Requests EXCEPT ![t] = [r EXCEPT !.done = TRUE]]
    BY <1>1, <1>2, OthersKeep, RequestsAre
  <1>4. r.op = op[t].kind /\ r.key = op[t].key /\ r.val = op[t].val /\ r.done = FALSE
    OBVIOUS
  <1> HIDE DEF r
  <1> QED BY <1>1, <1>3, <1>4 DEF Map!Apply

(* Every step of an operation is a step of the map, or none. *)
LEMMA OpStepMaps ==
  ASSUME MapInv, Shape', NEW t \in Threads, OpStep(t)
  PROVE  Map!Call(t) \/ Map!Apply(t) \/ Map!Leave(t) \/ UNCHANGED Map!vars
  <1>i. Shape /\ Exclusive /\ Claimed(t) /\ Status(t)
    BY DEF MapInv
  <1>l. Local(t)
    BY <1>i, OpStepLocal
  <1>1. CASE CallSet(t) \/ CallGet(t) \/ CallDelete(t)
    <2>1. PICK j, o, k, v : Enter(t, j, o, k, v)
      BY <1>1 DEF CallSet, CallGet, CallDelete
    <2>2. UNCHANGED rec
      BY <1>i, <2>1, EnterLocal
    <2>3. pc[t] = "idle"
      BY <1>1 DEF CallSet, CallGet, CallDelete, MayCall
    <2>4. ReqOf(t) = NoReq
      BY <2>3 DEF ReqOf, Pending, Effective
    <2>5. CASE Pending(t)'
      BY <1>l, <2>2, <2>4, <2>5, Begins
    <2>6. CASE ~Pending(t)'
      <3>1. ~Effective(t)'
        BY <1>i, <2>1, EnterResult DEF Effective
      <3>2. ReqOf(t)' = NoReq
        BY <2>6, <3>1 DEF ReqOf
      <3> QED BY <1>l, <2>2, <2>4, <3>2, Stutters
    <2> QED BY <2>5, <2>6
  <1>2. CASE Get(t) \/ DeleteRefused(t) \/ Out(t)
    <2>1. UNCHANGED rec /\ \E s : Finish(t, job[t], op[t].key, s)
      BY <1>2 DEF Get, DeleteRefused, Out, flashVars
    <2>2. ReqOf(t)' = NoReq
      BY <1>i, <2>1, FinishResult DEF ReqOf, Pending, Effective
    <2> QED BY <1>l, <2>1, <2>2, Leaves, Stutters
  <1>3. CASE SetLock(t)
    <2>1. UNCHANGED rec
      BY <1>3 DEF SetLock, flashVars
    <2>2. CASE Finish(t, job[t], op[t].key, "COLLISION")
      <3>1. ReqOf(t)' = NoReq
        BY <1>i, <2>2, FinishResult DEF ReqOf, Pending, Effective
      <3> QED BY <1>l, <2>1, <3>1, Leaves, Stutters
    <2>3. CASE pc' = [pc EXCEPT ![t] = "ctx"] /\ UNCHANGED op
      <3>1. Pending(t) /\ pc'[t] = "ctx"
        BY <1>i, <1>3, <2>3 DEF SetLock, Pending, Shape, TypeOK, ThreadType
      <3>2. ReqOf(t)' = ReqOf(t)
        BY <1>3, <2>3, <3>1 DEF SetLock, ReqOf, Pending, Effective
      <3> QED BY <1>l, <2>1, <3>2, Stutters
    <2> QED BY <1>3, <2>2, <2>3 DEF SetLock
  <1>4. CASE SetTrack(t)
    <2>1. UNCHANGED rec /\ pc'[t] = "write" /\ pc[t] = "track" /\ op[t].kind = "set"
      BY <1>i, <1>4 DEF SetTrack, Shape, Control, TypeOK, ThreadType
    <2>2. op'[t].kind = op[t].kind /\ op'[t].key = op[t].key /\ op'[t].val = op[t].val
      BY <1>i, <1>4 DEF SetTrack, Shape, TypeOK, ThreadType, Op
    <2>3. ReqOf(t)' = ReqOf(t)
      BY <2>1, <2>2 DEF ReqOf, Pending, Effective
    <2> QED BY <1>l, <2>1, <2>3, Stutters
  <1>5. CASE SetWriteFails(t)
    <2>1. UNCHANGED rec /\ pc'[t] = "drop"
      BY <1>i, <1>5 DEF SetWriteFails, flashVars, Shape, TypeOK, ThreadType
    <2>2. ReqOf(t)' = NoReq
      BY <2>1 DEF ReqOf, Pending, Effective
    <2> QED BY <1>l, <2>1, <2>2, Leaves, Stutters
  <1>6. CASE SetDrop(t)
    <2>1. UNCHANGED rec /\ UNCHANGED op /\ pc'[t] = "out" /\ pc[t] = "drop"
      BY <1>i, <1>6 DEF SetDrop, Shape, TypeOK, ThreadType
    <2>2. op[t].rc = "IO"
      BY <1>i, <2>1 DEF Status
    <2>3. ReqOf(t)' = ReqOf(t)
      BY <2>1, <2>2 DEF ReqOf, Pending, Effective
    <2> QED BY <1>l, <2>1, <2>3, Stutters
  <1>7. CASE SetWrite(t)
    <2>1. /\ UNCHANGED op /\ pc'[t] = "out" /\ pc[t] = "write"
          /\ op[t].kind = "set" /\ op[t].key \in Keys /\ op[t].val \in Values
      BY <1>i, <1>7 DEF SetWrite, Shape, Control, TypeOK, ThreadType
    <2>2. Pending(t) /\ Effective(t)'
      BY <1>i, <2>1 DEF Pending, Effective, Status, SetPlaces
    <2>3. StoredMap' = [StoredMap EXCEPT ![op[t].key] = op[t].val]
      BY <1>i, <1>7, <2>1, OneKeyChanges DEF SetWrite, Claimed, SetPlaces
    <2> QED BY <1>i, <1>l, <2>1, <2>2, <2>3, Applies
  <1>8. CASE DeleteErase(t)
    <2>1. /\ UNCHANGED op /\ pc'[t] = "unindex" /\ pc[t] = "lock"
          /\ op[t].kind = "delete" /\ op[t].key \in Keys
      BY <1>i, <1>8 DEF DeleteErase, Shape, Control, TypeOK, ThreadType
    <2>2. Pending(t) /\ Effective(t)'
      BY <1>i, <2>1 DEF Pending, Effective, Status
    <2>3. rec[IdOf[op[t].key]].key = op[t].key
      BY <1>8 DEF DeleteErase, Stored, record_check
    <2>4. StoredMap' = [StoredMap EXCEPT ![op[t].key] = NoVal]
      BY <1>i, <1>8, <2>1, <2>3, OneKeyChanges DEF DeleteErase
    <2> QED BY <1>i, <1>l, <2>1, <2>2, <2>4, Applies
  <1>9. CASE DeleteUnindex(t)
    <2>1. UNCHANGED <<rec, op>> /\ pc'[t] = "out" /\ pc[t] = "unindex" /\ op[t].kind = "delete"
      BY <1>i, <1>9 DEF DeleteUnindex, Shape, Control, TypeOK, ThreadType
    <2>2. ReqOf(t)' = ReqOf(t)
      BY <2>1 DEF ReqOf, Pending, Effective
    <2> QED BY <1>l, <2>1, <2>2, Stutters
  <1> QED BY <1>1, <1>2, <1>3, <1>4, <1>5, <1>6, <1>7, <1>8, <1>9 DEF OpStep

(* So are the steps of the index, of walks and of the defaults pass; a reset    *)
(* and the defaults pass make requests as an application does.                  *)
LEMMA OtherStepsMap ==
  ASSUME MapInv, Shape', NEW t \in Threads, IndexStep(t) \/ WalkStep(t) \/ SeedStep(t)
  PROVE  Map!Call(t) \/ UNCHANGED Map!vars
  <1>i. Shape
    BY DEF MapInv
  <1>1. CASE IndexStep(t)
    <2>1. Local(t) /\ UNCHANGED <<rec, op>>
      BY <1>i, <1>1, IndexStepLocal
    <2>2. ReqOf(t)' = ReqOf(t)
      BY <1>i, <1>1, <2>1, IndexStepResult DEF ReqOf, Pending, Effective, LoadPlaces, SetPlaces
    <2> QED BY <2>1, <2>2, Stutters
  <1>2. CASE WalkStep(t) \/ SeedStep(t)
    <2>1. Local(t) /\ UNCHANGED rec
      BY <1>i, <1>2, WalkStepLocal, SeedStepLocal
    <2>2. ReqOf(t) = NoReq /\ ~Effective(t)'
      BY <1>i, <1>2, WalkStepResult, SeedStepResult DEF ReqOf, Pending, Effective
    <2>3. CASE Pending(t)'
      BY <2>1, <2>2, <2>3, Begins
    <2>4. CASE ~Pending(t)'
      BY <2>1, <2>2, <2>4, Stutters DEF ReqOf
    <2> QED BY <2>3, <2>4
  <1> QED BY <1>1, <1>2

LEMMA StepMaps ==
  ASSUME "read" \notin Faults
  PROVE  MapInv /\ [Next]_vars => [Map!Next]_(Map!vars)
  <1> SUFFICES ASSUME MapInv, [Next]_vars PROVE [Map!Next]_(Map!vars)
    OBVIOUS
  <1>1. Shape'
    BY ShapeStep DEF MapInv
  <1>2. CASE UNCHANGED vars
    BY <1>2 DEF vars, Map!vars, StoredMap, Stored, Requests, Pending, Effective
  <1>3. CASE PowerLoss
    <2>1. UNCHANGED StoredMap
      BY <1>3 DEF PowerLoss, flashVars, StoredMap, Stored
    <2>2. Requests' = [t \in Threads |-> NoReq]
      BY <1>3 DEF PowerLoss, Requests, Pending, Effective, NoOp
    <2> QED BY <2>1, <2>2 DEF Map!Next, Map!PowerLoss
  <1>4. CASE \E t \in Threads : IndexStep(t) \/ OpStep(t) \/ WalkStep(t) \/ SeedStep(t)
    BY <1>1, <1>4, OpStepMaps, OtherStepsMap DEF Map!Next
  <1> QED BY <1>2, <1>3, <1>4 DEF Next

LEMMA InitMaps == Init => Map!Init
  <1> SUFFICES ASSUME Init PROVE Map!Init
    OBVIOUS
  <1>1. StoredMap \in [Keys -> {NoVal}]
    BY KvConstants DEF Init, StoredMap, Stored, record_check, ForeignRecord, NoRecord
  <1>2. Requests = [t \in Threads |-> NoReq]
    BY DEF Init, Requests, Pending, Effective, NoOp
  <1> QED BY <1>1, <1>2 DEF Map!Init

(* The key-value API keeps its promise: whatever the threads do at the same     *)
(* time, whichever keys share a slot, and whenever power is lost or a write, an *)
(* allocation or the slab fails, each zdb_kv_set() and zdb_kv_delete() changes  *)
(* the stored map at its own key only, once, between its call and its return,   *)
(* and a failed one not at all.  A backend that fails to read a slot it holds   *)
(* is excluded: the pre-read of zdb_kv_set() takes that for a free slot.        *)
THEOREM MapImplemented ==
  ASSUME "read" \notin Faults
  PROVE  Spec => ImplementsMap
  <1>1. Init => MapInv
    BY MapInvInit
  <1>2. MapInv /\ [Next]_vars => MapInv'
    BY MapInvStep
  <1>3. Init => Map!Init
    BY InitMaps
  <1>4. MapInv /\ [Next]_vars => [Map!Next]_(Map!vars)
    BY StepMaps
  <1> QED
    BY <1>1, <1>2, <1>3, <1>4, PTL DEF Spec, ImplementsMap, Map!Spec

================================================================================
