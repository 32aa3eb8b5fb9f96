--------------------------- MODULE ZdbKvIndexProofs ---------------------------
(***************************************************************************)
(* The key index of ZdbKv and its persisted copy, for any number of        *)
(* threads, keys, slots and entries: the order index first, data second of *)
(* zdb_kv_set() keeps every stored key listed at every moment, so after a  *)
(* power loss at any moment, and a rebuild restores the exact index.  An   *)
(* iteration returns what is stored, once, and a reset leaves nothing but  *)
(* defaults behind, while other threads store keys between any two steps   *)
(* of the walk.                                                            *)
(***************************************************************************)
EXTENDS ZdbKvProofs

(* What the theorems assume of the instance: nothing but power fails, the       *)
(* first walk is alone (the comment in zdb_kv_ctx_get_or_alloc()), the slab has *)
(* a block for every thread and one for the rebuild, and no other thread erases *)
(* keys beside one that resets.                                                 *)
IndexAssumptions ==
  /\ Faults = {}
  /\ SoloFirstUse
  /\ Cardinality(Threads) < SlabBlocks
  /\ \A t, u \in Threads :
        t # u /\ "reset" \in Calls[t] => Calls[u] \cap {"delete", "reset"} = {}

Distinct(s) == \A i, j \in 1..Len(s) : s[i] = s[j] => i = j

(* Flash: a record lies in its key's slot, and of the stored keys the persisted *)
(* index names those that were not reported as unlisted.                        *)
OwnSlots == \A i \in Ids : rec[i].kind = "kv" => IdOf[rec[i].key] = i
FlashInv ==
  /\ OwnSlots
  /\ Distinct(flashIndex) /\ Len(flashIndex) <= MaxEntries
  /\ \A k \in Keys : Stored(k) => (k \in unlisted <=> IdOf[k] \notin Members(flashIndex))

(* Who may be without the index, and who sets it up. *)
Walking(t) == job[t].kind \in {"iter", "reset"} /\ job[t].stage = "walk"
CtxInv(t) ==
  /\ pc[t] = "idle" => job[t].kind = "none"
  /\ pc[t] = "alloc" => kvCtx = 0
  /\ pc[t] \in {"load", "scan", "track", "write"} => kvCtx # 0
  /\ Walking(t) /\ pc[t] \notin {"ctx", "alloc"} => kvCtx # 0
  /\ ld[t].ptr \in {0, kvCtx}
Alone(t) ==
  (op[t].kind = "none" /\ (pc[t] \in {"alloc", "load", "scan"} \/ (pc[t] = "ctx" /\ kvCtx = 0)))
     => \A u \in Threads \ {t} : pc[u] = "idle"

(* A rebuild has taken up the IDs in front of buf, and only those. *)
LoadInv(t) ==
  /\ pc[t] = "load" => Live = <<>>
  /\ pc[t] = "scan" =>
       /\ Distinct(Live) /\ Distinct(ld[t].buf)
       /\ Members(ld[t].buf) \subseteq Members(flashIndex)
       /\ Len(Live) + Len(ld[t].buf) <= Len(flashIndex)
       /\ \A k \in Keys :
             k \in Members(Live) <=>
                Stored(k) /\ IdOf[k] \in Members(flashIndex) \ Members(ld[t].buf)
       /\ ~ld[t].pruned => flashIndex = IdsOf(Live) \o ld[t].buf

(* The index is exact, but for the key of the one set or delete that is between *)
(* its two flash writes.                                                        *)
InFlight(k) == \E t \in Threads : pc[t] \in {"write", "unindex"} /\ op[t].key = k
LiveInv ==
  (kvCtx # 0 /\ ~Loading) =>
     /\ Distinct(Live) /\ flashIndex = IdsOf(Live)
     /\ \A k \in Keys :
           ~InFlight(k) => (k \in Members(Live) <=> Stored(k) /\ k \notin unlisted)
OpInv(t) ==
  /\ pc[t] = "write" => IF op[t].indexed
                        THEN op[t].key \in Members(Live) /\ op[t].key \notin unlisted
                        ELSE op[t].key \notin Members(Live)
  /\ pc[t] = "unindex" => ~Stored(op[t].key) /\ op[t].key \notin unlisted

(* A reset finds every key it was sent to delete. *)
Erasing(t) == job[t].kind = "reset" /\ job[t].stage = "walk"
ResetInv(t) ==
  /\ pc[t] \notin {"drop", "stale"}
  /\ pc[t] = "seed" => job[t].stage # "walk"
  /\ job[t].kind = "reset" => "reset" \in Calls[t]
  /\ op[t].kind = "delete" => Erasing(t) \/ (job[t].kind = "none" /\ "delete" \in Calls[t])
  /\ Erasing(t) /\ pc[t] = "lock" => Stored(op[t].key)
  /\ Erasing(t) /\ pc[t] \in {"out", "ret"} => op[t].rc # "NOT_FOUND"

ThreadInv(t) == CtxInv(t) /\ Alone(t) /\ LoadInv(t) /\ OpInv(t) /\ ResetInv(t)
IndexInv == MapInv /\ FlashInv /\ LiveInv /\ \A t \in Threads : ThreadInv(t)

--------------------------------------------------------------------------------
(* Facts about the entries of the index. *)

LEMMA MembersAppend ==
  ASSUME NEW S, NEW s \in Seq(S), NEW x \in S
  PROVE  Members(Append(s, x)) = Members(s) \cup {x}
  <1>1. Len(Append(s, x)) = Len(s) + 1 /\ Append(s, x)[Len(s) + 1] = x
    OBVIOUS
  <1>2. \A i \in 1..Len(s) : Append(s, x)[i] = s[i]
    OBVIOUS
  <1> QED BY <1>1, <1>2 DEF Members

LEMMA DistinctAppend ==
  ASSUME NEW S, NEW s \in Seq(S), NEW x \in S, Distinct(s), x \notin Members(s)
  PROVE  Distinct(Append(s, x))
  BY DEF Distinct, Members

LEMMA MembersTail ==
  ASSUME NEW S, NEW s \in Seq(S), s # <<>>, Distinct(s)
  PROVE  /\ Head(s) \in Members(s)
         /\ Members(Tail(s)) = Members(s) \ {Head(s)}
         /\ Distinct(Tail(s))
  <1>1. Len(s) > 0 /\ Tail(s) \in Seq(S) /\ Len(Tail(s)) = Len(s) - 1 /\ Head(s) = s[1]
    OBVIOUS
  <1>2. \A i \in 1..(Len(s) - 1) : Tail(s)[i] = s[i + 1]
    OBVIOUS
  <1>3. Members(Tail(s)) \subseteq Members(s) \ {Head(s)}
    BY <1>1, <1>2 DEF Members, Distinct
  <1>4. ASSUME NEW x \in Members(s) \ {Head(s)} PROVE x \in Members(Tail(s))
    <2>1. PICK i \in 1..Len(s) : s[i] = x
      BY DEF Members
    <2>2. i - 1 \in 1..(Len(s) - 1) /\ s[(i - 1) + 1] = x
      BY <1>1, <1>4, <2>1
    <2> QED BY <1>1, <1>2, <2>2 DEF Members
  <1>5. Distinct(Tail(s))
    BY <1>1, <1>2 DEF Distinct
  <1> QED BY <1>1, <1>3, <1>4, <1>5, SMTT(30) DEF Members

LEMMA CompactMembers ==
  ASSUME NEW S, NEW s \in Seq(S), NEW p \in 1..Len(s), Distinct(s)
  PROVE  /\ Members(Compact(s, p)) = Members(s) \ {s[p]}
         /\ Distinct(Compact(s, p))
  <1> DEFINE c == Compact(s, p)
  <1>1. Len(s) > 0 /\ c \in Seq(S) /\ Len(c) = Len(s) - 1
    BY CompactType
  <1>2. \A i \in 1..(Len(s) - 1) : c[i] = IF i < p THEN s[i] ELSE s[i + 1]
    BY DEF Compact
  <1> HIDE DEF c
  <1>3. Members(c) \subseteq Members(s) \ {s[p]}
    BY <1>1, <1>2, SMTT(30) DEF Members, Distinct
  <1>4. ASSUME NEW x \in Members(s) \ {s[p]} PROVE x \in Members(c)
    <2>1. PICK i \in 1..Len(s) : s[i] = x
      BY DEF Members
    <2>2. CASE i < p
      BY <1>1, <1>2, <2>1, <2>2 DEF Members
    <2>3. CASE i > p
      <3>1. i - 1 \in 1..(Len(s) - 1) /\ c[i - 1] = s[(i - 1) + 1]
        BY <1>1, <1>2, <2>3
      <3> QED BY <1>1, <2>1, <3>1 DEF Members
    <2> QED BY <1>4, <2>1, <2>2, <2>3
  <1>5. Distinct(c)
    BY <1>1, <1>2, SMTT(30) DEF Distinct
  <1> QED BY <1>3, <1>4, <1>5 DEF c

LEMMA MembersIds ==
  ASSUME NEW s \in Seq(Keys)
  PROVE  Members(IdsOf(s)) = {IdOf[k] : k \in Members(s)}
  <1>1. Len(IdsOf(s)) = Len(s) /\ \A i \in 1..Len(s) : IdsOf(s)[i] = IdOf[s[i]]
    BY IdsOfType DEF IdsOf
  <1> QED BY <1>1 DEF Members

LEMMA IdsAppend ==
  ASSUME NEW s \in Seq(Keys), NEW k \in Keys
  PROVE  IdsOf(Append(s, k)) = Append(IdsOf(s), IdOf[k])
  <1>1. Append(s, k) \in Seq(Keys) /\ Len(Append(s, k)) = Len(s) + 1 /\ IdOf[k] \in Ids
    BY KvConstants
  <1>2. /\ IdsOf(s) \in Seq(Ids) /\ Len(IdsOf(s)) = Len(s)
        /\ IdsOf(Append(s, k)) \in Seq(Ids) /\ Len(IdsOf(Append(s, k))) = Len(s) + 1
    BY <1>1, IdsOfType
  <1>3. ASSUME NEW i \in 1..(Len(s) + 1)
        PROVE  IdsOf(Append(s, k))[i] = Append(IdsOf(s), IdOf[k])[i]
    BY <1>1, <1>2 DEF IdsOf
  <1> QED BY <1>1, <1>2, <1>3

LEMMA IdsDistinct ==
  ASSUME NEW s \in Seq(Keys), Distinct(s),
         \A k, m \in Members(s) : IdOf[k] = IdOf[m] => k = m
  PROVE  Distinct(IdsOf(s))
  BY IdsOfType DEF IdsOf, Distinct, Members

LEMMA EmptyIds == IdsOf(<<>>) = <<>> /\ Members(<<>>) = {} /\ Distinct(<<>>)
  <1>0. <<>> \in Seq(Keys) /\ Len(<<>>) = 0
    OBVIOUS
  <1>1. IdsOf(<<>>) \in Seq(Ids) /\ Len(IdsOf(<<>>)) = 0
    BY <1>0, IdsOfType
  <1> QED BY <1>1 DEF Members, Distinct

LEMMA SplitHead ==
  ASSUME NEW S, NEW s \in Seq(S), NEW b \in Seq(S), b # <<>>
  PROVE  Append(s, Head(b)) \o Tail(b) = s \o b
  <1>1. /\ Append(s, Head(b)) \o Tail(b) \in Seq(S) /\ s \o b \in Seq(S)
        /\ Len(Append(s, Head(b)) \o Tail(b)) = Len(s) + Len(b)
        /\ Len(s \o b) = Len(s) + Len(b)
    OBVIOUS
  <1>2. ASSUME NEW i \in 1..(Len(s) + Len(b))
        PROVE  (Append(s, Head(b)) \o Tail(b))[i] = (s \o b)[i]
    OBVIOUS
  <1> QED BY <1>1, <1>2

LEMMA DistinctLength ==
  ASSUME NEW s \in Seq(Keys), Distinct(s)
  PROVE  Len(s) = Cardinality(Members(s))
  <1>1. s \in Bijection(1..Len(s), Members(s))
    BY DEF Distinct, Members, Bijection, Injection, Surjection, IsInjective
  <1>2. Len(s) \in Nat /\ ExistsBijection(1..Len(s), Members(s))
    BY <1>1 DEF ExistsBijection
  <1> QED BY <1>2, FS_CountingElements

--------------------------------------------------------------------------------
(* Steps that leave the records and the index alone. *)

storeVars == <<rec, flashIndex, heap, kvCtx, unlisted>>

(* A step of thread t leaves the locals of the others alone. *)
Keeps(t) == Local(t) /\ \A u \in Threads \ {t} : job'[u] = job[u] /\ ld'[u] = ld[u]

LEMMA EnterKeeps ==
  ASSUME Shape, NEW t \in Threads, NEW j, NEW o, NEW k, NEW v, Enter(t, j, o, k, v)
  PROVE  Keeps(t) /\ UNCHANGED storeVars /\ job'[t] = j
  BY EnterLocal DEF Enter, Keeps, Shape, TypeOK, ThreadType, flashVars, ctxVars, storeVars

LEMMA StepKeeps ==
  ASSUME Shape, NEW t \in Threads, IndexStep(t) \/ OpStep(t) \/ WalkStep(t) \/ SeedStep(t)
  PROVE  Keeps(t)
  <1>l. Local(t)
    BY IndexStepLocal, OpStepLocal, WalkStepLocal, SeedStepLocal
  <1>e. ASSUME NEW j, NEW o, NEW k, NEW v, Enter(t, j, o, k, v) PROVE Keeps(t)
    BY <1>e, EnterKeeps
  <1>1. CASE IndexStep(t)
    BY <1>1, <1>l DEF IndexStep, CtxCheck, CtxAlloc, CtxAllocFails, LoadBegin, LoadEntry, LoadEnd,
         HaveCtx, Keeps, Shape, TypeOK, ThreadType
  <1>2. CASE OpStep(t)
    <2>1. CASE CallSet(t) \/ CallGet(t) \/ CallDelete(t)
      BY <2>1, <1>e DEF CallSet, CallGet, CallDelete
    <2> QED BY <1>2, <1>l, <2>1
         DEF OpStep, SetLock, SetTrack, SetWrite, SetWriteFails, SetDrop, Out, Get, DeleteRefused,
             DeleteErase, DeleteUnindex, Keeps, Shape, TypeOK, ThreadType
  <1>3. CASE WalkStep(t)
    <2>1. CASE IterNext(t) \/ ResetNext(t)
      BY <2>1, <1>e DEF IterNext, ResetNext
    <2> QED BY <1>3, <1>l, <2>1
         DEF WalkStep, CallWalk, IterEnd, IterGot, IterClose, ResetWalked, ResetDeleted, ResetStale,
             ResetReturn, EndWalk, Keeps, Shape, TypeOK, ThreadType
  <1>4. CASE SeedStep(t)
    <2>1. CASE SeedGet(t) \/ SeedMissing(t)
      BY <2>1, <1>e DEF SeedGet, SeedMissing
    <2> QED BY <1>4, <1>l, <2>1
         DEF SeedStep, CallDefaults, CallInit, StartSeed, SeedSkip, SeedEntryDone, SeedEnd, Keeps,
             Shape, TypeOK, ThreadType
  <1> QED BY <1>1, <1>2, <1>3, <1>4

LEMMA QuietOthers ==
  ASSUME IndexInv, NEW t \in Threads, Keeps(t), UNCHANGED storeVars,
         pc[t] # "idle" \/ \A u \in Threads : ~UnlockedLoad(u),
         NEW u \in Threads \ {t}
  PROVE  ThreadInv(u)'
  <1>1. ThreadInv(u) /\ UNCHANGED <<rec, flashIndex, heap, kvCtx, unlisted>>
    BY DEF IndexInv, storeVars
  <1>2. pc'[u] = pc[u] /\ op'[u] = op[u] /\ job'[u] = job[u] /\ ld'[u] = ld[u]
    BY DEF Keeps, Local
  <1>3. CtxInv(u)' /\ LoadInv(u)' /\ OpInv(u)' /\ ResetInv(u)'
    BY <1>1, <1>2 DEF ThreadInv, CtxInv, LoadInv, OpInv, ResetInv, Walking, Erasing, Live, Stored
  <1>4. Alone(u)'
    BY <1>1, <1>2 DEF ThreadInv, Alone, Keeps, Local, UnlockedLoad, LoadPlaces
  <1> QED BY <1>3, <1>4 DEF ThreadInv

LEMMA QuietStore ==
  ASSUME IndexInv, NEW t \in Threads, Keeps(t), UNCHANGED storeVars,
         pc[t] \notin {"load", "scan", "write", "unindex"}
  PROVE  FlashInv' /\ LiveInv'
  <1>1. FlashInv /\ LiveInv /\ UNCHANGED <<rec, flashIndex, heap, kvCtx, unlisted>>
    BY DEF IndexInv, storeVars
  <1>2. FlashInv'
    BY <1>1 DEF FlashInv, OwnSlots, Stored
  <1>3. Loading => Loading'
    BY DEF Loading, Keeps, Local
  <1>4. \A k \in Keys : InFlight(k) => InFlight(k)'
    BY DEF InFlight, Keeps, Local
  <1>5. LiveInv'
    BY <1>1, <1>3, <1>4 DEF LiveInv, Live, Stored
  <1> QED BY <1>2, <1>5

LEMMA Quiet ==
  ASSUME IndexInv, MapInv', NEW t \in Threads, Keeps(t), UNCHANGED storeVars,
         pc[t] # "idle" \/ \A u \in Threads : ~UnlockedLoad(u),
         pc[t] \notin {"load", "scan", "write", "unindex"},
         ThreadInv(t)'
  PROVE  IndexInv'
  BY QuietOthers, QuietStore DEF IndexInv

(* A thread at a place that makes no claim on the index. *)
LEMMA PlainThread ==
  ASSUME MapInv', NEW t \in Threads,
         pc'[t] \in {"idle", "lock", "out", "ret", "next", "seed", "exhausted", "reset_done"},
         pc'[t] = "idle" => job'[t].kind = "none",
         Walking(t)' => kvCtx' # 0,
         ResetInv(t)'
  PROVE  ThreadInv(t)'
  <1>1. ld'[t].ptr = 0
    BY DEF MapInv, Shape, Control
  <1> QED BY <1>1 DEF ThreadInv, CtxInv, Alone, LoadInv, OpInv

LEMMA FinishThread ==
  ASSUME IndexInv, MapInv', NEW t \in Threads, NEW k, NEW s, Finish(t, job[t], k, s),
         UNCHANGED <<storeVars, job>>, pc[t] \in {"lock", "out"}, Erasing(t) => s # "NOT_FOUND"
  PROVE  ThreadInv(t)'
  <1> USE DEF Finish, IndexInv, MapInv, Shape, TypeOK, ThreadType, storeVars
  <1>1. CtxInv(t) /\ ResetInv(t)
    BY DEF ThreadInv
  <1>2. pc'[t] \in {"idle", "ret"} /\ (pc'[t] = "idle" => job'[t].kind = "none")
    OBVIOUS
  <1>3. Walking(t)' => kvCtx' # 0
    BY <1>1 DEF CtxInv, Walking
  <1>4. op'[t].kind = "none" /\ (pc'[t] = "ret" => op'[t].rc = s)
    BY DEF NoOp
  <1>5. ResetInv(t)'
    BY <1>1, <1>2, <1>4 DEF ResetInv, Erasing
  <1> QED BY <1>2, <1>3, <1>5, PlainThread

LEMMA EnterThread ==
  ASSUME IndexInv, MapInv', NEW t \in Threads, NEW j, NEW o, NEW k, NEW v, Enter(t, j, o, k, v),
         j.kind = "reset" => "reset" \in Calls[t],
         j.kind \in {"iter", "reset"} /\ j.stage = "walk" => kvCtx # 0,
         o = "delete" => \/ j.kind = "reset" /\ j.stage = "walk"
                         \/ j.kind = "none" /\ "delete" \in Calls[t],
         j.kind = "reset" /\ j.stage = "walk" => Stored(k)
  PROVE  ThreadInv(t)'
  <1>s. Shape
    BY DEF IndexInv, MapInv
  <1>1. UNCHANGED storeVars /\ job'[t] = j
    BY <1>s, EnterKeeps
  <1>2. \/ pc'[t] = "lock" /\ op'[t].kind = o /\ op'[t].key = k
        \/ /\ pc'[t] = IF j.kind = "none" THEN "idle" ELSE "ret"
           /\ op'[t].kind = "none"
           /\ pc'[t] = "ret" => op'[t].rc = "NOMEM"
    <2> USE <1>s DEF Enter, Finish, NoOp, Shape, TypeOK, ThreadType
    <2>1. CASE FreeBlocks > 0
      BY <2>1
    <2>2. CASE ~(FreeBlocks > 0)
      <3>1. CASE j.kind = "none"
        BY <2>2, <3>1
      <3>2. CASE j.kind # "none"
        BY <2>2, <3>2, ZenonT(30)
      <3> QED BY <3>1, <3>2
    <2> QED BY <2>1, <2>2
  <1>3. Walking(t)' => kvCtx' # 0
    BY <1>1 DEF Walking, storeVars
  <1>4. ResetInv(t)'
    BY <1>1, <1>2 DEF ResetInv, Erasing, Stored, storeVars
  <1> QED BY <1>1, <1>2, <1>3, <1>4, PlainThread

(* Nobody rebuilds or holds the index beside a thread that may take the lock. *)
LEMMA NoLoaderBeside ==
  ASSUME IndexInv, NEW t \in Threads, pc[t] # "idle", lock \in {t, NoThread},
         NEW u \in Threads \ {t}
  PROVE  /\ pc[u] \notin {"alloc", "load", "scan", "track", "write", "drop", "unindex", "out"}
         /\ pc[u] = "ctx" => kvCtx # 0 /\ op[u].kind = "none"
  <1>1. Exclusive /\ Control(u) /\ Alone(u) /\ lock # u
    BY KvConstants DEF IndexInv, MapInv, Shape, ThreadInv
  <1>2. ~Holds(u)
    BY <1>1 DEF Exclusive
  <1>3. op[u].kind = "none" => pc[u] \notin {"alloc", "load", "scan"} /\ (pc[u] = "ctx" => kvCtx # 0)
    BY <1>1 DEF Alone
  <1> QED BY <1>1, <1>2, <1>3 DEF Control, Holds, SetPlaces, LoadPlaces

(* At the moment the lock is free the index is exact, for a thread in a call.   *)
LEMMA ExactNow ==
  ASSUME IndexInv, NEW t \in Threads, pc[t] \in {"next", "lock"}, lock = NoThread, kvCtx # 0
  PROVE  /\ Distinct(Live) /\ flashIndex = IdsOf(Live)
         /\ \A k \in Keys : k \in Members(Live) <=> Stored(k) /\ k \notin unlisted
  <1>1. ASSUME NEW u \in Threads PROVE pc[u] \notin {"load", "scan", "write", "unindex"}
    BY NoLoaderBeside
  <1>2. ~Loading /\ \A k \in Keys : ~InFlight(k)
    BY <1>1 DEF Loading, InFlight
  <1> QED BY <1>2 DEF IndexInv, LiveInv

LEMMA LiveType ==
  ASSUME Shape
  PROVE  Live \in Seq(Keys)
  BY DEF Shape, TypeOK, IndexType, Live

LEMMA OpQuiet ==
  ASSUME IndexAssumptions, IndexInv, MapInv', NEW t \in Threads,
         \/ CallSet(t) \/ SetLock(t) \/ Out(t) \/ CallGet(t) \/ Get(t)
         \/ CallDelete(t) \/ DeleteRefused(t)
  PROVE  IndexInv'
  <1>s. Shape /\ ThreadInv(t) /\ OpStep(t)
    BY DEF IndexInv, MapInv, OpStep
  <1>k. Keeps(t)
    BY <1>s, StepKeeps
  <1> USE DEF storeVars, flashVars, ctxVars
  <1>1. CASE CallSet(t) \/ CallGet(t) \/ CallDelete(t)
    <2>1. PICK o, k, v : /\ Enter(t, NoJob, o, k, v)
                         /\ o = "delete" => "delete" \in Calls[t]
      BY <1>1 DEF CallSet, CallGet, CallDelete, MayCall
    <2>2. ThreadInv(t)'
      BY <2>1, EnterThread, NoJobIdle
    <2>3. UNCHANGED storeVars
      BY <1>s, <2>1, EnterKeeps
    <2>4. pc[t] = "idle" /\ \A u \in Threads : ~UnlockedLoad(u)
      BY <1>1 DEF CallSet, CallGet, CallDelete, MayCall, IndexAssumptions
    <2> QED BY <1>k, <2>2, <2>3, <2>4, Quiet
  <1>2. CASE Out(t)
    <2>1. Finish(t, job[t], op[t].key, op[t].rc) /\ pc[t] = "out" /\ UNCHANGED <<storeVars, job>>
      BY <1>2 DEF Out
    <2>2. Erasing(t) => op[t].rc # "NOT_FOUND"
      BY <1>s, <2>1 DEF ThreadInv, ResetInv
    <2>3. ThreadInv(t)'
      BY <2>1, <2>2, FinishThread
    <2> QED BY <1>k, <2>1, <2>3, Quiet
  <1>3. CASE Get(t)
    <2>1. PICK s : Finish(t, job[t], op[t].key, s) /\ (Stored(op[t].key) => s # "NOT_FOUND")
      BY <1>3 DEF Get
    <2>2. pc[t] = "lock" /\ UNCHANGED <<storeVars, job>>
      BY <1>3 DEF Get
    <2>3. Erasing(t) => s # "NOT_FOUND"
      <3>1. Erasing(t) => Stored(op[t].key)
        BY <1>s, <2>2 DEF ThreadInv, ResetInv
      <3> QED BY <2>1, <3>1
    <2> QED BY <1>k, <2>1, <2>2, <2>3, FinishThread, Quiet
  <1>4. CASE DeleteRefused(t)
    <2>1. PICK s \in {"NOT_FOUND", "IO"} : /\ s = "NOT_FOUND" => ~Stored(op[t].key)
                                           /\ Finish(t, job[t], op[t].key, s)
      BY <1>4 DEF DeleteRefused
    <2>2. pc[t] = "lock" /\ UNCHANGED <<storeVars, job>>
      BY <1>4 DEF DeleteRefused
    <2>3. Erasing(t) => s # "NOT_FOUND"
      BY <1>s, <2>1, <2>2 DEF ThreadInv, ResetInv
    <2> QED BY <1>k, <2>1, <2>2, <2>3, FinishThread, Quiet
  <1>5. CASE SetLock(t)
    <2>1. pc[t] = "lock" /\ op[t].kind = "set" /\ UNCHANGED <<storeVars, job, ld>>
      BY <1>5 DEF SetLock
    <2>2. CASE Finish(t, job[t], op[t].key, "COLLISION")
      BY <1>k, <2>1, <2>2, FinishThread, Quiet
    <2>3. CASE pc' = [pc EXCEPT ![t] = "ctx"] /\ UNCHANGED op
      <3>1. pc'[t] = "ctx"
        BY <1>s, <2>3 DEF Shape, TypeOK, ThreadType
      <3>2. ThreadInv(t)'
        BY <1>s, <2>1, <2>3, <3>1
           DEF ThreadInv, CtxInv, Alone, LoadInv, OpInv, ResetInv, Erasing, Walking
      <3> QED BY <1>k, <2>1, <3>2, Quiet
    <2> QED BY <1>5, <2>2, <2>3 DEF SetLock
  <1> QED BY <1>1, <1>2, <1>3, <1>4, <1>5

LEMMA WalkQuiet ==
  ASSUME IndexAssumptions, IndexInv, MapInv', NEW t \in Threads, WalkStep(t)
  PROVE  IndexInv'
  <1>s. Shape /\ ThreadInv(t) /\ Control(t) /\ t \in DOMAIN pc
    BY DEF IndexInv, MapInv, Shape, TypeOK, ThreadType
  <1>k. Keeps(t)
    BY <1>s, StepKeeps
  <1> USE DEF storeVars, flashVars, ctxVars
  <1>1. CASE CallWalk(t, "iter") \/ CallWalk(t, "reset")
    <2>1. PICK c \in {"iter", "reset"} : CallWalk(t, c)
      BY <1>1
    <2>2. /\ pc'[t] = "ctx" /\ job'[t].kind = c /\ job'[t].stage = "walk"
          /\ UNCHANGED <<storeVars, op, ld>>
      BY <1>s, <2>1 DEF CallWalk, NoJob, Shape, TypeOK, ThreadType
    <2>3. /\ pc[t] = "idle" /\ c \in Calls[t] /\ \A u \in Threads : ~UnlockedLoad(u)
          /\ kvCtx = 0 => \A u \in Threads : pc[u] = "idle"
      BY <2>1 DEF CallWalk, MayCall, IndexAssumptions
    <2>4. op[t].kind = "none"
      BY <1>s, <2>3 DEF Control
    <2>5. Alone(t)'
      BY <1>k, <2>2, <2>3 DEF Alone, Keeps, Local
    <2>6. CtxInv(t)' /\ LoadInv(t)' /\ OpInv(t)' /\ ResetInv(t)'
      BY <1>s, <2>2, <2>3, <2>4 DEF ThreadInv, CtxInv, LoadInv, OpInv, ResetInv, Erasing, Walking
    <2>7. ThreadInv(t)'
      BY <2>5, <2>6 DEF ThreadInv
    <2> QED BY <1>k, <2>2, <2>3, <2>7, Quiet
  <1>2. CASE IterNext(t)
    <2>1. PICK k : Enter(t, [job[t] EXCEPT !.pos = First(Candidates(job[t].ns, job[t].pos)) + 1],
                         "get", k, NoVal)
      BY <1>2 DEF IterNext
    <2>2. pc[t] = "next" /\ job[t].kind = "iter" /\ job[t].stage = "walk" /\ kvCtx # 0
      BY <1>2, <1>s DEF IterNext, Control, ThreadInv, CtxInv, Walking
    <2>3. ThreadInv(t)'
      BY <1>s, <2>1, <2>2, EnterThread DEF Shape, TypeOK, ThreadType, Job
    <2> QED BY <1>s, <1>k, <2>1, <2>2, <2>3, EnterKeeps, Quiet
  <1>3. CASE ResetNext(t)
    <2> DEFINE c == Candidates(job[t].ns, job[t].pos)
    <2>1. c # {} /\ Enter(t, [job[t] EXCEPT !.at = First(c)], "delete", Live[First(c)], NoVal)
      BY <1>3 DEF ResetNext
    <2>2. /\ pc[t] = "next" /\ job[t].kind = "reset" /\ job[t].stage = "walk" /\ kvCtx # 0
          /\ lock = NoThread /\ "reset" \in Calls[t]
      BY <1>3, <1>s DEF ResetNext, Control, ThreadInv, CtxInv, ResetInv, Walking
    <2>3. First(c) \in 1..Len(Live) /\ Live[First(c)] \in Keys
      <3> HIDE DEF c
      <3> QED BY <1>s, <2>1, CandidateType DEF c
    <2> HIDE DEF c
    <2>4. Live[First(c)] \in Members(Live)
      BY <2>3 DEF Members
    <2>5. Stored(Live[First(c)])
      BY <2>2, <2>3, <2>4, ExactNow
    <2>6. /\ [job[t] EXCEPT !.at = First(c)].kind = "reset"
          /\ [job[t] EXCEPT !.at = First(c)].stage = "walk"
      BY <1>s, <2>2 DEF Shape, TypeOK, ThreadType, Job
    <2>7. ThreadInv(t)'
      BY <2>1, <2>2, <2>5, <2>6, EnterThread
    <2> QED BY <1>s, <1>k, <2>1, <2>2, <2>7, EnterKeeps, Quiet
  <1>4. CASE IterClose(t) \/ ResetReturn(t)
    <2>1. EndWalk(t) /\ pc[t] \in {"next", "exhausted", "ret", "reset_done"}
      BY <1>4 DEF IterClose, ResetReturn
    <2>2. pc'[t] = "idle" /\ job'[t] = NoJob /\ op'[t] = NoOp /\ UNCHANGED storeVars
      BY <1>s, <2>1 DEF EndWalk, Shape, TypeOK, ThreadType
    <2>3. ThreadInv(t)'
      BY <2>2, PlainThread DEF NoJob, NoOp, ResetInv, Erasing, Walking
    <2> QED BY <1>k, <2>1, <2>2, <2>3, Quiet
  <1>5. CASE IterEnd(t) \/ IterGot(t)
    <2>1. /\ pc[t] \in {"next", "ret"} /\ pc'[t] \in {"exhausted", "next"}
          /\ job[t].kind = "iter" /\ UNCHANGED <<storeVars, job>>
          /\ op'[t].kind = op[t].kind
      BY <1>s, <1>5 DEF IterEnd, IterGot, Shape, TypeOK, ThreadType, NoOp, Control
    <2>2. ThreadInv(t)'
      BY <1>s, <2>1, PlainThread DEF ThreadInv, CtxInv, ResetInv, Erasing, Walking
    <2> QED BY <1>k, <2>1, <2>2, Quiet
  <1>6. CASE ResetWalked(t)
    <2>1. /\ pc[t] = "next" /\ pc'[t] = "seed" /\ UNCHANGED <<storeVars, op>>
          /\ job'[t].kind = job[t].kind /\ job'[t].stage = "get"
      BY <1>s, <1>6 DEF ResetWalked, Shape, TypeOK, ThreadType, Job
    <2>2. ThreadInv(t)'
      BY <1>s, <2>1, PlainThread DEF ThreadInv, Control, ResetInv, Erasing, Walking
    <2> QED BY <1>k, <2>1, <2>2, Quiet
  <1>7. CASE ResetDeleted(t)
    <2>1. pc[t] = "ret" /\ op[t].rc # "NOT_FOUND" /\ UNCHANGED storeVars
      BY <1>s, <1>7 DEF ResetDeleted, ThreadInv, ResetInv, Erasing
    <2>2. /\ pc'[t] = "next" /\ op'[t] = NoOp
          /\ job'[t].kind = job[t].kind /\ job'[t].stage = job[t].stage
      BY <1>s, <1>7, <2>1 DEF ResetDeleted, Shape, TypeOK, ThreadType, Job
    <2>3. ThreadInv(t)'
      BY <1>s, <2>1, <2>2, PlainThread DEF ThreadInv, CtxInv, ResetInv, Erasing, Walking, NoOp
    <2> QED BY <1>k, <2>1, <2>3, Quiet
  <1>8. ~ResetStale(t)
    BY <1>s DEF ResetStale, ThreadInv, ResetInv
  <1> QED BY <1>1, <1>2, <1>3, <1>4, <1>5, <1>6, <1>7, <1>8 DEF WalkStep

LEMMA SeedQuiet ==
  ASSUME IndexAssumptions, IndexInv, MapInv', NEW t \in Threads,
         \/ CallDefaults(t) \/ SeedSkip(t) \/ SeedGet(t) \/ SeedMissing(t)
         \/ SeedEntryDone(t) \/ SeedEnd(t)
  PROVE  IndexInv'
  <1>s. Shape /\ ThreadInv(t) /\ Control(t) /\ SeedStep(t)
    BY DEF IndexInv, MapInv, Shape, SeedStep
  <1>k. Keeps(t)
    BY <1>s, StepKeeps
  <1> USE DEF storeVars, flashVars, ctxVars
  <1>1. CASE CallDefaults(t)
    <2>1. pc[t] = "idle" /\ \A u \in Threads : ~UnlockedLoad(u)
      BY <1>1 DEF CallDefaults, MayCall, IndexAssumptions
    <2>2. /\ pc'[t] = "seed" /\ UNCHANGED <<storeVars, op>>
          /\ job'[t].kind = "defaults" /\ job'[t].stage = "get"
      BY <1>s, <1>1 DEF CallDefaults, StartSeed, NoJob, Shape, TypeOK, ThreadType
    <2>3. ThreadInv(t)'
      BY <1>s, <2>1, <2>2, PlainThread DEF ResetInv, Erasing, Walking, Control
    <2> QED BY <1>k, <2>1, <2>2, <2>3, Quiet
  <1>2. CASE SeedGet(t)
    <2>1. PICK k : Enter(t, job[t], "get", k, NoVal)
      BY <1>2 DEF SeedGet
    <2>2. pc[t] = "seed" /\ job[t].stage # "walk"
      BY <1>s, <1>2 DEF SeedGet, ThreadInv, ResetInv
    <2>3. ThreadInv(t)'
      BY <1>s, <2>1, <2>2, EnterThread DEF ThreadInv, ResetInv
    <2> QED BY <1>s, <1>k, <2>1, <2>2, <2>3, EnterKeeps, Quiet
  <1>3. CASE SeedMissing(t)
    <2>1. PICK k, v : Enter(t, [job[t] EXCEPT !.stage = "set"], "set", k, v)
      BY <1>3 DEF SeedMissing
    <2>2. /\ pc[t] = "ret" /\ [job[t] EXCEPT !.stage = "set"].stage = "set"
          /\ [job[t] EXCEPT !.stage = "set"].kind = job[t].kind
      BY <1>s, <1>3 DEF SeedMissing, Shape, TypeOK, ThreadType, Job
    <2>3. ThreadInv(t)'
      BY <1>s, <2>1, <2>2, EnterThread DEF ThreadInv, ResetInv
    <2> QED BY <1>s, <1>k, <2>1, <2>2, <2>3, EnterKeeps, Quiet
  <1>4. CASE SeedSkip(t) \/ SeedEntryDone(t)
    <2>1. /\ pc[t] \in {"seed", "ret"} /\ pc'[t] = "seed" /\ UNCHANGED storeVars
          /\ job'[t].kind = job[t].kind /\ job'[t].stage # "walk"
          /\ op'[t].kind = "none"
      <3>1. CASE SeedSkip(t)
        BY <1>s, <3>1 DEF SeedSkip, Shape, TypeOK, ThreadType, Job, Control, ThreadInv, ResetInv
      <3>2. CASE SeedEntryDone(t)
        BY <1>s, <3>2 DEF SeedEntryDone, Shape, TypeOK, ThreadType, Job, NoOp
      <3> QED BY <1>4, <3>1, <3>2
    <2>2. ThreadInv(t)'
      BY <1>s, <2>1, PlainThread DEF ThreadInv, ResetInv, Erasing, Walking
    <2> QED BY <1>k, <2>1, <2>2, Quiet
  <1>5. CASE SeedEnd(t)
    <2>1. /\ pc[t] = "seed" /\ pc'[t] \in {"reset_done", "idle"} /\ UNCHANGED <<storeVars, op>>
          /\ job'[t] = IF pc'[t] = "idle" THEN NoJob ELSE job[t]
      BY <1>s, <1>5 DEF SeedEnd, Shape, TypeOK, ThreadType
    <2>2. ThreadInv(t)'
      BY <1>s, <2>1, PlainThread DEF ThreadInv, ResetInv, Erasing, Walking, Control, NoJob
    <2> QED BY <1>k, <2>1, <2>2, Quiet
  <1> QED BY <1>1, <1>2, <1>3, <1>4, <1>5

--------------------------------------------------------------------------------
(* Steps that set the index up. *)

(* No other thread works on the index, or waits for it to be set up. *)
Clear(t) ==
  \A u \in Threads \ {t} :
     /\ pc[u] \notin {"alloc", "load", "scan", "track", "write", "drop", "unindex", "out"}
     /\ pc[u] = "ctx" => kvCtx # 0 /\ op[u].kind = "none"

LEMMA LoaderClear ==
  ASSUME IndexInv, NEW t \in Threads, pc[t] \in {"alloc", "load", "scan"}
  PROVE  Clear(t)
  <1>1. CASE op[t].kind = "none"
    <2>1. \A u \in Threads \ {t} : pc[u] = "idle"
      BY <1>1 DEF IndexInv, ThreadInv, Alone
    <2> QED BY <2>1 DEF Clear
  <1>2. CASE op[t].kind = "set"
    <2>1. lock = t
      BY <1>2 DEF IndexInv, MapInv, Exclusive, Holds, SetPlaces
    <2> QED BY <2>1, NoLoaderBeside DEF Clear
  <1>3. op[t].kind \in {"none", "set"}
    BY DEF IndexInv, MapInv, Shape, Control, LoadPlaces
  <1> QED BY <1>1, <1>2, <1>3

LEMMA OthersAfter ==
  ASSUME IndexInv, NEW t \in Threads, Keeps(t), Clear(t), pc[t] # "idle",
         kvCtx # 0 => kvCtx' # 0,
         NEW u \in Threads \ {t},
         Erasing(u) /\ pc[u] = "lock" /\ Stored(op[u].key) => Stored(op[u].key)'
  PROVE  ThreadInv(u)'
  <1>1. ThreadInv(u) /\ Control(u)
    BY DEF IndexInv, MapInv, Shape
  <1>2. pc'[u] = pc[u] /\ op'[u] = op[u] /\ job'[u] = job[u] /\ ld'[u] = ld[u]
    BY DEF Keeps, Local
  <1>3. /\ pc[u] \notin {"alloc", "load", "scan", "track", "write", "drop", "unindex", "out"}
        /\ pc[u] = "ctx" => kvCtx # 0
    BY DEF Clear
  <1>4. ld[u].ptr = 0
    BY <1>1, <1>3 DEF Control
  <1>5. CtxInv(u)' /\ Alone(u)'
    BY <1>1, <1>2, <1>3, <1>4 DEF ThreadInv, CtxInv, Alone, Walking
  <1>6. LoadInv(u)' /\ OpInv(u)'
    BY <1>2, <1>3 DEF LoadInv, OpInv
  <1>7. ResetInv(u)'
    BY <1>1, <1>2 DEF ThreadInv, ResetInv, Erasing
  <1> QED BY <1>5, <1>6, <1>7 DEF ThreadInv

(* What HaveCtx() leaves of a thread: a set is about to track its key. *)
LEMMA HaveCtxThread ==
  ASSUME IndexInv, MapInv', NEW t \in Threads, HaveCtx(t, kvCtx), kvCtx # 0,
         pc[t] \in LoadPlaces, UNCHANGED <<kvCtx, op, job, rec>>
  PROVE  ThreadInv(t)' /\ pc'[t] \in {"track", "next"}
  <1>s. Shape /\ ThreadInv(t) /\ Control(t)
    BY DEF IndexInv, MapInv, Shape
  <1>1. CASE op[t].kind = "set"
    <2>1. pc'[t] = "track" /\ ld'[t].ptr = kvCtx
      BY <1>s, <1>1 DEF HaveCtx, NoLoad, Shape, TypeOK, ThreadType
    <2> QED BY <1>s, <1>1, <2>1
         DEF ThreadInv, CtxInv, Alone, LoadInv, OpInv, ResetInv, Walking, Erasing
  <1>2. CASE op[t].kind # "set"
    <2>1. pc'[t] = "next"
      BY <1>s, <1>2 DEF HaveCtx, Shape, TypeOK, ThreadType
    <2>2. ResetInv(t)'
      BY <1>s, <2>1 DEF ThreadInv, ResetInv, Erasing
    <2> QED BY <2>1, <2>2, PlainThread
  <1> QED BY <1>1, <1>2

LEMMA CtxCheckStep ==
  ASSUME IndexInv, MapInv', NEW t \in Threads, CtxCheck(t)
  PROVE  IndexInv'
  <1>s. Shape /\ ThreadInv(t) /\ Control(t) /\ IndexStep(t)
    BY DEF IndexInv, MapInv, Shape, IndexStep
  <1>k. Keeps(t)
    BY <1>s, StepKeeps
  <1>1. pc[t] = "ctx" /\ UNCHANGED <<storeVars, op, job>>
    BY DEF CtxCheck, storeVars, flashVars, ctxVars
  <1>2. CASE kvCtx # 0
    <2>1. ThreadInv(t)'
      BY <1>1, <1>2, HaveCtxThread DEF CtxCheck, LoadPlaces, storeVars
    <2> QED BY <1>k, <1>1, <2>1, Quiet
  <1>3. CASE kvCtx = 0
    <2>1. pc'[t] = "alloc" /\ UNCHANGED ld
      BY <1>s, <1>3 DEF CtxCheck, Shape, TypeOK, ThreadType
    <2>2. Alone(t)'
      BY <1>s, <1>k, <1>1, <1>3, <2>1 DEF ThreadInv, Alone, Keeps, Local
    <2>3. CtxInv(t)' /\ LoadInv(t)' /\ OpInv(t)' /\ ResetInv(t)'
      BY <1>s, <1>1, <1>3, <2>1
         DEF ThreadInv, CtxInv, LoadInv, OpInv, ResetInv, Walking, Erasing, storeVars
    <2> QED BY <1>k, <1>1, <2>2, <2>3, Quiet DEF ThreadInv
  <1> QED BY <1>2, <1>3

LEMMA CtxAllocStep ==
  ASSUME IndexInv, MapInv', NEW t \in Threads, CtxAlloc(t)
  PROVE  IndexInv'
  <1>s. Shape /\ ThreadInv(t) /\ Control(t) /\ IndexStep(t)
    BY DEF IndexInv, MapInv, Shape, IndexStep
  <1>k. Keeps(t) /\ Clear(t)
    BY <1>s, StepKeeps, LoaderClear DEF CtxAlloc
  <1>1. /\ pc[t] = "alloc" /\ pc'[t] = "load" /\ ld'[t].ptr = kvCtx'
        /\ UNCHANGED <<rec, flashIndex, unlisted, op, job>>
    BY <1>s DEF CtxAlloc, flashVars, NoLoad, Shape, TypeOK, ThreadType
  <1>2. heap \in Seq(Seq(Keys)) /\ <<>> \in Seq(Keys)
    BY <1>s DEF Shape, TypeOK, IndexType
  <1>3. kvCtx = 0 /\ kvCtx' # 0 /\ Live' = <<>>
    BY <1>s, <1>1, <1>2 DEF CtxAlloc, ThreadInv, CtxInv, Live
  <1>4. FlashInv'
    BY <1>1 DEF IndexInv, FlashInv, OwnSlots, Stored
  <1>5. LiveInv'
    BY <1>1 DEF LiveInv, Loading
  <1>6. ThreadInv(t)'
    <2>1. Alone(t)'
      BY <1>s, <1>k, <1>1 DEF ThreadInv, Alone, Keeps, Local
    <2>2. CtxInv(t)' /\ LoadInv(t)' /\ OpInv(t)' /\ ResetInv(t)'
      BY <1>s, <1>1, <1>3 DEF ThreadInv, CtxInv, LoadInv, OpInv, ResetInv, Walking, Erasing
    <2> QED BY <2>1, <2>2 DEF ThreadInv
  <1>7. ASSUME NEW u \in Threads \ {t} PROVE ThreadInv(u)'
    BY <1>k, <1>1, <1>3, OthersAfter DEF Stored
  <1> QED BY <1>4, <1>5, <1>6, <1>7 DEF IndexInv

(* The rebuild finds a slab block: every thread holds at most one, and nobody   *)
(* else rebuilds.                                                               *)
LEMMA BlockFree ==
  ASSUME IndexAssumptions, IndexInv, NEW t \in Threads, pc[t] = "load"
  PROVE  FreeBlocks > 0
  <1>1. Clear(t)
    BY LoaderClear
  <1>2. ScanHolders = {}
    BY <1>1 DEF ScanHolders, Clear
  <1>3. IsFiniteSet(Threads) /\ IoHolders \in SUBSET Threads
    BY KvConstants DEF IoHolders
  <1>4. /\ Cardinality(IoHolders) <= Cardinality(Threads)
        /\ Cardinality(IoHolders) \in Nat /\ Cardinality(Threads) \in Nat
    BY <1>3, FS_Subset, FS_CardinalityType
  <1>5. Cardinality(ScanHolders) = 0
    BY <1>2, FS_EmptySet
  <1>6. Cardinality(Threads) < SlabBlocks /\ SlabBlocks \in Nat
    BY KvConstants DEF IndexAssumptions
  <1> QED BY <1>4, <1>5, <1>6 DEF FreeBlocks

LEMMA LoadBeginStep ==
  ASSUME IndexAssumptions, IndexInv, MapInv', NEW t \in Threads, LoadBegin(t)
  PROVE  IndexInv'
  <1>s. Shape /\ ThreadInv(t) /\ Control(t) /\ IndexStep(t)
    BY DEF IndexInv, MapInv, Shape, IndexStep
  <1>k. Keeps(t) /\ Clear(t)
    BY <1>s, StepKeeps, LoaderClear DEF LoadBegin
  <1>1. pc[t] = "load" /\ UNCHANGED <<rec, flashIndex, heap, kvCtx, unlisted, op, job>>
    BY DEF LoadBegin, flashVars, ctxVars
  <1>2. kvCtx # 0 /\ Live = <<>> /\ Live' = <<>> /\ ld[t].ptr = kvCtx
    BY <1>s, <1>1 DEF ThreadInv, CtxInv, LoadInv, Live, Control
  <1>3. FlashInv /\ FlashInv' /\ flashIndex \in Seq(Ids)
    BY <1>s, <1>1 DEF IndexInv, FlashInv, OwnSlots, Stored, Shape, TypeOK, FlashType
  <1>4. ASSUME NEW u \in Threads \ {t} PROVE ThreadInv(u)'
    BY <1>k, <1>1, OthersAfter DEF Stored
  <1>5. CASE flashIndex = <<>>
    <2>1. HaveCtx(t, kvCtx)
      BY <1>2, <1>5 DEF LoadBegin
    <2>2. ThreadInv(t)'
      BY <1>1, <1>2, <2>1, HaveCtxThread DEF LoadPlaces
    <2>3. flashIndex' = IdsOf(Live') /\ Distinct(Live') /\ Members(Live') = {}
      BY <1>1, <1>2, <1>5, EmptyIds
    <2>4. \A k \in Keys : Stored(k)' => k \in unlisted'
      BY <1>1, <1>3, <1>5, EmptyIds DEF FlashInv
    <2>5. LiveInv'
      BY <2>3, <2>4 DEF LiveInv
    <2> QED BY <1>3, <1>4, <2>2, <2>5 DEF IndexInv
  <1>6. CASE flashIndex # <<>>
    <2>1. FreeBlocks > 0 /\ Outcomes("read") = {TRUE}
      BY <1>1, BlockFree DEF IndexAssumptions, Outcomes
    <2>2. /\ pc'[t] = "scan" /\ ld'[t] = [ld[t] EXCEPT !.buf = flashIndex]
      BY <1>s, <1>6, <2>1 DEF LoadBegin, Shape, TypeOK, ThreadType
    <2>3. ld'[t].buf = flashIndex /\ ld'[t].ptr = kvCtx
      BY <1>s, <1>2, <2>2 DEF Shape, TypeOK, ThreadType, Load
    <2>4. LiveInv'
      BY <2>2 DEF LiveInv, Loading
    <2>5. Alone(t)'
      BY <1>s, <1>k, <1>1, <2>2 DEF ThreadInv, Alone, Keeps, Local
    <2>6. CtxInv(t)' /\ OpInv(t)' /\ ResetInv(t)'
      BY <1>s, <1>1, <1>2, <2>2, <2>3 DEF ThreadInv, CtxInv, OpInv, ResetInv, Walking, Erasing
    <2>7. LoadInv(t)'
      <3>1. IdsOf(Live') \o ld'[t].buf = flashIndex'
        BY <1>1, <1>2, <1>3, <2>3, EmptyIds
      <3>2. Len(Live') + Len(ld'[t].buf) = Len(flashIndex')
        BY <1>1, <1>2, <1>3, <2>3
      <3>3. Members(Live') = {} /\ Distinct(Live') /\ Distinct(flashIndex')
        BY <1>2, <1>3, EmptyIds DEF FlashInv
      <3> QED BY <1>1, <2>2, <2>3, <3>1, <3>2, <3>3 DEF LoadInv
    <2> QED BY <1>3, <1>4, <2>4, <2>5, <2>6, <2>7 DEF IndexInv, ThreadInv
  <1> QED BY <1>5, <1>6

(* Two stored keys never share a slot. *)
LEMMA OneStoredPerSlot ==
  ASSUME NEW k \in Keys, NEW m \in Keys, Stored(k), Stored(m), IdOf[k] = IdOf[m]
  PROVE  k = m
  BY DEF Stored, record_check

LEMMA LoadEntryStep ==
  ASSUME IndexAssumptions, IndexInv, MapInv', NEW t \in Threads, LoadEntry(t)
  PROVE  IndexInv'
  <1>s. Shape /\ ThreadInv(t) /\ Control(t) /\ IndexStep(t)
    BY DEF IndexInv, MapInv, Shape, IndexStep
  <1>k. Keeps(t) /\ Clear(t)
    BY <1>s, StepKeeps, LoaderClear DEF LoadEntry
  <1> DEFINE buf == ld[t].buf
             id == Head(buf)
             r == rec[id]
  <1>1. /\ pc[t] = "scan" /\ buf # <<>>
        /\ UNCHANGED <<rec, flashIndex, kvCtx, unlisted, op, job, pc>>
    BY DEF LoadEntry, flashVars
  <1>2. /\ kvCtx # 0 /\ ld[t].ptr = kvCtx /\ kvCtx \in 1..Len(heap)
        /\ heap \in Seq(Seq(Keys)) /\ Live = heap[kvCtx] /\ Live \in Seq(Keys)
    BY <1>s, <1>1 DEF ThreadInv, CtxInv, Control, Live, Shape, TypeOK, IndexType
  <1>3. /\ buf \in Seq(Ids) /\ flashIndex \in Seq(Ids) /\ ld[t] \in Load
        /\ rec \in [Ids -> Record]
    BY <1>s DEF Shape, TypeOK, ThreadType, Load, FlashType
  <1>4. /\ Distinct(Live) /\ Distinct(buf)
        /\ Members(buf) \subseteq Members(flashIndex)
        /\ Len(Live) + Len(buf) <= Len(flashIndex)
        /\ \A k \in Keys : k \in Members(Live) <=>
              Stored(k) /\ IdOf[k] \in Members(flashIndex) \ Members(buf)
        /\ ~ld[t].pruned => flashIndex = IdsOf(Live) \o buf
    BY <1>s, <1>1 DEF ThreadInv, LoadInv
  <1>5. /\ id \in Members(buf) /\ Members(Tail(buf)) = Members(buf) \ {id}
        /\ Distinct(Tail(buf))
    BY <1>1, <1>3, <1>4, MembersTail
  <1>6. /\ id \in Ids /\ Tail(buf) \in Seq(Ids) /\ Len(Tail(buf)) = Len(buf) - 1
        /\ Len(buf) > 0
    BY <1>1, <1>3
  <1>7. FlashInv /\ FlashInv'
    BY <1>1 DEF IndexInv, FlashInv, OwnSlots, Stored
  <1>8. LiveInv'
    BY <1>1 DEF LiveInv, Loading
  <1>9. ASSUME NEW u \in Threads \ {t} PROVE ThreadInv(u)'
    BY <1>k, <1>1, OthersAfter DEF Stored
  <1>10. Alone(t)' /\ OpInv(t)' /\ ResetInv(t)'
    BY <1>s, <1>1 DEF ThreadInv, Alone, OpInv, ResetInv, Erasing, Stored
  <1> HIDE DEF buf, id, r
  <1>11. CASE r.kind = "kv"
    <2>1. r.key \in Keys /\ IdOf[r.key] = id /\ Stored(r.key)
      BY <1>s, <1>6, <1>7, <1>11 DEF Shape, RecordsWhole, FlashInv, OwnSlots, Stored, record_check, r
    <2>2. /\ heap' = [heap EXCEPT ![kvCtx] = Append(Live, r.key)]
          /\ ld' = [ld EXCEPT ![t] = [ld[t] EXCEPT !.buf = Tail(buf)]]
      BY <1>2, <1>11 DEF LoadEntry, Outcomes, IndexAssumptions, buf, id, r
    <2>3. Live' = Append(Live, r.key)
      BY <1>1, <1>2, <2>1, <2>2 DEF Live
    <2>4. ld'[t].buf = Tail(buf) /\ ld'[t].pruned = ld[t].pruned /\ ld'[t].ptr = ld[t].ptr
      BY <1>s, <1>3, <2>2 DEF Shape, TypeOK, ThreadType, Load
    <2>5. r.key \notin Members(Live)
      BY <1>4, <1>5, <2>1
    <2>6. Members(Live') = Members(Live) \cup {r.key} /\ Distinct(Live') /\ Len(Live') = Len(Live) + 1
      BY <1>2, <1>4, <2>1, <2>3, <2>5, MembersAppend, DistinctAppend
    <2>7. ASSUME NEW k \in Keys
          PROVE  k \in Members(Live') <=>
                    Stored(k) /\ IdOf[k] \in Members(flashIndex) \ Members(Tail(buf))
      BY <1>4, <1>5, <2>1, <2>6, OneStoredPerSlot
    <2>8. ~ld[t].pruned => flashIndex = IdsOf(Live') \o Tail(buf)
      <3>1. IdsOf(Live') = Append(IdsOf(Live), id) /\ IdsOf(Live) \in Seq(Ids)
        BY <1>2, <2>1, <2>3, IdsAppend, IdsOfType
      <3>2. Append(IdsOf(Live), id) \o Tail(buf) = IdsOf(Live) \o buf
        BY <1>1, <1>3, <1>6, <3>1, SplitHead DEF id
      <3> QED BY <1>4, <3>1, <3>2
    <2>9. LoadInv(t)'
      BY <1>1, <1>4, <1>5, <1>6, <1>2, <1>3, <2>4, <2>6, <2>7, <2>8, SMTT(30) DEF LoadInv, Stored
    <2>10. CtxInv(t)'
      BY <1>s, <1>1, <2>4 DEF ThreadInv, CtxInv, Walking
    <2> QED BY <1>7, <1>8, <1>9, <1>10, <2>9, <2>10 DEF IndexInv, ThreadInv
  <1>12. CASE r.kind # "kv"
    <2>1. /\ UNCHANGED heap
          /\ ld' = [ld EXCEPT ![t] = [ld[t] EXCEPT !.buf = Tail(buf), !.pruned = TRUE]]
      BY <1>12 DEF LoadEntry, Outcomes, IndexAssumptions, buf, id, r
    <2>2. Live' = Live
      BY <1>1, <2>1 DEF Live
    <2>3. ld'[t].buf = Tail(buf) /\ ld'[t].pruned /\ ld'[t].ptr = ld[t].ptr
      BY <1>s, <1>3, <2>1 DEF Shape, TypeOK, ThreadType, Load
    <2>4. ASSUME NEW k \in Keys, Stored(k) PROVE IdOf[k] # id
      BY <1>12, <2>4 DEF Stored, record_check, r
    <2>5. LoadInv(t)'
      BY <1>1, <1>2, <1>3, <1>4, <1>5, <1>6, <2>2, <2>3, <2>4 DEF LoadInv, Stored
    <2>6. CtxInv(t)'
      BY <1>s, <1>1, <2>3 DEF ThreadInv, CtxInv, Walking
    <2> QED BY <1>7, <1>8, <1>9, <1>10, <2>5, <2>6 DEF IndexInv, ThreadInv
  <1> QED BY <1>11, <1>12

LEMMA LoadEndStep ==
  ASSUME IndexAssumptions, IndexInv, MapInv', NEW t \in Threads, LoadEnd(t)
  PROVE  IndexInv'
  <1>s. Shape /\ ThreadInv(t) /\ Control(t) /\ IndexStep(t)
    BY DEF IndexInv, MapInv, Shape, IndexStep
  <1>k. Keeps(t) /\ Clear(t)
    BY <1>s, StepKeeps, LoaderClear DEF LoadEnd
  <1>1. /\ pc[t] = "scan" /\ ld[t].buf = <<>>
        /\ UNCHANGED <<rec, heap, kvCtx, unlisted, op, job>>
    BY DEF LoadEnd, ctxVars
  <1>2. /\ kvCtx # 0 /\ ld[t].ptr = kvCtx /\ Live = heap[kvCtx] /\ Live' = Live
        /\ Live \in Seq(Keys) /\ flashIndex \in Seq(Ids)
    BY <1>s, <1>1 DEF ThreadInv, CtxInv, Control, Live, Shape, TypeOK, IndexType, FlashType
  <1>3. /\ Distinct(Live) /\ Len(Live) <= Len(flashIndex)
        /\ \A k \in Keys : k \in Members(Live) <=> Stored(k) /\ IdOf[k] \in Members(flashIndex)
        /\ ~ld[t].pruned => flashIndex = IdsOf(Live)
    <2>1. IdsOf(Live) \in Seq(Ids)
      BY <1>2, IdsOfType
    <2> QED BY <1>s, <1>1, <1>2, <2>1, EmptyIds DEF ThreadInv, LoadInv
  <1>4. flashIndex' = IdsOf(Live)
    <2>1. CASE ld[t].pruned
      BY <1>2, <2>1 DEF LoadEnd, index_store, Outcomes, IndexAssumptions
    <2>2. CASE ~ld[t].pruned
      BY <1>3, <2>2 DEF LoadEnd
    <2> QED BY <2>1, <2>2
  <1>5. FlashInv
    BY DEF IndexInv
  <1>6. \A k \in Keys : Stored(k) => (k \in unlisted <=> k \notin Members(Live))
    BY <1>3, <1>5 DEF FlashInv
  <1>7. FlashInv'
    <2>1. Members(Live) \subseteq Keys /\ \A k \in Members(Live) : Stored(k)
      BY <1>2, <1>3 DEF Members
    <2>2. Distinct(IdsOf(Live))
      BY <1>2, <1>3, <2>1, IdsDistinct, OneStoredPerSlot
    <2>3. Len(IdsOf(Live)) <= MaxEntries
      <3>1. MaxEntries \in Nat /\ Len(flashIndex) <= MaxEntries
        BY <1>5, KvConstants DEF FlashInv
      <3> QED BY <1>2, <1>3, <3>1, IdsOfType
    <2>4. Members(flashIndex') = {IdOf[k] : k \in Members(Live)}
      BY <1>2, <1>4, MembersIds
    <2>5. ASSUME NEW k \in Keys, Stored(k)
          PROVE  k \in unlisted <=> IdOf[k] \notin Members(flashIndex')
      BY <1>6, <2>1, <2>4, <2>5, OneStoredPerSlot
    <2> QED BY <1>1, <1>4, <1>5, <2>2, <2>3, <2>5 DEF FlashInv, OwnSlots, Stored
  <1>8. LiveInv'
    <2>1. \A k \in Keys : k \in Members(Live) <=> Stored(k) /\ k \notin unlisted
      BY <1>3, <1>6
    <2> QED BY <1>1, <1>2, <1>3, <1>4, <2>1 DEF LiveInv, Stored
  <1>9. ThreadInv(t)'
    BY <1>1, <1>2, HaveCtxThread DEF LoadEnd, LoadPlaces
  <1>10. ASSUME NEW u \in Threads \ {t} PROVE ThreadInv(u)'
    BY <1>k, <1>1, OthersAfter DEF Stored
  <1> QED BY <1>7, <1>8, <1>9, <1>10 DEF IndexInv

--------------------------------------------------------------------------------
(* Steps that change the records or the entries. *)

(* What holds around a set or delete that owns the lock. *)
LEMMA Owner ==
  ASSUME IndexInv, NEW t \in Threads, pc[t] \in {"track", "write", "unindex"}
  PROVE  /\ Clear(t) /\ ~Loading /\ lock = t
         /\ op[t].key \in Keys
         /\ \A k \in Keys : InFlight(k) <=> pc[t] # "track" /\ k = op[t].key
  <1>1. Control(t) /\ lock = t
    BY DEF IndexInv, MapInv, Shape, Exclusive, Holds, SetPlaces, Control
  <1>2. Clear(t)
    BY <1>1, NoLoaderBeside DEF Clear
  <1>3. ~Loading
    BY <1>2 DEF Loading, Clear
  <1>4. op[t].key \in Keys
    BY <1>1 DEF Control
  <1>5. \A k \in Keys : InFlight(k) <=> pc[t] # "track" /\ k = op[t].key
    BY <1>2 DEF InFlight, Clear
  <1> QED BY <1>1, <1>2, <1>3, <1>4, <1>5

(* The slot a set has claimed is free of the records of other keys. *)
LEMMA SlotIsMine ==
  ASSUME IndexInv, NEW t \in Threads, pc[t] \in {"track", "write"},
         NEW k \in Keys, Stored(k), IdOf[k] = IdOf[op[t].key]
  PROVE  k = op[t].key
  <1>1. Claimed(t) /\ op[t].kind = "set"
    BY DEF IndexInv, MapInv, Shape, Control
  <1> QED BY <1>1 DEF Claimed, SetPlaces, Stored, record_check

LEMMA SetTrackStep ==
  ASSUME IndexAssumptions, IndexInv, MapInv', NEW t \in Threads, SetTrack(t)
  PROVE  IndexInv'
  <1>s. Shape /\ ThreadInv(t) /\ Control(t) /\ OpStep(t)
    BY DEF IndexInv, MapInv, Shape, OpStep
  <1> DEFINE k == op[t].key
  <1>1. pc[t] = "track" /\ UNCHANGED <<rec, kvCtx, job>>
    BY DEF SetTrack
  <1>k. Keeps(t) /\ Clear(t) /\ ~Loading /\ k \in Keys /\ \A m \in Keys : ~InFlight(m)
    BY <1>s, <1>1, StepKeeps, Owner
  <1>2. /\ kvCtx # 0 /\ ld[t].ptr = kvCtx /\ kvCtx \in 1..Len(heap)
        /\ heap \in Seq(Seq(Keys)) /\ Live = heap[kvCtx] /\ Live \in Seq(Keys)
    BY <1>s, <1>1 DEF ThreadInv, CtxInv, Control, Live, Shape, TypeOK, IndexType
  <1>3. /\ pc'[t] = "write" /\ ld'[t].ptr = 0 /\ op'[t].key = k /\ op'[t].kind = op[t].kind
        /\ op'[t].indexed = (k \in Members(Live) \/ Len(Live) < MaxEntries)
        /\ op'[t].rc = op[t].rc
    BY <1>s, <1>2 DEF SetTrack, NoLoad, Shape, TypeOK, ThreadType, Op
  <1>4. /\ Distinct(Live) /\ flashIndex = IdsOf(Live)
        /\ \A m \in Keys : m \in Members(Live) <=> Stored(m) /\ m \notin unlisted
    BY <1>k, <1>2 DEF IndexInv, LiveInv
  <1>5. FlashInv /\ flashIndex \in Seq(Ids)
    BY <1>s DEF IndexInv, Shape, TypeOK, FlashType
  <1>6. Members(flashIndex) = {IdOf[m] : m \in Members(Live)} /\ Members(Live) \subseteq Keys
    <2>1. Members(Live) \subseteq Keys
      BY <1>2 DEF Members
    <2> QED BY <1>2, <1>4, <2>1, MembersIds
  <1>7. \A m \in Keys : m = k => InFlight(m)'
    BY <1>3 DEF InFlight
  <1>8. \A m \in Keys : Stored(m)' <=> Stored(m)
    BY <1>1 DEF Stored
  <1>9. ASSUME NEW u \in Threads \ {t} PROVE ThreadInv(u)'
    BY <1>k, <1>1, OthersAfter DEF Stored, Keeps, Local
  <1>10. CtxInv(t)' /\ Alone(t)' /\ LoadInv(t)' /\ ResetInv(t)'
    BY <1>s, <1>1, <1>2, <1>3 
       DEF Control, ThreadInv, CtxInv, Alone, LoadInv, ResetInv, Walking, Erasing
  <1> HIDE DEF k
  <1>11. CASE k \notin Members(Live) /\ Len(Live) < MaxEntries
    <2>1. /\ heap' = [heap EXCEPT ![kvCtx] = Append(Live, k)]
          /\ flashIndex' = IdsOf(Append(Live, k)) /\ unlisted' = unlisted \ {k}
      BY <1>2, <1>11 DEF SetTrack, index_store, Outcomes, IndexAssumptions, k
    <2>2. Live' = Append(Live, k) /\ Len(Live') = Len(Live) + 1
      BY <1>1, <1>2, <1>k, <2>1 DEF Live
    <2>3. Members(Live') = Members(Live) \cup {k} /\ Distinct(Live')
      BY <1>k, <1>2, <1>4, <1>11, <2>2, MembersAppend, DistinctAppend
    <2>4. flashIndex' = Append(flashIndex, IdOf[k]) /\ IdOf[k] \in Ids
      BY <1>k, <1>2, <1>4, <2>1, IdsAppend, KvConstants
    <2>5. IdOf[k] \notin Members(flashIndex)
      <3> SUFFICES ASSUME NEW m \in Members(Live), IdOf[m] = IdOf[k] PROVE FALSE
        BY <1>6
      <3>1. m \in Keys /\ Stored(m)
        BY <1>4, <1>6
      <3> QED BY <1>1, <1>11, <3>1, SlotIsMine DEF k
    <2>6. /\ Members(flashIndex') = Members(flashIndex) \cup {IdOf[k]} /\ Distinct(flashIndex')
          /\ Len(flashIndex') = Len(Live) + 1
      BY <1>2, <1>4, <1>5, <2>4, <2>5, MembersAppend, DistinctAppend, IdsOfType DEF FlashInv
    <2>7. FlashInv'
      <3>1. ASSUME NEW m \in Keys, Stored(m), m # k PROVE IdOf[m] # IdOf[k]
        BY <1>1, <3>1, SlotIsMine DEF k
      <3>2. ASSUME NEW m \in Keys, Stored(m)
            PROVE  m \in unlisted' <=> IdOf[m] \notin Members(flashIndex')
        BY <1>5, <2>1, <2>6, <3>1, <3>2 DEF FlashInv
      <3>3. Len(flashIndex') <= MaxEntries
        BY <1>2, <1>11, <2>6, KvConstants
      <3> QED BY <1>1, <1>5, <1>8, <2>6, <3>2, <3>3 DEF FlashInv, OwnSlots
    <2>8. LiveInv'
      BY <1>4, <1>7, <1>8, <2>1, <2>2, <2>3 DEF LiveInv
    <2>9. OpInv(t)'
      BY <1>3, <1>11, <2>1, <2>3 DEF OpInv
    <2> QED BY <1>9, <1>10, <2>7, <2>8, <2>9 DEF IndexInv, ThreadInv
  <1>12. CASE k \in Members(Live) \/ ~(Len(Live) < MaxEntries)
    <2>1. /\ UNCHANGED <<heap, flashIndex>>
          /\ unlisted' = IF k \in Members(Live) THEN unlisted \ {k} ELSE unlisted
      BY <1>2, <1>12 DEF SetTrack, k
    <2>2. Live' = Live
      BY <1>1, <2>1 DEF Live
    <2>3. unlisted' = unlisted
      BY <1>k, <1>4, <2>1
    <2>4. FlashInv'
      BY <1>1, <1>5, <1>8, <2>1, <2>3 DEF FlashInv, OwnSlots
    <2>5. LiveInv'
      BY <1>4, <1>8, <2>1, <2>2, <2>3 DEF LiveInv
    <2>6. OpInv(t)'
      BY <1>k, <1>3, <1>4, <1>12, <2>2, <2>3 DEF OpInv
    <2> QED BY <1>9, <1>10, <2>4, <2>5, <2>6 DEF IndexInv, ThreadInv
  <1> QED BY <1>11, <1>12

LEMMA SetWriteStep ==
  ASSUME IndexAssumptions, IndexInv, MapInv', NEW t \in Threads, SetWrite(t)
  PROVE  IndexInv'
  <1>s. Shape /\ ThreadInv(t) /\ Control(t) /\ Status(t) /\ OpStep(t)
    BY DEF IndexInv, MapInv, Shape, OpStep
  <1> DEFINE k == op[t].key
  <1>1. /\ pc[t] = "write" /\ pc'[t] = "out" /\ op[t].kind = "set"
        /\ UNCHANGED <<flashIndex, heap, kvCtx, job, op, ld>>
    BY <1>s DEF SetWrite, ctxVars, Control, Shape, TypeOK, ThreadType
  <1>k. /\ Keeps(t) /\ Clear(t) /\ ~Loading /\ k \in Keys
        /\ \A m \in Keys : InFlight(m) <=> m = k
    BY <1>s, <1>1, StepKeeps, Owner
  <1>2. kvCtx # 0 /\ Live \in Seq(Keys) /\ Live' = Live
    BY <1>s, <1>1, LiveType DEF ThreadInv, CtxInv, Live
  <1>3. /\ Distinct(Live) /\ flashIndex = IdsOf(Live)
        /\ \A m \in Keys : m # k => (m \in Members(Live) <=> Stored(m) /\ m \notin unlisted)
    BY <1>k, <1>2 DEF IndexInv, LiveInv
  <1>4. IF op[t].indexed THEN k \in Members(Live) /\ k \notin unlisted ELSE k \notin Members(Live)
    BY <1>s, <1>1 DEF ThreadInv, OpInv
  <1>5. FlashInv
    BY DEF IndexInv
  <1>6. Members(flashIndex) = {IdOf[m] : m \in Members(Live)} /\ Members(Live) \subseteq Keys
    <2>1. Members(Live) \subseteq Keys
      BY <1>2 DEF Members
    <2> QED BY <1>2, <1>3, <2>1, MembersIds
  <1>7. unlisted' = IF op[t].indexed THEN unlisted ELSE unlisted \cup {k}
    BY DEF SetWrite
  <1>8. \A m \in Keys : IdOf[m] = IdOf[k] /\ Stored(m) => m = k
    BY <1>1, SlotIsMine
  <1>9. rec' = [rec EXCEPT ![IdOf[k]] = record_build(k, op[t].val)] /\ rec \in [Ids -> Record]
        /\ IdOf \in [Keys -> Ids]
    BY <1>s, KvConstants DEF SetWrite, Shape, TypeOK, FlashType
  <1>10. /\ IdOf[k] \in Ids /\ rec'[IdOf[k]].kind = "kv" /\ rec'[IdOf[k]].key = k
         /\ \A i \in Ids : i # IdOf[k] => rec'[i] = rec[i]
    BY <1>k, <1>9 DEF record_build
  <1> HIDE DEF k
  <1>11. ASSUME NEW m \in Keys PROVE Stored(m)' <=> m = k \/ Stored(m)
    <2>1. CASE IdOf[m] = IdOf[k]
      BY <1>8, <1>10, <2>1 DEF Stored, record_check
    <2>2. CASE IdOf[m] # IdOf[k]
      BY <1>9, <1>10, <2>2 DEF Stored, record_check
    <2> QED BY <2>1, <2>2
  <1>12. FlashInv'
    <2>1. OwnSlots'
      BY <1>5, <1>10 DEF FlashInv, OwnSlots
    <2>2. ASSUME NEW m \in Keys, Stored(m)'
          PROVE  m \in unlisted' <=> IdOf[m] \notin Members(flashIndex)
      <3>1. CASE m # k
        BY <1>5, <1>7, <1>11, <2>2, <3>1 DEF FlashInv
      <3>2. CASE m = k /\ op[t].indexed
        BY <1>4, <1>6, <1>7, <3>2
      <3>3. CASE m = k /\ ~op[t].indexed
        <4>1. ASSUME NEW n \in Members(Live) PROVE IdOf[n] # IdOf[k]
          BY <1>3, <1>4, <1>6, <1>8, <3>3
        <4> QED BY <1>6, <1>7, <3>3, <4>1
      <3> QED BY <3>1, <3>2, <3>3
    <2> QED BY <1>1, <1>5, <2>1, <2>2 DEF FlashInv
  <1>13. LiveInv'
    <2>1. ASSUME NEW m \in Keys
          PROVE  m \in Members(Live) <=> Stored(m)' /\ m \notin unlisted'
      BY <1>3, <1>4, <1>7, <1>11, <2>1
    <2> QED BY <1>1, <1>2, <1>3, <2>1 DEF LiveInv
  <1>14. ThreadInv(t)'
    <2>1. op[t].rc = "OK"
      BY <1>s, <1>1 DEF Status, SetPlaces
    <2>2. ResetInv(t)'
      BY <1>s, <1>1, <2>1 DEF ThreadInv, ResetInv, Erasing
    <2>3. Walking(t)' => kvCtx' # 0
      BY <1>1, <1>2
    <2> QED BY <1>1, <2>2, <2>3, PlainThread
  <1>15. ASSUME NEW u \in Threads \ {t} PROVE ThreadInv(u)'
    <2>1. pc[u] = "lock" => op[u].key \in Keys
      BY DEF IndexInv, MapInv, Shape, Control
    <2>2. pc[u] = "lock" /\ Stored(op[u].key) => Stored(op[u].key)'
      BY <1>1, <1>11, <2>1
    <2> QED BY <1>k, <1>1, <2>2, OthersAfter
  <1> QED BY <1>12, <1>13, <1>14, <1>15 DEF IndexInv

LEMMA DeleteEraseStep ==
  ASSUME IndexAssumptions, IndexInv, MapInv', NEW t \in Threads, DeleteErase(t)
  PROVE  IndexInv'
  <1>s. Shape /\ ThreadInv(t) /\ Control(t) /\ OpStep(t)
    BY DEF IndexInv, MapInv, Shape, OpStep
  <1> DEFINE k == op[t].key
  <1>1. /\ pc[t] = "lock" /\ pc'[t] = "unindex" /\ op[t].kind = "delete"
        /\ lock = NoThread /\ Stored(k) /\ unlisted' = unlisted \ {k}
        /\ UNCHANGED <<flashIndex, heap, kvCtx, job, op, ld>>
    BY <1>s DEF DeleteErase, ctxVars, Shape, TypeOK, ThreadType
  <1>k. Keeps(t) /\ Clear(t) /\ k \in Keys
    BY <1>s, <1>1, StepKeeps, NoLoaderBeside DEF Clear, Control
  <1>2. FlashInv /\ Live' = Live
    BY <1>1 DEF IndexInv, Live
  <1>3. /\ rec' = [rec EXCEPT ![IdOf[k]] = NoRecord] /\ rec \in [Ids -> Record]
        /\ IdOf \in [Keys -> Ids]
    BY <1>s, KvConstants DEF DeleteErase, Shape, TypeOK, FlashType
  <1>4. /\ IdOf[k] \in Ids /\ rec'[IdOf[k]].kind = "none"
        /\ \A i \in Ids : i # IdOf[k] => rec'[i] = rec[i]
    BY <1>k, <1>3 DEF NoRecord
  <1> HIDE DEF k
  <1>5. ASSUME NEW m \in Keys PROVE Stored(m)' <=> m # k /\ Stored(m)
    <2>1. CASE IdOf[m] = IdOf[k]
      <3>1. ~Stored(m)'
        BY <1>4, <2>1 DEF Stored, record_check
      <3>2. Stored(m) => m = k
        BY <1>k, <1>1, <2>1, OneStoredPerSlot
      <3> QED BY <3>1, <3>2
    <2>2. CASE IdOf[m] # IdOf[k]
      BY <1>3, <1>4, <2>2 DEF Stored, record_check
    <2> QED BY <2>1, <2>2
  <1>6. FlashInv'
    <2>1. OwnSlots'
      BY <1>2, <1>4 DEF FlashInv, OwnSlots
    <2>2. ASSUME NEW m \in Keys, Stored(m)'
          PROVE  m \in unlisted' <=> IdOf[m] \notin Members(flashIndex)
      BY <1>1, <1>2, <1>5, <2>2 DEF FlashInv
    <2> QED BY <1>1, <1>2, <2>1, <2>2 DEF FlashInv
  <1>7. LiveInv'
    <2>1. CASE kvCtx # 0
      <3>1. /\ Distinct(Live) /\ flashIndex = IdsOf(Live)
            /\ \A m \in Keys : m \in Members(Live) <=> Stored(m) /\ m \notin unlisted
        BY <1>1, <2>1, ExactNow
      <3>2. \A m \in Keys : m = k => InFlight(m)'
        BY <1>1 DEF InFlight, k
      <3>3. ASSUME NEW m \in Keys, ~InFlight(m)'
            PROVE  m \in Members(Live) <=> Stored(m)' /\ m \notin unlisted'
        BY <1>1, <1>5, <3>1, <3>2, <3>3
      <3> QED BY <1>1, <1>2, <3>1, <3>3 DEF LiveInv
    <2>2. CASE kvCtx = 0
      BY <1>1, <2>2 DEF LiveInv
    <2> QED BY <2>1, <2>2
  <1>8. ThreadInv(t)'
    <2>1. ~Stored(op[t].key)'
      BY <1>k, <1>1, <1>5 DEF k
    <2>2. op[t].key \notin unlisted'
      BY <1>1 DEF k
    <2> QED BY <1>s, <1>1, <2>1, <2>2
         DEF ThreadInv, CtxInv, Alone, LoadInv, OpInv, ResetInv, Walking, Erasing
  <1>9. ASSUME NEW u \in Threads \ {t} PROVE ThreadInv(u)'
    <2>1. ~Erasing(u)
      <3>1. "reset" \in Calls[t] \/ "delete" \in Calls[t]
        BY <1>s, <1>1 DEF ThreadInv, ResetInv, Erasing
      <3>2. Erasing(u) => "reset" \in Calls[u]
        BY DEF IndexInv, ThreadInv, ResetInv, Erasing
      <3> QED BY <3>1, <3>2 DEF IndexAssumptions
    <2> QED BY <1>k, <1>1, <2>1, OthersAfter
  <1> QED BY <1>6, <1>7, <1>8, <1>9 DEF IndexInv

LEMMA DeleteUnindexStep ==
  ASSUME IndexAssumptions, IndexInv, MapInv', NEW t \in Threads, DeleteUnindex(t)
  PROVE  IndexInv'
  <1>s. Shape /\ ThreadInv(t) /\ Control(t) /\ Status(t) /\ OpStep(t)
    BY DEF IndexInv, MapInv, Shape, OpStep
  <1> DEFINE k == op[t].key
  <1>1. /\ pc[t] = "unindex" /\ pc'[t] = "out" /\ op[t].kind = "delete"
        /\ track_delete(k) /\ UNCHANGED <<rec, kvCtx, unlisted, job, op, ld>>
    BY <1>s DEF DeleteUnindex, Control, Shape, TypeOK, ThreadType
  <1>k. /\ Keeps(t) /\ Clear(t) /\ ~Loading /\ k \in Keys
        /\ \A m \in Keys : InFlight(m) <=> m = k
    BY <1>s, <1>1, StepKeeps, Owner
  <1>2. FlashInv /\ ~Stored(k) /\ k \notin unlisted /\ Live \in Seq(Keys)
    BY <1>s, <1>1, LiveType DEF IndexInv, ThreadInv, OpInv
  <1>3. kvCtx # 0 =>
          /\ Distinct(Live) /\ flashIndex = IdsOf(Live)
          /\ \A m \in Keys : m # k => (m \in Members(Live) <=> Stored(m) /\ m \notin unlisted)
    BY <1>k DEF IndexInv, LiveInv
  <1>4. ThreadInv(t)'
    <2>1. op[t].rc = "OK"
      BY <1>s, <1>1 DEF Status, SetPlaces
    <2>2. ResetInv(t)'
      BY <1>s, <1>1, <2>1 DEF ThreadInv, ResetInv, Erasing
    <2>3. Walking(t)' => kvCtx' # 0
      BY <1>s, <1>1 DEF ThreadInv, CtxInv, Walking
    <2> QED BY <1>1, <2>2, <2>3, PlainThread
  <1>5. ASSUME NEW u \in Threads \ {t} PROVE ThreadInv(u)'
    BY <1>k, <1>1, OthersAfter DEF Stored
  <1>6. \A m \in Keys : Stored(m)' <=> Stored(m)
    BY <1>1 DEF Stored
  <1> HIDE DEF k
  <1>7. CASE k \notin Members(Live)
    <2>1. UNCHANGED <<heap, flashIndex>> /\ Live' = Live
      BY <1>1, <1>7 DEF track_delete, Live
    <2>2. FlashInv'
      BY <1>1, <1>2, <1>6, <2>1 DEF FlashInv, OwnSlots
    <2>3. LiveInv'
      BY <1>1, <1>2, <1>3, <1>6, <1>7, <2>1 DEF LiveInv
    <2> QED BY <1>4, <1>5, <2>2, <2>3 DEF IndexInv
  <1>8. CASE k \in Members(Live)
    <2> DEFINE p == find_entry(Live, k)
    <2>1. kvCtx # 0
      BY <1>8, EmptyIds DEF Live
    <2>2. p \in 1..Len(Live) /\ Live[p] = k
      BY <1>2, <1>8, FindEntry
    <2>3. heap' = [heap EXCEPT ![kvCtx] = Compact(Live, p)] /\ flashIndex' = IdsOf(Compact(Live, p))
      BY <1>1, <1>8 DEF track_delete, index_store, Outcomes, IndexAssumptions
    <2> HIDE DEF p
    <2>4. Live' = Compact(Live, p)
      BY <1>s, <1>1, <2>1, <2>3 DEF Live, Shape, TypeOK, IndexType
    <2>5. Members(Live') = Members(Live) \ {k} /\ Distinct(Live')
      BY <1>2, <1>3, <2>1, <2>2, <2>4, CompactMembers
    <2>6. Live' \in Seq(Keys) /\ Len(Live') = Len(Live) - 1 /\ Len(Live) > 0
      BY <1>2, <2>2, <2>4, CompactType
    <2>7. Members(flashIndex) = {IdOf[m] : m \in Members(Live)} /\ Members(Live) \subseteq Keys
      <3>1. Members(Live) \subseteq Keys
        BY <1>2 DEF Members
      <3> QED BY <1>2, <1>3, <2>1, <3>1, MembersIds
    <2>8. Members(flashIndex') = {IdOf[m] : m \in Members(Live) \ {k}}
      BY <2>3, <2>4, <2>5, <2>6, MembersIds
    <2>9. Distinct(flashIndex')
      <3>1. \A m \in Members(Live') : m \in Keys /\ Stored(m)
        BY <1>3, <2>1, <2>5, <2>7
      <3> QED BY <2>3, <2>4, <2>5, <2>6, <3>1, IdsDistinct, OneStoredPerSlot
    <2>10. Len(flashIndex') <= MaxEntries
      <3>1. Len(flashIndex') = Len(Live) - 1 /\ Len(flashIndex) = Len(Live) /\ Len(Live) \in Nat
        BY <1>2, <1>3, <2>1, <2>3, <2>4, <2>6, IdsOfType
      <3> QED BY <1>2, <3>1, KvConstants DEF FlashInv
    <2>11. FlashInv'
      <3>1. ASSUME NEW m \in Keys, Stored(m)
            PROVE  m \in unlisted <=> IdOf[m] \notin Members(flashIndex')
        BY <1>2, <1>3, <2>1, <2>7, <2>8, <3>1 DEF FlashInv
      <3> QED BY <1>1, <1>2, <1>6, <2>9, <2>10, <3>1 DEF FlashInv, OwnSlots
    <2>12. LiveInv'
      BY <1>1, <1>2, <1>3, <1>6, <2>1, <2>3, <2>4, <2>5 DEF LiveInv
    <2> QED BY <1>4, <1>5, <2>11, <2>12 DEF IndexInv
  <1> QED BY <1>7, <1>8

(* A start of the instance and a power loss: no thread is in a call. *)
LEMMA FreshStart ==
  ASSUME IndexInv, MapInv', UNCHANGED <<rec, flashIndex, unlisted>>, kvCtx' = 0,
         \A u \in Threads : /\ pc'[u] \in {"idle", "seed"}
                            /\ pc'[u] = "idle" => job'[u].kind = "none"
                            /\ job'[u].kind \in {"none", "init"}
                            /\ pc'[u] = "seed" => job'[u].stage # "walk"
                            /\ op'[u].kind = "none"
  PROVE  IndexInv'
  <1>1. FlashInv'
    BY DEF IndexInv, FlashInv, OwnSlots, Stored
  <1>2. LiveInv'
    BY DEF LiveInv
  <1>3. ASSUME NEW u \in Threads PROVE ThreadInv(u)'
    <2>1. ResetInv(u)'
      BY <1>3 DEF ResetInv, Erasing
    <2> QED BY <1>3, <2>1, PlainThread DEF Walking
  <1> QED BY <1>1, <1>2, <1>3 DEF IndexInv

LEMMA CallInitStep ==
  ASSUME IndexInv, MapInv', NEW t \in Threads, CallInit(t)
  PROVE  IndexInv'
  <1>1. UNCHANGED <<rec, flashIndex, unlisted>> /\ kvCtx' = 0
    BY DEF CallInit, StartSeed, flashVars
  <1>2. ASSUME NEW u \in Threads
        PROVE  /\ pc'[u] \in {"idle", "seed"}
               /\ pc'[u] = "idle" => job'[u].kind = "none"
               /\ job'[u].kind \in {"none", "init"}
               /\ pc'[u] = "seed" => job'[u].stage # "walk"
               /\ op'[u].kind = "none"
    <2>1. pc[u] = "idle" /\ Control(u) /\ CtxInv(u)
      BY DEF CallInit, IndexInv, MapInv, Shape, ThreadInv
    <2>2. pc \in [Threads -> Places] /\ job \in [Threads -> Job]
      BY DEF IndexInv, MapInv, Shape, TypeOK, ThreadType
    <2> QED BY <2>1, <2>2 DEF CallInit, StartSeed, NoJob, Control, CtxInv
  <1> QED BY <1>1, <1>2, FreshStart

LEMMA IndexInvInit == Init => IndexInv
  <1> SUFFICES ASSUME Init PROVE IndexInv
    OBVIOUS
  <1>1. MapInv
    BY MapInvInit
  <1>2. FlashInv
    <2>1. \A i \in Ids : rec[i].kind # "kv"
      BY DEF Init, ForeignRecord, NoRecord
    <2>2. \A k \in Keys : ~Stored(k)
      BY <2>1, KvConstants DEF Stored, record_check
    <2>3. flashIndex = <<>> /\ Len(flashIndex) <= MaxEntries
      BY KvConstants DEF Init
    <2> QED BY <2>1, <2>2, <2>3, EmptyIds DEF FlashInv, OwnSlots
  <1>3. LiveInv
    BY DEF Init, LiveInv
  <1>4. ASSUME NEW t \in Threads PROVE ThreadInv(t)
    <2>1. pc[t] = "idle" /\ job[t] = NoJob /\ op[t] = NoOp /\ ld[t] = NoLoad
      BY DEF Init
    <2> QED BY <2>1 DEF ThreadInv, CtxInv, Alone, LoadInv, OpInv, ResetInv, Walking, Erasing,
                        NoJob, NoOp, NoLoad
  <1> QED BY <1>1, <1>2, <1>3, <1>4 DEF IndexInv

LEMMA IndexInvStep ==
  ASSUME IndexAssumptions
  PROVE  IndexInv /\ [Next]_vars => IndexInv'
  <1> SUFFICES ASSUME IndexInv, [Next]_vars PROVE IndexInv'
    OBVIOUS
  <1>m. MapInv'
    BY MapInvStep DEF IndexInv, IndexAssumptions
  <1>1. CASE UNCHANGED vars
    <2>1. FlashInv' /\ LiveInv'
      BY <1>1 DEF vars, IndexInv, FlashInv, OwnSlots, LiveInv, Live, Loading, InFlight, Stored
    <2>2. ASSUME NEW t \in Threads PROVE ThreadInv(t)'
      <3>1. ThreadInv(t)
        BY DEF IndexInv
      <3> QED BY <1>1, <3>1, ZenonT(30) DEF vars, ThreadInv, CtxInv, Alone, LoadInv, OpInv, ResetInv,
                                Walking, Erasing, Live, Stored
    <2> QED BY <1>m, <2>1, <2>2 DEF IndexInv
  <1>2. CASE PowerLoss
    <2>1. UNCHANGED <<rec, flashIndex, unlisted>> /\ kvCtx' = 0
      BY <1>2 DEF PowerLoss, flashVars
    <2>2. \A u \in Threads : pc'[u] = "idle" /\ job'[u] = NoJob /\ op'[u] = NoOp
      BY <1>2 DEF PowerLoss
    <2> QED BY <1>m, <2>1, <2>2, FreshStart DEF NoJob, NoOp
  <1>3. ASSUME NEW t \in Threads, IndexStep(t) PROVE IndexInv'
    <2>1. ~CtxAllocFails(t)
      BY DEF CtxAllocFails, IndexAssumptions
    <2> QED BY <1>m, <1>3, <2>1, CtxCheckStep, CtxAllocStep, LoadBeginStep, LoadEntryStep,
               LoadEndStep DEF IndexStep
  <1>4. ASSUME NEW t \in Threads, OpStep(t) PROVE IndexInv'
    <2>1. ~SetWriteFails(t)
      BY DEF SetWriteFails, IndexAssumptions
    <2>2. ~SetDrop(t)
      BY DEF SetDrop, IndexInv, ThreadInv, ResetInv
    <2> QED BY <1>m, <1>4, <2>1, <2>2, OpQuiet, SetTrackStep, SetWriteStep, DeleteEraseStep,
               DeleteUnindexStep DEF OpStep
  <1>5. ASSUME NEW t \in Threads, WalkStep(t) PROVE IndexInv'
    BY <1>m, <1>5, WalkQuiet
  <1>6. ASSUME NEW t \in Threads, SeedStep(t) PROVE IndexInv'
    BY <1>m, <1>6, SeedQuiet, CallInitStep DEF SeedStep
  <1> QED BY <1>1, <1>2, <1>3, <1>4, <1>5, <1>6 DEF Next

--------------------------------------------------------------------------------
(* The theorems. *)

(* zdb_kv_set() writes the index before the data: at every moment, so after a   *)
(* power loss at any moment, the persisted index names the slot of every stored *)
(* key, but for those the application was told the index had no room for.       *)
THEOREM StoredKeysAreListed ==
  ASSUME IndexAssumptions
  PROVE  Spec => []StoredKeysListed
  <1>1. Init => IndexInv
    BY IndexInvInit
  <1>2. IndexInv /\ [Next]_vars => IndexInv'
    BY IndexInvStep
  <1>3. IndexInv => StoredKeysListed
    BY DEF IndexInv, FlashInv, StoredKeysListed
  <1> QED BY <1>1, <1>2, <1>3, PTL DEF Spec

(* Whenever nobody holds the lock or rebuilds the index, the index in RAM lists *)
(* the stored keys, each once and nothing else, fits its array and equals its   *)
(* persisted copy: track_set(), track_delete() and index_load() keep it exact   *)
(* through any number of calls, full arrays and power losses.                   *)
THEOREM IndexStaysExact ==
  ASSUME IndexAssumptions
  PROVE  Spec => []IndexExact
  <1>1. Init => IndexInv
    BY IndexInvInit
  <1>2. IndexInv /\ [Next]_vars => IndexInv'
    BY IndexInvStep
  <1>3. IndexInv => IndexExact
    <2> SUFFICES ASSUME IndexInv, lock = NoThread, ~Loading, kvCtx # 0
                 PROVE  /\ Members(Live) = {k \in Keys : Stored(k)} \ unlisted
                        /\ Len(Live) = Cardinality(Members(Live))
                        /\ Len(Live) <= MaxEntries
                        /\ flashIndex = IdsOf(Live)
      BY DEF IndexExact
    <2>1. Shape /\ Exclusive
      BY DEF IndexInv, MapInv
    <2>2. \A k \in Keys : ~InFlight(k)
      <3>1. ASSUME NEW t \in Threads PROVE pc[t] \notin {"write", "unindex"}
        BY <2>1, KvConstants DEF Exclusive, Holds, SetPlaces, Shape, Control
      <3> QED BY <3>1 DEF InFlight
    <2>3. /\ Distinct(Live) /\ flashIndex = IdsOf(Live)
          /\ \A k \in Keys : k \in Members(Live) <=> Stored(k) /\ k \notin unlisted
      BY <2>2 DEF IndexInv, LiveInv
    <2>4. Live \in Seq(Keys) /\ Members(Live) \subseteq Keys
      <3>1. Live \in Seq(Keys)
        BY <2>1, LiveType
      <3> QED BY <3>1 DEF Members
    <2>5. Len(Live) = Cardinality(Members(Live))
      BY <2>3, <2>4, DistinctLength
    <2>6. Len(Live) <= MaxEntries
      BY <2>3, <2>4, IdsOfType DEF IndexInv, FlashInv
    <2>7. Members(Live) = {k \in Keys : Stored(k)} \ unlisted
      BY <2>3, <2>4
    <2> QED BY <2>3, <2>5, <2>6, <2>7
  <1> QED BY <1>1, <1>2, <1>3, PTL DEF Spec

--------------------------------------------------------------------------------
(* The walks of the index: iterations and resets *)

(* An iterator holds a position in the index, so, as for a reset, no other      *)
(* thread may erase keys beside it.                                             *)
WalkAssumptions ==
  /\ IndexAssumptions
  /\ \A t, u \in Threads :
        t # u /\ "iter" \in Calls[t] => Calls[u] \cap {"delete", "reset"} = {}

(* An iterator behind its entry pos - 1: what it returned lies in front of pos, *)
(* and what lies there and is due was returned, but for the key being read.     *)
Reading(t) == pc[t] \in {"lock", "ret"}
Walked(t) ==
  /\ job[t].pos <= Len(Live) + 1
  /\ \A k \in Keys : seen[t][k] # 0 => \E i \in 1..(job[t].pos - 1) : Live[i] = k
  /\ \A i \in 1..(job[t].pos - 1) :
        Live[i] \in due[t] => seen[t][Live[i]] = 1 \/ (Reading(t) /\ Live[i] = op[t].key)
  /\ Reading(t) => /\ job[t].pos > 1 /\ op[t].key = Live[job[t].pos - 1]
                   /\ seen[t][op[t].key] = 0
  /\ pc[t] = "ret" /\ op[t].key \in due[t] => op[t].rc # "NOT_FOUND"
  /\ pc[t] = "exhausted" => \A k \in due[t] : seen[t][k] = 1

IterInv(t) ==
  /\ job[t].kind # "iter" => pc[t] # "exhausted" /\ \A k \in Keys : seen[t][k] = 0
  /\ job[t].kind = "iter" =>
       /\ "iter" \in Calls[t]
       /\ pc[t] \in LoadPlaces \cup {"next", "lock", "ret", "exhausted"}
       /\ op[t].kind \in {"none", "get"}
       /\ \A k \in due[t] : NsOf[k] = job[t].ns /\ Stored(k) /\ k \notin unlisted
       /\ \A k \in Keys : seen[t][k] <= 1
       /\ pc[t] \in LoadPlaces => job[t].pos = 1 /\ \A k \in Keys : seen[t][k] = 0
       /\ pc[t] \notin LoadPlaces => Walked(t)

(* A set without an entry in a full index was not listed before. *)
WriteInv(t) ==
  pc[t] = "write" /\ ~op[t].indexed => ~Stored(op[t].key) \/ op[t].key \in unlisted

(* A reset, before and after its walk.  As long as it met no failure its walk   *)
(* stays at the first entry.                                                    *)
Seeded(k) ==
  \E i \in 1..Len(Defaults) : Defaults[i] = [key |-> k, val |-> rec[IdOf[k]].val]
ClearInv(t) ==
  /\ pc[t] = "reset_done" => job[t].kind = "reset" /\ job[t].stage # "walk"
  /\ job[t].kind = "reset" /\ job[t].stage = "walk" =>
       /\ op[t].kind # "set"
       /\ ~job[t].err => job[t].pos = 1
       /\ \A k \in due[t] : NsOf[k] = job[t].ns /\ (Stored(k) => k \notin unlisted)
  /\ job[t].kind = "reset" /\ job[t].stage # "walk" =>
       /\ op[t].kind # "none" \/ pc[t] = "ret" => op[t].key = Defaults[job[t].pos].key
       /\ op[t].kind = "set" => op[t].val = Defaults[job[t].pos].val
       /\ ~job[t].err => \A k \in due[t] : Stored(k) => Seeded(k)

WalkInv == IndexInv /\ \A t \in Threads : IterInv(t) /\ WriteInv(t) /\ ClearInv(t)

--------------------------------------------------------------------------------
(* What a step of one thread leaves of the walks of the others. *)

Grows == Len(Live) <= Len(Live') /\ \A i \in 1..Len(Live) : Live'[i] = Live[i]

LEMMA WalkedGrows ==
  ASSUME Shape, Shape', NEW t \in Threads, Walked(t), Grows,
         pc'[t] = pc[t], op'[t] = op[t], job'[t] = job[t], seen'[t] = seen[t],
         due'[t] \subseteq due[t]
  PROVE  Walked(t)'
  <1>1. /\ Live \in Seq(Keys) /\ Live' \in Seq(Keys)
        /\ Len(Live) \in Nat /\ Len(Live') \in Nat /\ job[t].pos \in Nat \ {0}
    <2>1. Live' \in Seq(Keys)
      BY DEF Shape, TypeOK, IndexType, Live
    <2> QED BY <2>1, LiveType DEF Shape, TypeOK, ThreadType, Job
  <1>2. \A i \in 1..(job[t].pos - 1) : i \in 1..Len(Live) /\ Live'[i] = Live[i]
    BY <1>1 DEF Walked, Grows
  <1>3. Reading(t)' <=> Reading(t)
    BY DEF Reading
  <1>4. Reading(t) => job[t].pos - 1 \in 1..(job[t].pos - 1)
    BY <1>1 DEF Walked
  <1>5. job[t].pos <= Len(Live') + 1
    BY <1>1 DEF Walked, Grows
  <1> QED BY <1>2, <1>3, <1>4, <1>5 DEF Walked

LEMMA OthersWalk ==
  ASSUME WalkInv, MapInv', NEW t \in Threads, Keeps(t), NEW u \in Threads \ {t},
         due'[u] \subseteq due[u], seen'[u] = seen[u],
         job[u].kind = "iter" /\ pc[u] \notin LoadPlaces => Grows,
         pc[u] = "write" => UNCHANGED <<rec, unlisted>>,
         \A k \in due'[u] : /\ job[u].kind = "iter" /\ Stored(k) => Stored(k)'
                            /\ Stored(k)' => Stored(k) /\ rec'[IdOf[k]] = rec[IdOf[k]]
                            /\ k \in unlisted' => k \in unlisted
  PROVE  IterInv(u)' /\ WriteInv(u)' /\ ClearInv(u)'
  <1>1. pc'[u] = pc[u] /\ op'[u] = op[u] /\ job'[u] = job[u] /\ ld'[u] = ld[u]
    BY DEF Keeps, Local
  <1>2. IterInv(u) /\ WriteInv(u) /\ ClearInv(u) /\ Shape /\ Shape'
    BY DEF WalkInv, IndexInv, MapInv
  <1>3. IterInv(u)'
    <2>1. CASE job[u].kind = "iter" /\ pc[u] \notin LoadPlaces
      <3>1. Walked(u)'
        BY <1>1, <1>2, <2>1, WalkedGrows DEF IterInv
      <3> QED BY <1>1, <1>2, <2>1, <3>1 DEF IterInv
    <2>2. CASE ~(job[u].kind = "iter" /\ pc[u] \notin LoadPlaces)
      BY <1>1, <1>2, <2>2 DEF IterInv
    <2> QED BY <2>1, <2>2
  <1>4. WriteInv(u)'
    BY <1>1, <1>2 DEF WriteInv, Stored
  <1>5. ClearInv(u)'
    BY <1>1, <1>2 DEF ClearInv, Seeded
  <1> QED BY <1>3, <1>4, <1>5

LEMMA OthersQuiet ==
  ASSUME WalkInv, MapInv', NEW t \in Threads, Keeps(t), NEW u \in Threads \ {t},
         UNCHANGED <<rec, heap, kvCtx, unlisted>>, due'[u] = due[u], seen'[u] = seen[u]
  PROVE  IterInv(u)' /\ WriteInv(u)' /\ ClearInv(u)'
  <1>1. Live' = Live
    BY DEF Live
  <1>2. Len(Live) \in Nat
    BY LiveType DEF WalkInv, IndexInv, MapInv
  <1>3. Grows
    BY <1>1, <1>2 DEF Grows
  <1>4. \A k : Stored(k)' <=> Stored(k)
    BY DEF Stored
  <1> QED BY <1>3, <1>4, OthersWalk

(* A thread in neither walk. *)
LEMMA NoWalk ==
  ASSUME NEW t \in Threads, job'[t].kind \notin {"iter", "reset"},
         pc'[t] \notin {"write", "exhausted", "reset_done"},
         \A k \in Keys : seen'[t][k] = 0
  PROVE  IterInv(t)' /\ WriteInv(t)' /\ ClearInv(t)'
  BY DEF IterInv, WriteInv, ClearInv

(* The index of a walking thread only grows when another thread sets it up. *)
LEMMA IndexStepGrows ==
  ASSUME IndexAssumptions, IndexInv, NEW t \in Threads, IndexStep(t), kvCtx # 0
  PROVE  Grows /\ UNCHANGED kvCtx
  <1>s. Shape /\ ThreadInv(t) /\ Control(t)
    BY DEF IndexInv, MapInv, Shape
  <1>1. heap \in Seq(Seq(Keys)) /\ kvCtx \in 1..Len(heap) /\ Live \in Seq(Keys) /\ Live = heap[kvCtx]
    BY <1>s, LiveType DEF Shape, TypeOK, IndexType, Live
  <1>2. CASE LoadEntry(t)
    <2>1. ld[t].ptr = kvCtx /\ UNCHANGED kvCtx
      BY <1>s, <1>2 DEF LoadEntry, Control, ThreadInv, CtxInv
    <2>2. CASE UNCHANGED heap
      BY <1>1, <2>1, <2>2 DEF Grows, Live
    <2>3. CASE \E k : heap' = [heap EXCEPT ![kvCtx] = Append(Live, k)]
      <3>1. PICK k : heap' = [heap EXCEPT ![kvCtx] = Append(Live, k)]
        BY <2>3
      <3>2. Live' = Append(Live, k)
        BY <1>1, <2>1, <3>1 DEF Live
      <3> QED BY <1>1, <2>1, <3>2 DEF Grows
    <2> QED BY <1>1, <1>2, <2>1, <2>2, <2>3 DEF LoadEntry
  <1>3. CASE CtxAlloc(t)
    BY <1>s, <1>3 DEF CtxAlloc, ThreadInv, CtxInv
  <1>4. CASE CtxCheck(t) \/ LoadBegin(t) \/ LoadEnd(t)
    <2>1. UNCHANGED <<heap, kvCtx>>
      BY <1>4 DEF CtxCheck, LoadBegin, LoadEnd, ctxVars
    <2> QED BY <1>1, <2>1 DEF Grows, Live
  <1>5. ~CtxAllocFails(t)
    BY DEF CtxAllocFails, IndexAssumptions
  <1> QED BY <1>2, <1>3, <1>4, <1>5 DEF IndexStep

LEMMA WalkInvIndex ==
  ASSUME IndexAssumptions, WalkInv, IndexInv', NEW t \in Threads, IndexStep(t)
  PROVE  WalkInv'
  <1>s. /\ Shape /\ IndexInv /\ MapInv' /\ ThreadInv(t) /\ Control(t)
        /\ IterInv(t) /\ WriteInv(t) /\ ClearInv(t)
    BY DEF WalkInv, IndexInv, MapInv, Shape
  <1>1. /\ Keeps(t) /\ pc[t] \in LoadPlaces /\ op[t].kind \in {"none", "set"}
        /\ op[t].kind = "set" => pc'[t] \in SetPlaces
        /\ op[t].kind = "none" => pc'[t] \in LoadPlaces \cup {"next", "idle"}
    BY <1>s, StepKeeps, IndexStepResult
  <1>2. ~CtxAllocFails(t)
    BY DEF CtxAllocFails, IndexAssumptions
  <1>3. UNCHANGED <<rec, unlisted, op, job, due, seen>>
    BY <1>2 DEF IndexStep, CtxCheck, CtxAlloc, LoadBegin, LoadEntry, LoadEnd, flashVars, walkVars
  <1>4. pc'[t] \in LoadPlaces \cup {"track", "next"}
    BY <1>s, <1>2 DEF IndexStep, CtxCheck, CtxAlloc, LoadBegin, LoadEntry, LoadEnd, HaveCtx,
                      LoadPlaces, Shape, TypeOK, ThreadType
  <1>5. ASSUME NEW u \in Threads \ {t} PROVE IterInv(u)' /\ WriteInv(u)' /\ ClearInv(u)'
    <2>1. job[u].kind = "iter" /\ pc[u] \notin LoadPlaces => Grows
      <3>1. job[u].kind = "iter" /\ pc[u] \notin LoadPlaces => kvCtx # 0
        BY DEF WalkInv, IndexInv, MapInv, Shape, Control, ThreadInv, CtxInv, Walking, LoadPlaces
      <3> QED BY <1>s, <3>1, IndexStepGrows
    <2> QED BY <1>s, <1>1, <1>3, <2>1, OthersWalk DEF Stored
  <1>6. IterInv(t)'
    <2>1. CASE job[t].kind # "iter"
      BY <1>s, <1>3, <1>4, <2>1 DEF IterInv, LoadPlaces
    <2>2. CASE job[t].kind = "iter" /\ pc'[t] \in LoadPlaces
      BY <1>s, <1>1, <1>3, <2>2 DEF IterInv, Stored
    <2>3. CASE job[t].kind = "iter" /\ pc'[t] \notin LoadPlaces
      <3>1. pc'[t] = "next" /\ job[t].pos = 1 /\ \A k \in Keys : seen[t][k] = 0
        BY <1>s, <1>1, <1>4, <2>3 DEF IterInv, SetPlaces
      <3>2. Live' \in Seq(Keys)
        BY <1>s DEF MapInv, Shape, TypeOK, IndexType, Live
      <3>3. Walked(t)'
        BY <1>3, <3>1, <3>2 DEF Walked, Reading
      <3> QED BY <1>s, <1>1, <1>3, <2>3, <3>1, <3>3 DEF IterInv, Stored
    <2> QED BY <2>1, <2>2, <2>3
  <1>7. WriteInv(t)'
    BY <1>4 DEF WriteInv, LoadPlaces
  <1>8. ClearInv(t)'
    BY <1>s, <1>3, <1>4 DEF ClearInv, Seeded, Stored, LoadPlaces
  <1> QED BY <1>5, <1>6, <1>7, <1>8 DEF WalkInv

--------------------------------------------------------------------------------
(* Steps of sets, gets and deletes. *)

LEMMA FinishWalk ==
  ASSUME WalkInv, MapInv', NEW t \in Threads, NEW s, Finish(t, job[t], op[t].key, s),
         pc[t] \in {"lock", "out"}, UNCHANGED <<rec, heap, kvCtx, unlisted, job, due, seen>>,
         job[t].kind = "iter" => (Stored(op[t].key) => s # "NOT_FOUND")
  PROVE  IterInv(t)' /\ WriteInv(t)' /\ ClearInv(t)'
  <1>s. /\ Shape /\ ThreadInv(t) /\ Control(t)
        /\ IterInv(t) /\ WriteInv(t) /\ ClearInv(t)
    BY DEF WalkInv, IndexInv, MapInv, Shape
  <1>1. CASE job[t].kind \notin {"iter", "reset"}
    <2>1. pc'[t] \notin {"write", "exhausted", "reset_done"}
      BY <1>s DEF Finish, Shape, TypeOK, ThreadType
    <2> QED BY <1>s, <1>1, <2>1, NoWalk DEF IterInv
  <1>2. CASE job[t].kind \in {"iter", "reset"}
    <2>1. pc'[t] = "ret" /\ op'[t].kind = "none" /\ op'[t].key = op[t].key /\ op'[t].rc = s
      BY <1>s, <1>2 DEF Finish, NoOp, Shape, TypeOK, ThreadType
    <2>2. IterInv(t)'
      <3>1. CASE job[t].kind = "iter"
        <4>1. Walked(t) /\ pc[t] = "lock"
          BY <1>s, <3>1 DEF IterInv, LoadPlaces
        <4>2. Live' = Live /\ Reading(t) /\ Reading(t)'
          BY <2>1, <4>1 DEF Live, Reading
        <4>3. op[t].key \in due[t] => s # "NOT_FOUND"
          BY <1>s, <3>1 DEF IterInv
        <4>4. Walked(t)'
          BY <2>1, <4>1, <4>2, <4>3 DEF Walked
        <4> QED BY <1>s, <2>1, <3>1, <4>4 DEF IterInv, Stored, LoadPlaces
      <3>2. CASE job[t].kind # "iter"
        BY <1>s, <2>1, <3>2 DEF IterInv
      <3> QED BY <3>1, <3>2
    <2>3. WriteInv(t)'
      BY <2>1 DEF WriteInv
    <2>4. ClearInv(t)'
      <3>1. op[t].kind # "none"
        BY <1>s DEF Control
      <3> QED BY <1>s, <2>1, <3>1 DEF ClearInv, Seeded, Stored
    <2> QED BY <2>2, <2>3, <2>4
  <1> QED BY <1>1, <1>2

LEMMA WalkInvOpQuiet ==
  ASSUME WalkInv, IndexInv', NEW t \in Threads,
         \/ CallSet(t) \/ SetLock(t) \/ Out(t) \/ CallGet(t) \/ Get(t)
         \/ CallDelete(t) \/ DeleteRefused(t)
  PROVE  WalkInv'
  <1>s. /\ Shape /\ MapInv' /\ ThreadInv(t) /\ Control(t) /\ OpStep(t)
        /\ IterInv(t) /\ WriteInv(t) /\ ClearInv(t)
    BY DEF WalkInv, IndexInv, MapInv, Shape, OpStep
  <1>k. Keeps(t)
    BY <1>s, StepKeeps
  <1>1. UNCHANGED <<rec, heap, kvCtx, unlisted, due, seen>>
    BY DEF CallSet, SetLock, Out, CallGet, Get, CallDelete, DeleteRefused, Enter, flashVars,
           ctxVars, walkVars
  <1>2. ASSUME NEW u \in Threads \ {t} PROVE IterInv(u)' /\ WriteInv(u)' /\ ClearInv(u)'
    BY <1>s, <1>k, <1>1, OthersQuiet
  <1> SUFFICES IterInv(t)' /\ WriteInv(t)' /\ ClearInv(t)'
    BY <1>2 DEF WalkInv
  <1>3. CASE CallSet(t) \/ CallGet(t) \/ CallDelete(t)
    <2>1. PICK o, k, v : Enter(t, NoJob, o, k, v)
      BY <1>3 DEF CallSet, CallGet, CallDelete
    <2>2. job'[t] = NoJob /\ pc'[t] \notin {"write", "exhausted", "reset_done"}
      BY <1>s, <2>1, EnterKeeps, EnterResult
    <2>3. job[t].kind = "none"
      BY <1>s, <1>3 DEF CallSet, CallGet, CallDelete, MayCall, ThreadInv, CtxInv
    <2> QED BY <1>s, <1>1, <2>2, <2>3, NoWalk DEF IterInv, NoJob
  <1>4. CASE Out(t)
    <2>1. job[t].kind # "iter"
      BY <1>s, <1>4 DEF Out, IterInv, LoadPlaces
    <2> QED BY <1>s, <1>1, <1>4, <2>1, FinishWalk DEF Out
  <1>5. CASE DeleteRefused(t)
    <2>1. job[t].kind # "iter"
      BY <1>s, <1>5 DEF DeleteRefused, IterInv
    <2> QED BY <1>s, <1>1, <1>5, <2>1, FinishWalk DEF DeleteRefused
  <1>6. CASE Get(t)
    <2>1. PICK s : Finish(t, job[t], op[t].key, s) /\ (Stored(op[t].key) => s # "NOT_FOUND")
      BY <1>6 DEF Get
    <2> QED BY <1>s, <1>1, <1>6, <2>1, FinishWalk DEF Get
  <1>7. CASE SetLock(t)
    <2>1. job[t].kind # "iter" /\ UNCHANGED job
      BY <1>s, <1>7 DEF SetLock, IterInv
    <2>2. CASE Finish(t, job[t], op[t].key, "COLLISION")
      BY <1>s, <1>1, <1>7, <2>1, <2>2, FinishWalk DEF SetLock
    <2>3. CASE pc' = [pc EXCEPT ![t] = "ctx"] /\ UNCHANGED op
      <3>1. pc'[t] = "ctx" /\ op[t].kind = "set"
        BY <1>s, <1>7, <2>3 DEF SetLock, Shape, TypeOK, ThreadType
      <3> QED BY <1>s, <1>1, <2>1, <2>3, <3>1 DEF IterInv, WriteInv, ClearInv, Seeded, Stored
    <2> QED BY <1>7, <2>2, <2>3 DEF SetLock
  <1> QED BY <1>3, <1>4, <1>5, <1>6, <1>7

LEMMA WalkInvTrack ==
  ASSUME IndexAssumptions, WalkInv, IndexInv', NEW t \in Threads, SetTrack(t)
  PROVE  WalkInv'
  <1>s. /\ Shape /\ IndexInv /\ MapInv' /\ ThreadInv(t) /\ Control(t) /\ OpStep(t)
        /\ IterInv(t) /\ ClearInv(t)
    BY DEF WalkInv, IndexInv, MapInv, Shape, OpStep
  <1>1. pc[t] = "track" /\ pc'[t] = "write" /\ UNCHANGED <<rec, kvCtx, job, due, seen>>
    BY <1>s DEF SetTrack, walkVars, Shape, TypeOK, ThreadType
  <1>k. /\ Keeps(t) /\ Clear(t) /\ ~Loading /\ op[t].key \in Keys
        /\ \A m \in Keys : ~InFlight(m)
    BY <1>s, <1>1, StepKeeps, Owner
  <1>2. /\ kvCtx # 0 /\ ld[t].ptr = kvCtx /\ kvCtx \in 1..Len(heap)
        /\ heap \in Seq(Seq(Keys)) /\ Live = heap[kvCtx] /\ Live \in Seq(Keys)
    BY <1>s, <1>1 DEF ThreadInv, CtxInv, Control, Live, Shape, TypeOK, IndexType
  <1>3. \A m \in Keys : m \in Members(Live) <=> Stored(m) /\ m \notin unlisted
    BY <1>s, <1>k, <1>2 DEF IndexInv, LiveInv
  <1>4. Grows
    <2>1. CASE UNCHANGED heap
      BY <1>1, <1>2, <2>1 DEF Grows, Live
    <2>2. CASE heap' = [heap EXCEPT ![kvCtx] = Append(Live, op[t].key)]
      <3>1. Live' = Append(Live, op[t].key)
        BY <1>1, <1>2, <1>k, <2>2 DEF Live
      <3> QED BY <1>2, <1>k, <3>1 DEF Grows
    <2> QED BY <1>2, <2>1, <2>2 DEF SetTrack
  <1>5. unlisted' \subseteq unlisted
    BY DEF SetTrack
  <1>6. ASSUME NEW u \in Threads \ {t} PROVE IterInv(u)' /\ WriteInv(u)' /\ ClearInv(u)'
    BY <1>s, <1>k, <1>1, <1>4, <1>5, OthersWalk DEF Clear, Stored
  <1>7. /\ op'[t].key = op[t].key /\ op'[t].kind = op[t].kind /\ op'[t].val = op[t].val
        /\ op'[t].indexed = (op[t].key \in Members(Live) \/ Len(Live) < MaxEntries)
    BY <1>s, <1>2 DEF SetTrack, Shape, TypeOK, ThreadType, Op
  <1>8. WriteInv(t)'
    <2>1. ~op'[t].indexed => op[t].key \notin Members(Live) /\ UNCHANGED unlisted
      BY <1>2, <1>7 DEF SetTrack
    <2> QED BY <1>1, <1>k, <1>3, <1>7, <2>1 DEF WriteInv, Stored
  <1>9. IterInv(t)'
    BY <1>s, <1>1 DEF IterInv, LoadPlaces
  <1>10. ClearInv(t)'
    BY <1>s, <1>1, <1>5, <1>7 DEF ClearInv, Control, Seeded, Stored
  <1> QED BY <1>6, <1>8, <1>9, <1>10 DEF WalkInv

LEMMA WalkInvWrite ==
  ASSUME IndexAssumptions, WalkInv, IndexInv', NEW t \in Threads, SetWrite(t)
  PROVE  WalkInv'
  <1>s. /\ Shape /\ IndexInv /\ MapInv' /\ ThreadInv(t) /\ Control(t) /\ OpStep(t)
        /\ IterInv(t) /\ WriteInv(t) /\ ClearInv(t)
    BY DEF WalkInv, IndexInv, MapInv, Shape, OpStep
  <1> DEFINE k == op[t].key
  <1>1. /\ pc[t] = "write" /\ pc'[t] = "out" /\ op[t].kind = "set"
        /\ UNCHANGED <<heap, kvCtx, job, op, seen>> /\ due' = DueAfterWrite(t, k)
    BY <1>s DEF SetWrite, ctxVars, Control, Shape, TypeOK, ThreadType
  <1>k. Keeps(t) /\ Clear(t) /\ k \in Keys
    BY <1>s, <1>1, StepKeeps, Owner
  <1>2. unlisted' = IF op[t].indexed THEN unlisted ELSE unlisted \cup {k}
    BY DEF SetWrite
  <1>3. \A m \in Keys : IdOf[m] = IdOf[k] /\ Stored(m) => m = k
    BY <1>s, <1>1, SlotIsMine
  <1>4. /\ rec' = [rec EXCEPT ![IdOf[k]] = record_build(k, op[t].val)] /\ rec \in [Ids -> Record]
        /\ IdOf \in [Keys -> Ids]
    BY <1>s, KvConstants DEF SetWrite, Shape, TypeOK, FlashType
  <1>5. /\ IdOf[k] \in Ids /\ rec'[IdOf[k]].kind = "kv" /\ rec'[IdOf[k]].key = k
        /\ rec'[IdOf[k]].val = op[t].val
        /\ \A i \in Ids : i # IdOf[k] => rec'[i] = rec[i]
    BY <1>k, <1>4 DEF record_build
  <1>6. due \in [Threads -> SUBSET Keys]
    BY <1>s DEF Shape, TypeOK, HistoryType
  <1>7. ~op[t].indexed => ~Stored(k) \/ k \in unlisted
    BY <1>s, <1>1 DEF WriteInv
  <1> HIDE DEF k
  <1>8. ASSUME NEW m \in Keys, m # k
        PROVE  /\ Stored(m)' <=> Stored(m)
               /\ Stored(m) => rec'[IdOf[m]] = rec[IdOf[m]]
    <2>1. CASE IdOf[m] = IdOf[k]
      <3>1. ~Stored(m)
        BY <1>3, <1>8, <2>1
      <3>2. ~Stored(m)'
        BY <1>5, <1>8, <2>1 DEF Stored, record_check
      <3> QED BY <3>1, <3>2
    <2>2. CASE IdOf[m] # IdOf[k]
      BY <1>4, <1>5, <2>2 DEF Stored, record_check
    <2> QED BY <2>1, <2>2
  <1>9. \A m \in Keys : m = k => Stored(m)'
    BY <1>5 DEF Stored, record_check
  <1>10. ASSUME NEW u \in Threads \ {t} PROVE IterInv(u)' /\ WriteInv(u)' /\ ClearInv(u)'
    <2>1. due'[u] = IF job[u].kind = "reset" THEN due[u] \ {k} ELSE due[u]
      BY <1>1 DEF DueAfterWrite
    <2>2. pc'[u] = pc[u] /\ op'[u] = op[u] /\ job'[u] = job[u]
      BY <1>k DEF Keeps, Local
    <2>3. IterInv(u) /\ ClearInv(u) /\ pc[u] # "write" /\ due[u] \subseteq Keys
      BY <1>k, <1>6 DEF WalkInv, Clear
    <2>4. WriteInv(u)'
      BY <2>2, <2>3 DEF WriteInv
    <2>5. ClearInv(u)'
      <3>1. CASE job[u].kind = "reset"
        <4>1. \A m \in due'[u] : m \in due[u] /\ m \in Keys /\ m # k
          BY <2>1, <2>3, <3>1
        <4>2. \A m \in due'[u] : Stored(m)' => Stored(m) /\ rec'[IdOf[m]] = rec[IdOf[m]]
          BY <1>8, <4>1
        <4>3. \A m \in due'[u] : m \in unlisted' => m \in unlisted
          BY <1>2, <4>1
        <4> QED BY <2>2, <2>3, <4>1, <4>2, <4>3 DEF ClearInv, Seeded
      <3>2. CASE job[u].kind # "reset"
        BY <2>2, <2>3, <3>2 DEF ClearInv
      <3> QED BY <3>1, <3>2
    <2>6. IterInv(u)'
      <3>1. CASE job[u].kind = "iter"
        <4>1. due'[u] = due[u] /\ \A m \in due[u] : m \in Keys /\ Stored(m) /\ m \notin unlisted
          BY <2>1, <2>3, <3>1 DEF IterInv
        <4>2. ASSUME NEW m \in due[u] PROVE Stored(m)' /\ m \notin unlisted'
          <5>1. CASE m = k
            BY <1>2, <1>7, <1>9, <4>1, <5>1
          <5>2. CASE m # k
            BY <1>2, <1>8, <4>1, <5>2
          <5> QED BY <5>1, <5>2
        <4>3. pc[u] \notin LoadPlaces => Walked(u)'
          <5>1. Live' = Live
            BY <1>1 DEF Live
          <5> QED BY <1>1, <2>2, <2>3, <3>1, <4>1, <5>1 DEF IterInv, Walked, Reading
        <4> QED BY <1>1, <2>2, <2>3, <3>1, <4>1, <4>2, <4>3 DEF IterInv
      <3>2. CASE job[u].kind # "iter"
        BY <1>1, <2>2, <2>3, <3>2 DEF IterInv
      <3> QED BY <3>1, <3>2
    <2> QED BY <2>4, <2>5, <2>6
  <1>11. IterInv(t)' /\ WriteInv(t)'
    BY <1>s, <1>1 DEF IterInv, WriteInv, LoadPlaces
  <1>12. ClearInv(t)'
    <2>1. CASE job[t].kind # "reset"
      BY <1>1, <2>1 DEF ClearInv
    <2>2. CASE job[t].kind = "reset"
      <3>1. /\ job[t].stage # "walk" /\ k = Defaults[job[t].pos].key
            /\ op[t].val = Defaults[job[t].pos].val
        BY <1>s, <1>1, <2>2 DEF ClearInv, k
      <3>2. job[t].pos \in 1..Len(Defaults)
        BY <1>s, <1>1, <3>1 DEF Control, Shape, TypeOK, ThreadType, Job
      <3>3. Defaults[job[t].pos] = [key |-> k, val |-> op[t].val]
        <4> DEFINE E == [key : Keys, val : Values]
        <4>1. Defaults \in Seq(E)
          BY KvConstants
        <4>2. Defaults[job[t].pos] \in E
          <5> HIDE DEF E
          <5> QED BY <3>2, <4>1
        <4> QED BY <3>1, <4>2
      <3>4. \A m \in Keys : m = k => Seeded(m)'
        BY <1>5, <3>2, <3>3 DEF Seeded
      <3>5. due'[t] = due[t] /\ due[t] \subseteq Keys
        BY <1>1, <1>6 DEF DueAfterWrite
      <3>6. ASSUME NEW m \in due[t], ~job[t].err, Stored(m)' PROVE Seeded(m)'
        <4>1. CASE m = k
          BY <3>4, <3>5, <4>1
        <4>2. CASE m # k
          <5>1. Stored(m) /\ rec'[IdOf[m]] = rec[IdOf[m]]
            BY <1>8, <3>5, <3>6, <4>2
          <5>2. Seeded(m)
            BY <1>s, <2>2, <3>1, <3>6, <5>1 DEF ClearInv
          <5> QED BY <5>1, <5>2 DEF Seeded
        <4> QED BY <4>1, <4>2
      <3> QED BY <1>1, <3>1, <3>5, <3>6 DEF ClearInv, k
    <2> QED BY <2>1, <2>2
  <1> QED BY <1>10, <1>11, <1>12 DEF WalkInv

LEMMA WalkInvErase ==
  ASSUME WalkAssumptions, WalkInv, IndexInv', NEW t \in Threads, DeleteErase(t)
  PROVE  WalkInv'
  <1>s. /\ Shape /\ IndexInv /\ MapInv' /\ ThreadInv(t) /\ Control(t) /\ OpStep(t)
        /\ IterInv(t) /\ ClearInv(t)
    BY DEF WalkInv, IndexInv, MapInv, Shape, OpStep
  <1> DEFINE k == op[t].key
  <1>1. /\ pc[t] = "lock" /\ pc'[t] = "unindex" /\ op[t].kind = "delete"
        /\ lock = NoThread /\ Stored(k) /\ unlisted' = unlisted \ {k}
        /\ due' = DueAfterErase(k) /\ seen' = SeenAfterErase(k)
        /\ UNCHANGED <<heap, kvCtx, job, op>>
    BY <1>s DEF DeleteErase, ctxVars, Shape, TypeOK, ThreadType
  <1>k. Keeps(t) /\ Clear(t) /\ k \in Keys
    BY <1>s, <1>1, StepKeeps, NoLoaderBeside DEF Clear, Control
  <1>2. /\ rec' = [rec EXCEPT ![IdOf[k]] = NoRecord] /\ rec \in [Ids -> Record]
        /\ IdOf \in [Keys -> Ids]
    BY <1>s, KvConstants DEF DeleteErase, Shape, TypeOK, FlashType
  <1>3. /\ IdOf[k] \in Ids /\ rec'[IdOf[k]].kind = "none"
        /\ \A i \in Ids : i # IdOf[k] => rec'[i] = rec[i]
    BY <1>k, <1>2 DEF NoRecord
  <1>4. "reset" \in Calls[t] \/ "delete" \in Calls[t]
    BY <1>s, <1>1 DEF ThreadInv, ResetInv, Erasing
  <1>5. /\ due \in [Threads -> SUBSET Keys] /\ seen \in [Threads -> [Keys -> 0..2]]
        /\ \A u \in Threads : job[u].kind # "iter" => \A m \in Keys : seen[u][m] = 0
    BY <1>s DEF Shape, TypeOK, HistoryType, WalkInv, IterInv
  <1> HIDE DEF k
  <1>6. ASSUME NEW m \in Keys, Stored(m)'
        PROVE  Stored(m) /\ rec'[IdOf[m]] = rec[IdOf[m]]
    <2>1. IdOf[m] # IdOf[k]
      BY <1>3, <1>6 DEF Stored, record_check
    <2> QED BY <1>2, <1>3, <1>6, <2>1 DEF Stored
  <1>7. ASSUME NEW u \in Threads, job[u].kind # "iter"
        PROVE  due'[u] = due[u] /\ seen'[u] = seen[u]
    <2>1. due'[u] = due[u] /\ seen'[u] = [seen[u] EXCEPT ![k] = 0]
      BY <1>1, <1>7 DEF DueAfterErase, SeenAfterErase
    <2>2. seen[u] \in [Keys -> 0..2] /\ seen[u][k] = 0
      BY <1>k, <1>5, <1>7
    <2> QED BY <2>1, <2>2
  <1>8. ASSUME NEW u \in Threads \ {t} PROVE IterInv(u)' /\ WriteInv(u)' /\ ClearInv(u)'
    <2>1. job[u].kind # "iter"
      <3>1. job[u].kind = "iter" => "iter" \in Calls[u]
        BY DEF WalkInv, IterInv
      <3> QED BY <1>4, <3>1 DEF WalkAssumptions
    <2>2. due'[u] = due[u] /\ seen'[u] = seen[u] /\ due[u] \subseteq Keys /\ pc[u] # "write"
      BY <1>k, <1>5, <1>7, <2>1 DEF Clear
    <2>3. \A m \in due'[u] : /\ Stored(m)' => Stored(m) /\ rec'[IdOf[m]] = rec[IdOf[m]]
                             /\ m \in unlisted' => m \in unlisted
      BY <1>1, <1>6, <2>2
    <2> QED BY <1>s, <1>k, <2>1, <2>2, <2>3, OthersWalk
  <1>9. job[t].kind # "iter"
    BY <1>s, <1>1 DEF IterInv
  <1>10. IterInv(t)' /\ WriteInv(t)'
    BY <1>s, <1>1, <1>7, <1>9 DEF IterInv, WriteInv
  <1>11. ClearInv(t)'
    <2>1. due'[t] = due[t] /\ due[t] \subseteq Keys
      BY <1>5, <1>7, <1>9
    <2>2. \A m \in due'[t] : /\ Stored(m)' => Stored(m) /\ rec'[IdOf[m]] = rec[IdOf[m]]
                             /\ m \in unlisted' => m \in unlisted
      BY <1>1, <1>6, <2>1
    <2> QED BY <1>s, <1>1, <2>1, <2>2 DEF ClearInv, Seeded
  <1> QED BY <1>8, <1>10, <1>11 DEF WalkInv

LEMMA WalkInvUnindex ==
  ASSUME WalkAssumptions, WalkInv, IndexInv', NEW t \in Threads, DeleteUnindex(t)
  PROVE  WalkInv'
  <1>s. /\ Shape /\ IndexInv /\ MapInv' /\ ThreadInv(t) /\ Control(t) /\ OpStep(t)
        /\ IterInv(t) /\ ClearInv(t)
    BY DEF WalkInv, IndexInv, MapInv, Shape, OpStep
  <1>1. /\ pc[t] = "unindex" /\ pc'[t] = "out" /\ op[t].kind = "delete"
        /\ UNCHANGED <<rec, kvCtx, unlisted, job, op, due, seen>>
    BY <1>s DEF DeleteUnindex, walkVars, Control, Shape, TypeOK, ThreadType
  <1>k. Keeps(t)
    BY <1>s, StepKeeps
  <1>2. "reset" \in Calls[t] \/ "delete" \in Calls[t]
    BY <1>s, <1>1 DEF ThreadInv, ResetInv, Erasing
  <1>3. ASSUME NEW u \in Threads \ {t} PROVE IterInv(u)' /\ WriteInv(u)' /\ ClearInv(u)'
    <2>1. job[u].kind # "iter"
      <3>1. job[u].kind = "iter" => "iter" \in Calls[u]
        BY DEF WalkInv, IterInv
      <3> QED BY <1>2, <3>1 DEF WalkAssumptions
    <2> QED BY <1>s, <1>k, <1>1, <2>1, OthersWalk DEF Stored
  <1>4. IterInv(t)' /\ WriteInv(t)'
    BY <1>s, <1>1 DEF IterInv, WriteInv
  <1>5. ClearInv(t)'
    BY <1>s, <1>1 DEF ClearInv, Seeded, Stored
  <1> QED BY <1>3, <1>4, <1>5 DEF WalkInv

--------------------------------------------------------------------------------
(* Steps of the walks. *)

LEMMA EnterOutcome ==
  ASSUME Shape, NEW t \in Threads, NEW j, NEW o, NEW k, NEW v, Enter(t, j, o, k, v),
         j.kind # "none"
  PROVE  \/ pc'[t] = "lock" /\ op'[t].kind = o /\ op'[t].key = k /\ op'[t].val = v
         \/ pc'[t] = "ret" /\ op'[t].kind = "none" /\ op'[t].key = k /\ op'[t].rc = "NOMEM"
  <1> USE DEF Enter, Finish, NoOp, Shape, TypeOK, ThreadType
  <1>1. CASE FreeBlocks > 0
    BY <1>1
  <1>2. CASE ~(FreeBlocks > 0)
    BY <1>2, ZenonT(30)
  <1> QED BY <1>1, <1>2

LEMMA FirstLeast ==
  ASSUME NEW S \in SUBSET Nat, S # {}
  PROVE  First(S) \in S /\ \A i \in S : First(S) <= i
  BY LeastNatural DEF First

(* The next entry of an iteration: every due key in front of it was returned.   *)
LEMMA IterNextOwn ==
  ASSUME WalkInv, MapInv', NEW t \in Threads, IterNext(t)
  PROVE  IterInv(t)' /\ WriteInv(t)' /\ ClearInv(t)'
  <1>s. /\ Shape /\ IndexInv /\ ThreadInv(t) /\ Control(t) /\ IterInv(t)
    BY DEF WalkInv, IndexInv, MapInv, Shape
  <1> DEFINE ns == job[t].ns
             p == job[t].pos
             c == Candidates(ns, p)
             q == First(c)
  <1>1. /\ pc[t] = "next" /\ job[t].kind = "iter" /\ lock = NoThread /\ c # {}
        /\ Enter(t, [job[t] EXCEPT !.pos = q + 1], "get", Live[q], NoVal)
    BY DEF IterNext
  <1>2. kvCtx # 0 /\ Walked(t) /\ p \in Nat \ {0} /\ Live \in Seq(Keys)
    BY <1>s, <1>1, LiveType DEF Control, ThreadInv, CtxInv, Walking, IterInv, LoadPlaces, Shape,
                                TypeOK, ThreadType, Job
  <1>3. Distinct(Live)
    BY <1>s, <1>1, <1>2, ExactNow
  <1>4. /\ q \in c /\ \A i \in c : q <= i
    <2>1. c \in SUBSET Nat
      BY <1>2 DEF Candidates
    <2> HIDE DEF c
    <2> QED BY <1>1, <2>1, FirstLeast
  <1>5. q \in p..Len(Live) /\ q \in 1..Len(Live) /\ Live[q] \in Keys
    BY <1>2, <1>4 DEF Candidates
  <1>6. \A i \in p..(q - 1) : NsOf[Live[i]] # ns
    BY <1>2, <1>4, <1>5 DEF Candidates
  <1>7. /\ UNCHANGED <<rec, heap, kvCtx, unlisted, due, seen>>
        /\ job'[t] = [job[t] EXCEPT !.pos = q + 1]
    <2> DEFINE j == [job[t] EXCEPT !.pos = q + 1]
    <2>1. Enter(t, j, "get", Live[q], NoVal)
      BY <1>1
    <2> HIDE DEF q, j
    <2>2. UNCHANGED storeVars /\ job'[t] = j
      BY <1>s, <2>1, EnterKeeps
    <2>3. UNCHANGED <<due, seen>>
      BY <2>1 DEF Enter, walkVars
    <2> QED BY <2>2, <2>3 DEF storeVars, j
  <1>8. job'[t].kind = "iter" /\ job'[t].ns = ns /\ job'[t].pos = q + 1
    <2> HIDE DEF q
    <2> QED BY <1>s, <1>1, <1>7 DEF Shape, TypeOK, ThreadType, Job
  <1>9. /\ pc'[t] \in {"lock", "ret"} /\ op'[t].kind \in {"none", "get"} /\ op'[t].key = Live[q]
        /\ pc'[t] = "ret" => op'[t].rc = "NOMEM"
    <2> DEFINE j == [job[t] EXCEPT !.pos = q + 1]
    <2>1. Enter(t, j, "get", Live[q], NoVal) /\ j.kind # "none"
      BY <1>1, <1>7, <1>8
    <2> HIDE DEF q, j
    <2> QED BY <1>s, <2>1, EnterOutcome
  <1>10. Live' = Live
    BY <1>7 DEF Live
  <1> HIDE DEF q, c
  <1>11. seen[t][Live[q]] = 0
    <2> SUFFICES ASSUME seen[t][Live[q]] # 0 PROVE FALSE
      OBVIOUS
    <2>1. PICK i \in 1..(p - 1) : Live[i] = Live[q]
      BY <1>2, <1>5 DEF Walked
    <2>2. i \in 1..Len(Live) /\ i # q
      BY <1>2, <1>5
    <2> QED BY <1>3, <1>5, <2>1, <2>2 DEF Distinct
  <1>12. Walked(t)'
    <2>1. Reading(t)' /\ ~Reading(t)
      BY <1>1, <1>9 DEF Reading
    <2>2. ASSUME NEW i \in 1..q, Live[i] \in due[t]
          PROVE  seen[t][Live[i]] = 1 \/ Live[i] = Live[q]
      <3>1. CASE i \in 1..(p - 1)
        BY <1>2, <2>1, <2>2, <3>1 DEF Walked
      <3>2. CASE i \in p..(q - 1)
        BY <1>s, <1>1, <1>6, <2>2, <3>2 DEF IterInv
      <3> QED BY <1>2, <1>5, <2>2, <3>1, <3>2
    <2>3. ASSUME NEW k \in Keys, seen[t][k] # 0 PROVE \E i \in 1..q : Live[i] = k
      <3>1. PICK i \in 1..(p - 1) : Live[i] = k
        BY <1>2, <2>3 DEF Walked
      <3> QED BY <1>2, <1>5, <3>1
    <2>4. q + 1 <= Len(Live) + 1 /\ (q + 1) - 1 = q /\ q + 1 > 1
      BY <1>2, <1>5
    <2> QED BY <1>7, <1>8, <1>9, <1>10, <1>11, <2>1, <2>2, <2>3, <2>4 DEF Walked
  <1>13. IterInv(t)'
    BY <1>s, <1>1, <1>7, <1>8, <1>9, <1>12 DEF IterInv, Stored, LoadPlaces
  <1> QED BY <1>8, <1>9, <1>13 DEF WriteInv, ClearInv

LEMMA IterOwn ==
  ASSUME WalkInv, MapInv', NEW t \in Threads, IterEnd(t) \/ IterGot(t)
  PROVE  IterInv(t)' /\ WriteInv(t)' /\ ClearInv(t)'
  <1>s. /\ Shape /\ IndexInv /\ ThreadInv(t) /\ Control(t) /\ IterInv(t)
    BY DEF WalkInv, IndexInv, MapInv, Shape
  <1>t. /\ pc \in [Threads -> Places] /\ op \in [Threads -> Op]
        /\ seen \in [Threads -> [Keys -> 0..2]] /\ due \in [Threads -> SUBSET Keys]
    BY <1>s DEF Shape, TypeOK, ThreadType, HistoryType
  <1>1. /\ job[t].kind = "iter" /\ pc[t] \in {"next", "ret"}
        /\ UNCHANGED <<rec, heap, kvCtx, unlisted, job, due>>
    BY DEF IterEnd, IterGot, flashVars, ctxVars, walkVars
  <1>2. /\ kvCtx # 0 /\ Walked(t) /\ job[t].pos \in Nat \ {0} /\ Live \in Seq(Keys)
        /\ Live' = Live
    BY <1>s, <1>1, LiveType DEF Control, ThreadInv, CtxInv, Walking, IterInv, LoadPlaces, Shape,
                                TypeOK, ThreadType, Job, Live
  <1>3. CASE IterEnd(t)
    <2>1. pc[t] = "next" /\ lock = NoThread /\ pc'[t] = "exhausted" /\ UNCHANGED <<op, seen>>
      BY <1>t, <1>3 DEF IterEnd, walkVars
    <2>2. ASSUME NEW k \in due[t] PROVE seen[t][k] = 1
      <3>1. k \in Keys /\ NsOf[k] = job[t].ns /\ Stored(k) /\ k \notin unlisted
        BY <1>s, <1>t, <1>1 DEF IterInv
      <3>2. k \in Members(Live)
        BY <1>s, <1>2, <2>1, <3>1, ExactNow
      <3>3. PICK i \in 1..Len(Live) : Live[i] = k
        BY <3>2 DEF Members
      <3>4. i \in 1..(job[t].pos - 1)
        <4>1. ~(i \in job[t].pos..Len(Live))
          BY <1>3, <3>1, <3>3 DEF IterEnd, Candidates
        <4> QED BY <1>2, <3>3, <4>1
      <3> QED BY <1>2, <2>1, <3>3, <3>4 DEF Walked, Reading
    <2>3. Walked(t)'
      BY <1>1, <1>2, <2>1, <2>2 DEF Walked, Reading
    <2>4. IterInv(t)'
      BY <1>s, <1>1, <2>1, <2>3 DEF IterInv, Stored, LoadPlaces
    <2> QED BY <1>1, <2>1, <2>4 DEF WriteInv, ClearInv
  <1>4. CASE IterGot(t)
    <2>1. /\ pc[t] = "ret" /\ pc'[t] = "next" /\ op'[t] = NoOp
          /\ op[t].rc \in {"OK", "NOT_FOUND"} /\ op[t].key \in Keys
      BY <1>s, <1>t, <1>4 DEF IterGot, Control
    <2>2. seen[t][op[t].key] = 0
      BY <1>2, <2>1 DEF Walked, Reading
    <2>3. /\ seen'[t] \in [Keys -> 0..2]
          /\ \A k \in Keys : k # op[t].key => seen'[t][k] = seen[t][k]
          /\ seen'[t][op[t].key] = IF op[t].rc = "OK" THEN 1 ELSE 0
      <3>1. CASE op[t].rc = "OK"
        <4>1. seen' = [seen EXCEPT ![t][op[t].key] = @ + 1]
          BY <1>4, <2>2, <3>1 DEF IterGot
        <4> QED BY <1>t, <2>1, <2>2, <3>1, <4>1
      <3>2. CASE op[t].rc # "OK"
        BY <1>t, <1>4, <2>2, <3>2 DEF IterGot
      <3> QED BY <3>1, <3>2
    <2>4. op[t].key \in due[t] => op[t].rc = "OK"
      BY <1>2, <2>1 DEF Walked
    <2>5. \A i \in 1..(job[t].pos - 1) : i \in 1..Len(Live) /\ Live[i] \in Keys
      BY <1>2 DEF Walked
    <2>6. job[t].pos - 1 \in 1..(job[t].pos - 1) /\ Live[job[t].pos - 1] = op[t].key
      BY <1>2, <2>1 DEF Walked, Reading
    <2>7. ASSUME NEW k \in Keys, seen'[t][k] # 0
          PROVE  \E i \in 1..(job[t].pos - 1) : Live[i] = k
      <3>1. CASE k = op[t].key
        BY <2>6, <3>1
      <3>2. CASE k # op[t].key
        BY <1>2, <2>3, <2>7, <3>2 DEF Walked
      <3> QED BY <3>1, <3>2
    <2>8. ASSUME NEW i \in 1..(job[t].pos - 1), Live[i] \in due[t] PROVE seen'[t][Live[i]] = 1
      <3>1. CASE Live[i] = op[t].key
        BY <2>3, <2>4, <2>8, <3>1
      <3>2. CASE Live[i] # op[t].key
        BY <1>2, <2>3, <2>5, <2>8, <3>2 DEF Walked
      <3> QED BY <3>1, <3>2
    <2>9. Walked(t)'
      BY <1>1, <1>2, <2>1, <2>7, <2>8 DEF Walked, Reading
    <2>10. \A k \in Keys : seen'[t][k] <= 1
      <3>1. \A k \in Keys : seen[t][k] <= 1
        BY <1>s, <1>1 DEF IterInv
      <3> QED BY <2>3, <3>1
    <2>11. IterInv(t)'
      BY <1>s, <1>1, <2>1, <2>9, <2>10 DEF IterInv, Stored, LoadPlaces, NoOp
    <2> QED BY <1>1, <2>1, <2>11 DEF WriteInv, ClearInv
  <1> QED BY <1>3, <1>4

LEMMA ResetOwn ==
  ASSUME WalkInv, MapInv', NEW t \in Threads,
         ResetNext(t) \/ ResetWalked(t) \/ ResetDeleted(t)
  PROVE  IterInv(t)' /\ WriteInv(t)' /\ ClearInv(t)'
  <1>s. /\ Shape /\ IndexInv /\ ThreadInv(t) /\ Control(t) /\ IterInv(t) /\ ClearInv(t)
    BY DEF WalkInv, IndexInv, MapInv, Shape
  <1>t. /\ pc \in [Threads -> Places] /\ op \in [Threads -> Op] /\ job \in [Threads -> Job]
        /\ job[t] \in Job /\ due \in [Threads -> SUBSET Keys]
    BY <1>s DEF Shape, TypeOK, ThreadType, HistoryType
  <1>1. job[t].kind = "reset" /\ job[t].stage = "walk" /\ \A k \in Keys : seen[t][k] = 0
    BY <1>s DEF ResetNext, ResetWalked, ResetDeleted, Control, IterInv
  <1>2. UNCHANGED <<rec, heap, kvCtx, unlisted, due, seen>>
    BY DEF ResetNext, ResetWalked, ResetDeleted, Enter, flashVars, ctxVars, walkVars
  <1>3. CASE ResetNext(t)
    <2> DEFINE q == First(Candidates(job[t].ns, job[t].pos))
               j == [job[t] EXCEPT !.at = q]
    <2>1. Enter(t, j, "delete", Live[q], NoVal)
      BY <1>3 DEF ResetNext
    <2>2. /\ j.kind = "reset" /\ j.stage = "walk" /\ j.ns = job[t].ns /\ j.pos = job[t].pos
          /\ j.err = job[t].err
      <3> HIDE DEF q
      <3> QED BY <1>t, <1>1 DEF Job
    <2> HIDE DEF q, j
    <2>3. job'[t] = j
      BY <1>s, <2>1, EnterKeeps
    <2>4. pc'[t] \in {"lock", "ret"} /\ op'[t].kind \in {"none", "delete"}
      BY <1>s, <2>1, <2>2, EnterOutcome
    <2>5. ClearInv(t)'
      BY <1>s, <1>1, <1>2, <2>2, <2>3, <2>4 DEF ClearInv, Stored
    <2> QED BY <1>1, <1>2, <2>2, <2>3, <2>4, <2>5 DEF IterInv, WriteInv
  <1>4. CASE ResetDeleted(t)
    <2>1. pc[t] = "ret" /\ op[t].rc # "NOT_FOUND"
      BY <1>s, <1>4 DEF ResetDeleted, ThreadInv, ResetInv, Erasing
    <2>2. pc'[t] = "next" /\ op'[t] = NoOp
      BY <1>t, <1>4, <2>1 DEF ResetDeleted
    <2>3. /\ job'[t].kind = "reset" /\ job'[t].stage = "walk" /\ job'[t].ns = job[t].ns
          /\ ~job'[t].err => ~job[t].err /\ job'[t].pos = job[t].pos
      <3>1. CASE op[t].rc = "OK"
        BY <1>t, <1>1, <1>4, <3>1 DEF ResetDeleted
      <3>2. CASE op[t].rc # "OK"
        <4>1. job'[t] = [job[t] EXCEPT !.pos = job[t].at + 1, !.err = TRUE]
          BY <1>t, <1>4, <2>1, <3>2 DEF ResetDeleted
        <4> QED BY <1>t, <1>1, <4>1 DEF Job
      <3> QED BY <3>1, <3>2
    <2>4. ClearInv(t)'
      BY <1>s, <1>1, <1>2, <2>2, <2>3 DEF ClearInv, Stored, NoOp
    <2> QED BY <1>1, <1>2, <2>2, <2>3, <2>4 DEF IterInv, WriteInv
  <1>5. CASE ResetWalked(t)
    <2>1. pc[t] = "next" /\ pc'[t] = "seed" /\ lock = NoThread /\ UNCHANGED op
      BY <1>t, <1>5 DEF ResetWalked
    <2>2. /\ job'[t].kind = "reset" /\ job'[t].stage = "get" /\ job'[t].err = job[t].err
      BY <1>t, <1>1, <1>5 DEF ResetWalked, Job
    <2>3. op[t].kind = "none" /\ kvCtx # 0 /\ Live \in Seq(Keys)
      BY <1>s, <1>1, <2>1, LiveType DEF Control, ThreadInv, CtxInv, Walking
    <2>4. ASSUME ~job[t].err, NEW k \in due[t] PROVE ~Stored(k)
      <3> SUFFICES ASSUME Stored(k) PROVE FALSE
        OBVIOUS
      <3>1. k \in Keys /\ NsOf[k] = job[t].ns /\ k \notin unlisted /\ job[t].pos = 1
        BY <1>s, <1>t, <1>1, <2>4 DEF ClearInv
      <3>2. k \in Members(Live)
        BY <1>s, <2>1, <2>3, <3>1, ExactNow
      <3>3. PICK i \in 1..Len(Live) : Live[i] = k
        BY <3>2 DEF Members
      <3> QED BY <1>5, <3>1, <3>3 DEF ResetWalked, Candidates
    <2>5. ClearInv(t)'
      BY <1>2, <2>1, <2>2, <2>3, <2>4 DEF ClearInv, Stored
    <2> QED BY <1>1, <1>2, <2>1, <2>2, <2>5 DEF IterInv, WriteInv
  <1> QED BY <1>3, <1>4, <1>5

LEMMA WalkInvWalk ==
  ASSUME WalkInv, IndexInv', NEW t \in Threads, WalkStep(t)
  PROVE  WalkInv'
  <1>s. /\ Shape /\ IndexInv /\ MapInv' /\ ThreadInv(t) /\ Control(t) /\ IterInv(t)
    BY DEF WalkInv, IndexInv, MapInv, Shape
  <1>t. /\ pc \in [Threads -> Places] /\ op \in [Threads -> Op] /\ job \in [Threads -> Job]
        /\ due \in [Threads -> SUBSET Keys] /\ seen \in [Threads -> [Keys -> 0..2]]
    BY <1>s DEF Shape, TypeOK, ThreadType, HistoryType
  <1>k. Keeps(t)
    BY <1>s, StepKeeps
  <1>1. ~ResetStale(t)
    BY <1>s DEF ResetStale, ThreadInv, ResetInv
  <1>2. /\ UNCHANGED <<rec, heap, kvCtx, unlisted>>
        /\ \A u \in Threads \ {t} : due'[u] = due[u] /\ seen'[u] = seen[u]
    <2> USE DEF flashVars, ctxVars, walkVars
    <2>1. CASE IterNext(t) \/ IterEnd(t) \/ ResetNext(t) \/ ResetWalked(t) \/ ResetDeleted(t)
      BY <2>1 DEF IterNext, IterEnd, ResetNext, ResetWalked, ResetDeleted, Enter
    <2>2. CASE CallWalk(t, "iter") \/ CallWalk(t, "reset")
      BY <1>t, <2>2 DEF CallWalk
    <2>3. CASE IterClose(t) \/ ResetReturn(t)
      BY <1>t, <2>3 DEF IterClose, ResetReturn, EndWalk
    <2>4. CASE IterGot(t)
      BY <1>t, <2>4 DEF IterGot
    <2> QED BY <1>1, <2>1, <2>2, <2>3, <2>4 DEF WalkStep
  <1>3. ASSUME NEW u \in Threads \ {t} PROVE IterInv(u)' /\ WriteInv(u)' /\ ClearInv(u)'
    BY <1>s, <1>k, <1>2, OthersQuiet
  <1> SUFFICES IterInv(t)' /\ WriteInv(t)' /\ ClearInv(t)'
    BY <1>3 DEF WalkInv
  <1>4. CASE IterClose(t) \/ ResetReturn(t)
    <2>1. EndWalk(t)
      BY <1>4 DEF IterClose, ResetReturn
    <2>2. pc'[t] = "idle" /\ job'[t] = NoJob /\ \A k \in Keys : seen'[t][k] = 0
      BY <1>t, <2>1 DEF EndWalk
    <2> QED BY <2>2, NoWalk DEF NoJob
  <1>5. ASSUME NEW c \in {"iter", "reset"}, CallWalk(t, c)
        PROVE  IterInv(t)' /\ WriteInv(t)' /\ ClearInv(t)'
    <2>1. PICK ns \in Namespaces :
             /\ job' = [job EXCEPT ![t] = [NoJob EXCEPT !.kind = c, !.ns = ns]]
             /\ due' = [due EXCEPT ![t] = {k \in InNs(ns) : Stored(k)} \ unlisted]
      BY <1>5 DEF CallWalk
    <2>2. /\ pc[t] = "idle" /\ c \in Calls[t] /\ pc'[t] = "ctx" /\ UNCHANGED <<op, seen>>
      BY <1>t, <1>5 DEF CallWalk, MayCall
    <2>3. op[t].kind = "none" /\ \A k \in Keys : seen[t][k] = 0
      BY <1>s, <2>2 DEF Control, ThreadInv, CtxInv, IterInv
    <2>4. /\ job'[t].kind = c /\ job'[t].ns = ns /\ job'[t].stage = "walk" /\ job'[t].pos = 1
          /\ ~job'[t].err
      BY <1>t, <2>1 DEF NoJob
    <2>5. \A k \in due'[t] : NsOf[k] = ns /\ Stored(k) /\ k \notin unlisted
      BY <1>t, <2>1 DEF InNs
    <2>6. IterInv(t)'
      BY <1>2, <2>2, <2>3, <2>4, <2>5 DEF IterInv, LoadPlaces, Stored
    <2> QED BY <1>2, <2>2, <2>3, <2>4, <2>5, <2>6 DEF WriteInv, ClearInv, Stored
  <1> QED BY <1>s, <1>1, <1>4, <1>5, IterNextOwn, IterOwn, ResetOwn DEF WalkStep

--------------------------------------------------------------------------------
(* Steps of the defaults pass. *)

(* A thread in a defaults pass keeps what its reset answers for. *)
LEMMA SeedOwn ==
  ASSUME WalkInv, NEW t \in Threads, UNCHANGED <<rec, unlisted, due, seen>>,
         job[t].kind # "iter", job'[t].kind = job[t].kind,
         job[t].stage # "walk", job'[t].stage # "walk", ~job'[t].err => ~job[t].err,
         pc'[t] \notin {"write", "exhausted"},
         pc'[t] = "reset_done" => job[t].kind = "reset",
         op'[t].kind # "none" \/ pc'[t] = "ret" => op'[t].key = Defaults[job'[t].pos].key,
         op'[t].kind = "set" => op'[t].val = Defaults[job'[t].pos].val
  PROVE  IterInv(t)' /\ WriteInv(t)' /\ ClearInv(t)'
  <1>1. IterInv(t) /\ ClearInv(t)
    BY DEF WalkInv
  <1>2. ClearInv(t)'
    BY <1>1 DEF ClearInv, Seeded, Stored
  <1> QED BY <1>1, <1>2 DEF IterInv, WriteInv

LEMMA WalkInvSeed ==
  ASSUME WalkInv, IndexInv', NEW t \in Threads,
         \/ CallDefaults(t) \/ SeedSkip(t) \/ SeedGet(t) \/ SeedMissing(t)
         \/ SeedEntryDone(t) \/ SeedEnd(t)
  PROVE  WalkInv'
  <1>s. /\ Shape /\ MapInv' /\ ThreadInv(t) /\ Control(t) /\ SeedStep(t)
        /\ IterInv(t) /\ ClearInv(t)
    BY DEF WalkInv, IndexInv, MapInv, Shape, SeedStep
  <1>t. /\ pc \in [Threads -> Places] /\ op \in [Threads -> Op] /\ job \in [Threads -> Job]
        /\ job[t] \in Job
    BY <1>s DEF Shape, TypeOK, ThreadType
  <1>k. Keeps(t)
    BY <1>s, StepKeeps
  <1>1. UNCHANGED <<rec, heap, kvCtx, unlisted, due, seen>>
    BY DEF CallDefaults, StartSeed, SeedSkip, SeedGet, SeedMissing, SeedEntryDone, SeedEnd, Enter,
           flashVars, ctxVars, walkVars
  <1>2. ASSUME NEW u \in Threads \ {t} PROVE IterInv(u)' /\ WriteInv(u)' /\ ClearInv(u)'
    BY <1>s, <1>k, <1>1, OthersQuiet
  <1> SUFFICES IterInv(t)' /\ WriteInv(t)' /\ ClearInv(t)'
    BY <1>2 DEF WalkInv
  <1>3. CASE CallDefaults(t)
    <2>1. pc[t] = "idle" /\ pc'[t] = "seed" /\ job'[t].kind = "defaults"
      BY <1>t, <1>3 DEF CallDefaults, StartSeed, MayCall, NoJob
    <2>2. \A k \in Keys : seen[t][k] = 0
      BY <1>s, <2>1 DEF ThreadInv, CtxInv, IterInv
    <2> QED BY <1>1, <2>1, <2>2, NoWalk
  <1>p. ~CallDefaults(t) => job[t].stage # "walk" /\ job[t].kind # "iter"
    BY <1>s DEF SeedSkip, SeedGet, SeedMissing, SeedEntryDone, SeedEnd, ThreadInv, ResetInv,
                IterInv, LoadPlaces, Control
  <1>4. CASE SeedSkip(t) /\ ~CallDefaults(t)
    <2>1. /\ pc[t] = "seed" /\ pc'[t] = "seed" /\ UNCHANGED op
          /\ job'[t].kind = job[t].kind /\ job'[t].stage = job[t].stage /\ job'[t].err = job[t].err
      BY <1>t, <1>4 DEF SeedSkip, Job
    <2>2. op[t].kind = "none"
      BY <1>s, <2>1 DEF Control
    <2> QED BY <1>1, <1>4, <1>p, <2>1, <2>2, SeedOwn
  <1>5. CASE SeedGet(t) /\ ~CallDefaults(t)
    <2>1. Enter(t, job[t], "get", Defaults[job[t].pos].key, NoVal)
      BY <1>5 DEF SeedGet
    <2>2. job'[t] = job[t]
      BY <1>s, <2>1, EnterKeeps
    <2>3. CASE job[t].kind = "none"
      <3>1. pc'[t] \notin {"write", "exhausted", "reset_done"}
        BY <1>s, <2>1, EnterResult
      <3> QED BY <1>s, <1>1, <2>2, <2>3, <3>1, NoWalk DEF IterInv
    <2>4. CASE job[t].kind # "none"
      <3>1. /\ pc'[t] \in {"lock", "ret"} /\ op'[t].kind \in {"none", "get"}
            /\ op'[t].key = Defaults[job[t].pos].key
        BY <1>s, <2>1, <2>4, EnterOutcome
      <3> QED BY <1>1, <1>5, <1>p, <2>2, <3>1, SeedOwn
    <2> QED BY <2>3, <2>4
  <1>6. CASE SeedMissing(t) /\ ~CallDefaults(t)
    <2> DEFINE j == [job[t] EXCEPT !.stage = "set"]
    <2>1. Enter(t, j, "set", op[t].key, Defaults[job[t].pos].val) /\ pc[t] = "ret"
      BY <1>6 DEF SeedMissing
    <2>2. j.kind = job[t].kind /\ j.stage = "set" /\ j.pos = job[t].pos /\ j.err = job[t].err
      BY <1>t DEF Job
    <2> HIDE DEF j
    <2>3. job'[t] = j
      BY <1>s, <2>1, EnterKeeps
    <2>4. CASE job[t].kind # "reset"
      <3>1. pc'[t] \notin {"write", "exhausted", "reset_done"}
        BY <1>s, <2>1, EnterResult
      <3> QED BY <1>s, <1>1, <1>6, <1>p, <2>2, <2>3, <2>4, <3>1, NoWalk DEF IterInv
    <2>5. CASE job[t].kind = "reset"
      <3>1. op[t].key = Defaults[job[t].pos].key
        BY <1>s, <1>6, <1>p, <2>1, <2>5 DEF ClearInv
      <3>2. /\ pc'[t] \in {"lock", "ret"} /\ op'[t].key = op[t].key
            /\ op'[t].kind = "set" => op'[t].val = Defaults[job[t].pos].val
        BY <1>s, <2>1, <2>2, <2>5, EnterOutcome
      <3> QED BY <1>1, <1>6, <1>p, <2>2, <2>3, <3>1, <3>2, SeedOwn
    <2> QED BY <2>4, <2>5
  <1>7. CASE SeedEntryDone(t) /\ ~CallDefaults(t)
    <2>1. /\ pc'[t] = "seed" /\ op'[t] = NoOp
          /\ job'[t].kind = job[t].kind /\ job'[t].stage = "get"
          /\ ~job'[t].err => ~job[t].err
      BY <1>t, <1>7 DEF SeedEntryDone, Job
    <2> QED BY <1>1, <1>7, <1>p, <2>1, SeedOwn DEF NoOp
  <1>8. CASE SeedEnd(t) /\ ~CallDefaults(t)
    <2>1. /\ pc[t] = "seed" /\ pc'[t] \in {"reset_done", "idle"} /\ UNCHANGED op
          /\ job'[t] = IF job[t].kind = "reset" THEN job[t] ELSE NoJob
          /\ pc'[t] = "reset_done" <=> job[t].kind = "reset"
      BY <1>t, <1>8 DEF SeedEnd
    <2>2. op[t].kind = "none"
      BY <1>s, <2>1 DEF Control
    <2>3. CASE job[t].kind = "reset"
      BY <1>1, <1>8, <1>p, <2>1, <2>2, <2>3, SeedOwn
    <2>4. CASE job[t].kind # "reset"
      BY <1>s, <1>1, <1>8, <1>p, <2>1, <2>4, NoWalk DEF IterInv, NoJob
    <2> QED BY <2>3, <2>4
  <1> QED BY <1>3, <1>4, <1>5, <1>6, <1>7, <1>8

--------------------------------------------------------------------------------
(* The theorems. *)

LEMMA WalkInvInit == Init => WalkInv
  <1> SUFFICES ASSUME Init PROVE WalkInv
    OBVIOUS
  <1>1. IndexInv
    BY IndexInvInit
  <1>2. ASSUME NEW t \in Threads PROVE IterInv(t) /\ WriteInv(t) /\ ClearInv(t)
    <2>1. pc[t] = "idle" /\ job[t] = NoJob /\ \A k \in Keys : seen[t][k] = 0
      BY DEF Init
    <2> QED BY <2>1 DEF IterInv, WriteInv, ClearInv, NoJob
  <1> QED BY <1>1, <1>2 DEF WalkInv

LEMMA WalkInvStep ==
  ASSUME WalkAssumptions
  PROVE  WalkInv /\ [Next]_vars => WalkInv'
  <1> SUFFICES ASSUME WalkInv, [Next]_vars PROVE WalkInv'
    OBVIOUS
  <1>a. IndexAssumptions
    BY DEF WalkAssumptions
  <1>i. IndexInv /\ IndexInv'
    BY <1>a, IndexInvStep DEF WalkInv
  <1>1. CASE UNCHANGED vars
    <2>1. ASSUME NEW t \in Threads PROVE IterInv(t)' /\ WriteInv(t)' /\ ClearInv(t)'
      <3>1. IterInv(t) /\ WriteInv(t) /\ ClearInv(t)
        BY DEF WalkInv
      <3>2. Walked(t) => Walked(t)'
        BY <1>1 DEF vars, Walked, Reading, Live
      <3>3. IterInv(t)'
        BY <1>1, <3>1, <3>2 DEF vars, IterInv, Stored
      <3> QED BY <1>1, <3>1, <3>3 DEF vars, WriteInv, ClearInv, Seeded, Stored
    <2> QED BY <1>i, <2>1 DEF WalkInv
  <1>2. CASE PowerLoss
    <2>1. ASSUME NEW t \in Threads PROVE IterInv(t)' /\ WriteInv(t)' /\ ClearInv(t)'
      <3>1. pc'[t] = "idle" /\ job'[t] = NoJob /\ \A k \in Keys : seen'[t][k] = 0
        BY <1>2 DEF PowerLoss
      <3> QED BY <3>1, NoWalk DEF NoJob
    <2> QED BY <1>i, <2>1 DEF WalkInv
  <1>3. ASSUME NEW t \in Threads, IndexStep(t) PROVE WalkInv'
    BY <1>a, <1>i, <1>3, WalkInvIndex
  <1>4. ASSUME NEW t \in Threads, OpStep(t) PROVE WalkInv'
    <2>1. ~SetWriteFails(t)
      BY <1>a DEF SetWriteFails, IndexAssumptions
    <2>2. ~SetDrop(t)
      BY <1>i DEF SetDrop, IndexInv, ThreadInv, ResetInv
    <2> QED BY <1>a, <1>i, <1>4, <2>1, <2>2, WalkInvOpQuiet, WalkInvTrack, WalkInvWrite,
               WalkInvErase, WalkInvUnindex DEF OpStep
  <1>5. ASSUME NEW t \in Threads, WalkStep(t) PROVE WalkInv'
    BY <1>i, <1>5, WalkInvWalk
  <1>6. ASSUME NEW t \in Threads, SeedStep(t) PROVE WalkInv'
    <2>1. CASE CallInit(t)
      <3>1. ASSUME NEW u \in Threads PROVE IterInv(u)' /\ WriteInv(u)' /\ ClearInv(u)'
        <4>1. pc[u] = "idle" /\ CtxInv(u) /\ IterInv(u)
          BY <2>1 DEF CallInit, WalkInv, IndexInv, ThreadInv
        <4>2. pc \in [Threads -> Places] /\ job \in [Threads -> Job]
          BY <1>i DEF IndexInv, MapInv, Shape, TypeOK, ThreadType
        <4>3. /\ job'[u].kind \notin {"iter", "reset"} /\ UNCHANGED seen
              /\ pc'[u] \notin {"write", "exhausted", "reset_done"}
          BY <2>1, <4>1, <4>2 DEF CallInit, StartSeed, walkVars, CtxInv, NoJob
        <4>4. \A k \in Keys : seen[u][k] = 0
          BY <4>1 DEF CtxInv, IterInv
        <4> QED BY <4>3, <4>4, NoWalk
      <3> QED BY <1>i, <3>1 DEF WalkInv
    <2> QED BY <1>i, <1>6, <2>1, WalkInvSeed DEF SeedStep
  <1> QED BY <1>1, <1>2, <1>3, <1>4, <1>5, <1>6 DEF Next

(* zdb_kv_iter_next() returns no key twice, and an iteration that ran to its    *)
(* end returned every key that was stored all the while, whatever other threads *)
(* store between two of its steps.                                              *)
THEOREM IterationIsExact ==
  ASSUME WalkAssumptions
  PROVE  Spec => []IterationExact
  <1>1. Init => WalkInv
    BY WalkInvInit
  <1>2. WalkInv /\ [Next]_vars => WalkInv'
    BY WalkInvStep
  <1>3. WalkInv => IterationExact
    <2> SUFFICES ASSUME WalkInv, NEW t \in Threads
                 PROVE  /\ \A k \in Keys : seen[t][k] <= 1
                        /\ pc[t] = "exhausted" => \A k \in due[t] : seen[t][k] = 1
      BY DEF IterationExact
    <2>1. IterInv(t) /\ ThreadInv(t) /\ Control(t)
      BY DEF WalkInv, IndexInv, MapInv, Shape
    <2>2. CASE job[t].kind = "iter"
      BY <2>1, <2>2 DEF IterInv, Walked, LoadPlaces
    <2>3. CASE job[t].kind # "iter"
      BY <2>1, <2>3 DEF IterInv
    <2> QED BY <2>2, <2>3
  <1> QED BY <1>1, <1>2, <1>3, PTL DEF Spec

(* A zdb_kv_reset_namespace() that reports success left none of the keys it     *)
(* found with any value but its default, unless another thread stored it again. *)
THEOREM ResetReallyClears ==
  ASSUME WalkAssumptions
  PROVE  Spec => []ResetClears
  <1>1. Init => WalkInv
    BY WalkInvInit
  <1>2. WalkInv /\ [Next]_vars => WalkInv'
    BY WalkInvStep
  <1>3. WalkInv => ResetClears
    BY DEF WalkInv, ClearInv, ResetClears, Seeded
  <1> QED BY <1>1, <1>2, <1>3, PTL DEF Spec

================================================================================
