--------------------------------- MODULE ZdbKv ---------------------------------
(***************************************************************************)
(* The key-value store of one zdb_t: records hashed to backend slots, the  *)
(* RAM key index and its persisted copy, the instance lock, the KV I/O     *)
(* slab, and the API calls of several threads: set, get, delete, iterate,  *)
(* reset a namespace, apply the defaults table.  A power loss may strike   *)
(* between any two steps.                                                  *)
(*                                                                         *)
(* A key stands for a (namespace, key name) pair; its value is opaque.     *)
(* One step is what happens between two points another thread or a power   *)
(* loss can tell apart: a flash write, a lock or unlock, a read of shared  *)
(* state without the lock.                                                 *)
(***************************************************************************)
EXTENDS Integers, Sequences, FiniteSets

CONSTANTS
  Threads,       \* threads that share the instance
  Keys,          \* (namespace, key) pairs
  NsOf,          \* the namespace of each key
  Ids,           \* backend record IDs, the reserved index record left out
  IdOf,          \* zdb_kv_record_id(): the slot of each key; not injective
  Values,        \* values an application or the defaults table stores
  Defaults,      \* cfg->kv_defaults: a sequence of [key, val]
  ForeignIds,    \* slots that hold pre-v2 or foreign bytes before first use
  MaxEntries,    \* CONFIG_ZDB_KV_INDEX_MAX_ENTRIES
  SlabBlocks,    \* CONFIG_ZDB_KV_IO_SLAB_BLOCK_COUNT
  Calls,         \* the API calls each thread makes
  Faults,        \* which environment failures may happen
  SoloFirstUse,  \* first iter_open/reset runs while no other thread calls
  MaxBoots,      \* bound: power losses
  NoThread, NoKey, NoVal, NoReq

CallKinds == {"set", "get", "delete", "iter", "reset", "defaults"}
FaultKinds == {"data_write", "index_write", "read", "heap"}
Namespaces == {NsOf[k] : k \in Keys}

ASSUME KvConstants ==
  /\ NsOf \in [Keys -> Namespaces]
  /\ IdOf \in [Keys -> Ids]
  /\ Defaults \in Seq([key : Keys, val : Values])
  /\ ForeignIds \subseteq Ids
  /\ MaxEntries \in Nat \ {0}
  /\ SlabBlocks \in Nat \ {0}
  /\ Calls \in [Threads -> SUBSET CallKinds]
  /\ Faults \subseteq FaultKinds
  /\ SoloFirstUse \in BOOLEAN
  /\ MaxBoots \in Nat
  /\ NoThread \notin Threads
  /\ NoKey \notin Keys
  /\ NoVal \notin Values
  /\ IsFiniteSet(Threads)

(* NoReq, of ZdbKvMap, is none of the requests. *)
ASSUME NoReqAssumption ==
  NoReq \notin [op : {"set", "delete"}, key : Keys, val : Values \cup {NoVal}, done : BOOLEAN]

VARIABLES
  rec,         \* flash: the content of every slot
  flashIndex,  \* flash: the IDs in the reserved index record, <<>> if absent
  heap,        \* RAM: every zdb_kv_ctx allocated since boot, its entries in order
  kvCtx,       \* RAM: db->kv_ctx, 0 for NULL, else an index of heap
  lock,        \* owner of db->lock, or NoThread
  pc,          \* per thread: the next step it takes
  job,         \* per thread: the walk or defaults pass it is in, and its locals
  op,          \* per thread: the set, get or delete it is in, or the last result
  ld,          \* per thread: locals of the index lookup and rebuild
  booted,      \* zdb_init() has returned ZDB_OK
  boots,       \* power losses so far
  unlisted,    \* history: keys stored while the index was full
  due,         \* history: per walking thread, the keys its walk has to reach
  seen         \* history: per iterating thread, how often a key was returned

flashVars == <<rec, flashIndex>>
ctxVars == <<heap, kvCtx>>
sysVars == <<booted, boots>>
walkVars == <<due, seen>>
vars == <<rec, flashIndex, heap, kvCtx, lock, pc, job, op, ld, booted, boots, unlisted,
          due, seen>>

--------------------------------------------------------------------------------
(* Records.  An index entry is written here as its key: the ID it carries is   *)
(* the key's own slot, because a record only ever lies in its key's slot.      *)

Record == [kind : {"none", "foreign", "kv"}, key : Keys \cup {NoKey},
           val : Values \cup {NoVal}]
NoRecord == [kind |-> "none", key |-> NoKey, val |-> NoVal]
ForeignRecord == [kind |-> "foreign", key |-> NoKey, val |-> NoVal]

record_build(k, v) == [kind |-> "kv", key |-> k, val |-> v]

(* Mutant: any record but the key's own counts as foreign bytes. *)
record_check_lax(r, k) == IF r.kind = "kv" /\ r.key = k THEN "MATCH" ELSE "FOREIGN"
record_check(r, k) ==
  CASE r.kind = "kv" /\ r.key = k -> "MATCH"
    [] r.kind = "kv" /\ r.key # k -> "MISMATCH"
    [] OTHER -> "FOREIGN"

Stored(k) == record_check(rec[IdOf[k]], k) = "MATCH"

(* Outcomes of an environment call: it works, or it fails where Faults says so. *)
Outcomes(kind) == IF kind \in Faults THEN {TRUE, FALSE} ELSE {TRUE}

--------------------------------------------------------------------------------
(* Threads. *)

Places == {"idle", "lock", "ctx", "alloc", "load", "scan", "track", "write", "drop",
           "unindex", "out", "ret", "next", "stale", "seed", "exhausted", "reset_done"}

(* pos: walk position or entry of the defaults table; at: position of the key   *)
(* being deleted; err: some step of the pass failed.                            *)
Job == [kind : {"none", "iter", "reset", "defaults", "init"},
        stage : {"walk", "get", "set"}, ns : Namespaces \cup {NoKey},
        pos : Nat \ {0}, at : Nat \ {0}, err : BOOLEAN]
NoJob == [kind |-> "none", stage |-> "walk", ns |-> NoKey, pos |-> 1, at |-> 1, err |-> FALSE]

Op == [kind : {"none", "set", "get", "delete"}, key : Keys \cup {NoKey},
       val : Values \cup {NoVal}, rc : {"OK", "NOT_FOUND", "COLLISION", "NOMEM", "IO"},
       indexed : BOOLEAN]
NoOp == [kind |-> "none", key |-> NoKey, val |-> NoVal, rc |-> "OK", indexed |-> TRUE]

Load == [ptr : Nat, buf : Seq(Ids), pruned : BOOLEAN]
NoLoad == [ptr |-> 0, buf |-> <<>>, pruned |-> FALSE]

(* Every call in progress holds one slab block; a rebuild of the index holds one. *)
IoHolders == {t \in Threads : op[t].kind # "none"}
ScanHolders == {t \in Threads : pc[t] = "scan"}
FreeBlocks == SlabBlocks - Cardinality(IoHolders) - Cardinality(ScanHolders)

LoadPlaces == {"ctx", "alloc", "load", "scan"}
UnlockedLoad(t) == op[t].kind = "none" /\ pc[t] \in LoadPlaces

(* The comment in zdb_kv_ctx_get_or_alloc(): a caller without the lock is the   *)
(* only user of the instance.                                                   *)
MayCall(t, c) ==
  /\ booted
  /\ pc[t] = "idle"
  /\ c \in Calls[t]
  /\ SoloFirstUse => \A u \in Threads : ~UnlockedLoad(u)
  /\ (SoloFirstUse /\ c \in {"iter", "reset"} /\ kvCtx = 0)
        => \A u \in Threads : pc[u] = "idle"

(* The operation of thread t, within job j, ends with status s for key k. *)
Finish(t, j, k, s) ==
  /\ pc' = [pc EXCEPT ![t] = IF j.kind = "none" THEN "idle" ELSE "ret"]
  /\ op' = [op EXCEPT ![t] = IF j.kind = "none" THEN NoOp
                             ELSE [NoOp EXCEPT !.key = k, !.rc = s]]

(* Thread t, within job j, enters operation o on key k: the argument checks     *)
(* pass, and a slab block is taken without waiting.                             *)
Enter(t, j, o, k, v) ==
  /\ job' = [job EXCEPT ![t] = j]
  /\ IF FreeBlocks > 0
     THEN /\ pc' = [pc EXCEPT ![t] = "lock"]
          /\ op' = [op EXCEPT ![t] = [NoOp EXCEPT !.kind = o, !.key = k, !.val = v]]
     ELSE Finish(t, j, k, "NOMEM")
  /\ UNCHANGED <<flashVars, ctxVars, lock, ld, sysVars, unlisted, walkVars>>

--------------------------------------------------------------------------------
(* The key index. *)

Live == IF kvCtx = 0 THEN <<>> ELSE heap[kvCtx]
Members(s) == {s[i] : i \in 1..Len(s)}
IdsOf(entries) == [i \in 1..Len(entries) |-> IdOf[entries[i]]]

(* Position of the first entry of key k. *)
find_entry(entries, k) ==
  CHOOSE i \in 1..Len(entries) : /\ entries[i] = k
                                 /\ \A j \in 1..(i - 1) : entries[j] # k

(* Mutant: the move starts one entry too late. *)
CompactLate(entries, p) ==
  [i \in 1..(Len(entries) - 1) |-> IF i <= p THEN entries[i] ELSE entries[i + 1]]
(* The entries behind position p move down by one. *)
Compact(entries, p) ==
  [i \in 1..(Len(entries) - 1) |-> IF i < p THEN entries[i] ELSE entries[i + 1]]

(* Mutant: the index stays in RAM. *)
index_store_skipped(entries) == UNCHANGED flashIndex
(* Best effort: a write that fails is not reported. *)
index_store(entries) ==
  \E ok \in Outcomes("index_write") :
     flashIndex' = IF ok THEN IdsOf(entries) ELSE flashIndex

track_delete(k) ==
  IF k \in Members(Live)
  THEN LET left == Compact(Live, find_entry(Live, k))
       IN  /\ heap' = [heap EXCEPT ![kvCtx] = left]
           /\ index_store(left)
  ELSE UNCHANGED <<heap, flashIndex>>

(* Thread t has context p: a set goes on to track its key, an iterator or a     *)
(* reset starts to walk.                                                        *)
HaveCtx(t, p) ==
  /\ pc' = [pc EXCEPT ![t] = IF op[t].kind = "set" THEN "track" ELSE "next"]
  /\ ld' = [ld EXCEPT ![t] = IF op[t].kind = "set" THEN [NoLoad EXCEPT !.ptr = p] ELSE NoLoad]

CtxCheck(t) ==
  /\ pc[t] = "ctx"
  /\ IF kvCtx # 0 THEN HaveCtx(t, kvCtx)
     ELSE pc' = [pc EXCEPT ![t] = "alloc"] /\ UNCHANGED ld
  /\ UNCHANGED <<flashVars, ctxVars, lock, job, op, sysVars, unlisted, walkVars>>

(* The context is published before it is filled. *)
CtxAlloc(t) ==
  /\ pc[t] = "alloc"
  /\ heap' = Append(heap, <<>>)
  /\ kvCtx' = Len(heap) + 1
  /\ pc' = [pc EXCEPT ![t] = "load"]
  /\ ld' = [ld EXCEPT ![t] = [NoLoad EXCEPT !.ptr = Len(heap) + 1]]
  /\ UNCHANGED <<flashVars, lock, job, op, sysVars, unlisted, walkVars>>

(* The heap is exhausted: a set goes on without an index entry, an iterator or  *)
(* a reset returns ZDB_ERR_NOMEM.                                               *)
CtxAllocFails(t) ==
  /\ pc[t] = "alloc"
  /\ "heap" \in Faults
  /\ IF op[t].kind = "set" THEN pc' = [pc EXCEPT ![t] = "write"] /\ UNCHANGED job
     ELSE pc' = [pc EXCEPT ![t] = "idle"] /\ job' = [job EXCEPT ![t] = NoJob]
  /\ UNCHANGED <<flashVars, ctxVars, lock, op, ld, sysVars, unlisted, walkVars>>

(* index_load() up to its loop: it gives up, leaving the context empty, when    *)
(* the index record cannot be read or no slab block is free.                    *)
LoadBegin(t) ==
  /\ pc[t] = "load"
  /\ \E readable \in Outcomes("read") :
       IF readable /\ flashIndex # <<>> /\ FreeBlocks > 0
       THEN /\ pc' = [pc EXCEPT ![t] = "scan"]
            /\ ld' = [ld EXCEPT ![t] = [ld[t] EXCEPT !.buf = flashIndex]]
       ELSE HaveCtx(t, ld[t].ptr)
  /\ UNCHANGED <<flashVars, ctxVars, lock, job, op, sysVars, unlisted, walkVars>>

(* Mutant: the record is taken for a key's without a look at its kind. *)
LoadEntryUnchecked(t) ==
  /\ pc[t] = "scan"
  /\ ld[t].buf # <<>>
  /\ heap' = [heap EXCEPT ![ld[t].ptr] = Append(heap[ld[t].ptr], rec[Head(ld[t].buf)].key)]
  /\ ld' = [ld EXCEPT ![t] = [ld[t] EXCEPT !.buf = Tail(ld[t].buf)]]
  /\ UNCHANGED <<flashVars, kvCtx, lock, pc, job, op, sysVars, unlisted, walkVars>>

(* One stored ID: its record gives the key back, or the ID is dropped. *)
LoadEntry(t) ==
  /\ pc[t] = "scan"
  /\ ld[t].buf # <<>>
  /\ LET r == rec[Head(ld[t].buf)]
     IN  \E readable \in Outcomes("read") :
           IF readable /\ r.kind = "kv"
           THEN /\ heap' = [heap EXCEPT ![ld[t].ptr] = Append(heap[ld[t].ptr], r.key)]
                /\ ld' = [ld EXCEPT ![t] = [ld[t] EXCEPT !.buf = Tail(ld[t].buf)]]
           ELSE /\ ld' = [ld EXCEPT ![t] = [ld[t] EXCEPT !.buf = Tail(ld[t].buf), !.pruned = TRUE]]
                /\ UNCHANGED heap
  /\ UNCHANGED <<flashVars, kvCtx, lock, pc, job, op, sysVars, unlisted, walkVars>>

LoadEnd(t) ==
  /\ pc[t] = "scan"
  /\ ld[t].buf = <<>>
  /\ IF ld[t].pruned THEN index_store(heap[ld[t].ptr]) ELSE UNCHANGED flashIndex
  /\ HaveCtx(t, ld[t].ptr)
  /\ UNCHANGED <<rec, ctxVars, lock, job, op, sysVars, unlisted, walkVars>>

--------------------------------------------------------------------------------
(* zdb_kv_set() *)

CallSet(t) ==
  /\ MayCall(t, "set")
  /\ \E k \in Keys, v \in Values : Enter(t, NoJob, "set", k, v)

(* Lock, then pre-read the slot: another key's record is a collision, any       *)
(* other content (and a slot that cannot be read) is claimed.                   *)
SetLock(t) ==
  /\ pc[t] = "lock" /\ op[t].kind = "set"
  /\ lock = NoThread
  /\ \E readable \in Outcomes("read") :
       IF readable /\ record_check(rec[IdOf[op[t].key]], op[t].key) = "MISMATCH"
       THEN Finish(t, job[t], op[t].key, "COLLISION") /\ UNCHANGED lock
       ELSE /\ pc' = [pc EXCEPT ![t] = "ctx"]
            /\ lock' = t
            /\ UNCHANGED op
  /\ UNCHANGED <<flashVars, ctxVars, job, ld, sysVars, unlisted, walkVars>>

(* track_set(): the key enters the index, and a new key the persisted index,    *)
(* before its data is written.                                                  *)
SetTrack(t) ==
  /\ pc[t] = "track"
  /\ LET entries == heap[ld[t].ptr]
         k == op[t].key
         known == k \in Members(entries)
         room == Len(entries) < MaxEntries
     IN  /\ IF ~known /\ room
            THEN /\ heap' = [heap EXCEPT ![ld[t].ptr] = Append(entries, k)]
                 /\ index_store(Append(entries, k))
            ELSE UNCHANGED <<heap, flashIndex>>
         /\ op' = [op EXCEPT ![t] = [op[t] EXCEPT !.indexed = known \/ room]]
         /\ unlisted' = IF known \/ room THEN unlisted \ {k} ELSE unlisted
  /\ pc' = [pc EXCEPT ![t] = "write"]
  /\ ld' = [ld EXCEPT ![t] = NoLoad]
  /\ UNCHANGED <<rec, kvCtx, lock, job, sysVars, walkVars>>

(* Key k gets a new record: a reset that runs elsewhere no longer answers for   *)
(* it.                                                                          *)
DueAfterWrite(t, k) ==
  [u \in Threads |-> IF u # t /\ job[u].kind = "reset" THEN due[u] \ {k} ELSE due[u]]

SetWrite(t) ==
  /\ pc[t] = "write"
  /\ rec' = [rec EXCEPT ![IdOf[op[t].key]] = record_build(op[t].key, op[t].val)]
  /\ unlisted' = IF op[t].indexed THEN unlisted ELSE unlisted \cup {op[t].key}
  /\ due' = DueAfterWrite(t, op[t].key)
  /\ pc' = [pc EXCEPT ![t] = "out"]
  /\ UNCHANGED <<flashIndex, ctxVars, lock, job, op, ld, sysVars, seen>>

SetWriteFails(t) ==
  /\ pc[t] = "write"
  /\ "data_write" \in Faults
  /\ pc' = [pc EXCEPT ![t] = "drop"]
  /\ op' = [op EXCEPT ![t] = [op[t] EXCEPT !.rc = "IO"]]
  /\ UNCHANGED <<flashVars, ctxVars, lock, job, ld, sysVars, unlisted, walkVars>>

SetDrop(t) ==
  /\ pc[t] = "drop"
  /\ track_delete(op[t].key)
  /\ pc' = [pc EXCEPT ![t] = "out"]
  /\ UNCHANGED <<rec, kvCtx, lock, job, op, ld, sysVars, unlisted, walkVars>>

(* Unlock, free the slab block, publish the event, return. *)
Out(t) ==
  /\ pc[t] = "out"
  /\ lock' = NoThread
  /\ Finish(t, job[t], op[t].key, op[t].rc)
  /\ UNCHANGED <<flashVars, ctxVars, job, ld, sysVars, unlisted, walkVars>>

--------------------------------------------------------------------------------
(* zdb_kv_get() and zdb_kv_delete() *)

CallGet(t) ==
  /\ MayCall(t, "get")
  /\ \E k \in Keys : Enter(t, NoJob, "get", k, NoVal)

Get(t) ==
  /\ pc[t] = "lock" /\ op[t].kind = "get"
  /\ lock = NoThread
  /\ \E readable \in Outcomes("read") :
       Finish(t, job[t], op[t].key, CASE ~readable -> "IO"
                                      [] readable /\ Stored(op[t].key) -> "OK"
                                      [] OTHER -> "NOT_FOUND")
  /\ UNCHANGED <<flashVars, ctxVars, lock, job, ld, sysVars, unlisted, walkVars>>

CallDelete(t) ==
  /\ MayCall(t, "delete")
  /\ \E k \in Keys : Enter(t, NoJob, "delete", k, NoVal)

(* The slot is empty, holds something else, cannot be read or cannot be erased. *)
DeleteRefused(t) ==
  /\ pc[t] = "lock" /\ op[t].kind = "delete"
  /\ lock = NoThread
  /\ \E s \in {"NOT_FOUND", "IO"} :
        /\ s = "NOT_FOUND" => ~Stored(op[t].key)
        /\ s = "IO" => "read" \in Faults \/ ("data_write" \in Faults /\ Stored(op[t].key))
        /\ Finish(t, job[t], op[t].key, s)
  /\ UNCHANGED <<flashVars, ctxVars, lock, job, ld, sysVars, unlisted, walkVars>>

(* Key k is gone: an iterator need not return it, and may return it once more   *)
(* if it is stored again.                                                       *)
DueAfterErase(k) ==
  [u \in Threads |-> IF job[u].kind = "iter" THEN due[u] \ {k} ELSE due[u]]
SeenAfterErase(k) == [u \in Threads |-> [seen[u] EXCEPT ![k] = 0]]

DeleteErase(t) ==
  /\ pc[t] = "lock" /\ op[t].kind = "delete"
  /\ lock = NoThread
  /\ Stored(op[t].key)
  /\ lock' = t
  /\ rec' = [rec EXCEPT ![IdOf[op[t].key]] = NoRecord]
  /\ due' = DueAfterErase(op[t].key)
  /\ seen' = SeenAfterErase(op[t].key)
  /\ unlisted' = unlisted \ {op[t].key}
  /\ pc' = [pc EXCEPT ![t] = "unindex"]
  /\ UNCHANGED <<flashIndex, ctxVars, job, op, ld, sysVars>>

DeleteUnindex(t) ==
  /\ pc[t] = "unindex"
  /\ track_delete(op[t].key)
  /\ pc' = [pc EXCEPT ![t] = "out"]
  /\ UNCHANGED <<rec, kvCtx, lock, job, op, ld, sysVars, unlisted, walkVars>>

--------------------------------------------------------------------------------
(* Walks of the index: zdb_kv_iter_*() and zdb_kv_reset_namespace() *)

InNs(ns) == {k \in Keys : NsOf[k] = ns}

(* Mutant: the walk starts one entry too far. *)
CandidatesAfter(ns, p) == {i \in (p + 1)..Len(Live) : NsOf[Live[i]] = ns}
(* Positions, from p on, of the entries of a namespace. *)
Candidates(ns, p) == {i \in p..Len(Live) : NsOf[Live[i]] = ns}
First(S) == CHOOSE i \in S : \A j \in S : i <= j

(* ctx_get_or_alloc() runs without the lock. *)
CallWalk(t, c) ==
  /\ MayCall(t, c)
  /\ \E ns \in Namespaces :
       /\ job' = [job EXCEPT ![t] = [NoJob EXCEPT !.kind = c, !.ns = ns]]
       /\ due' = [due EXCEPT ![t] = {k \in InNs(ns) : Stored(k)} \ unlisted]
  /\ pc' = [pc EXCEPT ![t] = "ctx"]
  /\ UNCHANGED <<flashVars, ctxVars, lock, op, ld, sysVars, unlisted, seen>>

EndWalk(t) ==
  /\ pc' = [pc EXCEPT ![t] = "idle"]
  /\ job' = [job EXCEPT ![t] = NoJob]
  /\ op' = [op EXCEPT ![t] = NoOp]
  /\ due' = [due EXCEPT ![t] = {}]
  /\ seen' = [seen EXCEPT ![t] = [k \in Keys |-> 0]]
  /\ UNCHANGED <<flashVars, ctxVars, lock, ld, sysVars, unlisted>>

(* iter_next(): find the next entry under the lock, then read its value. *)
IterNext(t) ==
  /\ pc[t] = "next" /\ job[t].kind = "iter"
  /\ lock = NoThread
  /\ LET c == Candidates(job[t].ns, job[t].pos)
     IN  /\ c # {}
         /\ Enter(t, [job[t] EXCEPT !.pos = First(c) + 1], "get", Live[First(c)], NoVal)

IterEnd(t) ==
  /\ pc[t] = "next" /\ job[t].kind = "iter"
  /\ lock = NoThread
  /\ Candidates(job[t].ns, job[t].pos) = {}
  /\ pc' = [pc EXCEPT ![t] = "exhausted"]
  /\ UNCHANGED <<flashVars, ctxVars, lock, job, op, ld, sysVars, unlisted, walkVars>>

(* The record was read, or is gone and is skipped. *)
IterGot(t) ==
  /\ pc[t] = "ret" /\ job[t].kind = "iter"
  /\ op[t].rc \in {"OK", "NOT_FOUND"}
  /\ seen' = IF op[t].rc = "OK" /\ seen[t][op[t].key] < 2
             THEN [seen EXCEPT ![t][op[t].key] = @ + 1] ELSE seen
  /\ pc' = [pc EXCEPT ![t] = "next"]
  /\ op' = [op EXCEPT ![t] = NoOp]
  /\ UNCHANGED <<flashVars, ctxVars, lock, job, ld, sysVars, unlisted, due>>

(* The caller closes at the end, on an error, or whenever it likes. *)
IterClose(t) ==
  /\ job[t].kind = "iter"
  /\ \/ pc[t] \in {"next", "exhausted"}
     \/ pc[t] = "ret" /\ op[t].rc \notin {"OK", "NOT_FOUND"}
  /\ EndWalk(t)

(* next_key_in_ns(), then zdb_kv_delete() of the key it found. *)
ResetNext(t) ==
  /\ pc[t] = "next" /\ job[t].kind = "reset"
  /\ lock = NoThread
  /\ LET c == Candidates(job[t].ns, job[t].pos)
     IN  /\ c # {}
         /\ Enter(t, [job[t] EXCEPT !.at = First(c)], "delete", Live[First(c)], NoVal)

(* No key is left: the defaults pass starts. *)
ResetWalked(t) ==
  /\ pc[t] = "next" /\ job[t].kind = "reset"
  /\ lock = NoThread
  /\ Candidates(job[t].ns, job[t].pos) = {}
  /\ pc' = [pc EXCEPT ![t] = "seed"]
  /\ job' = [job EXCEPT ![t] = [job[t] EXCEPT !.stage = "get", !.pos = 1, !.at = 1]]
  /\ UNCHANGED <<flashVars, ctxVars, lock, op, ld, sysVars, unlisted, walkVars>>

(* Mutant: the walk steps over the entry that moved into the deleted one's place. *)
ResetDeletedSteps(t) ==
  /\ pc[t] = "ret" /\ job[t].kind = "reset" /\ job[t].stage = "walk"
  /\ pc' = [pc EXCEPT ![t] = IF op[t].rc = "NOT_FOUND" THEN "stale" ELSE "next"]
  /\ op' = [op EXCEPT ![t] = IF op[t].rc = "NOT_FOUND" THEN op[t] ELSE NoOp]
  /\ job' = [job EXCEPT ![t] = [job[t] EXCEPT !.pos = job[t].at + 1]]
  /\ UNCHANGED <<flashVars, ctxVars, lock, ld, sysVars, unlisted, walkVars>>

(* A deleted key leaves its position to the next one, a stale entry is dropped  *)
(* next, a key that cannot be deleted is stepped over.                          *)
ResetDeleted(t) ==
  /\ pc[t] = "ret" /\ job[t].kind = "reset" /\ job[t].stage = "walk"
  /\ pc' = [pc EXCEPT ![t] = IF op[t].rc = "NOT_FOUND" THEN "stale" ELSE "next"]
  /\ op' = [op EXCEPT ![t] = IF op[t].rc = "NOT_FOUND" THEN op[t] ELSE NoOp]
  /\ job' = [job EXCEPT ![t] = IF op[t].rc \in {"OK", "NOT_FOUND"} THEN job[t]
                               ELSE [job[t] EXCEPT !.pos = job[t].at + 1, !.err = TRUE]]
  /\ UNCHANGED <<flashVars, ctxVars, lock, ld, sysVars, unlisted, walkVars>>

ResetStale(t) ==
  /\ pc[t] = "stale"
  /\ lock = NoThread
  /\ track_delete(op[t].key)
  /\ pc' = [pc EXCEPT ![t] = "next"]
  /\ op' = [op EXCEPT ![t] = NoOp]
  /\ UNCHANGED <<rec, kvCtx, lock, job, ld, sysVars, unlisted, walkVars>>

ResetReturn(t) ==
  /\ pc[t] = "reset_done"
  /\ EndWalk(t)

--------------------------------------------------------------------------------
(* zdb_kv_defaults_apply_ns(), alone, from zdb_init() and from a reset *)

StartSeed(t, kind) ==
  /\ pc' = [pc EXCEPT ![t] = "seed"]
  /\ job' = [job EXCEPT ![t] = [NoJob EXCEPT !.kind = kind, !.stage = "get"]]
  /\ UNCHANGED <<flashVars, lock, op, ld, sysVars, unlisted, walkVars>>

CallDefaults(t) ==
  /\ MayCall(t, "defaults")
  /\ StartSeed(t, "defaults")
  /\ UNCHANGED ctxVars

(* zdb_init(): nobody else uses the instance, kv_ctx starts as NULL. *)
CallInit(t) ==
  /\ ~booted
  /\ \A u \in Threads : pc[u] = "idle"
  /\ StartSeed(t, "init")
  /\ heap' = <<>>
  /\ kvCtx' = 0

(* The next entry of the table: a reset passes over other namespaces. *)
SeedSkip(t) ==
  /\ pc[t] = "seed"
  /\ job[t].pos <= Len(Defaults)
  /\ job[t].kind = "reset" /\ NsOf[Defaults[job[t].pos].key] # job[t].ns
  /\ job' = [job EXCEPT ![t] = [job[t] EXCEPT !.pos = job[t].pos + 1]]
  /\ UNCHANGED <<flashVars, ctxVars, lock, pc, op, ld, sysVars, unlisted, walkVars>>

(* Look whether the key of the entry is present. *)
SeedGet(t) ==
  /\ pc[t] = "seed"
  /\ job[t].pos <= Len(Defaults)
  /\ job[t].kind = "reset" => NsOf[Defaults[job[t].pos].key] = job[t].ns
  /\ Enter(t, job[t], "get", Defaults[job[t].pos].key, NoVal)

(* Absent: write the default. *)
SeedMissing(t) ==
  /\ pc[t] = "ret" /\ job[t].stage = "get" /\ op[t].rc = "NOT_FOUND"
  /\ Enter(t, [job[t] EXCEPT !.stage = "set"], "set", op[t].key, Defaults[job[t].pos].val)

(* Present, written or failed: remember a failure and go on. *)
SeedEntryDone(t) ==
  /\ pc[t] = "ret"
  /\ \/ job[t].stage = "set"
     \/ job[t].stage = "get" /\ op[t].rc # "NOT_FOUND"
  /\ pc' = [pc EXCEPT ![t] = "seed"]
  /\ job' = [job EXCEPT ![t] = [job[t] EXCEPT !.stage = "get", !.pos = job[t].pos + 1,
                                              !.err = job[t].err \/ op[t].rc # "OK"]]
  /\ op' = [op EXCEPT ![t] = NoOp]
  /\ UNCHANGED <<flashVars, ctxVars, lock, ld, sysVars, unlisted, walkVars>>

SeedEnd(t) ==
  /\ pc[t] = "seed"
  /\ job[t].pos > Len(Defaults)
  /\ pc' = [pc EXCEPT ![t] = IF job[t].kind = "reset" THEN "reset_done" ELSE "idle"]
  /\ job' = [job EXCEPT ![t] = IF job[t].kind = "reset" THEN job[t] ELSE NoJob]
  /\ booted' = IF job[t].kind = "init" THEN ~job[t].err ELSE booted
  /\ UNCHANGED <<flashVars, ctxVars, lock, op, ld, boots, unlisted, walkVars>>

--------------------------------------------------------------------------------
(* Flash keeps its content; everything in RAM is gone. *)
PowerLoss ==
  /\ boots < MaxBoots
  /\ boots' = boots + 1
  /\ heap' = <<>>
  /\ kvCtx' = 0
  /\ lock' = NoThread
  /\ pc' = [t \in Threads |-> "idle"]
  /\ job' = [t \in Threads |-> NoJob]
  /\ op' = [t \in Threads |-> NoOp]
  /\ ld' = [t \in Threads |-> NoLoad]
  /\ booted' = FALSE
  /\ due' = [t \in Threads |-> {}]
  /\ seen' = [t \in Threads |-> [k \in Keys |-> 0]]
  /\ UNCHANGED <<flashVars, unlisted>>

Init ==
  /\ rec = [i \in Ids |-> IF i \in ForeignIds THEN ForeignRecord ELSE NoRecord]
  /\ flashIndex = <<>>
  /\ heap = <<>>
  /\ kvCtx = 0
  /\ lock = NoThread
  /\ pc = [t \in Threads |-> "idle"]
  /\ job = [t \in Threads |-> NoJob]
  /\ op = [t \in Threads |-> NoOp]
  /\ ld = [t \in Threads |-> NoLoad]
  /\ booted = FALSE
  /\ boots = 0
  /\ unlisted = {}
  /\ due = [t \in Threads |-> {}]
  /\ seen = [t \in Threads |-> [k \in Keys |-> 0]]

IndexStep(t) ==
  \/ CtxCheck(t) \/ CtxAlloc(t) \/ CtxAllocFails(t)
  \/ LoadBegin(t) \/ LoadEntry(t) \/ LoadEnd(t)

OpStep(t) ==
  \/ CallSet(t) \/ SetLock(t) \/ SetTrack(t) \/ SetWrite(t) \/ SetWriteFails(t)
  \/ SetDrop(t) \/ Out(t)
  \/ CallGet(t) \/ Get(t)
  \/ CallDelete(t) \/ DeleteRefused(t) \/ DeleteErase(t) \/ DeleteUnindex(t)

WalkStep(t) ==
  \/ CallWalk(t, "iter") \/ IterNext(t) \/ IterEnd(t) \/ IterGot(t) \/ IterClose(t)
  \/ CallWalk(t, "reset") \/ ResetNext(t) \/ ResetWalked(t) \/ ResetDeleted(t)
  \/ ResetStale(t) \/ ResetReturn(t)

SeedStep(t) ==
  \/ CallDefaults(t) \/ CallInit(t)
  \/ SeedSkip(t) \/ SeedGet(t) \/ SeedMissing(t) \/ SeedEntryDone(t) \/ SeedEnd(t)

Next ==
  \/ \E t \in Threads : IndexStep(t) \/ OpStep(t) \/ WalkStep(t) \/ SeedStep(t)
  \/ PowerLoss

Spec == Init /\ [][Next]_vars

--------------------------------------------------------------------------------
(* Properties *)

FlashType == rec \in [Ids -> Record] /\ flashIndex \in Seq(Ids)
IndexType ==
  /\ heap \in Seq(Seq(Keys))
  /\ kvCtx \in 0..Len(heap)
  /\ \A t \in Threads : ld[t].ptr \in 0..Len(heap)
ThreadType ==
  /\ lock \in Threads \cup {NoThread}
  /\ pc \in [Threads -> Places]
  /\ job \in [Threads -> Job]
  /\ op \in [Threads -> Op]
  /\ ld \in [Threads -> Load]
SystemType == booted \in BOOLEAN /\ boots \in 0..MaxBoots
HistoryType ==
  /\ unlisted \in SUBSET Keys
  /\ due \in [Threads -> SUBSET Keys]
  /\ seen \in [Threads -> [Keys -> 0..2]]

(* Type invariant: every variable stays in its range, db->kv_ctx and the         *)
(* context a thread works on are allocated contexts.                             *)
TypeOK == FlashType /\ IndexType /\ ThreadType /\ SystemType /\ HistoryType

Loading == \E t \in Threads : pc[t] \in {"load", "scan"}

(* The order of zdb_kv_set(), index first and data second: at every moment, so  *)
(* after a power loss at any moment, the persisted index names the slot of      *)
(* every stored key, but for keys ZDB_EVENT_KV_INDEX_FULL was reported for.     *)
StoredKeysListed ==
  \A k \in Keys : Stored(k) => k \in unlisted \/ IdOf[k] \in Members(flashIndex)

(* Whenever nobody holds the lock, the index of the running instance lists      *)
(* every stored key exactly once (again but for those the index had no room     *)
(* for), lists nothing else, fits its array, and equals its persisted copy.     *)
IndexExact ==
  (lock = NoThread /\ ~Loading /\ kvCtx # 0) =>
     /\ Members(Live) = {k \in Keys : Stored(k)} \ unlisted
     /\ Len(Live) = Cardinality(Members(Live))
     /\ Len(Live) <= MaxEntries
     /\ flashIndex = IdsOf(Live)

(* zdb_kv_iter_next(): an iteration that ran to its end returned every key that *)
(* was stored from its start to its end, and no key twice, while other threads  *)
(* store keys.  (A delete by another thread moves the entries behind it down,   *)
(* past the position of the iterator.)                                          *)
IterationExact ==
  \A t \in Threads :
     /\ \A k \in Keys : seen[t][k] <= 1
     /\ pc[t] = "exhausted" => \A k \in due[t] : seen[t][k] = 1

(* zdb_kv_reset_namespace(): a reset that reports success left none of the keys *)
(* the namespace held at its start with any value but its default, unless       *)
(* another thread stored the key again meanwhile.                               *)
ResetClears ==
  \A t \in Threads :
     (pc[t] = "reset_done" /\ ~job[t].err) =>
        \A k \in due[t] : Stored(k) =>
           \E i \in 1..Len(Defaults) : Defaults[i] = [key |-> k, val |-> rec[IdOf[k]].val]

(* The API promise of ZdbKvMap: read through the slots, the store is a map that  *)
(* set and delete change atomically, one key per call, and that failed calls,   *)
(* index rebuilds and power losses leave alone.                                 *)
StoredMap == [k \in Keys |-> IF Stored(k) THEN rec[IdOf[k]].val ELSE NoVal]

Pending(t) ==
  \/ op[t].kind = "set" /\ pc[t] \in {"lock", "ctx", "alloc", "load", "scan", "track", "write"}
  \/ op[t].kind = "delete" /\ pc[t] = "lock"
Effective(t) ==
  op[t].kind \in {"set", "delete"} /\ pc[t] \in {"unindex", "out"} /\ op[t].rc = "OK"

Requests ==
  [t \in Threads |->
     IF Pending(t) \/ Effective(t)
     THEN [op |-> op[t].kind, key |-> op[t].key, val |-> op[t].val, done |-> Effective(t)]
     ELSE NoReq]

Map == INSTANCE ZdbKvMap WITH map <- StoredMap, req <- Requests

ImplementsMap == Map!Spec
================================================================================
