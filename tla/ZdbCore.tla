--------------------------------- MODULE ZdbCore ---------------------------------
(***************************************************************************)
(* The core of one zdb_t: its lifetime, the instance lock, its health and  *)
(* the HEALTH event that tells the listeners of a fault.                   *)
(*                                                                         *)
(* A fault is detected with the lock held (a record of the ingest buffer)  *)
(* or without (recovery, the records of a file).  zdb_health_check() is    *)
(* the same code for both and takes no lock: its accesses to the instance  *)
(* are steps of their own, as are those of the counter beside it.  The     *)
(* INIT and DEINIT events, which no other step bears on, are left out.     *)
(***************************************************************************)
EXTENDS Integers, Sequences

CONSTANTS
  Threads,    \* threads that use the instance
  MaxFaults,  \* bound: faults detected in the life of an instance
  MaxResets,  \* bound: resets of the counters in the life of an instance
  MaxBoots,   \* bound: times the instance is initialised again
  NoThread, None

Healths == {"OK", "DEGRADED"}

ASSUME CoreConstants ==
  /\ MaxFaults \in Nat
  /\ MaxResets \in Nat
  /\ MaxBoots \in Nat
  /\ NoThread \notin Threads
  /\ None \notin [prev : Healths, now : Healths]

VARIABLES
  cfg,              \* the instance is initialised
  owner,            \* owner of db->lock, or NoThread
  health,           \* db->health
  health_prev,      \* db->health_prev
  pending,          \* db->health_event_pending
  corrupt_records,  \* db->ts_stats.corrupt_records
  pc,               \* per thread: the next step it takes
  seen,             \* per thread: the counter it is incrementing
  note,             \* per thread: the change its unlock publishes, or None
  heard,            \* HEALTH events the listeners got from this instance
  faults,           \* history: faults detected by this instance
  resets,           \* resets of the counters of this instance
  raced,            \* history: two threads found the instance healthy at once
  boots             \* times the instance was initialised again

threadVars == <<pc, seen, note>>
changeVars == <<health, health_prev, pending>>
historyVars == <<faults, raced>>
lifeVars == <<cfg, boots>>
vars == <<lifeVars, owner, changeVars, corrupt_records, threadVars, heard, historyVars, resets>>

Change(prev, now) == [prev |-> prev, now |-> now]

Go(t, place) == pc' = [pc EXCEPT ![t] = place]
Holds(t) == owner = t
(* Back in the section that met the fault. *)
Resume(t) == Go(t, IF Holds(t) THEN "in" ELSE "idle")

(* zdb_emit_core_event(): the event reaches every listener.  held is history:   *)
(* the thread that runs them owns the lock.                                     *)
Publish(t, change) ==
  heard' = Append(heard, [prev |-> change.prev, now |-> change.now, held |-> Holds(t)])

--------------------------------------------------------------------------------
(* The life of the instance.  An application does neither while a call is in    *)
(* progress.                                                                    *)

Quiet == \A t \in Threads : pc[t] = "idle"

zdb_init ==
  /\ ~cfg
  /\ boots < MaxBoots
  /\ boots' = boots + 1
  /\ cfg' = TRUE
  /\ owner' = NoThread
  /\ health' = "OK" /\ health_prev' = "OK" /\ pending' = FALSE
  /\ corrupt_records' = 0
  /\ heard' = <<>>
  /\ faults' = 0 /\ resets' = 0 /\ raced' = FALSE
  /\ UNCHANGED threadVars

zdb_deinit ==
  /\ cfg
  /\ Quiet
  /\ cfg' = FALSE
  /\ pending' = FALSE
  /\ UNCHANGED <<boots, owner, health, health_prev, corrupt_records, threadVars, heard,
                 historyVars, resets>>

--------------------------------------------------------------------------------
(* zdb_health_check(), from ZDB_STAT_INC() in front of it to the event *)

(* A thread meets a fault and reads the counter. *)
Detect(t) ==
  /\ cfg
  /\ pc[t] \in {"idle", "in"}
  /\ faults < MaxFaults
  /\ faults' = faults + 1
  /\ seen' = [seen EXCEPT ![t] = corrupt_records]
  /\ Go(t, "count")
  /\ UNCHANGED <<lifeVars, owner, changeVars, corrupt_records, note, heard, raced, resets>>

Count(t) ==
  /\ pc[t] = "count"
  /\ corrupt_records' = seen[t] + 1
  /\ Go(t, "check")
  /\ UNCHANGED <<lifeVars, owner, changeVars, seen, note, heard, historyVars, resets>>

(* Mutant: the counters decide whether there was a fault. *)
CheckCounters(t) ==
  /\ pc[t] = "check"
  /\ \/ /\ health = "DEGRADED" \/ corrupt_records = 0
        /\ Resume(t) /\ UNCHANGED raced
     \/ /\ health = "OK" /\ corrupt_records > 0
        /\ Go(t, "prev")
        /\ raced' = (raced \/ \E u \in Threads : pc[u] \in {"prev", "degrade"})
  /\ UNCHANGED <<lifeVars, owner, changeVars, corrupt_records, seen, note, heard, faults, resets>>
(* Found healthy, the instance is about to be degraded; the counters are not    *)
(* asked.                                                                       *)
Check(t) ==
  /\ pc[t] = "check"
  /\ \/ health = "DEGRADED" /\ Resume(t) /\ UNCHANGED raced
     \/ /\ health = "OK"
        /\ Go(t, "prev")
        /\ raced' = (raced \/ \E u \in Threads : pc[u] \in {"prev", "degrade"})
  /\ UNCHANGED <<lifeVars, owner, changeVars, corrupt_records, seen, note, heard, faults, resets>>

SavePrev(t) ==
  /\ pc[t] = "prev"
  /\ health_prev' = health
  /\ Go(t, "degrade")
  /\ UNCHANGED <<lifeVars, owner, health, pending, corrupt_records, seen, note, heard, historyVars,
                 resets>>

(* Mutant: a fault that was recovered from is taken for the end. *)
DegradeToFault(t) ==
  /\ pc[t] = "degrade"
  /\ health' = "FAULT"
  /\ Go(t, "tell")
  /\ UNCHANGED <<lifeVars, owner, health_prev, pending, corrupt_records, seen, note, heard,
                 historyVars, resets>>
Degrade(t) ==
  /\ pc[t] = "degrade"
  /\ health' = "DEGRADED"
  /\ Go(t, "tell")
  /\ UNCHANGED <<lifeVars, owner, health_prev, pending, corrupt_records, seen, note, heard,
                 historyVars, resets>>

(* Mutant: the event is published at once, also with the lock held. *)
TellNow(t) ==
  /\ pc[t] = "tell"
  /\ Publish(t, Change(health_prev, health))
  /\ Resume(t)
  /\ UNCHANGED <<lifeVars, owner, changeVars, corrupt_records, seen, note, historyVars, resets>>
(* The owner of the lock leaves the event to its unlock; another thread         *)
(* publishes what the instance holds by now.                                    *)
Tell(t) ==
  /\ pc[t] = "tell"
  /\ IF Holds(t) THEN pending' = TRUE /\ UNCHANGED heard
     ELSE Publish(t, Change(health_prev, health)) /\ UNCHANGED pending
  /\ Resume(t)
  /\ UNCHANGED <<lifeVars, owner, health, health_prev, corrupt_records, seen, note, historyVars,
                 resets>>

--------------------------------------------------------------------------------
(* zdb_lock_read() and zdb_lock_write() *)
Lock(t) ==
  /\ cfg
  /\ pc[t] = "idle"
  /\ owner = NoThread
  /\ owner' = t
  /\ Go(t, "in")
  /\ UNCHANGED <<lifeVars, changeVars, corrupt_records, seen, note, heard, historyVars, resets>>

(* zdb_unlock_common(): the deferred change is claimed, *)

(* Mutant: and left for others to claim. *)
TakeCopy(t) ==
  /\ pc[t] = "in"
  /\ note' = [note EXCEPT ![t] = IF pending THEN Change(health_prev, health) ELSE None]
  /\ Go(t, "unlock")
  /\ UNCHANGED <<lifeVars, owner, changeVars, corrupt_records, seen, heard, historyVars, resets>>
Take(t) ==
  /\ pc[t] = "in"
  /\ note' = [note EXCEPT ![t] = IF pending THEN Change(health_prev, health) ELSE None]
  /\ pending' = FALSE
  /\ Go(t, "unlock")
  /\ UNCHANGED <<lifeVars, owner, health, health_prev, corrupt_records, seen, heard, historyVars,
                 resets>>

(* the mutex unlocked, *)
Unlock(t) ==
  /\ pc[t] = "unlock"
  /\ owner' = NoThread
  /\ Go(t, "emit")
  /\ UNCHANGED <<lifeVars, changeVars, corrupt_records, seen, note, heard, historyVars, resets>>

(* Mutant: the flag is cleared once the change is published. *)
EmitThenClear(t) ==
  /\ pc[t] = "emit"
  /\ IF note[t] # None THEN Publish(t, note[t]) ELSE UNCHANGED heard
  /\ note' = [note EXCEPT ![t] = None]
  /\ pending' = FALSE
  /\ Go(t, "idle")
  /\ UNCHANGED <<lifeVars, owner, health, health_prev, corrupt_records, seen, historyVars, resets>>
(* and the change published. *)
Emit(t) ==
  /\ pc[t] = "emit"
  /\ IF note[t] # None THEN Publish(t, note[t]) ELSE UNCHANGED heard
  /\ note' = [note EXCEPT ![t] = None]
  /\ Go(t, "idle")
  /\ UNCHANGED <<lifeVars, owner, changeVars, corrupt_records, seen, historyVars, resets>>

(* zdb_ts_stats_reset(), without the lock *)
zdb_ts_stats_reset(t) ==
  /\ cfg
  /\ pc[t] = "idle"
  /\ resets < MaxResets
  /\ resets' = resets + 1
  /\ corrupt_records' = 0
  /\ UNCHANGED <<lifeVars, owner, changeVars, threadVars, heard, historyVars>>

--------------------------------------------------------------------------------
Init ==
  /\ cfg = TRUE
  /\ owner = NoThread
  /\ health = "OK" /\ health_prev = "OK" /\ pending = FALSE
  /\ corrupt_records = 0
  /\ pc = [t \in Threads |-> "idle"]
  /\ seen = [t \in Threads |-> 0]
  /\ note = [t \in Threads |-> None]
  /\ heard = <<>>
  /\ faults = 0 /\ resets = 0 /\ raced = FALSE /\ boots = 0

(* What a thread does on its way out of a call. *)
Finish(t) ==
  \/ Count(t) \/ Check(t) \/ SavePrev(t) \/ Degrade(t) \/ Tell(t)
  \/ Take(t) \/ Unlock(t) \/ Emit(t)

ThreadStep(t) == Detect(t) \/ Lock(t) \/ zdb_ts_stats_reset(t) \/ Finish(t)

Next == zdb_init \/ zdb_deinit \/ \E t \in Threads : ThreadStep(t)

Spec == Init /\ [][Next]_vars

(* A call that began goes on to its end. *)
FairSpec == Spec /\ \A t \in Threads : WF_vars(Finish(t))

--------------------------------------------------------------------------------
(* Properties *)

Detecting == {"count", "check", "prev", "degrade"}
Places == {"idle", "in", "tell", "unlock", "emit"} \cup Detecting
Event == [prev : Healths, now : Healths, held : BOOLEAN]

(* Type invariant: every variable stays in its range. *)
TypeOK ==
  /\ cfg \in BOOLEAN /\ boots \in Nat
  /\ owner \in Threads \cup {NoThread}
  /\ health \in Healths /\ health_prev \in Healths /\ pending \in BOOLEAN
  /\ corrupt_records \in Nat
  /\ pc \in [Threads -> Places]
  /\ seen \in [Threads -> Nat]
  /\ note \in [Threads -> [prev : Healths, now : Healths] \cup {None}]
  /\ heard \in Seq(Event)
  /\ faults \in Nat /\ resets \in Nat /\ raced \in BOOLEAN

(* No fault stays silent: when no call is in progress and a fault was detected, *)
(* with the lock or without, zdb_health() says so and the listeners were told;  *)
(* whatever detections, unlocks and resets of the counters ran at the same      *)
(* time.                                                                        *)
NoSilentFault == (Quiet /\ faults > 0) => health = "DEGRADED" /\ heard # <<>>

(* "Listeners must never run inside the lock": no HEALTH event is published by  *)
(* the thread that owns it.                                                     *)
ListenersOutsideLock == \A i \in 1..Len(heard) : ~heard[i].held

(* "Each change is reported once", with the health before it and after it, as   *)
(* long as no two threads found the instance healthy at the same time.          *)
ReportedOnce ==
  ~raced => /\ Len(heard) <= 1
            /\ \A i \in 1..Len(heard) : heard[i].prev = "OK" /\ heard[i].now = "DEGRADED"

(* A fault that was detected is eventually published, without waiting for a     *)
(* further call on the instance.                                                *)
FaultReported == (faults > 0) ~> (heard # <<>>)
================================================================================
