------------------------------ MODULE ZdbCoreProofs ------------------------------
(***************************************************************************)
(* Proofs about ZdbCore, for any number of threads, faults, resets of the  *)
(* counters and lives of the instance.                                     *)
(*                                                                         *)
(* The inductive invariant says where a thread owns the lock, that a       *)
(* change is deferred only while the thread that will publish it owns the  *)
(* lock, and where a change that was made is on its way to the listeners.  *)
(***************************************************************************)
EXTENDS ZdbCore, TLAPS

(* Where a thread stands tells whether it owns the lock, outside of             *)
(* zdb_health_check().                                                          *)
LockPlaces ==
  \A t \in Threads : /\ pc[t] \in {"in", "unlock"} => owner = t
                     /\ pc[t] \in {"idle", "emit"} => owner # t

(* A deferred change waits for the unlock of the owner, which has not claimed   *)
(* anything yet; a claimed one for the end of the call that claimed it.         *)
Deferred ==
  /\ pending => owner # NoThread /\ pc[owner] # "unlock"
  /\ \A t \in Threads : note[t] # None => pc[t] \in {"unlock", "emit"}

(* A fault was detected: the instance is degraded, or about to be. *)
FaultSeen == faults > 0 => health = "DEGRADED" \/ \E t \in Threads : pc[t] \in Detecting

(* The instance is degraded: the listeners were told, or someone is about to    *)
(* tell them.                                                                   *)
OnItsWay ==
  health = "DEGRADED" =>
     \/ heard # <<>>
     \/ pending
     \/ \E t \in Threads : pc[t] = "tell" \/ note[t] # None

(* No call is in progress on an instance that is torn down. *)
Down == ~cfg => Quiet

IInv ==
  TypeOK /\ LockPlaces /\ Deferred /\ FaultSeen /\ OnItsWay /\ Down /\ ListenersOutsideLock

LEMMA NothingHeard == <<>> \in Seq(Event)
OBVIOUS

LEMMA OneMoreHeard ==
  ASSUME NEW h \in Seq(Event), NEW e \in Event
  PROVE  /\ Append(h, e) \in Seq(Event)
         /\ Append(h, e) # <<>>
         /\ Len(Append(h, e)) = Len(h) + 1
         /\ \A i \in 1..Len(Append(h, e)) : Append(h, e)[i] = IF i <= Len(h) THEN h[i] ELSE e
OBVIOUS

LEMMA TypeInit == Init => TypeOK
<1> SUFFICES ASSUME Init PROVE TypeOK
  OBVIOUS
<1>1. cfg \in BOOLEAN /\ pending \in BOOLEAN /\ raced \in BOOLEAN
  BY Zenon DEF Init
<1>2. heard \in Seq(Event)
  BY NothingHeard, Zenon DEF Init
<1>3. /\ boots \in Nat /\ corrupt_records \in Nat /\ faults \in Nat /\ resets \in Nat
      /\ seen \in [Threads -> Nat]
  BY DEF Init
<1> QED
  BY <1>1, <1>2, <1>3 DEF Init, TypeOK, Healths, Places

LEMMA TypeStep == TypeOK /\ [Next]_vars => TypeOK'
<1> SUFFICES ASSUME TypeOK, [Next]_vars PROVE TypeOK'
  OBVIOUS
<1> USE DEF TypeOK, Places, Detecting, Go, Resume, Holds
<1>1. CASE zdb_init
  <2>1. cfg' \in BOOLEAN /\ pending' \in BOOLEAN /\ raced' \in BOOLEAN
    BY <1>1, Zenon DEF zdb_init
  <2>2. heard' \in Seq(Event)
    BY <1>1, NothingHeard, Zenon DEF zdb_init
  <2> QED
    BY <1>1, <2>1, <2>2 DEF zdb_init, threadVars, Healths
<1>2. CASE zdb_deinit
  BY <1>2 DEF zdb_deinit, threadVars, historyVars
<1>3. ASSUME NEW t \in Threads, Detect(t) PROVE TypeOK'
  BY <1>3 DEF Detect, lifeVars, changeVars
<1>4. ASSUME NEW t \in Threads, Count(t) PROVE TypeOK'
  BY <1>4 DEF Count, lifeVars, changeVars, historyVars
<1>5. ASSUME NEW t \in Threads, Check(t) PROVE TypeOK'
  BY <1>5 DEF Check, lifeVars, changeVars
<1>6. ASSUME NEW t \in Threads, SavePrev(t) PROVE TypeOK'
  BY <1>6 DEF SavePrev, lifeVars, historyVars
<1>7. ASSUME NEW t \in Threads, Degrade(t) PROVE TypeOK'
  BY <1>7 DEF Degrade, lifeVars, historyVars, Healths
<1>8. ASSUME NEW t \in Threads, Tell(t) PROVE TypeOK'
  <2>1. [prev |-> health_prev, now |-> health, held |-> (owner = t)] \in Event
    BY DEF Event
  <2>2. heard' \in Seq(Event)
    BY <1>8, <2>1, OneMoreHeard DEF Tell, Publish, Change
  <2> QED
    BY <1>8, <2>2 DEF Tell, lifeVars, historyVars
<1>9. ASSUME NEW t \in Threads, Lock(t) PROVE TypeOK'
  BY <1>9 DEF Lock, lifeVars, changeVars, historyVars
<1>10. ASSUME NEW t \in Threads, Take(t) PROVE TypeOK'
  BY <1>10 DEF Take, lifeVars, historyVars, Change
<1>11. ASSUME NEW t \in Threads, Unlock(t) PROVE TypeOK'
  BY <1>11 DEF Unlock, lifeVars, changeVars, historyVars
<1>12. ASSUME NEW t \in Threads, Emit(t) PROVE TypeOK'
  <2>1. note[t] # None =>
          [prev |-> note[t].prev, now |-> note[t].now, held |-> (owner = t)] \in Event
    BY DEF Event
  <2>2. heard' \in Seq(Event)
    BY <1>12, <2>1, OneMoreHeard, ZenonT(30) DEF Emit, Publish
  <2> QED
    BY <1>12, <2>2 DEF Emit, lifeVars, changeVars, historyVars
<1>13. ASSUME NEW t \in Threads, zdb_ts_stats_reset(t) PROVE TypeOK'
  BY <1>13 DEF zdb_ts_stats_reset, lifeVars, changeVars, threadVars, historyVars
<1>14. CASE UNCHANGED vars
  BY <1>14 DEF vars, lifeVars, changeVars, threadVars, historyVars
<1> QED
  BY <1>1, <1>2, <1>3, <1>4, <1>5, <1>6, <1>7, <1>8, <1>9, <1>10, <1>11, <1>12, <1>13, <1>14
     DEF Next, ThreadStep, Finish

(* Every variable of ZdbCore stays in its range, in every step of the instance. *)
THEOREM TypeCorrect == Spec => []TypeOK
<1> QED
  BY TypeInit, TypeStep, PTL DEF Spec

LEMMA IInvInit == Init => IInv
<1> SUFFICES ASSUME Init PROVE IInv
  OBVIOUS
<1>1. TypeOK
  BY TypeInit
<1>2. LockPlaces /\ Deferred /\ FaultSeen /\ OnItsWay /\ Down
  BY CoreConstants DEF Init, Down, Quiet, LockPlaces, Deferred, FaultSeen, OnItsWay
<1>3. ListenersOutsideLock
  BY DEF Init, ListenersOutsideLock
<1> QED
  BY <1>1, <1>2, <1>3 DEF IInv

(* One event more keeps the listeners outside of the lock when its publisher is. *)
LEMMA PublishOutside ==
  ASSUME TypeOK, ListenersOutsideLock, NEW t \in Threads, ~Holds(t),
         NEW c \in [prev : Healths, now : Healths], Publish(t, c)
  PROVE  ListenersOutsideLock' /\ heard' # <<>>
<1> DEFINE e == [prev |-> c.prev, now |-> c.now, held |-> Holds(t)]
<1>1. e \in Event /\ ~e.held
  BY DEF Event, Holds
<1>2. heard' = Append(heard, e) /\ heard \in Seq(Event)
  BY DEF Publish, TypeOK
<1> HIDE DEF e
<1> QED
  BY <1>1, <1>2, OneMoreHeard DEF ListenersOutsideLock

LEMMA IInvStep == IInv /\ [Next]_vars => IInv'
<1> SUFFICES ASSUME IInv, [Next]_vars PROVE IInv'
  OBVIOUS
<1>t. TypeOK /\ TypeOK'
  BY TypeStep DEF IInv
<1> SUFFICES LockPlaces' /\ Deferred' /\ FaultSeen' /\ OnItsWay' /\ Down' /\ ListenersOutsideLock'
  BY <1>t DEF IInv
<1>1. CASE zdb_init
  <2>1. LockPlaces' /\ Deferred' /\ FaultSeen' /\ OnItsWay' /\ Down'
    BY <1>1, <1>t, CoreConstants
       DEF zdb_init, threadVars, IInv, TypeOK, LockPlaces, Deferred, FaultSeen, OnItsWay, Down,
           Quiet
  <2>2. ListenersOutsideLock'
    BY <1>1 DEF zdb_init, ListenersOutsideLock
  <2> QED
    BY <2>1, <2>2
<1>2. CASE zdb_deinit
  BY <1>2, <1>t DEF zdb_deinit, Quiet, threadVars, historyVars, IInv, TypeOK, LockPlaces,
     Deferred, FaultSeen, OnItsWay, Down, Quiet, ListenersOutsideLock
<1>3. ASSUME NEW t \in Threads, Detect(t)
      PROVE  LockPlaces' /\ Deferred' /\ FaultSeen' /\ OnItsWay' /\ Down' /\ ListenersOutsideLock'
  <2>0. heard' = heard
    BY <1>3 DEF Detect, lifeVars, changeVars
  <2>1. LockPlaces'
    BY <1>3, <1>t, CoreConstants, <2>0
       DEF IInv, TypeOK, LockPlaces, Detect, Go, Resume, Holds, Detecting, Places, Healths,
           lifeVars, changeVars
  <2>2. Deferred'
    BY <1>3, <1>t, CoreConstants, <2>0
       DEF IInv, TypeOK, Deferred, LockPlaces, Detect, Go, Resume, Holds, Detecting, Places,
           Healths, lifeVars, changeVars
  <2>3. FaultSeen'
    BY <1>3, <1>t, CoreConstants, <2>0
       DEF IInv, TypeOK, FaultSeen, Detect, Go, Resume, Holds, Detecting, Places, Healths, lifeVars,
           changeVars
  <2>4. OnItsWay'
    BY <1>3, <1>t, CoreConstants, <2>0
       DEF IInv, TypeOK, OnItsWay, Deferred, Detect, Go, Resume, Holds, Detecting, Places, Healths,
           lifeVars, changeVars
  <2>5. Down'
    BY <1>3, <1>t, CoreConstants, <2>0
       DEF IInv, TypeOK, Down, Quiet, Detect, Go, Resume, Holds, Detecting, Places, Healths,
           lifeVars, changeVars
  <2>6. ListenersOutsideLock'
    BY <2>0 DEF IInv, ListenersOutsideLock
  <2> QED
    BY <2>0, <2>1, <2>2, <2>3, <2>4, <2>5, <2>6
<1>4. ASSUME NEW t \in Threads, Count(t)
      PROVE  LockPlaces' /\ Deferred' /\ FaultSeen' /\ OnItsWay' /\ Down' /\ ListenersOutsideLock'
  <2>0. heard' = heard
    BY <1>4 DEF Count, lifeVars, changeVars, historyVars
  <2>1. LockPlaces'
    BY <1>4, <1>t, CoreConstants, <2>0
       DEF IInv, TypeOK, LockPlaces, Count, Go, Resume, Holds, Detecting, Places, Healths, lifeVars,
           changeVars, historyVars
  <2>2. Deferred'
    BY <1>4, <1>t, CoreConstants, <2>0
       DEF IInv, TypeOK, Deferred, LockPlaces, Count, Go, Resume, Holds, Detecting, Places, Healths,
           lifeVars, changeVars, historyVars
  <2>3. FaultSeen'
    BY <1>4, <1>t, CoreConstants, <2>0
       DEF IInv, TypeOK, FaultSeen, Count, Go, Resume, Holds, Detecting, Places, Healths, lifeVars,
           changeVars, historyVars
  <2>4. OnItsWay'
    BY <1>4, <1>t, CoreConstants, <2>0
       DEF IInv, TypeOK, OnItsWay, Deferred, Count, Go, Resume, Holds, Detecting, Places, Healths,
           lifeVars, changeVars, historyVars
  <2>5. Down'
    BY <1>4, <1>t, CoreConstants, <2>0
       DEF IInv, TypeOK, Down, Quiet, Count, Go, Resume, Holds, Detecting, Places, Healths,
           lifeVars, changeVars, historyVars
  <2>6. ListenersOutsideLock'
    BY <2>0 DEF IInv, ListenersOutsideLock
  <2> QED
    BY <2>0, <2>1, <2>2, <2>3, <2>4, <2>5, <2>6
<1>5. ASSUME NEW t \in Threads, Check(t)
      PROVE  LockPlaces' /\ Deferred' /\ FaultSeen' /\ OnItsWay' /\ Down' /\ ListenersOutsideLock'
  <2>0. heard' = heard
    BY <1>5 DEF Check, lifeVars, changeVars
  <2>1. LockPlaces'
    BY <1>5, <1>t, CoreConstants, <2>0
       DEF IInv, TypeOK, LockPlaces, Check, Go, Resume, Holds, Detecting, Places, Healths, lifeVars,
           changeVars
  <2>2. Deferred'
    BY <1>5, <1>t, CoreConstants, <2>0
       DEF IInv, TypeOK, Deferred, LockPlaces, Check, Go, Resume, Holds, Detecting, Places, Healths,
           lifeVars, changeVars
  <2>3. FaultSeen'
    BY <1>5, <1>t, CoreConstants, <2>0
       DEF IInv, TypeOK, FaultSeen, Check, Go, Resume, Holds, Detecting, Places, Healths, lifeVars,
           changeVars
  <2>4. OnItsWay'
    BY <1>5, <1>t, CoreConstants, <2>0
       DEF IInv, TypeOK, OnItsWay, Deferred, Check, Go, Resume, Holds, Detecting, Places, Healths,
           lifeVars, changeVars
  <2>5. Down'
    BY <1>5, <1>t, CoreConstants, <2>0
       DEF IInv, TypeOK, Down, Quiet, Check, Go, Resume, Holds, Detecting, Places, Healths,
           lifeVars, changeVars
  <2>6. ListenersOutsideLock'
    BY <2>0 DEF IInv, ListenersOutsideLock
  <2> QED
    BY <2>0, <2>1, <2>2, <2>3, <2>4, <2>5, <2>6
<1>6. ASSUME NEW t \in Threads, SavePrev(t)
      PROVE  LockPlaces' /\ Deferred' /\ FaultSeen' /\ OnItsWay' /\ Down' /\ ListenersOutsideLock'
  <2>0. heard' = heard
    BY <1>6 DEF SavePrev, lifeVars, historyVars
  <2>1. LockPlaces'
    BY <1>6, <1>t, CoreConstants, <2>0
       DEF IInv, TypeOK, LockPlaces, SavePrev, Go, Resume, Holds, Detecting, Places, Healths,
           lifeVars, historyVars
  <2>2. Deferred'
    BY <1>6, <1>t, CoreConstants, <2>0
       DEF IInv, TypeOK, Deferred, LockPlaces, SavePrev, Go, Resume, Holds, Detecting, Places,
           Healths, lifeVars, historyVars
  <2>3. FaultSeen'
    BY <1>6, <1>t, CoreConstants, <2>0
       DEF IInv, TypeOK, FaultSeen, SavePrev, Go, Resume, Holds, Detecting, Places, Healths,
           lifeVars, historyVars
  <2>4. OnItsWay'
    BY <1>6, <1>t, CoreConstants, <2>0
       DEF IInv, TypeOK, OnItsWay, Deferred, SavePrev, Go, Resume, Holds, Detecting, Places,
           Healths, lifeVars, historyVars
  <2>5. Down'
    BY <1>6, <1>t, CoreConstants, <2>0
       DEF IInv, TypeOK, Down, Quiet, SavePrev, Go, Resume, Holds, Detecting, Places, Healths,
           lifeVars, historyVars
  <2>6. ListenersOutsideLock'
    BY <2>0 DEF IInv, ListenersOutsideLock
  <2> QED
    BY <2>0, <2>1, <2>2, <2>3, <2>4, <2>5, <2>6
<1>7. ASSUME NEW t \in Threads, Degrade(t)
      PROVE  LockPlaces' /\ Deferred' /\ FaultSeen' /\ OnItsWay' /\ Down' /\ ListenersOutsideLock'
  <2>0. heard' = heard
    BY <1>7 DEF Degrade, lifeVars, historyVars
  <2>1. LockPlaces'
    BY <1>7, <1>t, CoreConstants, <2>0
       DEF IInv, TypeOK, LockPlaces, Degrade, Go, Resume, Holds, Detecting, Places, Healths,
           lifeVars, historyVars
  <2>2. Deferred'
    BY <1>7, <1>t, CoreConstants, <2>0
       DEF IInv, TypeOK, Deferred, LockPlaces, Degrade, Go, Resume, Holds, Detecting, Places,
           Healths, lifeVars, historyVars
  <2>3. FaultSeen'
    BY <1>7, <1>t, CoreConstants, <2>0
       DEF IInv, TypeOK, FaultSeen, Degrade, Go, Resume, Holds, Detecting, Places, Healths,
           lifeVars, historyVars
  <2>4. OnItsWay'
    BY <1>7, <1>t, CoreConstants, <2>0
       DEF IInv, TypeOK, OnItsWay, Deferred, Degrade, Go, Resume, Holds, Detecting, Places, Healths,
           lifeVars, historyVars
  <2>5. Down'
    BY <1>7, <1>t, CoreConstants, <2>0
       DEF IInv, TypeOK, Down, Quiet, Degrade, Go, Resume, Holds, Detecting, Places, Healths,
           lifeVars, historyVars
  <2>6. ListenersOutsideLock'
    BY <2>0 DEF IInv, ListenersOutsideLock
  <2> QED
    BY <2>0, <2>1, <2>2, <2>3, <2>4, <2>5, <2>6
<1>8. ASSUME NEW t \in Threads, Tell(t)
      PROVE  LockPlaces' /\ Deferred' /\ FaultSeen' /\ OnItsWay' /\ Down' /\ ListenersOutsideLock'
  <2>0. ListenersOutsideLock' /\ (IF Holds(t) THEN heard' = heard ELSE heard' # <<>>)
    <3>1. CASE Holds(t)
      BY <1>8, <3>1 DEF Tell, IInv, ListenersOutsideLock
    <3>2. CASE ~Holds(t)
      <4>1. Change(health_prev, health) \in [prev : Healths, now : Healths]
        BY <1>t DEF TypeOK, Change
      <4> QED
        BY <1>8, <1>t, <3>2, <4>1, PublishOutside DEF Tell, IInv
    <3> QED
      BY <3>1, <3>2
  <2>1. LockPlaces'
    BY <1>8, <1>t, CoreConstants, <2>0
       DEF IInv, TypeOK, LockPlaces, Tell, Go, Resume, Holds, Detecting, Places, Healths, lifeVars,
           historyVars
  <2>2. Deferred'
    BY <1>8, <1>t, CoreConstants, <2>0
       DEF IInv, TypeOK, Deferred, LockPlaces, Tell, Go, Resume, Holds, Detecting, Places, Healths,
           lifeVars, historyVars
  <2>3. FaultSeen'
    BY <1>8, <1>t, CoreConstants, <2>0
       DEF IInv, TypeOK, FaultSeen, Tell, Go, Resume, Holds, Detecting, Places, Healths, lifeVars,
           historyVars
  <2>4. OnItsWay'
    BY <1>8, <1>t, CoreConstants, <2>0
       DEF IInv, TypeOK, OnItsWay, Deferred, Tell, Go, Resume, Holds, Detecting, Places, Healths,
           lifeVars, historyVars
  <2>5. Down'
    BY <1>8, <1>t, CoreConstants, <2>0
       DEF IInv, TypeOK, Down, Quiet, Tell, Go, Resume, Holds, Detecting, Places, Healths, lifeVars,
           historyVars
  <2> QED
    BY <2>0, <2>1, <2>2, <2>3, <2>4, <2>5
<1>9. ASSUME NEW t \in Threads, Lock(t)
      PROVE  LockPlaces' /\ Deferred' /\ FaultSeen' /\ OnItsWay' /\ Down' /\ ListenersOutsideLock'
  <2>0. heard' = heard
    BY <1>9 DEF Lock, lifeVars, changeVars, historyVars
  <2>1. LockPlaces'
    BY <1>9, <1>t, CoreConstants, <2>0
       DEF IInv, TypeOK, LockPlaces, Lock, Go, Resume, Holds, Detecting, Places, Healths, lifeVars,
           changeVars, historyVars
  <2>2. Deferred'
    BY <1>9, <1>t, CoreConstants, <2>0
       DEF IInv, TypeOK, Deferred, LockPlaces, Lock, Go, Resume, Holds, Detecting, Places, Healths,
           lifeVars, changeVars, historyVars
  <2>3. FaultSeen'
    BY <1>9, <1>t, CoreConstants, <2>0
       DEF IInv, TypeOK, FaultSeen, Lock, Go, Resume, Holds, Detecting, Places, Healths, lifeVars,
           changeVars, historyVars
  <2>4. OnItsWay'
    BY <1>9, <1>t, CoreConstants, <2>0
       DEF IInv, TypeOK, OnItsWay, Deferred, Lock, Go, Resume, Holds, Detecting, Places, Healths,
           lifeVars, changeVars, historyVars
  <2>5. Down'
    BY <1>9, <1>t, CoreConstants, <2>0
       DEF IInv, TypeOK, Down, Quiet, Lock, Go, Resume, Holds, Detecting, Places, Healths, lifeVars,
           changeVars, historyVars
  <2>6. ListenersOutsideLock'
    BY <2>0 DEF IInv, ListenersOutsideLock
  <2> QED
    BY <2>0, <2>1, <2>2, <2>3, <2>4, <2>5, <2>6
<1>10. ASSUME NEW t \in Threads, Take(t)
      PROVE  LockPlaces' /\ Deferred' /\ FaultSeen' /\ OnItsWay' /\ Down' /\ ListenersOutsideLock'
  <2>0. heard' = heard
    BY <1>10 DEF Take, lifeVars, historyVars, Change
  <2>1. LockPlaces'
    BY <1>10, <1>t, CoreConstants, <2>0
       DEF IInv, TypeOK, LockPlaces, Take, Go, Resume, Holds, Detecting, Places, Healths, lifeVars,
           historyVars, Change
  <2>2. Deferred'
    BY <1>10, <1>t, CoreConstants, <2>0
       DEF IInv, TypeOK, Deferred, LockPlaces, Take, Go, Resume, Holds, Detecting, Places, Healths,
           lifeVars, historyVars, Change
  <2>3. FaultSeen'
    BY <1>10, <1>t, CoreConstants, <2>0
       DEF IInv, TypeOK, FaultSeen, Take, Go, Resume, Holds, Detecting, Places, Healths, lifeVars,
           historyVars, Change
  <2>4. OnItsWay'
    BY <1>10, <1>t, CoreConstants, <2>0
       DEF IInv, TypeOK, OnItsWay, Deferred, Take, Go, Resume, Holds, Detecting, Places, Healths,
           lifeVars, historyVars, Change
  <2>5. Down'
    BY <1>10, <1>t, CoreConstants, <2>0
       DEF IInv, TypeOK, Down, Quiet, Take, Go, Resume, Holds, Detecting, Places, Healths, lifeVars,
           historyVars, Change
  <2>6. ListenersOutsideLock'
    BY <2>0 DEF IInv, ListenersOutsideLock
  <2> QED
    BY <2>0, <2>1, <2>2, <2>3, <2>4, <2>5, <2>6
<1>11. ASSUME NEW t \in Threads, Unlock(t)
      PROVE  LockPlaces' /\ Deferred' /\ FaultSeen' /\ OnItsWay' /\ Down' /\ ListenersOutsideLock'
  <2>0. heard' = heard
    BY <1>11 DEF Unlock, lifeVars, changeVars, historyVars
  <2>1. LockPlaces'
    BY <1>11, <1>t, CoreConstants, <2>0
       DEF IInv, TypeOK, LockPlaces, Unlock, Go, Resume, Holds, Detecting, Places, Healths,
           lifeVars, changeVars, historyVars
  <2>2. Deferred'
    BY <1>11, <1>t, CoreConstants, <2>0
       DEF IInv, TypeOK, Deferred, LockPlaces, Unlock, Go, Resume, Holds, Detecting, Places,
           Healths, lifeVars, changeVars, historyVars
  <2>3. FaultSeen'
    BY <1>11, <1>t, CoreConstants, <2>0
       DEF IInv, TypeOK, FaultSeen, Unlock, Go, Resume, Holds, Detecting, Places, Healths, lifeVars,
           changeVars, historyVars
  <2>4. OnItsWay'
    BY <1>11, <1>t, CoreConstants, <2>0
       DEF IInv, TypeOK, OnItsWay, Deferred, Unlock, Go, Resume, Holds, Detecting, Places, Healths,
           lifeVars, changeVars, historyVars
  <2>5. Down'
    BY <1>11, <1>t, CoreConstants, <2>0
       DEF IInv, TypeOK, Down, Quiet, Unlock, Go, Resume, Holds, Detecting, Places, Healths,
           lifeVars, changeVars, historyVars
  <2>6. ListenersOutsideLock'
    BY <2>0 DEF IInv, ListenersOutsideLock
  <2> QED
    BY <2>0, <2>1, <2>2, <2>3, <2>4, <2>5, <2>6
<1>12. ASSUME NEW t \in Threads, Emit(t)
      PROVE  LockPlaces' /\ Deferred' /\ FaultSeen' /\ OnItsWay' /\ Down' /\ ListenersOutsideLock'
  <2>0. ListenersOutsideLock' /\ (IF note[t] = None THEN heard' = heard ELSE heard' # <<>>)
    <3>1. CASE note[t] = None
      BY <1>12, <3>1 DEF Emit, IInv, ListenersOutsideLock
    <3>2. CASE note[t] # None
      <4>1. note[t] \in [prev : Healths, now : Healths]
        BY <1>t, <3>2 DEF TypeOK
      <4>2. ~Holds(t)
        BY <1>12 DEF Emit, IInv, LockPlaces, Holds
      <4> QED
        BY <1>12, <1>t, <3>2, <4>1, <4>2, PublishOutside DEF Emit, IInv
    <3> QED
      BY <3>1, <3>2
  <2>1. LockPlaces'
    BY <1>12, <1>t, CoreConstants, <2>0
       DEF IInv, TypeOK, LockPlaces, Emit, Go, Resume, Holds, Detecting, Places, Healths, lifeVars,
           changeVars, historyVars
  <2>2. Deferred'
    BY <1>12, <1>t, CoreConstants, <2>0
       DEF IInv, TypeOK, Deferred, LockPlaces, Emit, Go, Resume, Holds, Detecting, Places, Healths,
           lifeVars, changeVars, historyVars
  <2>3. FaultSeen'
    BY <1>12, <1>t, CoreConstants, <2>0
       DEF IInv, TypeOK, FaultSeen, Emit, Go, Resume, Holds, Detecting, Places, Healths, lifeVars,
           changeVars, historyVars
  <2>4. OnItsWay'
    BY <1>12, <1>t, CoreConstants, <2>0
       DEF IInv, TypeOK, OnItsWay, Deferred, Emit, Go, Resume, Holds, Detecting, Places, Healths,
           lifeVars, changeVars, historyVars
  <2>5. Down'
    BY <1>12, <1>t, CoreConstants, <2>0
       DEF IInv, TypeOK, Down, Quiet, Emit, Go, Resume, Holds, Detecting, Places, Healths, lifeVars,
           changeVars, historyVars
  <2> QED
    BY <2>0, <2>1, <2>2, <2>3, <2>4, <2>5
<1>13. ASSUME NEW t \in Threads, zdb_ts_stats_reset(t)
       PROVE  LockPlaces' /\ Deferred' /\ FaultSeen' /\ OnItsWay' /\ Down' /\ ListenersOutsideLock'
  BY <1>13 DEF zdb_ts_stats_reset, lifeVars, changeVars, threadVars, historyVars, IInv, LockPlaces,
     Deferred, FaultSeen, OnItsWay, Down, Quiet, ListenersOutsideLock
<1>14. CASE UNCHANGED vars
  BY <1>14 DEF vars, lifeVars, changeVars, threadVars, historyVars, IInv, LockPlaces, Deferred,
     FaultSeen, OnItsWay, Down, Quiet, ListenersOutsideLock
<1> QED
  BY <1>1, <1>2, <1>3, <1>4, <1>5, <1>6, <1>7, <1>8, <1>9, <1>10, <1>11, <1>12, <1>13, <1>14
     DEF Next, ThreadStep, Finish

LEMMA IInvCorrect == Spec => []IInv
<1> QED
  BY IInvInit, IInvStep, PTL DEF Spec

(* A fault that any thread detected, with the lock or without, is in            *)
(* zdb_health() and was published to the listeners once no call is in progress: *)
(* a change that zdb_health_check() defers is never lost to another unlock.     *)
THEOREM FaultsNeverSilent == Spec => []NoSilentFault
<1>1. IInv => NoSilentFault
  <2> SUFFICES ASSUME IInv, Quiet, faults > 0 PROVE health = "DEGRADED" /\ heard # <<>>
    BY DEF NoSilentFault
  <2>1. health = "DEGRADED"
    BY DEF IInv, FaultSeen, Quiet, Detecting
  <2>2. \A t \in Threads : pc[t] # "tell" /\ note[t] = None
    BY DEF IInv, Deferred, Quiet
  <2>3. ~pending
    BY DEF IInv, TypeOK, Deferred, LockPlaces, Quiet
  <2> QED
    BY <2>1, <2>2, <2>3 DEF IInv, OnItsWay
<1> QED
  BY <1>1, IInvCorrect, PTL

(* zdb_health_check() and zdb_unlock_common() run no listener in a thread that  *)
(* owns the instance lock.                                                      *)
THEOREM ListenersUnlocked == Spec => []ListenersOutsideLock
<1>1. IInv => ListenersOutsideLock
  BY DEF IInv
<1> QED
  BY <1>1, IInvCorrect, PTL

--------------------------------------------------------------------------------
(* Each change is reported once. *)

Degrading == {"prev", "degrade"}
TheChange == Change("OK", "DEGRADED")

(* Before the change there is nothing to report, and one thread at most is      *)
(* about to make it.                                                            *)
Before ==
  /\ heard = <<>>
  /\ ~pending
  /\ \A t \in Threads : /\ pc[t] # "tell" /\ note[t] = None
                        /\ pc[t] = "degrade" => health_prev = "OK"
  /\ \A t, u \in Threads : pc[t] \in Degrading /\ pc[u] \in Degrading => t = u

(* After it nobody changes the instance, and the change has one place: with the *)
(* thread that made it, deferred, claimed by an unlock, or with the listeners.  *)
Settled == health_prev = "OK" /\ \A t \in Threads : pc[t] \notin Degrading
NotesRight == \A t \in Threads : note[t] \in {None, TheChange}
OnePlace ==
  /\ heard # <<>> => ~pending /\ \A t \in Threads : pc[t] # "tell" /\ note[t] = None
  /\ pending => \A t \in Threads : pc[t] # "tell" /\ note[t] = None
  /\ \A t, u \in Threads :
        /\ pc[t] = "tell" => note[u] = None
        /\ pc[t] = "tell" /\ pc[u] = "tell" => t = u
        /\ note[t] # None /\ note[u] # None => t = u
HeardRight ==
  /\ Len(heard) <= 1
  /\ \A i \in 1..Len(heard) : heard[i].prev = "OK" /\ heard[i].now = "DEGRADED"
After == Settled /\ NotesRight /\ OnePlace /\ HeardRight

Once == ~raced => /\ health = "OK" => Before
                  /\ health = "DEGRADED" => After

LEMMA OnceInit == Init => Once
BY DEF Init, Once, Before, Degrading

(* The only event, published from where the change was. *)
LEMMA PublishOnce ==
  ASSUME TypeOK, heard = <<>>, NEW t \in Threads, Publish(t, TheChange)
  PROVE  HeardRight' /\ heard' # <<>>
<1> DEFINE e == [prev |-> "OK", now |-> "DEGRADED", held |-> Holds(t)]
<1>1. e \in Event /\ e.prev = "OK" /\ e.now = "DEGRADED"
  BY DEF Event, Holds, Healths
<1>2. heard' = Append(heard, e) /\ heard \in Seq(Event) /\ Len(heard) = 0
  BY DEF Publish, TypeOK, TheChange, Change
<1> HIDE DEF e
<1> QED
  BY <1>1, <1>2, OneMoreHeard DEF HeardRight

LEMMA OnceStep == IInv /\ Once /\ [Next]_vars => Once'
<1> SUFFICES ASSUME IInv, Once, [Next]_vars PROVE Once'
  OBVIOUS
<1>t. TypeOK /\ TypeOK'
  BY TypeStep DEF IInv
<1>1. CASE zdb_init
  BY <1>1, <1>t DEF zdb_init, threadVars, IInv, TypeOK, Down, Quiet, Deferred, Once, Before,
     Degrading
<1>2. CASE zdb_deinit
  BY <1>2 DEF zdb_deinit, threadVars, historyVars, Once, Before, After, Settled, NotesRight,
     OnePlace, HeardRight, Degrading
<1>3. ASSUME NEW t \in Threads, Detect(t) PROVE Once'
  BY <1>3, <1>t DEF Detect, lifeVars, changeVars, Go, Resume, Holds, IInv, TypeOK, Healths,
     Places, Detecting, LockPlaces, Deferred, Once, Before, After, Settled, NotesRight, OnePlace,
     HeardRight, Degrading
<1>4. ASSUME NEW t \in Threads, Count(t) PROVE Once'
  BY <1>4, <1>t DEF Count, lifeVars, changeVars, historyVars, Go, Resume, Holds, IInv, TypeOK,
     Healths, Places, Detecting, LockPlaces, Deferred, Once, Before, After, Settled, NotesRight,
     OnePlace, HeardRight, Degrading
<1>5. ASSUME NEW t \in Threads, Check(t) PROVE Once'
  BY <1>5, <1>t DEF Check, lifeVars, changeVars, Go, Resume, Holds, IInv, TypeOK, Healths,
     Places, Detecting, LockPlaces, Deferred, Once, Before, After, Settled, NotesRight, OnePlace,
     HeardRight, Degrading
<1>6. ASSUME NEW t \in Threads, SavePrev(t) PROVE Once'
  BY <1>6, <1>t DEF SavePrev, lifeVars, historyVars, Go, Resume, Holds, IInv, TypeOK, Healths,
     Places, Detecting, LockPlaces, Deferred, Once, Before, After, Settled, NotesRight, OnePlace,
     HeardRight, Degrading
<1>7. ASSUME NEW t \in Threads, Degrade(t) PROVE Once'
  BY <1>7, <1>t DEF Degrade, lifeVars, historyVars, Go, Resume, Holds, IInv, TypeOK, Healths,
     Places, Detecting, LockPlaces, Deferred, Once, Before, After, Settled, NotesRight, OnePlace,
     HeardRight, Degrading
<1>8. ASSUME NEW t \in Threads, Tell(t) PROVE Once'
  <2> SUFFICES ASSUME ~raced PROVE After'
    BY <1>8, <1>t DEF Tell, historyVars, IInv, Once, Before, TypeOK, Healths
  <2>1. /\ health = "DEGRADED" /\ Settled /\ NotesRight /\ OnePlace /\ HeardRight
        /\ heard = <<>> /\ ~pending /\ \A u \in Threads : note[u] = None
    BY <1>8, <1>t DEF Tell, Once, Before, After, OnePlace, TypeOK, Healths
  <2>2. HeardRight' /\ (Holds(t) => heard' = <<>>)
    BY <1>8, <1>t, <2>1, PublishOnce DEF Tell, HeardRight, Settled, TheChange
  <2>3. Settled' /\ NotesRight'
    BY <1>8, <1>t, <2>1 DEF Tell, Go, Resume, TypeOK, Settled, NotesRight, Degrading
  <2>4. \A u \in Threads : pc'[u] # "tell"
    BY <1>8, <1>t, <2>1 DEF Tell, Go, Resume, TypeOK, OnePlace
  <2>5. OnePlace'
    BY <1>8, <2>1, <2>2, <2>4 DEF Tell, OnePlace
  <2> QED
    BY <2>2, <2>3, <2>5 DEF After
<1>9. ASSUME NEW t \in Threads, Lock(t) PROVE Once'
  BY <1>9, <1>t DEF Lock, lifeVars, changeVars, historyVars, Go, Resume, Holds, IInv, TypeOK,
     Healths, Places, Detecting, LockPlaces, Deferred, Once, Before, After, Settled, NotesRight,
     OnePlace, HeardRight, Degrading
<1>10. ASSUME NEW t \in Threads, Take(t) PROVE Once'
  BY <1>10, <1>t DEF Take, lifeVars, historyVars, Go, Change, TheChange, IInv, TypeOK, Healths,
     Places, Detecting, LockPlaces, Deferred, Once, Before, After, Settled, NotesRight, OnePlace,
     HeardRight, Degrading
<1>11. ASSUME NEW t \in Threads, Unlock(t) PROVE Once'
  BY <1>11, <1>t DEF Unlock, lifeVars, changeVars, historyVars, Go, Resume, Holds, IInv, TypeOK,
     Healths, Places, Detecting, LockPlaces, Deferred, Once, Before, After, Settled, NotesRight,
     OnePlace, HeardRight, Degrading
<1>12. ASSUME NEW t \in Threads, Emit(t) PROVE Once'
  <2>1. CASE note[t] = None
    BY <1>12, <1>t, <2>1 DEF Emit, lifeVars, changeVars, historyVars, Go, IInv, TypeOK, Healths,
       Places, Detecting, Once, Before, After, Settled, NotesRight, OnePlace, HeardRight, Degrading
  <2>2. CASE note[t] # None
    <3> SUFFICES ASSUME ~raced PROVE health = "DEGRADED" /\ After'
      BY <1>12 DEF Emit, changeVars, historyVars, Once
    <3>1. /\ health = "DEGRADED" /\ Settled /\ NotesRight /\ OnePlace
          /\ heard = <<>> /\ ~pending /\ \A u \in Threads : pc[u] # "tell"
      BY <1>t, <2>2 DEF Once, Before, After, OnePlace, TypeOK, Healths
    <3>2. HeardRight'
      BY <1>12, <1>t, <2>2, <3>1, PublishOnce DEF Emit, NotesRight
    <3>3. Settled' /\ NotesRight'
      BY <1>12, <1>t, <3>1
         DEF Emit, changeVars, Go, TypeOK, Settled, NotesRight, Degrading
    <3>4. \A u \in Threads : pc'[u] # "tell" /\ note'[u] = None
      BY <1>12, <1>t, <2>2, <3>1 DEF Emit, Go, TypeOK, OnePlace
    <3>5. OnePlace'
      BY <1>12, <3>1, <3>4 DEF Emit, changeVars, OnePlace
    <3> QED
      BY <3>1, <3>2, <3>3, <3>5 DEF After
  <2> QED
    BY <2>1, <2>2
<1>13. ASSUME NEW t \in Threads, zdb_ts_stats_reset(t) PROVE Once'
  BY <1>13 DEF zdb_ts_stats_reset, lifeVars, changeVars, threadVars, historyVars, Once, Before,
     After, Settled, NotesRight, OnePlace, HeardRight
<1>14. CASE UNCHANGED vars
  BY <1>14 DEF vars, lifeVars, changeVars, threadVars, historyVars, Once, Before, After, Settled,
     NotesRight, OnePlace, HeardRight
<1> QED
  BY <1>1, <1>2, <1>3, <1>4, <1>5, <1>6, <1>7, <1>8, <1>9, <1>10, <1>11, <1>12, <1>13, <1>14
     DEF Next, ThreadStep, Finish

(* As long as no two threads find the instance healthy at once, the change from *)
(* OK to DEGRADED is published at most once, with these two values, whichever   *)
(* of zdb_health_check() and zdb_unlock_common() publishes it.                  *)
THEOREM ChangeReportedOnce == Spec => []ReportedOnce
<1>1. IInv /\ Once => ReportedOnce
  BY DEF IInv, TypeOK, Healths, Once, Before, After, HeardRight, ReportedOnce
<1> QED
  BY <1>1, IInvInit, IInvStep, OnceInit, OnceStep, PTL DEF Spec
================================================================================
