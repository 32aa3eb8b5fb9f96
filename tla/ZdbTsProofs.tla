------------------------------ MODULE ZdbTsProofs ------------------------------
(***************************************************************************)
(* The time-series store of ZdbTs, for any number of threads, streams,     *)
(* slots, samples and files: types, the records reported to the listeners, *)
(* the slots and blocks behind the open handles, and what flush_sync()     *)
(* promises.                                                               *)
(*                                                                         *)
(* One inductive invariant, TsInv, carries all four theorems.  Its parts   *)
(* that hold the store together (StoreInv) say who owns the lock where,    *)
(* that a slot looked up before the lock is still the slot of its stream   *)
(* after it, and that slots, handles and blocks agree; EventInv follows a  *)
(* flushed record to the unlock that reports it; SyncInv says where the    *)
(* samples owed to a waiting flush_sync() may still be.                    *)
(***************************************************************************)
EXTENDS ZdbTs, FiniteSetTheorems, TLAPS

--------------------------------------------------------------------------------
(* Numbers and sums *)

LEMMA LeastNumber ==
  ASSUME NEW S \in SUBSET Nat, S # {}
  PROVE  \E i \in S : \A j \in S : i <= j
  <1> DEFINE R == OpToRel(<, Nat)
  <1>1. IsWellFoundedOn(R, Nat)
    BY NatLessThanWellFounded
  <1>2. PICK i \in S : \A j \in S : <<j, i>> \notin R
    <2> HIDE DEF R
    <2> QED BY <1>1, WFMin
  <1>3. \A j \in S : ~(j < i)
    BY <1>2 DEF OpToRel
  <1> QED
    BY <1>3

LEMMA LowestIsLeast ==
  ASSUME NEW S \in SUBSET Nat, S # {}
  PROVE  Lowest(S) \in S /\ \A j \in S : Lowest(S) <= j
  BY LeastNumber DEF Lowest

LEMMA HighestIsGreatest ==
  ASSUME NEW S \in SUBSET Nat, S # {}, NEW m \in Nat, \A n \in S : n <= m
  PROVE  Highest(S) \in S /\ \A j \in S : Highest(S) >= j
  <1> DEFINE U == {u \in Nat : \A n \in S : n <= u}
  <1>1. PICK u \in U : \A v \in U : u <= v
    BY LeastNumber
  <1>2. u \in S
    <2> SUFFICES ASSUME u \notin S PROVE FALSE
      OBVIOUS
    <2>1. \A n \in S : n < u
      BY <1>1
    <2>2. u \in Nat /\ u # 0
      <3>1. PICK n \in S : TRUE
        OBVIOUS
      <3>2. n \in Nat /\ n < u /\ u \in Nat
        BY <2>1, <3>1
      <3> QED BY <3>2
    <2>3. \A n \in S : n <= u - 1
      BY <2>1
    <2>4. u - 1 \in U
      BY <2>2, <2>3
    <2> QED BY <1>1, <2>2, <2>4
  <1>3. \A j \in S : u >= j
    BY <1>1
  <1> QED
    BY <1>2, <1>3 DEF Highest

(* Induction on a number, for a set of numbers. *)
LEMMA NumberInduction ==
  ASSUME NEW S \in SUBSET Nat, 0 \in S, \A n \in S : n + 1 \in S
  PROVE  S = Nat
  <1> SUFFICES ASSUME Nat \ S # {} PROVE FALSE
    OBVIOUS
  <1>1. PICK n \in Nat \ S : \A m \in Nat \ S : n <= m
    BY LeastNumber
  <1>2. n # 0 /\ n - 1 \in Nat /\ n - 1 \in S
    BY <1>1
  <1> QED
    BY <1>1, <1>2

(* g adds up the values of f, one element of a subset of S after the other: the *)
(* recursive function MapThenSumSet is defined with.                            *)
Pick(T) == CHOOSE x \in T : TRUE
Adds(g, f, S) ==
  g = [T \in SUBSET S |-> IF T = {} THEN 0 ELSE f[Pick(T)] + g[T \ {Pick(T)}]]

LEMMA PickIn == ASSUME NEW T, T # {} PROVE Pick(T) \in T
  BY DEF Pick

LEMMA SubsetSize ==
  ASSUME NEW S, IsFiniteSet(S), NEW T \in SUBSET S
  PROVE  /\ IsFiniteSet(T) /\ Cardinality(T) \in Nat
         /\ Cardinality(T) <= Cardinality(S) /\ Cardinality(S) \in Nat
         /\ T # {} => Cardinality(T \ {Pick(T)}) = Cardinality(T) - 1
         /\ T = {} => Cardinality(T) = 0
         /\ T # {} => Cardinality(T) > 0
  <1>1. IsFiniteSet(T) /\ Cardinality(T) \in Nat
        /\ Cardinality(T) <= Cardinality(S) /\ Cardinality(S) \in Nat
    BY FS_Subset, FS_CardinalityType
  <1>2. ASSUME T # {} PROVE Cardinality(T \ {Pick(T)}) = Cardinality(T) - 1
    BY <1>1, <1>2, FS_RemoveElement, PickIn
  <1>3. T = {} <=> Cardinality(T) = 0
    BY <1>1, FS_EmptySet
  <1> QED BY <1>1, <1>2, <1>3

LEMMA AddsExists ==
  ASSUME NEW S, IsFiniteSet(S), NEW f
  PROVE  \E g : Adds(g, f, S)
  <1> DEFINE Step(g, T) == IF T = {} THEN 0 ELSE f[Pick(T)] + g[T \ {Pick(T)}]
             UpTo(n) == \E g : \A T \in SUBSET S : Cardinality(T) <= n => g[T] = Step(g, T)
             N == {n \in Nat : UpTo(n)}
  <1>1. UpTo(0)
    <2> DEFINE g == [T \in SUBSET S |-> 0]
    <2>1. \A T \in SUBSET S : Cardinality(T) <= 0 => g[T] = Step(g, T)
      BY SubsetSize
    <2> QED BY <2>1
  <1>2. ASSUME NEW n \in N PROVE UpTo(n + 1)
    <2>1. PICK g : \A T \in SUBSET S : Cardinality(T) <= n => g[T] = Step(g, T)
      OBVIOUS
    <2> DEFINE h == [T \in SUBSET S |-> Step(g, T)]
    <2>2. ASSUME NEW T \in SUBSET S, Cardinality(T) <= n + 1, T # {}
          PROVE  h[T \ {Pick(T)}] = g[T \ {Pick(T)}]
      <3> DEFINE U == T \ {Pick(T)}
      <3>1. U \in SUBSET S /\ Cardinality(U) <= n
        BY <2>2, SubsetSize
      <3>2. h[U] = Step(g, U)
        BY <3>1
      <3> QED BY <2>1, <3>1, <3>2
    <2>3. \A T \in SUBSET S : Cardinality(T) <= n + 1 => h[T] = Step(h, T)
      BY <2>2
    <2> HIDE DEF h
    <2> QED BY <2>3
  <1>3. N = Nat
    <2> HIDE DEF UpTo
    <2>1. N \in SUBSET Nat /\ 0 \in N
      BY <1>1
    <2>2. \A n \in N : n + 1 \in N
      BY <1>2
    <2> HIDE DEF N
    <2> QED BY <2>1, <2>2, NumberInduction
  <1>4. UpTo(Cardinality(S))
    BY <1>3, FS_CardinalityType
  <1>5. PICK g : \A T \in SUBSET S : g[T] = Step(g, T)
    BY <1>4, SubsetSize
  <1> DEFINE h == [T \in SUBSET S |-> g[T]]
  <1>6. h = [T \in SUBSET S |-> Step(h, T)]
    <2>1. \A T \in SUBSET S : Step(h, T) = Step(g, T)
      BY PickIn
    <2> QED BY <1>5, <2>1
  <1> QED
    BY <1>6 DEF Adds

LEMMA AddsValue ==
  ASSUME NEW S, NEW f, NEW g, Adds(g, f, S), NEW T \in SUBSET S
  PROVE  g[T] = IF T = {} THEN 0 ELSE f[Pick(T)] + g[T \ {Pick(T)}]
  BY DEF Adds

LEMMA EmptySize ==
  ASSUME NEW S, IsFiniteSet(S), NEW T \in SUBSET S, Cardinality(T) = 0
  PROVE  T = {}
  <1>1. IsFiniteSet(T)
    BY FS_Subset
  <1> QED BY <1>1, FS_EmptySet

(* Induction on the size of a subset of a finite set. *)
LEMMA SubsetInduction ==
  ASSUME NEW S, IsFiniteSet(S), NEW P \in SUBSET SUBSET S,
         {} \in P,
         \A T \in SUBSET S : T # {} /\ T \ {Pick(T)} \in P => T \in P
  PROVE  P = SUBSET S
  <1> DEFINE N == {n \in Nat : \A T \in SUBSET S : Cardinality(T) = n => T \in P}
  <1>1. 0 \in N
    <2>1. \A T \in SUBSET S : Cardinality(T) = 0 => T = {}
      BY EmptySize
    <2> QED BY <2>1
  <1>2. ASSUME NEW n \in N PROVE n + 1 \in N
    <2> SUFFICES ASSUME NEW T \in SUBSET S, Cardinality(T) = n + 1 PROVE T \in P
      OBVIOUS
    <2>1. T # {} /\ Cardinality(T \ {Pick(T)}) = n /\ T \ {Pick(T)} \in SUBSET S
      BY SubsetSize
    <2> QED BY <2>1
  <1>3. N = Nat
    <2>1. N \in SUBSET Nat
      OBVIOUS
    <2> HIDE DEF N
    <2> QED BY <1>1, <1>2, <2>1, NumberInduction
  <1> QED
    BY <1>3, SubsetSize

LEMMA AddsType ==
  ASSUME NEW S, NEW f, NEW g, IsFiniteSet(S), Adds(g, f, S), \A x \in S : f[x] \in Nat
  PROVE  \A T \in SUBSET S : g[T] \in Nat
  <1> DEFINE P == {T \in SUBSET S : g[T] \in Nat}
  <1>1. {} \in P
    <2>1. g[{}] = 0
      BY AddsValue
    <2> QED BY <2>1
  <1>2. \A T \in SUBSET S : T # {} /\ T \ {Pick(T)} \in P => T \in P
    BY AddsValue, PickIn
  <1>3. P \in SUBSET SUBSET S
    OBVIOUS
  <1>4. P = SUBSET S
    <2> HIDE DEF P
    <2> QED BY <1>1, <1>2, <1>3, SubsetInduction
  <1> QED
    BY <1>4

(* A sum in which one value changes. *)
(* Two families of numbers that agree except at i. *)
DifferAt(f, e, i, S) == \A x \in S : f[x] \in Nat /\ e[x] \in Nat /\ (x # i => e[x] = f[x])

LEMMA AddsChange ==
  ASSUME NEW S, NEW f, NEW e, NEW i \in S, NEW g, NEW h, IsFiniteSet(S),
         Adds(g, f, S), Adds(h, e, S), DifferAt(f, e, i, S)
  PROVE  h[S] = g[S] - f[i] + e[i]
  <1> USE DEF DifferAt
  <1> DEFINE P == {T \in SUBSET S : h[T] = IF i \in T THEN g[T] - f[i] + e[i] ELSE g[T]}
  <1>1. {} \in P
    <2>1. g[{}] = 0
      BY AddsValue
    <2>2. h[{}] = 0
      BY AddsValue
    <2> QED BY <2>1, <2>2
  <1>2. ASSUME NEW T \in SUBSET S, T # {}, T \ {Pick(T)} \in P PROVE T \in P
    <2> DEFINE x == Pick(T)
               U == T \ {x}
    <2>1. x \in T /\ x \in S /\ U \in SUBSET S
      BY <1>2, PickIn
    <2>2. g[T] = f[x] + g[U] /\ h[T] = e[x] + h[U]
      <3>1. g[T] = f[x] + g[U]
        BY <1>2, AddsValue
      <3>2. h[T] = e[x] + h[U]
        BY <1>2, AddsValue
      <3> QED BY <3>1, <3>2
    <2>3. g[U] \in Nat /\ h[U] \in Nat
      BY <2>1, AddsType
    <2>4. h[U] = IF i \in U THEN g[U] - f[i] + e[i] ELSE g[U]
      BY <1>2
    <2>5. f[x] \in Nat /\ e[x] \in Nat /\ f[i] \in Nat /\ e[i] \in Nat
      BY <2>1
    <2>6. CASE x = i
      BY <2>1, <2>2, <2>3, <2>4, <2>5, <2>6
    <2>7. CASE x # i
      BY <2>1, <2>2, <2>3, <2>4, <2>5, <2>7
    <2> QED BY <2>6, <2>7
  <1>3. P \in SUBSET SUBSET S
    OBVIOUS
  <1>4. P = SUBSET S
    <2> HIDE DEF P
    <2> QED BY <1>1, <1>2, <1>3, SubsetInduction
  <1> QED
    BY <1>4

LEMMA AddsZero ==
  ASSUME NEW S, NEW f, NEW g, IsFiniteSet(S), Adds(g, f, S), \A x \in S : f[x] = 0
  PROVE  g[S] = 0
  <1> DEFINE P == {T \in SUBSET S : g[T] = 0}
  <1>1. {} \in P
    BY AddsValue
  <1>2. \A T \in SUBSET S : T # {} /\ T \ {Pick(T)} \in P => T \in P
    BY AddsValue, PickIn
  <1>3. P \in SUBSET SUBSET S
    OBVIOUS
  <1>4. P = SUBSET S
    <2> HIDE DEF P
    <2> QED BY <1>1, <1>2, <1>3, SubsetInduction
  <1> QED
    BY <1>4

(* What the slots recorded, and what the calls in progress still have to append. *)
LEMMA SlotsFinite == IsFiniteSet(Slots) /\ Slots # {} /\ Slots \in SUBSET Nat
  <1>1. MaxStreams \in Nat /\ MaxStreams >= 1 /\ 1 \in Int /\ MaxStreams \in Int
    BY TsConstants
  <1>2. IsFiniteSet(1..MaxStreams)
    BY <1>1, FS_Interval
  <1>3. 1 \in Slots /\ Slots \in SUBSET Nat
    BY <1>1 DEF Slots
  <1> QED BY <1>2, <1>3 DEF Slots

Recorded(sl) == [i \in Slots |-> sl[i].pend]
LEMMA PendAdds ==
  ASSUME NEW sl
  PROVE  \E g : Adds(g, Recorded(sl), Slots) /\ Pend(sl) = g[Slots]
  <1> DEFINE D(g) == g = [T \in SUBSET Slots |->
                            IF T = {} THEN 0 ELSE sl[Pick(T)].pend + g[T \ {Pick(T)}]]
  <1>1. Pend(sl) = (CHOOSE g : D(g))[Slots]
    BY Zenon DEF Pend, MapThenSumSet, MapThenFoldSet, Pick
  <1>2. \A g : D(g) <=> Adds(g, Recorded(sl), Slots)
    BY PickIn DEF Adds, Recorded
  <1>3. \E g : D(g)
    BY <1>2, AddsExists, SlotsFinite
  <1>4. D(CHOOSE g : D(g))
    BY <1>3
  <1> QED
    BY <1>1, <1>2, <1>4

LEMMA PendType ==
  ASSUME NEW sl, \A i \in Slots : sl[i].pend \in Nat
  PROVE  Pend(sl) \in Nat
  <1>1. PICK g : Adds(g, Recorded(sl), Slots) /\ Pend(sl) = g[Slots]
    BY PendAdds
  <1>2. \A i \in Slots : Recorded(sl)[i] \in Nat
    BY DEF Recorded
  <1> QED BY <1>1, <1>2, AddsType, SlotsFinite

LEMMA PendChange ==
  ASSUME NEW sl, NEW new, NEW i \in Slots,
         \A j \in Slots : sl[j].pend \in Nat /\ new[j].pend \in Nat,
         \A j \in Slots : j # i => new[j].pend = sl[j].pend
  PROVE  Pend(new) = Pend(sl) - sl[i].pend + new[i].pend
  <1>1. PICK g : Adds(g, Recorded(sl), Slots) /\ Pend(sl) = g[Slots]
    BY PendAdds
  <1>2. PICK h : Adds(h, Recorded(new), Slots) /\ Pend(new) = h[Slots]
    BY PendAdds
  <1> DEFINE f == Recorded(sl)
             e == Recorded(new)
  <1>3. \A x \in Slots : f[x] \in Nat /\ e[x] \in Nat /\ (x # i => e[x] = f[x])
    BY DEF Recorded
  <1>4. f[i] = sl[i].pend /\ e[i] = new[i].pend
    BY DEF Recorded
  <1> HIDE DEF f, e
  <1>5. Adds(g, f, Slots) /\ Adds(h, e, Slots)
    BY <1>1, <1>2 DEF f, e
  <1>6. h[Slots] = g[Slots] - f[i] + e[i]
    <2>1. IsFiniteSet(Slots)
      BY SlotsFinite
    <2>2. DifferAt(f, e, i, Slots)
      BY <1>3 DEF DifferAt
    <2> QED BY <1>5, <2>1, <2>2, AddsChange
  <1> QED BY <1>1, <1>2, <1>4, <1>6

LEMMA PendSame ==
  ASSUME NEW sl, NEW new,
         \A j \in Slots : sl[j].pend \in Nat /\ new[j].pend = sl[j].pend
  PROVE  Pend(new) = Pend(sl)
  <1>1. PICK i \in Slots : TRUE
    BY SlotsFinite
  <1>2. Pend(new) = Pend(sl) - sl[i].pend + new[i].pend
    BY PendChange
  <1> QED BY <1>2, PendType

LEMMA PendZero ==
  ASSUME NEW sl, \A j \in Slots : sl[j].pend = 0
  PROVE  Pend(sl) = 0
  <1>1. PICK g : Adds(g, Recorded(sl), Slots) /\ Pend(sl) = g[Slots]
    BY PendAdds
  <1>2. \A i \in Slots : Recorded(sl)[i] = 0
    BY DEF Recorded
  <1> QED BY <1>1, <1>2, AddsZero, SlotsFinite

ToDo(f) == MapThenSumSet(LAMBDA t : f[t], Threads)
LEMMA ToDoAdds ==
  ASSUME IsFiniteSet(Threads), NEW f
  PROVE  \E g : Adds(g, f, Threads) /\ ToDo(f) = g[Threads]
  <1> DEFINE D(g) == g = [T \in SUBSET Threads |->
                            IF T = {} THEN 0 ELSE f[Pick(T)] + g[T \ {Pick(T)}]]
  <1>1. ToDo(f) = (CHOOSE g : D(g))[Threads]
    BY Zenon DEF ToDo, MapThenSumSet, MapThenFoldSet, Pick
  <1>2. \A g : D(g) <=> Adds(g, f, Threads)
    BY DEF Adds
  <1>3. D(CHOOSE g : D(g))
    BY <1>2, AddsExists
  <1> QED
    BY <1>1, <1>2, <1>3

LEMMA ToDoChange ==
  ASSUME IsFiniteSet(Threads), NEW f \in [Threads -> Nat], NEW t \in Threads, NEW n \in Nat
  PROVE  /\ ToDo(f) \in Nat /\ ToDo(f) >= f[t]
         /\ ToDo([f EXCEPT ![t] = n]) = ToDo(f) - f[t] + n
  <1> DEFINE e == [f EXCEPT ![t] = n]
             z == [f EXCEPT ![t] = 0]
  <1>1. ASSUME NEW d \in [Threads -> Nat] PROVE ToDo(d) \in Nat
    BY <1>1, ToDoAdds, AddsType
  <1>2. ASSUME NEW d \in [Threads -> Nat], \A x \in Threads : x # t => d[x] = f[x]
        PROVE  ToDo(d) = ToDo(f) - f[t] + d[t]
    <2>1. PICK g : Adds(g, f, Threads) /\ ToDo(f) = g[Threads]
      BY ToDoAdds
    <2>2. PICK h : Adds(h, d, Threads) /\ ToDo(d) = h[Threads]
      BY ToDoAdds
    <2>3. \A x \in Threads : f[x] \in Nat /\ d[x] \in Nat /\ (x # t => d[x] = f[x])
      BY <1>2
    <2>4. h[Threads] = g[Threads] - f[t] + d[t]
      <3>1. DifferAt(f, d, t, Threads)
        BY <2>3 DEF DifferAt
      <3> QED BY <2>1, <2>2, <3>1, AddsChange
    <2> QED BY <2>1, <2>2, <2>4
  <1>3. e \in [Threads -> Nat] /\ e[t] = n /\ \A x \in Threads : x # t => e[x] = f[x]
    OBVIOUS
  <1>4. z \in [Threads -> Nat] /\ z[t] = 0 /\ \A x \in Threads : x # t => z[x] = f[x]
    OBVIOUS
  <1>5. ToDo(z) = ToDo(f) - f[t] + 0 /\ ToDo(z) \in Nat /\ ToDo(f) \in Nat
    <2> HIDE DEF z
    <2> QED BY <1>1, <1>2, <1>4
  <1>6. ToDo(e) = ToDo(f) - f[t] + n
    <2> HIDE DEF e
    <2> QED BY <1>2, <1>3
  <1> QED
    BY <1>5, <1>6

LEMMA ToDoZero ==
  ASSUME IsFiniteSet(Threads)
  PROVE  ToDo([t \in Threads |-> 0]) = 0
  <1> DEFINE f == [t \in Threads |-> 0]
  <1>1. PICK g : Adds(g, f, Threads) /\ ToDo(f) = g[Threads]
    BY ToDoAdds
  <1>2. \A x \in Threads : f[x] = 0
    OBVIOUS
  <1> QED BY <1>1, <1>2, AddsZero

LEMMA TakenIs == Taken = made + ToDo(todo) /\ Taken' = made' + ToDo(todo')
  <1>1. Taken = made + ToDo(todo)
    BY DEF Taken, ToDo
  <1>2. Taken' = made' + ToDo(todo')
    BY DEF Taken, ToDo, MapThenSumSet, MapThenFoldSet
  <1> QED BY <1>1, <1>2
--------------------------------------------------------------------------------
(* The inductive invariant *)

(* What the theorems assume of the instance: a stream is opened while no other  *)
(* thread calls, because zdb_ts_open() takes no lock, and open_count does not   *)
(* saturate, which takes more handles than threads can hold.                    *)
TsAssumptions ==
  /\ SoloOpen
  /\ IsFiniteSet(Threads) /\ Cardinality(Threads) <= OpenCountMax

FlushPlaces == {"write", "roll", "discard", "flushed", "flush_failed"}

(* Files are numbered up to some number; a call in progress was let in with     *)
(* room for all its samples.                                                    *)
BoundInv ==
  /\ \A s \in Streams : \E m \in Nat : \A n \in DOMAIN disk[s] : n <= m
  /\ made + ToDo(todo) <= MaxSamples

(* Who stands where: inside a flush or the drain an actor owns the lock, and    *)
(* while a thread opens a stream the others make no call.                       *)
ControlInv ==
  /\ \A a \in Actors : pc[a] \in FlushPlaces \cup {"drain"} => lock = a
  /\ \A t \in Threads : pc[t] \notin {"work", "drain"}
  /\ pc[Worker] \in FlushPlaces \cup {"idle", "work", "drain"}
  /\ \A t \in Threads : todo[t] > 0 => pc[t] \in FlushPlaces \cup {"append"}
  /\ \A t \in Threads : pc[t] = "append" => todo[t] > 0
  /\ \A t \in Threads : Opening(t) => \A u \in Threads : u # t => pc[u] = "idle"
  /\ \A t \in Threads : pc[t] # "idle" => hd[t] # NoStream
  /\ \A t \in Threads : pc[t] = "unpend" => "submit" \in Faults

(* The slot an actor works on, looked up before the lock or under it, is still  *)
(* the one of its stream, and has the room its place promises.                  *)
PlaceInv ==
  /\ \A a \in Actors : pc[a] \in FlushPlaces =>
        at[a] \in Slots /\ slots[at[a]].used /\ slots[at[a]].scanned
  /\ \A a \in Actors : pc[a] \in {"roll", "discard"} => slots[at[a]].buf = <<>>
  /\ \A a \in Actors : pc[a] = "discard" => TooMany(slots[at[a]])
  /\ \A t \in Threads :
        \/ pc[t] \in FlushPlaces \cup {"full", "join"}
        \/ pc[t] = "append" /\ ~batch[t]
        => at[t] \in Open(hd[t])
  /\ \A t \in Threads : pc[t] = "flushed" /\ todo[t] > 0 => Len(slots[at[t]].buf) < Capacity
  /\ \A t \in Threads : pc[t] = "claim" =>
        at[t] \in Slots /\ ~slots[at[t]].used /\ Open(hd[t]) = {}

(* A stream has one slot at most, and has one while a handle is open on it; the *)
(* slot counts its handles at least (a failed open leaves its count behind).    *)
SlotInv ==
  /\ \A i \in Slots : ~slots[i].used => slots[i] = FreeSlot
  /\ \A i \in Slots : slots[i].used => slots[i].name \in Streams /\ slots[i].count >= 1
  /\ \A i, j \in Slots :
        slots[i].used /\ slots[j].used /\ slots[i].name = slots[j].name => i = j
  /\ \A i \in Slots : slots[i].buf # <<>> => slots[i].scanned
  /\ \A t \in Threads : hd[t] # NoStream /\ pc[t] \notin {"join", "claim"} => Open(hd[t]) # {}
  /\ \A t \in Threads : hd[t] # NoStream /\ ~Opening(t) =>
        \A i \in Open(hd[t]) : slots[i].scanned

CountInv ==
  /\ \A i \in Slots : slots[i].used => slots[i].count >= Cardinality(Handles(slots[i].name))
  /\ blocks = Cardinality({i \in Slots : slots[i].used})

(* Unless a header can fail to be written, every file has one or is empty, so   *)
(* that an open never fails half-way and the counts are exact.                  *)
FilesHeaded(d) == \A s \in Streams : \A n \in DOMAIN d[s] : d[s][n].hdr \/ d[s][n] = EmptyFile
NewestHeaded(d, sl) ==
  \A i \in Slots : sl[i].used /\ sl[i].scanned =>
     sl[i].cur \in DOMAIN d[sl[i].name] /\ d[sl[i].name][sl[i].cur].hdr
HeaderInv ==
  "header" \notin Faults =>
    /\ FilesHeaded(disk)
    /\ NewestHeaded(disk, slots)
    /\ \A i \in Slots : slots[i].used => slots[i].count = Cardinality(Handles(slots[i].name))

(* Where a flushed record is on its way to the listeners. *)
EventInv ==
  /\ released = 0
  /\ unheard = Pend(slots) + drain.sum
  /\ lock = NoActor => \A i \in Slots : slots[i].pend = 0
  /\ pc[Worker] \in {"idle", "work"} => drain.sum = 0
  /\ pc[Worker] \notin {"idle", "work"} =>
        \A i \in Slots : i >= drain.next => slots[i].pend = 0
  /\ pc[Worker] \in FlushPlaces => at[Worker] < drain.next
  /\ pc[Worker] = "write" =>
        slots[at[Worker]].pend = 0 /\ drain.bytes = Len(slots[at[Worker]].buf)
  /\ pc[Worker] \in {"roll", "discard", "flushed"} => slots[at[Worker]].pend = drain.bytes

(* A thread between its request and its return, when nothing hides a failure:   *)
(* what it is owed left the ingest buffers with the flag, or lies in a slot the *)
(* drain under way still comes to.                                              *)
SyncPlaces == {"sync_check", "sync_take", "sync_wait", "sync_woken"}
SyncInv ==
  Faults \cap {"write", "submit"} = {} =>
    /\ Buffered \subseteq 1..made
    /\ \A t \in Threads : owed[t] \subseteq 1..made
    /\ \A t \in Threads : pc[t] = "synced" \/ (pc[t] \in SyncPlaces /\ ~pending)
                          => owed[t] \cap Buffered = {}
    /\ \A t \in Threads : pc[t] \in SyncPlaces /\ pc[Worker] \in FlushPlaces \cup {"drain"} =>
          \A i \in Slots : owed[t] \cap Range(slots[i].buf) # {} =>
             i >= drain.next \/ (pc[Worker] = "write" /\ i = at[Worker])

StoreInv ==
  TypeOK /\ BoundInv /\ ControlInv /\ PlaceInv /\ SlotInv /\ CountInv /\ HeaderInv
TsInv == StoreInv /\ EventInv /\ SyncInv

--------------------------------------------------------------------------------
(* Slots, handles and files *)

LEMMA FindSlot ==
  ASSUME NEW s
  PROVE  \/ Open(s) = {} /\ slot_find(s) = 0
         \/ slot_find(s) \in Open(s) /\ slot_find(s) \in Slots
  <1>1. Open(s) \in SUBSET Slots /\ Slots \in SUBSET Nat
    BY SlotsFinite DEF Open
  <1>2. CASE Open(s) = {}
    BY <1>2 DEF slot_find
  <1>3. CASE Open(s) # {}
    BY <1>1, <1>3, LowestIsLeast DEF slot_find
  <1> QED
    BY <1>2, <1>3

LEMMA GoodPrefixIn ==
  ASSUME NEW S, NEW r \in Seq(S)
  PROVE  /\ GoodPrefix(r) \in 0..Len(r)
         /\ (\A i \in 1..Len(r) : r[i] # Bad) => GoodPrefix(r) = Len(r)
  <1> DEFINE G == {n \in 0..Len(r) : \A i \in 1..n : r[i] # Bad}
  <1>1. G \in SUBSET Nat /\ 0 \in G /\ Len(r) \in Nat /\ \A n \in G : n <= Len(r)
    OBVIOUS
  <1>2. Highest(G) \in G /\ \A j \in G : Highest(G) >= j
    <2> HIDE DEF G
    <2> QED BY <1>1, HighestIsGreatest
  <1>3. (\A i \in 1..Len(r) : r[i] # Bad) => Len(r) \in G
    BY <1>1
  <1>4. GoodPrefix(r) = Highest(G)
    BY DEF GoodPrefix
  <1> HIDE DEF G
  <1>5. G \in SUBSET (0..Len(r))
    BY DEF G
  <1>6. Highest(G) \in 0..Len(r)
    BY <1>2, <1>5
  <1>7. Len(r) \in G => Highest(G) = Len(r)
    BY <1>1, <1>2, <1>6
  <1> QED BY <1>3, <1>4, <1>6, <1>7

LEMMA WindowEnds ==
  ASSUME TypeOK, BoundInv, NEW s \in Streams
  PROVE  /\ Lowest(Window(s)) \in Nat /\ Highest(Window(s)) \in Nat
         /\ Highest(Window(s)) \in Window(s) /\ Lowest(Window(s)) \in Window(s)
         /\ \A n \in Window(s) : Lowest(Window(s)) <= n /\ n <= Highest(Window(s))
  <1>1. PICK m \in Nat : \A n \in DOMAIN disk[s] : n <= m
    BY DEF BoundInv
  <1>2. Window(s) \in SUBSET Nat /\ Window(s) # {} /\ \A n \in Window(s) : n <= m
    <2>1. \A n \in DOMAIN disk[s] : n \in Nat
      BY DEF TypeOK
    <2>2. CASE DOMAIN disk[s] = {}
      BY <2>2 DEF Window
    <2>3. CASE DOMAIN disk[s] # {}
      BY <1>1, <2>1, <2>3 DEF Window
    <2> QED BY <2>2, <2>3
  <1>3. Lowest(Window(s)) \in Window(s) /\ \A j \in Window(s) : Lowest(Window(s)) <= j
    BY <1>2, LowestIsLeast
  <1>4. Highest(Window(s)) \in Window(s) /\ \A j \in Window(s) : Highest(Window(s)) >= j
    BY <1>2, HighestIsGreatest
  <1> QED
    BY <1>2, <1>3, <1>4

LEMMA FileType ==
  ASSUME TypeOK, NEW s \in Streams, NEW n
  PROVE  FileAt(s, n) \in Segment
  BY DEF TypeOK, FileAt, Segment, EmptyFile

(* Writing a file keeps the files in their types and bounds. *)
FilesOK(d) ==
  /\ DOMAIN d = Streams
  /\ \A s \in Streams : \A n \in DOMAIN d[s] : n \in Nat /\ d[s][n] \in Segment
  /\ \A s \in Streams : \E m \in Nat : \A n \in DOMAIN d[s] : n <= m

LEMMA PutFiles ==
  ASSUME FilesOK(disk), NEW s \in Streams, NEW n \in Nat, NEW f \in Segment
  PROVE  FilesOK(Put(s, n, f))
  <1> DEFINE d == Put(s, n, f)
  <1>1. DOMAIN d = Streams /\ \A u \in Streams : u # s => d[u] = disk[u]
    BY DEF Put, FilesOK
  <1>2. d[s] = [i \in DOMAIN disk[s] \cup {n} |-> IF i = n THEN f ELSE disk[s][i]]
    BY DEF Put, FilesOK
  <1>3. \A i \in DOMAIN d[s] : i \in Nat /\ d[s][i] \in Segment
    BY <1>2 DEF FilesOK
  <1>4. PICK m \in Nat : \A i \in DOMAIN disk[s] : i <= m
    BY DEF FilesOK
  <1>5. \A i \in DOMAIN d[s] : i <= m + n
    BY <1>2, <1>4 DEF FilesOK
  <1>6. m + n \in Nat
    OBVIOUS
  <1> HIDE DEF d
  <1>7. FilesOK(d)
    <2>1. \A u \in Streams : \A i \in DOMAIN d[u] : i \in Nat /\ d[u][i] \in Segment
      BY <1>1, <1>3 DEF FilesOK
    <2>2. \A u \in Streams : \E b \in Nat : \A i \in DOMAIN d[u] : i <= b
      BY <1>1, <1>5, <1>6 DEF FilesOK
    <2> QED BY <1>1, <2>1, <2>2 DEF FilesOK
  <1> QED BY <1>7 DEF d

--------------------------------------------------------------------------------
(* Steps that only move an actor between places outside of the lock *)

QuietPlaces == {"idle", "async", "sync_async", "unpend", "sync_check", "sync_take", "sync_wait",
                "sync_woken", "synced", "work"}

LEMMA HandlesSame ==
  ASSUME hd' = hd, pc \in [Actors -> Places], NEW a \in Actors, NEW p,
         pc' = [pc EXCEPT ![a] = p],
         a \in Threads => p \notin {"join", "claim"} /\ pc[a] \notin {"join", "claim"}
  PROVE  \A s : Handles(s)' = Handles(s)
  BY DEF Handles, Actors

LEMMA QuietStep ==
  ASSUME TsInv, NEW a \in Actors, NEW p \in QuietPlaces,
         pc' = [pc EXCEPT ![a] = p], pc[a] \in QuietPlaces,
         a = Worker => p \in {"idle", "work"}, a \in Threads => p # "work",
         a \in Threads /\ p # "idle" => hd[a] # NoStream /\ \A u \in Threads : ~Opening(u),
         p = "unpend" => "submit" \in Faults,
         pending' \in BOOLEAN, sem' \in 0..1, queued' \in BOOLEAN, fails' \in 0..MaxFails,
         owed' \in [Threads -> SUBSET Samples],
         UNCHANGED <<disk, slots, blocks, released, lock, at, hd, todo, batch, drain, made, boots,
                     log, gone, unheard>>
  PROVE  StoreInv' /\ EventInv'
  <1> USE DEF TsInv, StoreInv
  <1>1. TypeOK'
    <2>1. p \in Places
      BY DEF QuietPlaces, Places
    <2> QED BY <2>1 DEF TypeOK
  <1>2. BoundInv'
    BY DEF BoundInv
  <1>3. pc \in [Actors -> Places] /\ pc' \in [Actors -> Places] /\ Worker \in Actors
        /\ Threads \subseteq Actors
    BY <1>1 DEF TypeOK, Actors
  <1>4. \A s : Handles(s)' = Handles(s)
    BY <1>3, HandlesSame DEF QuietPlaces
  <1>5. ControlInv'
    <2>1. \A b \in Actors : b # a => pc'[b] = pc[b]
      BY <1>3
    <2>2. pc'[a] = p
      BY <1>3
    <2>3. Worker \notin Threads
      BY TsConstants
    <2>4. \A t \in Threads : Opening(t)' => Opening(t) /\ t # a
      BY <1>3, <2>1, <2>2 DEF Opening, QuietPlaces
    <2>5. ASSUME NEW t \in Threads, Opening(t)', NEW u \in Threads, u # t
          PROVE  pc'[u] = "idle"
      BY <1>3, <2>1, <2>2, <2>4, <2>5 DEF ControlInv
    <2>6. \A b \in Actors : pc'[b] \in FlushPlaces \cup {"drain"} => b # a
      BY <2>2 DEF QuietPlaces, FlushPlaces
    <2>7. \A b \in Actors : pc'[b] \in FlushPlaces \cup {"drain"} => lock' = b
      BY <1>3, <2>1, <2>6 DEF ControlInv
    <2>8. \A t \in Threads : todo[t] > 0 => t # a
      BY <1>3 DEF ControlInv, QuietPlaces, FlushPlaces
    <2>9. \A t \in Threads : todo'[t] > 0 => pc'[t] \in FlushPlaces \cup {"append"}
      BY <1>3, <2>1, <2>8 DEF ControlInv
    <2>10. /\ \A t \in Threads : pc'[t] \notin {"work", "drain"}
           /\ \A t \in Threads : pc'[t] = "append" => todo'[t] > 0
           /\ \A t \in Threads : pc'[t] # "idle" => hd'[t] # NoStream
           /\ \A t \in Threads : pc'[t] = "unpend" => "submit" \in Faults
      BY <1>3, <2>1, <2>2 DEF ControlInv, QuietPlaces
    <2>11. pc'[Worker] \in FlushPlaces \cup {"idle", "work", "drain"}
      BY <1>3, <2>1, <2>2 DEF ControlInv
    <2> QED BY <2>5, <2>7, <2>9, <2>10, <2>11 DEF ControlInv
  <1>6. PlaceInv'
    BY <1>3 DEF PlaceInv, FlushPlaces, QuietPlaces, Open
  <1>7. SlotInv'
    BY <1>3 DEF SlotInv, QuietPlaces, Open, Opening
  <1>8. CountInv'
    BY <1>4 DEF CountInv
  <1>9. HeaderInv'
    BY <1>4 DEF HeaderInv
  <1>10. EventInv'
    <2>1. a = Worker => pc[Worker] \in {"idle", "work"} /\ pc'[Worker] \in {"idle", "work"}
      BY <1>3 DEF ControlInv, FlushPlaces, QuietPlaces
    <2>2. a # Worker => pc'[Worker] = pc[Worker]
      BY <1>3
    <2> QED BY <2>1, <2>2 DEF EventInv, FlushPlaces
  <1> QED
    BY <1>1, <1>2, <1>5, <1>6, <1>7, <1>8, <1>9, <1>10
(* What a step leaves of the promise to the threads in flush_sync(). *)
LEMMA QuietSync ==
  ASSUME TsInv, NEW a \in Actors, NEW p, pc' = [pc EXCEPT ![a] = p],
         made' = made, drain' = drain, at'[Worker] = at[Worker],
         \A i \in Slots : Range(slots'[i].buf) \subseteq Range(slots[i].buf),
         \A u \in Threads : u # a => owed'[u] = owed[u],
         pending => pending',
         a = Worker => pc[a] = "idle" /\ p = "work",
         a \in Threads => \/ owed'[a] = {} \/ p \notin SyncPlaces \cup {"synced"}
                          \/ /\ owed'[a] = owed[a]
                             /\ \/ pc[a] \in SyncPlaces
                                \/ lock = NoActor /\ pending'
                             /\ p = "synced" => pc[a] \in SyncPlaces /\ ~pending,
         a \in Threads => owed'[a] \subseteq owed[a] \cup Buffered
  PROVE  SyncInv'
  <1> USE DEF TsInv, StoreInv
  <1> SUFFICES ASSUME Faults \cap {"write", "submit"} = {} PROVE SyncInv'
    BY DEF SyncInv
  <1>1. pc \in [Actors -> Places] /\ Worker \in Actors /\ Threads \subseteq Actors
    BY DEF TypeOK, Actors
  <1>2. Worker \notin Threads
    BY TsConstants
  <1>3. Buffered' \subseteq Buffered
    BY DEF Buffered
  <1>4. \A u \in Threads : owed'[u] \subseteq 1..made
    BY DEF SyncInv
  <1>5. ~pending' => ~pending
    OBVIOUS
  <1>6. ASSUME NEW u \in Threads,
               pc'[u] = "synced" \/ (pc'[u] \in SyncPlaces /\ ~pending')
        PROVE  owed'[u] \cap Buffered = {}
    <2>1. CASE u # a
      BY <1>1, <1>5, <1>6, <2>1 DEF SyncInv
    <2>2. CASE u = a
      <3>1. pc'[u] = p
        BY <1>1, <2>2
      <3>2. CASE owed'[a] = {}
        BY <2>2, <3>2
      <3>3. CASE p \notin SyncPlaces \cup {"synced"}
        BY <1>6, <3>1, <3>3
      <3>4. CASE owed'[a] = owed[a] /\ pc[a] \in SyncPlaces /\ ~pending
        BY <2>2, <3>4 DEF SyncInv
      <3>5. CASE pending' /\ p # "synced"
        BY <1>6, <3>1, <3>5
      <3> QED BY <1>5, <1>6, <2>2, <3>1, <3>2, <3>3, <3>4, <3>5
    <2> QED BY <2>1, <2>2
  <1>7. ASSUME NEW u \in Threads, pc'[u] \in SyncPlaces,
               pc'[Worker] \in FlushPlaces \cup {"drain"},
               NEW i \in Slots, owed'[u] \cap Range(slots'[i].buf) # {}
        PROVE  i >= drain.next \/ (pc'[Worker] = "write" /\ i = at[Worker])
    <2>1. pc'[Worker] = pc[Worker] /\ a # Worker
      BY <1>1, <1>7 DEF FlushPlaces
    <2>2. lock = Worker
      BY <1>1, <1>7, <2>1 DEF ControlInv
    <2>3. Worker # NoActor
      BY TsConstants
    <2>4. owed'[u] = owed[u] /\ pc[u] \in SyncPlaces
      <3>1. CASE u # a
        BY <1>1, <1>7, <3>1
      <3>2. CASE u = a
        BY <1>1, <1>7, <2>2, <2>3, <3>2
      <3> QED BY <3>1, <3>2
    <2> QED BY <1>7, <2>1, <2>4 DEF SyncInv
  <1>8. Buffered \subseteq 1..made
    BY DEF SyncInv
  <1> QED
    BY <1>3, <1>4, <1>6, <1>7, <1>8 DEF SyncInv

LEMMA CallFlushAsyncStep ==
  ASSUME TsAssumptions, TsInv, NEW t \in Threads, CallFlushAsync(t)
  PROVE  TsInv'
  <1> USE DEF TsInv, StoreInv
  <1>1. /\ t \in Actors /\ t # Worker /\ pc' = [pc EXCEPT ![t] = "async"] /\ pc[t] = "idle"
        /\ hd[t] # NoStream /\ \A u \in Threads : ~Opening(u)
    BY TsConstants DEF CallFlushAsync, MayCall, Calling, Go, Actors, TsAssumptions
  <1>2. StoreInv' /\ EventInv'
    BY <1>1, QuietStep
       DEF CallFlushAsync, TypeOK, QuietPlaces, flushVars, callVars, sysVars, sampleVars
  <1>3. SyncInv'
    BY <1>1, QuietSync DEF CallFlushAsync, flushVars, callVars, sysVars, SyncPlaces
  <1> QED BY <1>2, <1>3

LEMMA CallFlushSyncStep ==
  ASSUME TsAssumptions, TsInv, NEW t \in Threads, CallFlushSync(t)
  PROVE  TsInv'
  <1> USE DEF TsInv, StoreInv
  <1>1. /\ t \in Actors /\ t # Worker /\ pc' = [pc EXCEPT ![t] = "sync_async"] /\ pc[t] = "idle"
        /\ hd[t] # NoStream /\ \A u \in Threads : ~Opening(u)
    BY TsConstants DEF CallFlushSync, MayCall, Calling, Go, Actors, TsAssumptions
  <1>2. Buffered \subseteq Samples
    <2>1. \A i \in Slots : slots[i].buf \in Seq(Samples)
      BY DEF TypeOK, Slot
    <2>2. \A i \in Slots : Range(slots[i].buf) \subseteq Samples
      BY <2>1 DEF Range
    <2> QED BY <2>2 DEF Buffered
  <1>6. owed' = [owed EXCEPT ![t] = Buffered]
    BY DEF CallFlushSync, Buffered
  <1>3. /\ owed' \in [Threads -> SUBSET Samples]
        /\ \A u \in Threads : u # t => owed'[u] = owed[u]
        /\ owed'[t] = Buffered
    <2>1. owed \in [Threads -> SUBSET Samples]
      BY DEF TypeOK
    <2> QED BY <1>2, <1>6, <2>1
  <1>7. sem' \in 0..1
    BY DEF CallFlushSync
  <1>4. StoreInv' /\ EventInv'
    BY <1>1, <1>3, <1>7, QuietStep
       DEF CallFlushSync, TypeOK, QuietPlaces, callVars, sysVars, sampleVars
  <1>5. SyncInv'
    <2>1. /\ slots' = slots /\ made' = made /\ drain' = drain /\ at' = at
          /\ pending' = pending
      BY DEF CallFlushSync, callVars, sysVars
    <2>2. "sync_async" \notin SyncPlaces \cup {"synced"}
      BY DEF SyncPlaces
    <2>3. \A u \in Threads : u # t => owed'[u] = owed[u]
      BY <1>3
    <2>4. owed'[t] \subseteq owed[t] \cup Buffered
      BY <1>3
    <2> QED BY <1>1, <2>1, <2>2, <2>3, <2>4, QuietSync
  <1> QED BY <1>4, <1>5

LEMMA FlushAsyncStep ==
  ASSUME TsAssumptions, TsInv, NEW t \in Threads, FlushAsync(t)
  PROVE  TsInv'
  <1> USE DEF TsInv, StoreInv
  <1> DEFINE next == IF pc[t] = "async" THEN "idle" ELSE "sync_check"
  <1>1. t \in Actors /\ t # Worker /\ pc[t] \in {"async", "sync_async"} /\ lock = NoActor
    BY TsConstants DEF FlushAsync, Actors
  <1>2. hd[t] # NoStream /\ \A u \in Threads : ~Opening(u)
    BY <1>1 DEF ControlInv, Opening
  <1>3. PICK p \in {next, "unpend"} :
           /\ pc' = [pc EXCEPT ![t] = p]
           /\ pending'
           /\ p = "unpend" => "submit" \in Faults
    BY DEF FlushAsync, Go, Fault
  <1>6. pending' \in BOOLEAN /\ queued' \in BOOLEAN
    BY DEF FlushAsync, TypeOK
  <1>7. fails' \in 0..MaxFails
    BY TsConstants, SMTT(30) DEF FlushAsync, Fault, TypeOK
  <1>8. p \in QuietPlaces /\ p # "work" /\ p # "synced" /\ pc[t] \in QuietPlaces
    BY <1>1, <1>3 DEF QuietPlaces
  <1>4. StoreInv' /\ EventInv'
    <2>1. /\ UNCHANGED <<disk, slots, blocks, released, lock, at, hd, todo, batch, drain, made, boots,
                          log, gone, unheard>>
          /\ sem' \in 0..1 /\ owed' \in [Threads -> SUBSET Samples]
      BY DEF FlushAsync, TypeOK, callVars, sampleVars
    <2> HIDE DEF next
    <2> QED BY <1>1, <1>2, <1>3, <1>6, <1>7, <1>8, <2>1, QuietStep
  <1>5. SyncInv'
    <2>1. /\ slots' = slots /\ made' = made /\ drain' = drain /\ at' = at /\ owed' = owed
          /\ p \notin {"synced"}
      BY <1>3 DEF FlushAsync, callVars
    <2> QED BY <1>1, <1>3, <2>1, QuietSync DEF SyncPlaces
  <1> QED BY <1>4, <1>5

LEMMA FlushNotQueuedStep ==
  ASSUME TsAssumptions, TsInv, NEW t \in Threads, FlushNotQueued(t)
  PROVE  TsInv'
  <1> USE DEF TsInv, StoreInv
  <1>1. /\ t \in Actors /\ t # Worker /\ pc' = [pc EXCEPT ![t] = "idle"] /\ pc[t] = "unpend"
        /\ owed' \in [Threads -> SUBSET Samples]
    BY TsConstants DEF FlushNotQueued, Go, Actors, TypeOK
  <1>2. StoreInv' /\ EventInv'
    BY <1>1, QuietStep DEF FlushNotQueued, TypeOK, QuietPlaces, callVars, sysVars, sampleVars
  <1>3. SyncInv'
    BY <1>1 DEF SyncInv, ControlInv
  <1> QED BY <1>2, <1>3
LEMMA SyncCheckStep ==
  ASSUME TsAssumptions, TsInv, NEW t \in Threads, SyncCheck(t)
  PROVE  TsInv'
  <1> USE DEF TsInv, StoreInv
  <1> DEFINE p == IF pending THEN "sync_take" ELSE "synced"
  <1>1. t \in Actors /\ t # Worker /\ pc' = [pc EXCEPT ![t] = p] /\ pc[t] = "sync_check"
    BY TsConstants DEF SyncCheck, Go, Actors
  <1>2. hd[t] # NoStream /\ \A u \in Threads : ~Opening(u)
    BY <1>1 DEF ControlInv, Opening
  <1>3. p \in QuietPlaces /\ p # "work" /\ p # "unpend" /\ (p = "synced" => ~pending)
        /\ pc[t] \in QuietPlaces /\ pc[t] \in SyncPlaces
    BY <1>1 DEF QuietPlaces, SyncPlaces
  <1> HIDE DEF p
  <1>4. StoreInv' /\ EventInv'
    BY <1>1, <1>2, <1>3, QuietStep
       DEF SyncCheck, TypeOK, flushVars, callVars, sysVars, sampleVars
  <1>5. SyncInv'
    <2>1. /\ slots' = slots /\ made' = made /\ drain' = drain /\ at' = at /\ owed' = owed
          /\ pending' = pending
      BY DEF SyncCheck, callVars, flushVars, sysVars
    <2> QED BY <1>1, <1>3, <2>1, QuietSync
  <1> QED BY <1>4, <1>5

LEMMA SyncTakeStep ==
  ASSUME TsAssumptions, TsInv, NEW t \in Threads, SyncTake(t)
  PROVE  TsInv'
  <1> USE DEF TsInv, StoreInv
  <1> DEFINE p == IF sem = 1 THEN "sync_woken" ELSE "sync_wait"
  <1>1. t \in Actors /\ t # Worker /\ pc' = [pc EXCEPT ![t] = p] /\ pc[t] = "sync_take"
    BY TsConstants DEF SyncTake, Go, Actors
  <1>2. hd[t] # NoStream /\ \A u \in Threads : ~Opening(u)
    BY <1>1 DEF ControlInv, Opening
  <1>3. p \in QuietPlaces /\ p # "work" /\ p # "unpend" /\ p # "synced"
        /\ pc[t] \in QuietPlaces /\ pc[t] \in SyncPlaces
    BY <1>1 DEF QuietPlaces, SyncPlaces
  <1> HIDE DEF p
  <1>4. StoreInv' /\ EventInv'
    <2>1. sem' \in 0..1
      BY DEF SyncTake
    <2> QED BY <1>1, <1>2, <1>3, <2>1, QuietStep
               DEF SyncTake, TypeOK, callVars, sysVars, sampleVars
  <1>5. SyncInv'
    <2>1. /\ slots' = slots /\ made' = made /\ drain' = drain /\ at' = at /\ owed' = owed
          /\ pending' = pending
      BY DEF SyncTake, callVars, sysVars
    <2> QED BY <1>1, <1>3, <2>1, QuietSync
  <1> QED BY <1>4, <1>5

(* The call returns, with or without success: nothing is owed to it any more. *)
LEMMA SyncEndStep ==
  ASSUME TsAssumptions, TsInv, NEW t \in Threads, SyncTimeout(t) \/ SyncReturn(t)
  PROVE  TsInv'
  <1> USE DEF TsInv, StoreInv
  <1>1. /\ t \in Actors /\ t # Worker /\ pc' = [pc EXCEPT ![t] = "idle"]
        /\ pc[t] \in {"sync_wait", "synced"} /\ owed' = [owed EXCEPT ![t] = {}]
    BY TsConstants DEF SyncTimeout, SyncReturn, Go, Actors
  <1>2. owed \in [Threads -> SUBSET Samples]
    BY DEF TypeOK
  <1>3. /\ owed' \in [Threads -> SUBSET Samples] /\ owed'[t] = {}
        /\ \A u \in Threads : u # t => owed'[u] = owed[u]
    BY <1>1, <1>2
  <1>4. StoreInv' /\ EventInv'
    BY <1>1, <1>3, QuietStep
       DEF SyncTimeout, SyncReturn, TypeOK, QuietPlaces, flushVars, callVars, sysVars, sampleVars
  <1>5. SyncInv'
    <2>1. /\ slots' = slots /\ made' = made /\ drain' = drain /\ at' = at
          /\ pending' = pending
      BY DEF SyncTimeout, SyncReturn, callVars, flushVars, sysVars
    <2> QED BY <1>1, <1>3, <2>1, QuietSync
  <1> QED BY <1>4, <1>5

LEMMA SyncWokenStep ==
  ASSUME TsAssumptions, TsInv, NEW t \in Threads, SyncWoken(t)
  PROVE  TsInv'
  <1> USE DEF TsInv, StoreInv
  <1> DEFINE p == IF pending THEN "idle" ELSE "synced"
  <1>1. t \in Actors /\ t # Worker /\ pc' = [pc EXCEPT ![t] = p] /\ pc[t] = "sync_woken"
    BY TsConstants DEF SyncWoken, Go, Actors
  <1>2. hd[t] # NoStream /\ \A u \in Threads : ~Opening(u)
    BY <1>1 DEF ControlInv, Opening
  <1>3. p \in QuietPlaces /\ p # "work" /\ p # "unpend" /\ (p = "synced" => ~pending)
        /\ pc[t] \in QuietPlaces /\ pc[t] \in SyncPlaces
    BY <1>1 DEF QuietPlaces, SyncPlaces
  <1>6. owed \in [Threads -> SUBSET Samples]
    BY DEF TypeOK
  <1>7. /\ owed' \in [Threads -> SUBSET Samples]
        /\ owed'[t] = {} \/ owed'[t] = owed[t]
        /\ \A u \in Threads : u # t => owed'[u] = owed[u]
    BY <1>6 DEF SyncWoken
  <1> HIDE DEF p
  <1>4. StoreInv' /\ EventInv'
    BY <1>1, <1>2, <1>3, <1>7, QuietStep
       DEF SyncWoken, TypeOK, flushVars, callVars, sysVars, sampleVars
  <1>5. SyncInv'
    <2>1. /\ slots' = slots /\ made' = made /\ drain' = drain /\ at' = at
          /\ pending' = pending
      BY DEF SyncWoken, callVars, flushVars, sysVars
    <2>2. owed'[t] \subseteq owed[t] \cup Buffered
      BY <1>7
    <2> QED BY <1>1, <1>3, <1>7, <2>1, <2>2, QuietSync
  <1> QED BY <1>4, <1>5

LEMMA WorkerStartStep ==
  ASSUME TsInv, WorkerStart
  PROVE  TsInv'
  <1> USE DEF TsInv, StoreInv
  <1>1. Worker \in Actors /\ Worker \notin Threads /\ pc[Worker] = "idle"
        /\ pc' = [pc EXCEPT ![Worker] = "work"]
    BY TsConstants DEF WorkerStart, Go, Actors
  <1>2. StoreInv' /\ EventInv'
    BY <1>1, QuietStep DEF WorkerStart, TypeOK, QuietPlaces, callVars, sysVars, sampleVars
  <1>3. SyncInv'
    BY <1>1, QuietSync DEF WorkerStart, callVars, sysVars
  <1> QED BY <1>2, <1>3

--------------------------------------------------------------------------------
(* Steps of a call that leave the slots alone *)

(* A thread moves on, to a slot, a stream and a number of samples. *)
Moves(t, p, i, h, n) ==
  /\ pc' = [pc EXCEPT ![t] = p]
  /\ at' = [at EXCEPT ![t] = i]
  /\ hd' = [hd EXCEPT ![t] = h]
  /\ todo' = [todo EXCEPT ![t] = n]

LEMMA MovesTo ==
  ASSUME TypeOK, NEW t \in Threads, NEW p, NEW i, NEW h, NEW n, Moves(t, p, i, h, n)
  PROVE  /\ pc'[t] = p /\ at'[t] = i /\ hd'[t] = h /\ todo'[t] = n
         /\ \A a \in Actors : a # t => pc'[a] = pc[a] /\ at'[a] = at[a]
         /\ \A u \in Threads : u # t => hd'[u] = hd[u] /\ todo'[u] = todo[u]
         /\ t \in Actors /\ Worker \in Actors /\ Worker # t /\ Threads \subseteq Actors
         /\ Worker \notin Threads /\ NoActor \notin Actors
  BY TsConstants DEF TypeOK, Moves, Actors

LEMMA CallOpenStep ==
  ASSUME TsAssumptions, TsInv, NEW t \in Threads, CallOpen(t)
  PROVE  TsInv'
  <1> USE DEF TsInv, StoreInv
  <1>1. /\ pc[t] = "idle" /\ hd[t] = NoStream
        /\ \A u \in Threads : pc[u] = "idle"
    BY DEF CallOpen, MayCall, Calling, TsAssumptions
  <1>2. PICK s \in Streams, p \in {"join", "claim"}, i \in Slots :
           /\ p = "join" => i \in Open(s)
           /\ p = "claim" => ~slots[i].used /\ Open(s) = {}
           /\ Moves(t, p, i, s, 0)
    <2>1. todo[t] = 0 /\ todo \in [Threads -> Nat]
      <3>1. todo \in [Threads -> Nat] /\ todo[t] \in Nat
        BY DEF TypeOK
      <3>2. ~(todo[t] > 0)
        BY <1>1 DEF ControlInv, FlushPlaces
      <3> QED BY <3>1, <3>2
    <2>2. todo' = [todo EXCEPT ![t] = 0]
      BY <2>1 DEF CallOpen
    <2>3. PICK s \in Streams :
             \/ slot_find(s) # 0 /\ Moves(t, "join", slot_find(s), s, 0)
             \/ /\ slot_find(s) = 0 /\ {i \in Slots : ~slots[i].used} # {}
                /\ Moves(t, "claim", Lowest({i \in Slots : ~slots[i].used}), s, 0)
      BY <2>2 DEF CallOpen, Moves, Go
    <2>4. CASE slot_find(s) # 0
      BY <2>3, <2>4, FindSlot
    <2>5. CASE slot_find(s) = 0
      <3> DEFINE free == {i \in Slots : ~slots[i].used}
      <3>1. free # {} /\ Moves(t, "claim", Lowest(free), s, 0)
        BY <2>3, <2>5
      <3>2. Lowest(free) \in free
        <4>1. free \in SUBSET Nat
          BY SlotsFinite
        <4> HIDE DEF free
        <4> QED BY <3>1, <4>1, LowestIsLeast
      <3>3. Open(s) = {}
        BY <2>5, FindSlot, SlotsFinite DEF Slots
      <3> QED BY <3>1, <3>2, <3>3
    <2> QED BY <2>4, <2>5
  <1>3. /\ UNCHANGED <<disk, slots, blocks, pending, sem, queued, released, lock, batch, drain, made,
                       boots, fails, log, gone, owed, unheard>>
    BY DEF CallOpen, flushVars, sysVars, sampleVars
  <1>4. s # NoStream
    BY TsConstants
  <1>5. TypeOK'
    <2>1. i \in 0..MaxStreams
      BY TsConstants DEF Slots
    <2> QED BY <1>2, <1>3, <2>1 DEF TypeOK, Moves, Places
  <1>6. BoundInv'
    <2>1. todo' = todo
      BY DEF CallOpen
    <2> QED BY <1>3, <2>1 DEF BoundInv
  <1>7. ControlInv'
    BY <1>1, <1>2, <1>3, <1>4, MovesTo DEF ControlInv, FlushPlaces, Opening
  <1>8. PlaceInv'
    BY <1>1, <1>2, <1>3, MovesTo DEF PlaceInv, FlushPlaces, Open
  <1>9. SlotInv'
    BY <1>1, <1>2, <1>3, MovesTo DEF SlotInv, Open, Opening
  <1>10. \A r \in Streams : Handles(r)' = Handles(r)
    <2>1. NoStream \notin Streams
      BY TsConstants
    <2>2. \A r \in Streams : \A u \in Threads : u \in Handles(r)' <=> u \in Handles(r)
      BY <1>1, <1>2, <2>1, MovesTo DEF Handles
    <2> QED BY <2>2 DEF Handles
  <1>11. CountInv'
    BY <1>3, <1>10 DEF CountInv, SlotInv
  <1>12. HeaderInv'
    BY <1>3, <1>10 DEF HeaderInv, SlotInv
  <1>13. EventInv'
    BY <1>2, <1>3, MovesTo DEF EventInv
  <1>14. SyncInv'
    BY <1>2, <1>3, MovesTo, QuietSync DEF Moves, SyncPlaces
  <1> QED
    BY <1>5, <1>6, <1>7, <1>8, <1>9, <1>11, <1>12, <1>13, <1>14
LEMMA CallAppendStep ==
  ASSUME TsAssumptions, TsInv, NEW t \in Threads, CallAppend(t)
  PROVE  TsInv'
  <1> USE DEF TsInv, StoreInv
  <1>1. pc[t] = "idle" /\ hd[t] # NoStream /\ \A u \in Threads : ~Opening(u)
    BY DEF CallAppend, MayCall, Calling, TsAssumptions
  <1>2. todo \in [Threads -> Nat] /\ todo[t] = 0 /\ hd \in [Threads -> Streams \cup {NoStream}]
    <2>1. todo \in [Threads -> Nat] /\ hd \in [Threads -> Streams \cup {NoStream}]
      BY DEF TypeOK
    <2>2. ~(todo[t] > 0)
      BY <1>1 DEF ControlInv, FlushPlaces
    <2> QED BY <2>1, <2>2
  <1>3. PICK n \in Nat \ {0} :
           /\ Taken + n <= MaxSamples
           /\ batch' = [batch EXCEPT ![t] = n > 1]
           /\ Moves(t, "append", IF n = 1 THEN slot_find(hd[t]) ELSE 0, hd[t], n)
           /\ n = 1 => slot_find(hd[t]) # 0
    <2>1. hd' = [hd EXCEPT ![t] = hd[t]]
      BY <1>2 DEF CallAppend
    <2>2. BatchSizes \subseteq Nat \ {0}
      BY TsConstants
    <2> QED BY <2>1, <2>2 DEF CallAppend, Moves, Go
  <1> DEFINE i == IF n = 1 THEN slot_find(hd[t]) ELSE 0
  <1>4. /\ UNCHANGED <<disk, slots, blocks, pending, sem, queued, released, lock, hd, drain, made,
                       boots, fails, log, gone, owed, unheard>>
    BY DEF CallAppend, flushVars, sysVars, sampleVars
  <1>5. i \in 0..MaxStreams /\ (n = 1 => i \in Open(hd[t]))
    BY <1>3, FindSlot, TsConstants DEF Slots
  <1>6. batch \in [Threads -> BOOLEAN] /\ batch' \in [Threads -> BOOLEAN]
        /\ (batch'[t] <=> n > 1) /\ \A u \in Threads : u # t => batch'[u] = batch[u]
    <2>1. batch \in [Threads -> BOOLEAN] /\ (n > 1) \in BOOLEAN
      BY DEF TypeOK
    <2> QED BY <1>3, <2>1, Zenon
  <1>7. ~batch'[t] => n = 1
    <2>1. ~(n > 1) => n = 1
      OBVIOUS
    <2> QED BY <1>6, <2>1
  <1> HIDE DEF i
  <1>8. Moves(t, "append", i, hd[t], n)
    BY <1>3 DEF i
  <1>9. TypeOK'
    BY <1>2, <1>4, <1>5, <1>6, <1>8 DEF TypeOK, Moves, Places
  <1>10. BoundInv'
    <2>1. todo' = [todo EXCEPT ![t] = n]
      BY <1>8 DEF Moves
    <2>2. ToDo(todo') = ToDo(todo) - todo[t] + n /\ ToDo(todo) \in Nat
      BY <1>2, <2>1, ToDoChange DEF TsAssumptions
    <2>3. made \in Nat /\ MaxSamples \in Nat
      BY TsConstants DEF TypeOK
    <2> QED BY <1>2, <1>3, <1>4, <2>2, <2>3, TakenIs DEF BoundInv
  <1>11. ControlInv'
    BY <1>1, <1>4, <1>8, MovesTo DEF ControlInv, FlushPlaces, Opening
  <1>12. PlaceInv'
    BY <1>1, <1>4, <1>5, <1>6, <1>7, <1>8, MovesTo DEF PlaceInv, FlushPlaces, Open
  <1>13. SlotInv'
    BY <1>1, <1>4, <1>8, MovesTo DEF SlotInv, Open, Opening
  <1>14. \A r : Handles(r)' = Handles(r)
    BY <1>1, <1>4, <1>8, MovesTo, HandlesSame DEF Moves, TypeOK
  <1>15. CountInv' /\ HeaderInv'
    BY <1>4, <1>14 DEF CountInv, HeaderInv
  <1>16. EventInv'
    BY <1>4, <1>8, MovesTo DEF EventInv
  <1>17. SyncInv'
    BY <1>4, <1>8, MovesTo, QuietSync DEF Moves, SyncPlaces
  <1> QED
    BY <1>9, <1>10, <1>11, <1>12, <1>13, <1>15, <1>16, <1>17

(* A thread takes the lock, to work on the slot of its stream. *)
LEMMA TakesLock ==
  ASSUME TsInv, NEW t \in Threads, pc[t] \in {"idle", "append"}, lock = NoActor,
         NEW p \in {"write", "flushed"}, NEW i \in Open(hd[t]),
         hd[t] # NoStream, \A u \in Threads : ~Opening(u),
         Moves(t, p, i, hd[t], todo[t]), lock' = t,
         p = "flushed" /\ todo[t] > 0 => Len(slots[i].buf) < Capacity,
         UNCHANGED <<disk, slots, blocks, pending, sem, queued, released, hd, todo, batch, drain, made,
                     boots, fails, log, gone, owed, unheard>>
  PROVE  TsInv'
  <1> USE DEF TsInv, StoreInv
  <1>1. i \in Slots /\ slots[i].used /\ slots[i].name = hd[t]
    BY DEF Open
  <1>2. slots[i].scanned
    BY DEF SlotInv
  <1>3. TypeOK'
    <2>1. i \in 0..MaxStreams
      BY <1>1, TsConstants DEF Slots
    <2>2. t \in Actors /\ p \in Places
      BY DEF Actors, Places
    <2> QED BY <2>1, <2>2 DEF TypeOK, Moves
  <1>4. BoundInv'
    BY DEF BoundInv
  <1>5. pc[Worker] \in {"idle", "work"}
    BY MovesTo DEF ControlInv
  <1>6. ControlInv'
    BY MovesTo DEF ControlInv, FlushPlaces, Opening
  <1>7. PlaceInv'
    BY <1>1, <1>2, MovesTo DEF PlaceInv, FlushPlaces, Open
  <1>8. SlotInv'
    BY MovesTo DEF SlotInv, Open, Opening
  <1>13. /\ pc \in [Actors -> Places] /\ p \notin SyncPlaces \cup {"synced", "join", "claim"}
         /\ pc[t] \notin {"join", "claim"} /\ pc' = [pc EXCEPT ![t] = p]
    BY DEF TypeOK, SyncPlaces, Moves
  <1>9. \A r : Handles(r)' = Handles(r)
    BY <1>13, MovesTo, HandlesSame
  <1>10. CountInv' /\ HeaderInv'
    BY <1>9 DEF CountInv, HeaderInv
  <1>11. EventInv'
    BY <1>5, MovesTo DEF EventInv, FlushPlaces
  <1>12. SyncInv'
    BY <1>13, MovesTo, QuietSync
  <1> QED
    BY <1>3, <1>4, <1>6, <1>7, <1>8, <1>10, <1>11, <1>12

LEMMA AppendLockStep ==
  ASSUME TsAssumptions, TsInv, NEW t \in Threads, AppendLock(t)
  PROVE  TsInv'
  <1> USE DEF TsInv, StoreInv
  <1> DEFINE i == IF batch[t] THEN slot_find(hd[t]) ELSE at[t]
             p == Room(slots[i])
  <1>1. pc[t] = "append" /\ lock = NoActor
    BY DEF AppendLock
  <1>2. hd[t] # NoStream /\ \A u \in Threads : ~Opening(u)
    BY <1>1 DEF ControlInv, Opening
  <1>3. i \in Open(hd[t])
    <2>1. Open(hd[t]) # {}
      BY <1>1, <1>2 DEF SlotInv
    <2> QED BY <1>1, <2>1, FindSlot DEF PlaceInv
  <1>4. i # 0
    BY <1>3, SlotsFinite DEF Open, Slots
  <1>5. Moves(t, p, i, hd[t], todo[t]) /\ lock' = t
        /\ UNCHANGED <<disk, slots, blocks, pending, sem, queued, released, hd, todo, batch, drain, made,
                       boots, fails, log, gone, owed, unheard>>
    <2>1. todo \in [Threads -> Nat] /\ hd \in [Threads -> Streams \cup {NoStream}]
      BY DEF TypeOK
    <2>2. [todo EXCEPT ![t] = todo[t]] = todo /\ [hd EXCEPT ![t] = hd[t]] = hd
      BY <2>1
    <2>3. /\ pc' = [pc EXCEPT ![t] = p] /\ at' = [at EXCEPT ![t] = i] /\ lock' = t
          /\ UNCHANGED <<disk, slots, blocks, pending, sem, queued, released, hd, todo, batch, drain,
                         made, boots, fails, log, gone, owed, unheard>>
      BY <1>4 DEF AppendLock, Go, flushVars, sysVars, sampleVars
    <2> QED BY <2>2, <2>3 DEF Moves
  <1>6. p \in {"write", "flushed"} /\ (p = "flushed" => Len(slots[i].buf) < Capacity)
    <2>1. i \in Slots
      BY <1>3 DEF Open
    <2>2. slots[i].buf \in Seq(Samples) /\ Len(slots[i].buf) \in Nat /\ Capacity \in Nat
      BY <2>1, TsConstants, SMTT(30) DEF TypeOK, Slot
    <2> HIDE DEF i
    <2> QED BY <2>2 DEF Room, Full
  <1> HIDE DEF i, p
  <1> QED BY <1>1, <1>2, <1>3, <1>5, <1>6, TakesLock

LEMMA CallCloseStep ==
  ASSUME TsAssumptions, TsInv, NEW t \in Threads, CallClose(t)
  PROVE  TsInv'
  <1> USE DEF TsInv, StoreInv
  <1> DEFINE i == slot_find(hd[t])
             p == IF slots[i].count <= 1 THEN "write" ELSE "flushed"
  <1>1. pc[t] = "idle" /\ lock = NoActor /\ hd[t] # NoStream /\ \A u \in Threads : ~Opening(u)
    BY DEF CallClose, MayCall, Calling, TsAssumptions
  <1>2. i \in Open(hd[t]) /\ i # 0
    <2>1. Open(hd[t]) # {}
      BY <1>1 DEF SlotInv
    <2> QED BY <2>1, FindSlot, SlotsFinite DEF Slots
  <1>3. todo \in [Threads -> Nat] /\ hd \in [Threads -> Streams \cup {NoStream}]
    BY DEF TypeOK
  <1>4. Moves(t, p, i, hd[t], todo[t]) /\ lock' = t
        /\ UNCHANGED <<disk, slots, blocks, pending, sem, queued, released, hd, todo, batch, drain, made,
                       boots, fails, log, gone, owed, unheard>>
    <2>2. [todo EXCEPT ![t] = todo[t]] = todo /\ [hd EXCEPT ![t] = hd[t]] = hd
      BY <1>3
    <2>3. /\ pc' = [pc EXCEPT ![t] = p] /\ at' = [at EXCEPT ![t] = i] /\ lock' = t
          /\ UNCHANGED <<disk, slots, blocks, pending, sem, queued, released, hd, todo, batch, drain,
                         made, boots, fails, log, gone, owed, unheard>>
      BY <1>2 DEF CallClose, Go, flushVars, sysVars, sampleVars
    <2> QED BY <2>2, <2>3 DEF Moves
  <1>5. p \in {"write", "flushed"} /\ ~(todo[t] > 0)
    BY <1>1 DEF ControlInv, FlushPlaces
  <1> HIDE DEF i, p
  <1> QED BY <1>1, <1>2, <1>4, <1>5, TakesLock

LEMMA BatchFullStep ==
  ASSUME TsAssumptions, TsInv, NEW t \in Threads, BatchFull(t)
  PROVE  TsInv'
  <1> USE DEF TsInv, StoreInv
  <1> DEFINE p == IF Full(slots[at[t]]) THEN "async" ELSE "idle"
  <1>1. pc[t] = "full" /\ p \in {"async", "idle"}
    BY DEF BatchFull
  <1>2. hd[t] # NoStream /\ \A u \in Threads : ~Opening(u)
    BY <1>1 DEF ControlInv, Opening
  <1>3. Moves(t, p, 0, hd[t], todo[t])
        /\ UNCHANGED <<disk, slots, blocks, pending, sem, queued, released, lock, hd, todo, drain, made,
                       boots, fails, log, gone, owed, unheard>>
    <2>1. todo \in [Threads -> Nat] /\ hd \in [Threads -> Streams \cup {NoStream}]
      BY DEF TypeOK
    <2>2. [todo EXCEPT ![t] = todo[t]] = todo /\ [hd EXCEPT ![t] = hd[t]] = hd
      BY <2>1
    <2>3. /\ pc' = [pc EXCEPT ![t] = p] /\ at' = [at EXCEPT ![t] = 0]
          /\ UNCHANGED <<disk, slots, blocks, pending, sem, queued, released, lock, hd, todo, drain,
                         made, boots, fails, log, gone, owed, unheard>>
      BY DEF BatchFull, Go, flushVars, sysVars, sampleVars
    <2> QED BY <2>2, <2>3 DEF Moves
  <1>4. batch' \in [Threads -> BOOLEAN] /\ \A u \in Threads : u # t => batch'[u] = batch[u]
    <2>1. batch \in [Threads -> BOOLEAN]
      BY DEF TypeOK
    <2> QED BY <2>1 DEF BatchFull
  <1> HIDE DEF p
  <1>5. TypeOK'
    <2>1. 0 \in 0..MaxStreams /\ p \in Places
      BY <1>1, TsConstants DEF Places
    <2> QED BY <1>3, <1>4, <2>1 DEF TypeOK, Moves
  <1>6. BoundInv'
    BY <1>3 DEF BoundInv
  <1>7. ControlInv'
    BY <1>1, <1>2, <1>3, MovesTo DEF ControlInv, FlushPlaces, Opening
  <1>8. PlaceInv'
    BY <1>1, <1>3, <1>4, MovesTo DEF PlaceInv, FlushPlaces, Open
  <1>9. SlotInv'
    BY <1>1, <1>3, MovesTo DEF SlotInv, Open, Opening
  <1>14. /\ pc \in [Actors -> Places] /\ p \notin SyncPlaces \cup {"synced", "join", "claim"}
         /\ pc[t] \notin {"join", "claim"} /\ pc' = [pc EXCEPT ![t] = p]
    BY <1>1, <1>3 DEF TypeOK, SyncPlaces, Moves
  <1>10. \A r : Handles(r)' = Handles(r)
    BY <1>3, <1>14, MovesTo, HandlesSame
  <1>11. CountInv' /\ HeaderInv'
    BY <1>3, <1>10 DEF CountInv, HeaderInv
  <1>12. EventInv'
    BY <1>3, MovesTo DEF EventInv
  <1>13. SyncInv'
    BY <1>3, <1>14, MovesTo, QuietSync
  <1> QED
    BY <1>5, <1>6, <1>7, <1>8, <1>9, <1>11, <1>12, <1>13

--------------------------------------------------------------------------------
(* Steps of a flush *)

LEMMA ActorsAre ==
  /\ Worker \in Actors /\ Worker \notin Threads /\ Threads \subseteq Actors
  /\ NoActor \notin Actors /\ \A a \in Actors : a # Worker => a \in Threads
  BY TsConstants DEF Actors

(* The owner of the lock writes its slot and goes on with its flush. *)
FlushMoves(a, p, x) ==
  /\ pc' = [pc EXCEPT ![a] = p]
  /\ slots' = [slots EXCEPT ![at[a]] = x]
  /\ UNCHANGED <<blocks, pending, sem, queued, released, lock, at, hd, todo, batch, drain, made,
                 boots, log, owed>>

LEMMA FlushStore ==
  ASSUME StoreInv, NEW a \in Actors, pc[a] \in FlushPlaces,
         NEW p \in {"roll", "discard", "flushed", "flush_failed"}, NEW x \in Slot,
         FlushMoves(a, p, x),
         x.used, x.scanned, x.name = slots[at[a]].name, x.count = slots[at[a]].count,
         Len(x.buf) <= Capacity,
         p \in {"roll", "discard"} => x.buf = <<>>, p = "discard" => TooMany(x),
         p = "flushed" => Len(x.buf) < Capacity,
         FilesOK(disk'),
         "header" \notin Faults => FilesHeaded(disk') /\ NewestHeaded(disk', slots'),
         gone' \subseteq Samples, fails' \in 0..MaxFails, unheard' \in Int
  PROVE  StoreInv'
  <1> USE DEF StoreInv, FlushMoves
  <1>1. at[a] \in Slots /\ slots[at[a]].used /\ slots[at[a]].scanned /\ lock = a
    BY DEF PlaceInv, ControlInv
  <1>2. /\ pc \in [Actors -> Places] /\ slots \in [Slots -> Slot] /\ p \in Places
        /\ pc'[a] = p /\ slots'[at[a]] = x
        /\ \A b \in Actors : b # a => pc'[b] = pc[b]
        /\ \A i \in Slots : i # at[a] => slots'[i] = slots[i]
    BY <1>1 DEF TypeOK, Places
  <1>3. \A i \in Slots : /\ slots'[i].used = slots[i].used
                         /\ slots'[i].name = slots[i].name
                         /\ slots'[i].count = slots[i].count
                         /\ slots'[i].scanned = slots[i].scanned
    BY <1>1, <1>2
  <1>4. \A s : Open(s)' = Open(s)
    BY <1>3 DEF Open
  <1>5. TypeOK'
    <2>1. slots' \in [Slots -> Slot] /\ \A i \in Slots : Len(slots'[i].buf) <= Capacity
      BY <1>1, <1>2 DEF TypeOK
    <2> QED BY <1>2, <2>1 DEF TypeOK, FilesOK
  <1>6. BoundInv'
    BY DEF BoundInv, FilesOK
  <1>7. ControlInv'
    BY <1>1, <1>2, ActorsAre DEF ControlInv, FlushPlaces, Opening
  <1>8. \A b \in Actors : b # a => pc[b] \notin FlushPlaces
    BY <1>1 DEF ControlInv
  <1>9. PlaceInv'
    <2>1. /\ \A b \in Actors : pc'[b] \in FlushPlaces =>
                at'[b] \in Slots /\ slots'[at'[b]].used /\ slots'[at'[b]].scanned
          /\ \A b \in Actors : pc'[b] \in {"roll", "discard"} => slots'[at'[b]].buf = <<>>
          /\ \A b \in Actors : pc'[b] = "discard" => TooMany(slots'[at'[b]])
          /\ \A t \in Threads : pc'[t] = "flushed" /\ todo'[t] > 0 =>
                Len(slots'[at'[t]].buf) < Capacity
      BY <1>1, <1>2, <1>8, ActorsAre DEF FlushPlaces
    <2>2. ASSUME NEW t \in Threads,
                 \/ pc'[t] \in FlushPlaces \cup {"full", "join"}
                 \/ pc'[t] = "append" /\ ~batch'[t]
          PROVE  at'[t] \in Open(hd[t])
      BY <1>2, <2>2, ActorsAre DEF PlaceInv, FlushPlaces
    <2>3. ASSUME NEW t \in Threads, pc'[t] = "claim"
          PROVE  at'[t] \in Slots /\ ~slots'[at'[t]].used /\ Open(hd[t]) = {}
      BY <1>2, <1>3, <2>3, ActorsAre DEF PlaceInv, FlushPlaces
    <2> QED BY <1>4, <2>1, <2>2, <2>3 DEF PlaceInv
  <1>10. SlotInv'
    <2>1. \A i \in Slots : ~slots'[i].used => slots'[i] = FreeSlot
      BY <1>1, <1>2 DEF SlotInv
    <2>2. \A i \in Slots : slots'[i].buf # <<>> => slots'[i].scanned
      BY <1>1, <1>2 DEF SlotInv
    <2>3. \A t \in Threads : /\ Opening(t)' <=> Opening(t)
                             /\ pc'[t] \in {"join", "claim"} <=> pc[t] \in {"join", "claim"}
      BY <1>2, ActorsAre DEF Opening, FlushPlaces
    <2> QED BY <1>3, <1>4, <2>1, <2>2, <2>3 DEF SlotInv
  <1>11. \A r : Handles(r)' = Handles(r)
    BY <1>2, HandlesSame DEF FlushPlaces
  <1>12. CountInv'
    <2>1. {i \in Slots : slots'[i].used} = {i \in Slots : slots[i].used}
      BY <1>3
    <2> QED BY <1>3, <1>11, <2>1 DEF CountInv
  <1>13. HeaderInv'
    BY <1>3, <1>11 DEF HeaderInv
  <1> QED
    BY <1>5, <1>6, <1>7, <1>9, <1>10, <1>12, <1>13

(* The flush of one slot within the drain of all of them. *)
LEMMA DrainSync ==
  ASSUME StoreInv, SyncInv, NEW p \in FlushPlaces \cup {"drain"}, p # "write",
         pc[Worker] \in FlushPlaces, pc' = [pc EXCEPT ![Worker] = p],
         made' = made, owed' = owed, pending' = pending, drain'.next = drain.next,
         \A i \in Slots : Range(slots'[i].buf) \subseteq Range(slots[i].buf),
         "write" \notin Faults /\ pc[Worker] = "write" => Range(slots'[at[Worker]].buf) = {}
  PROVE  SyncInv'
  <1> USE DEF StoreInv
  <1> SUFFICES ASSUME Faults \cap {"write", "submit"} = {} PROVE SyncInv'
    BY DEF SyncInv
  <1>1. pc \in [Actors -> Places]
    BY DEF TypeOK
  <1>2. \A t \in Threads : pc'[t] = pc[t]
    BY <1>1, ActorsAre
  <1>3. pc'[Worker] = p
    BY <1>1, ActorsAre
  <1>4. Buffered' \subseteq Buffered
    BY DEF Buffered
  <1>5. ASSUME NEW t \in Threads, pc'[t] \in SyncPlaces,
               NEW i \in Slots, owed[t] \cap Range(slots'[i].buf) # {}
        PROVE  i >= drain.next
    <2>1. "write" \notin Faults
      OBVIOUS
    <2>2. pc[t] \in SyncPlaces /\ owed[t] \cap Range(slots[i].buf) # {}
      BY <1>2, <1>5
    <2>3. i >= drain.next \/ (pc[Worker] = "write" /\ i = at[Worker])
      BY <2>2 DEF SyncInv
    <2> QED BY <1>5, <2>1, <2>3
  <1> QED
    BY <1>2, <1>3, <1>4, <1>5 DEF SyncInv

(* A file with a header is written, the newest of its stream or an older one. *)
LEMMA PutHeaded ==
  ASSUME StoreInv, "header" \notin Faults, NEW s \in Streams, NEW n \in Nat, NEW f \in Segment,
         f.hdr, NEW i \in Slots, NEW x, x.name = s /\ x.cur = n
  PROVE  FilesHeaded(Put(s, n, f)) /\ NewestHeaded(Put(s, n, f), [slots EXCEPT ![i] = x])
  <1> DEFINE d == Put(s, n, f)
  <1>1. DOMAIN disk = Streams /\ FilesHeaded(disk) /\ NewestHeaded(disk, slots)
    BY DEF StoreInv, TypeOK, HeaderInv
  <1>2. \A u \in Streams : u # s => d[u] = disk[u]
    BY <1>1 DEF Put
  <1>3. d[s] = [m \in DOMAIN disk[s] \cup {n} |-> IF m = n THEN f ELSE disk[s][m]]
    BY <1>1 DEF Put
  <1> HIDE DEF d
  <1>4. FilesHeaded(d)
    BY <1>1, <1>2, <1>3 DEF FilesHeaded
  <1>5. NewestHeaded(d, [slots EXCEPT ![i] = x])
    <2> SUFFICES ASSUME NEW j \in Slots, [slots EXCEPT ![i] = x][j].used,
                        [slots EXCEPT ![i] = x][j].scanned
                 PROVE  LET y == [slots EXCEPT ![i] = x][j]
                        IN  y.cur \in DOMAIN d[y.name] /\ d[y.name][y.cur].hdr
      BY DEF NewestHeaded
    <2>1. slots \in [Slots -> Slot]
      BY DEF StoreInv, TypeOK
    <2>2. CASE j = i
      BY <1>3, <2>1, <2>2
    <2>3. CASE j # i
      <3>1. [slots EXCEPT ![i] = x][j] = slots[j]
        BY <2>1, <2>3
      <3>2. slots[j].used /\ slots[j].scanned /\ slots[j].name \in Streams
        BY <3>1 DEF StoreInv, SlotInv
      <3>3. slots[j].cur \in DOMAIN disk[slots[j].name] /\ disk[slots[j].name][slots[j].cur].hdr
        BY <1>1, <3>2 DEF NewestHeaded
      <3> QED BY <1>2, <1>3, <3>1, <3>2, <3>3
    <2> QED BY <2>2, <2>3
  <1> QED BY <1>4, <1>5 DEF d

LEMMA FilesNow == ASSUME StoreInv PROVE FilesOK(disk)
  BY DEF StoreInv, TypeOK, BoundInv, FilesOK

(* The slot of an actor inside a flush, and its newest file. *)
LEMMA FlushSlot ==
  ASSUME StoreInv, NEW a \in Actors, pc[a] \in FlushPlaces
  PROVE  LET sl == slots[at[a]]
         IN  /\ at[a] \in Slots /\ lock = a
             /\ sl \in Slot /\ sl.used /\ sl.scanned /\ sl.name \in Streams
             /\ sl.buf \in Seq(Samples) /\ Len(sl.buf) \in Nat /\ Len(sl.buf) <= Capacity
             /\ sl.cur \in Nat /\ sl.oldest \in Nat /\ sl.bytes \in Nat /\ sl.pend \in Nat
             /\ FileAt(sl.name, sl.cur) \in Segment
             /\ "header" \notin Faults => FileAt(sl.name, sl.cur).hdr
             /\ [slots EXCEPT ![at[a]] = sl] = slots
  <1> DEFINE sl == slots[at[a]]
  <1>1. at[a] \in Slots /\ lock = a /\ sl.used /\ sl.scanned
    BY DEF StoreInv, PlaceInv, ControlInv
  <1>2. slots \in [Slots -> Slot] /\ Len(sl.buf) <= Capacity
    BY <1>1 DEF StoreInv, TypeOK
  <1>3. sl \in Slot /\ [slots EXCEPT ![at[a]] = sl] = slots
    BY <1>1, <1>2
  <1>4. sl.name \in Streams
    BY <1>1 DEF StoreInv, SlotInv
  <1>5. FileAt(sl.name, sl.cur) \in Segment
    BY <1>4, FileType DEF StoreInv
  <1>6. "header" \notin Faults => FileAt(sl.name, sl.cur).hdr
    BY <1>1 DEF StoreInv, HeaderInv, NewestHeaded, FileAt
  <1>7. /\ sl.buf \in Seq(Samples) /\ Len(sl.buf) \in Nat
        /\ sl.cur \in Nat /\ sl.oldest \in Nat /\ sl.bytes \in Nat /\ sl.pend \in Nat
    BY <1>3 DEF Slot
  <1> QED
    BY <1>1, <1>2, <1>3, <1>4, <1>5, <1>6, <1>7

LEMMA AddNat == ASSUME NEW m \in Nat, NEW n \in Nat PROVE m + n \in Nat
  OBVIOUS
LEMMA AddSum ==
  ASSUME NEW m \in Nat, NEW n \in Nat, NEW k \in Nat, NEW j \in Nat
  PROVE  (m + k) + n = (m - j + (j + n)) + k
  OBVIOUS

(* A write that was not completed leaves the files in order. *)
LEMMA PartFiles ==
  ASSUME StoreInv, NEW a \in Actors, pc[a] \in FlushPlaces, NEW d \in PartWritten(slots[at[a]])
  PROVE  /\ FilesOK(d)
         /\ "header" \notin Faults => FilesHeaded(d) /\ NewestHeaded(d, slots)
  <1> DEFINE sl == slots[at[a]]
             f == FileAt(sl.name, sl.cur)
  <1>1. /\ at[a] \in Slots /\ sl.name \in Streams /\ sl.buf \in Seq(Samples) /\ sl.cur \in Nat
        /\ Len(sl.buf) \in Nat /\ f \in Segment /\ ("header" \notin Faults => f.hdr)
        /\ [slots EXCEPT ![at[a]] = sl] = slots
    BY FlushSlot
  <1>2. CASE d = disk
    BY <1>2, FilesNow DEF StoreInv, HeaderInv
  <1>3. CASE d # disk
    <2>1. PICK n \in 0..Len(sl.buf), b \in BOOLEAN :
             d = Put(sl.name, sl.cur,
                     IF f.torn THEN f
                     ELSE [f EXCEPT !.recs = f.recs \o SubSeq(sl.buf, 1, n),
                                    !.torn = b /\ n < Len(sl.buf)])
      BY <1>3 DEF PartWritten
    <2> DEFINE g == IF f.torn THEN f
                    ELSE [f EXCEPT !.recs = f.recs \o SubSeq(sl.buf, 1, n),
                                   !.torn = b /\ n < Len(sl.buf)]
    <2>2. g \in Segment /\ ("header" \notin Faults => g.hdr)
      <3>1. f.recs \in Seq(Samples \cup {Bad}) /\ SubSeq(sl.buf, 1, n) \in Seq(Samples)
        BY <1>1 DEF Segment
      <3>2. f.recs \o SubSeq(sl.buf, 1, n) \in Seq(Samples \cup {Bad})
        BY <3>1
      <3> QED BY <1>1, <3>2 DEF Segment
    <2> HIDE DEF g
    <2>3. d = Put(sl.name, sl.cur, g)
      BY <2>1 DEF g
    <2>4. FilesOK(d)
      BY <1>1, <2>2, <2>3, FilesNow, PutFiles
    <2>5. "header" \notin Faults => FilesHeaded(d) /\ NewestHeaded(d, slots)
      BY <1>1, <2>2, <2>3, PutHeaded
    <2> QED BY <2>4, <2>5
  <1> QED BY <1>2, <1>3

LEMMA FlushWriteStep ==
  ASSUME TsInv, NEW a \in Actors, FlushWrite(a)
  PROVE  TsInv'
  <1> USE DEF TsInv
  <1> DEFINE sl == slots[at[a]]
             f == FileAt(sl.name, sl.cur)
             bytes == sl.bytes + Len(sl.buf)
             x == [sl EXCEPT !.buf = <<>>, !.bytes = bytes, !.pend = sl.pend + Len(sl.buf)]
  <1>1. pc[a] = "write" /\ pc[a] \in FlushPlaces
    BY DEF FlushWrite, FlushPlaces
  <1>2. /\ at[a] \in Slots /\ lock = a
        /\ sl \in Slot /\ sl.used /\ sl.scanned /\ sl.name \in Streams
        /\ sl.buf \in Seq(Samples) /\ Len(sl.buf) \in Nat /\ Len(sl.buf) <= Capacity
        /\ sl.cur \in Nat /\ sl.bytes \in Nat /\ sl.pend \in Nat
        /\ f \in Segment /\ ("header" \notin Faults => f.hdr)
    BY <1>1, FlushSlot
  <1>8. [slots EXCEPT ![at[a]] = sl] = slots
    BY <1>1, FlushSlot
  <1>3. /\ gone \subseteq Samples /\ fails \in 0..MaxFails /\ unheard \in Int /\ Capacity > 0
        /\ slots \in [Slots -> Slot]
        /\ gone' = gone /\ made' = made /\ owed' = owed /\ pending' = pending /\ drain' = drain
        /\ at' = at /\ lock' = lock /\ released' = released
    <2>1. Capacity > 0
      BY TsConstants
    <2>2. /\ gone \subseteq Samples /\ fails \in 0..MaxFails /\ unheard \in Int
          /\ slots \in [Slots -> Slot]
      BY DEF StoreInv, TypeOK
    <2>3. /\ gone' = gone /\ made' = made /\ owed' = owed /\ pending' = pending /\ drain' = drain
          /\ at' = at /\ lock' = lock /\ released' = released
      BY DEF FlushWrite, flushVars, callVars, sampleVars
    <2> QED BY <2>1, <2>2, <2>3
  <1>4. FilesOK(disk)
    BY FilesNow
  (* Nothing was buffered. *)
  <1>5. CASE sl.buf = <<>> /\ UNCHANGED <<disk, slots, unheard, fails>> /\ Go(a, "flushed")
    <2>1. FlushMoves(a, "flushed", sl)
      BY <1>5, <1>8 DEF FlushWrite, FlushMoves, Go, flushVars, callVars, sampleVars
    <2>2. "header" \notin Faults => FilesHeaded(disk') /\ NewestHeaded(disk', slots')
      BY <1>5 DEF StoreInv, HeaderInv
    <2>3. StoreInv'
      BY <1>1, <1>2, <1>3, <1>4, <1>5, <2>1, <2>2, FlushStore
    <2>4. pc' = [pc EXCEPT ![a] = "flushed"]
      BY <1>5 DEF Go
    <2>5. pc \in [Actors -> Places]
      BY DEF StoreInv, TypeOK
    <2>6. EventInv'
      BY <1>1, <1>2, <1>3, <1>5, <2>4, <2>5, ActorsAre DEF EventInv, FlushPlaces
    <2>7. SyncInv'
      <3>1. CASE a = Worker
        BY <1>1, <1>2, <1>3, <1>5, <2>4, <3>1, DrainSync DEF FlushPlaces, Range
      <3>2. CASE a # Worker
        <4>1. "flushed" \notin SyncPlaces \cup {"synced"}
          BY DEF SyncPlaces
        <4> QED BY <1>3, <1>5, <2>4, <3>2, <4>1, QuietSync, ActorsAre
      <3> QED BY <3>1, <3>2
    <2> QED BY <2>3, <2>6, <2>7
  (* The buffer goes to the newest segment. *)
  <1>6. CASE /\ sl.buf # <<>>
             /\ disk' = Put(sl.name, sl.cur,
                            IF f.torn THEN f ELSE [f EXCEPT !.recs = f.recs \o sl.buf])
             /\ slots' = [slots EXCEPT ![at[a]] = x]
             /\ unheard' = unheard + Len(sl.buf)
             /\ Go(a, IF bytes >= SegmentRecords THEN "roll" ELSE "flushed")
             /\ fails' = fails
    <2> DEFINE p == IF bytes >= SegmentRecords THEN "roll" ELSE "flushed"
               g == IF f.torn THEN f ELSE [f EXCEPT !.recs = f.recs \o sl.buf]
    <2>1. FlushMoves(a, p, x) /\ p \in {"roll", "flushed"}
      BY <1>6 DEF FlushWrite, FlushMoves, Go, flushVars, callVars, sampleVars
    <2>2. g \in Segment /\ ("header" \notin Faults => g.hdr)
      <3>1. f.recs \in Seq(Samples \cup {Bad})
        BY <1>2 DEF Segment
      <3>2. f.recs \o sl.buf \in Seq(Samples \cup {Bad})
        BY <1>2, <3>1
      <3> QED BY <1>2, <3>2 DEF Segment
    <2>3. /\ x \in Slot /\ x.used /\ x.scanned /\ x.name = sl.name /\ x.count = sl.count
          /\ x.buf = <<>> /\ x.cur = sl.cur /\ x.pend = sl.pend + Len(sl.buf)
          /\ x.pend \in Nat
      <3>1. sl.bytes \in Nat /\ sl.pend \in Nat /\ Len(sl.buf) \in Nat
        BY <1>2
      <3>2. bytes \in Nat /\ sl.pend + Len(sl.buf) \in Nat
        BY <3>1, AddNat, Zenon
      <3>3. <<>> \in Seq(Samples)
        OBVIOUS
      <3> HIDE DEF bytes
      <3> QED BY <1>2, <3>2, <3>3 DEF Slot
    <2> HIDE DEF x, g, p
    <2>13. slots' = [slots EXCEPT ![at[a]] = x] /\ unheard' = unheard + Len(sl.buf)
           /\ fails' = fails
      BY <1>6
    <2>4. disk' = Put(sl.name, sl.cur, g)
      BY <1>6 DEF g
    <2>5. FilesOK(disk')
      BY <1>2, <1>4, <2>2, <2>4, PutFiles
    <2>6. "header" \notin Faults => FilesHeaded(disk') /\ NewestHeaded(disk', slots')
      BY <1>2, <2>2, <2>3, <2>4, <2>13, PutHeaded
    <2>7. unheard' \in Int /\ Len(x.buf) <= Capacity /\ Len(x.buf) < Capacity
      <3>1. Capacity \in Nat \ {0}
        BY TsConstants
      <3>2. Len(x.buf) = 0
        BY <2>3
      <3> QED BY <1>2, <1>3, <2>13, <3>1, <3>2
    <2>8. StoreInv'
      BY <1>1, <1>2, <1>3, <2>1, <2>3, <2>5, <2>6, <2>7, <2>13, FlushStore
    <2>9. pc' = [pc EXCEPT ![a] = p] /\ pc \in [Actors -> Places]
      BY <2>1 DEF FlushMoves, StoreInv, TypeOK
    <2>10. /\ slots'[at[a]] = x /\ \A i \in Slots : i # at[a] => slots'[i] = slots[i]
           /\ pc'[a] = p /\ \A b \in Actors : b # a => pc'[b] = pc[b]
      BY <1>2, <1>3, <2>9, <2>13
    <2>11. EventInv'
      <3>1. Pend(slots') = Pend(slots) - sl.pend + x.pend /\ Pend(slots) \in Nat
        <4>1. \A i \in Slots : slots[i].pend \in Nat
          BY <1>3 DEF Slot
        <4>2. \A i \in Slots : slots'[i].pend \in Nat
          BY <1>2, <2>3, <2>10, <4>1
        <4>3. \A i \in Slots : i # at[a] => slots'[i].pend = slots[i].pend
          BY <2>10
        <4>4. Pend(slots') = Pend(slots) - slots[at[a]].pend + slots'[at[a]].pend
          <5>1. at[a] \in Slots
            BY <1>2
          <5> QED BY <4>1, <4>2, <4>3, <5>1, PendChange, ZenonT(30)
        <4>5. Pend(slots) \in Nat
          BY <4>1, PendType
        <4> QED BY <2>10, <4>4, <4>5
      <3>2. drain \in [next : Nat, bytes : Nat, sum : Nat]
        BY DEF StoreInv, TypeOK
      <3>3. unheard' = Pend(slots') + drain'.sum
        <4>1. unheard = Pend(slots) + drain.sum /\ drain' = drain /\ drain.sum \in Nat
          BY <1>3, <3>2 DEF EventInv
        <4>2. sl.pend \in Nat /\ Len(sl.buf) \in Nat /\ x.pend = sl.pend + Len(sl.buf)
          BY <1>2, <2>3
        <4>3. unheard' = Pend(slots') + drain.sum
          <5>1. unheard' = (Pend(slots) + drain.sum) + Len(sl.buf)
            BY <2>13, <4>1, Zenon
          <5>2. Pend(slots') = Pend(slots) - sl.pend + (sl.pend + Len(sl.buf))
            BY <3>1, <4>2, Zenon
          <5>3. (Pend(slots) + drain.sum) + Len(sl.buf)
                  = (Pend(slots) - sl.pend + (sl.pend + Len(sl.buf))) + drain.sum
            <6>1. /\ Pend(slots) \in Nat /\ drain.sum \in Nat
                  /\ sl.pend \in Nat /\ Len(sl.buf) \in Nat
              BY <3>1, <4>1, <4>2, Zenon
            <6> QED BY <6>1, AddSum, SMTT(30)
          <5> QED BY <5>1, <5>2, <5>3, Zenon
        <4> QED BY <4>1, <4>3
      <3>4. CASE a = Worker
        BY <1>1, <1>2, <1>3, <2>1, <2>3, <2>10, <3>2, <3>3, <3>4, ActorsAre, SlotsFinite, SMTT(30)
           DEF EventInv, FlushPlaces
      <3>5. CASE a # Worker
        <4>1. pc[Worker] \in {"idle", "work"}
          BY <1>2, <3>5, ActorsAre DEF StoreInv, ControlInv
        <4> QED BY <1>2, <1>3, <2>10, <3>3, <3>5, <4>1, ActorsAre DEF EventInv, FlushPlaces
      <3> QED BY <3>4, <3>5
    <2>12. SyncInv'
      <3>1. \A i \in Slots : Range(slots'[i].buf) \subseteq Range(slots[i].buf)
        BY <2>3, <2>10 DEF Range
      <3>2. Range(slots'[at[a]].buf) = {}
        BY <2>3, <2>10 DEF Range
      <3>3. CASE a = Worker
        BY <1>1, <1>3, <2>1, <2>9, <3>1, <3>2, <3>3, DrainSync DEF FlushPlaces
      <3>4. CASE a # Worker
        <4>1. p \notin SyncPlaces \cup {"synced"}
          BY <2>1 DEF SyncPlaces
        <4> QED BY <1>3, <2>9, <3>1, <3>4, <4>1, QuietSync, ActorsAre
      <3> QED BY <3>3, <3>4
    <2> QED BY <2>8, <2>11, <2>12
  (* The write fails; some of the records may be in the file. *)
  <1>7. CASE Fault("write") /\ disk' \in PartWritten(sl) /\ Go(a, "flush_failed")
             /\ UNCHANGED <<slots, unheard>>
    <2>1. FlushMoves(a, "flush_failed", sl)
      BY <1>7, <1>8 DEF FlushWrite, FlushMoves, Go, flushVars, callVars, sampleVars
    <2>2. /\ FilesOK(disk')
          /\ "header" \notin Faults => FilesHeaded(disk') /\ NewestHeaded(disk', slots')
      BY <1>1, <1>7, PartFiles DEF FlushPlaces
    <2>3. fails' \in 0..MaxFails
      BY <1>3, <1>7, TsConstants DEF Fault
    <2>4. StoreInv'
      BY <1>1, <1>2, <1>3, <1>7, <2>1, <2>2, <2>3, FlushStore
    <2>5. pc' = [pc EXCEPT ![a] = "flush_failed"] /\ pc \in [Actors -> Places]
      BY <1>7 DEF Go, StoreInv, TypeOK
    <2>6. EventInv'
      BY <1>1, <1>2, <1>3, <1>7, <2>5, ActorsAre DEF EventInv, FlushPlaces
    <2>7. SyncInv'
      <3>1. "write" \in Faults
        BY <1>7 DEF Fault
      <3> QED BY <3>1 DEF SyncInv
    <2> QED BY <2>4, <2>6, <2>7
  <1> QED
    BY <1>5, <1>6, <1>7 DEF FlushWrite

LEMMA NewFiles ==
  /\ EmptyFile \in Segment /\ NewSegment \in Segment /\ NewSegment.hdr
  /\ \A b \in BOOLEAN : [EmptyFile EXCEPT !.torn = b] \in Segment
  <1>1. <<>> \in Seq(Samples \cup {Bad})
    OBVIOUS
  <1>2. EmptyFile \in Segment
    BY <1>1 DEF EmptyFile, Segment
  <1>3. NewSegment \in Segment /\ NewSegment.hdr
    BY <1>2 DEF NewSegment, Segment
  <1>4. \A b \in BOOLEAN : [EmptyFile EXCEPT !.torn = b] \in Segment
    BY <1>2 DEF Segment
  <1> QED BY <1>2, <1>3, <1>4

(* After the write, the rest of a flush leaves the records and what is to be    *)
(* reported alone.                                                              *)
LEMMA FlushEvents ==
  ASSUME TsInv, NEW a \in Actors, pc[a] \in {"roll", "discard"},
         NEW p \in {"discard", "flushed", "flush_failed"}, NEW x, FlushMoves(a, p, x),
         x.pend = slots[at[a]].pend, x.buf = slots[at[a]].buf, unheard' = unheard
  PROVE  EventInv' /\ SyncInv'
  <1> USE DEF TsInv, FlushMoves
  <1>1. pc \in [Actors -> Places] /\ slots \in [Slots -> Slot] /\ at[a] \in Slots /\ lock = a
    BY DEF StoreInv, TypeOK, PlaceInv, ControlInv, FlushPlaces
  <1>2. /\ pc'[a] = p /\ \A b \in Actors : b # a => pc'[b] = pc[b]
        /\ slots'[at[a]] = x /\ \A i \in Slots : i # at[a] => slots'[i] = slots[i]
    BY <1>1
  <1>3. \A i \in Slots : slots'[i].pend = slots[i].pend /\ slots'[i].buf = slots[i].buf
    BY <1>2
  <1>4. EventInv'
    <2>1. \A i \in Slots : slots[i].pend \in Nat
      BY <1>1 DEF Slot
    <2>2. Pend(slots') = Pend(slots)
      BY <1>3, <2>1, PendSame
    <2>3. CASE a = Worker
      BY <1>1, <1>2, <1>3, <2>2, <2>3, ActorsAre DEF EventInv, FlushPlaces
    <2>4. CASE a # Worker
      <3>1. pc[Worker] \in {"idle", "work"} /\ pc'[Worker] = pc[Worker]
        BY <1>1, <1>2, <2>4, ActorsAre DEF StoreInv, ControlInv
      <3> QED BY <1>3, <2>2, <3>1 DEF EventInv, FlushPlaces
    <2> QED BY <2>3, <2>4
  <1>5. SyncInv'
    <2>1. \A i \in Slots : Range(slots'[i].buf) \subseteq Range(slots[i].buf)
      BY <1>3
    <2>2. CASE a = Worker
      BY <2>1, <2>2, DrainSync DEF FlushPlaces
    <2>3. CASE a # Worker
      <3>1. p \notin SyncPlaces \cup {"synced"}
        BY DEF SyncPlaces
      <3> QED BY <2>1, <2>3, <3>1, QuietSync, ActorsAre
    <2> QED BY <2>2, <2>3
  <1> QED BY <1>4, <1>5

LEMMA StartSegmentStep ==
  ASSUME TsInv, NEW a \in Actors, StartSegment(a)
  PROVE  TsInv'
  <1> USE DEF TsInv
  <1> DEFINE sl == slots[at[a]]
             x == [sl EXCEPT !.cur = @ + 1, !.bytes = 0]
  <1>1. pc[a] = "roll" /\ pc[a] \in FlushPlaces
    BY DEF StartSegment, FlushPlaces
  <1>2. /\ at[a] \in Slots /\ lock = a
        /\ sl \in Slot /\ sl.used /\ sl.scanned /\ sl.name \in Streams
        /\ sl.cur \in Nat /\ sl.buf = <<>>
    BY <1>1, FlushSlot DEF StoreInv, PlaceInv
  <1>3. /\ x \in Slot /\ x.used /\ x.scanned /\ x.name = sl.name /\ x.count = sl.count
        /\ x.buf = <<>> /\ x.buf = sl.buf /\ x.cur = sl.cur + 1 /\ x.pend = sl.pend
        /\ x.cur \in Nat
    <2>1. sl.cur + 1 \in Nat /\ 0 \in Nat
      BY <1>2
    <2> QED BY <1>2, <2>1 DEF Slot
  <1>4. gone' = gone /\ unheard' = unheard /\ slots' = [slots EXCEPT ![at[a]] = x]
    BY DEF StartSegment, sampleVars
  <1>5. gone' \subseteq Samples /\ unheard' \in Int /\ fails \in 0..MaxFails
    BY <1>4 DEF StoreInv, TypeOK
  <1>6. Len(x.buf) <= Capacity /\ Len(x.buf) < Capacity
    <2>1. Capacity \in Nat \ {0}
      BY TsConstants
    <2>2. Len(x.buf) = 0
      BY <1>3
    <2> QED BY <2>1, <2>2
  <1>7. FilesOK(disk)
    BY FilesNow
  <1>8. CASE /\ disk' = Put(x.name, x.cur, NewSegment)
             /\ Go(a, IF TooMany(x) THEN "discard" ELSE "flushed")
             /\ fails' = fails
    <2> DEFINE p == IF TooMany(x) THEN "discard" ELSE "flushed"
    <2>1. FlushMoves(a, p, x) /\ p \in {"discard", "flushed"} /\ (p = "discard" => TooMany(x))
      BY <1>4, <1>8 DEF StartSegment, FlushMoves, Go, flushVars, callVars, sampleVars
    <2>2. NewSegment \in Segment /\ NewSegment.hdr
      BY NewFiles
    <2> HIDE DEF x, p
    <2>3. FilesOK(disk')
      BY <1>2, <1>3, <1>7, <1>8, <2>2, PutFiles
    <2>4. "header" \notin Faults => FilesHeaded(disk') /\ NewestHeaded(disk', slots')
      BY <1>2, <1>3, <1>4, <1>8, <2>2, PutHeaded
    <2>5. StoreInv'
      BY <1>1, <1>2, <1>3, <1>5, <1>6, <1>8, <2>1, <2>3, <2>4, FlushStore
    <2>6. EventInv' /\ SyncInv'
      BY <1>1, <1>3, <1>4, <2>1, FlushEvents
    <2> QED BY <2>5, <2>6
  <1>9. CASE Fault("header") /\ disk' \in HeaderFails(x.name, x.cur) /\ Go(a, "flush_failed")
    <2>1. FlushMoves(a, "flush_failed", x)
      BY <1>4, <1>9 DEF StartSegment, FlushMoves, Go, flushVars, callVars, sampleVars
    <2> HIDE DEF x
    <2>2. FilesOK(disk')
      <3>1. \A b \in BOOLEAN : [EmptyFile EXCEPT !.torn = b] \in Segment
        BY NewFiles
      <3>2. disk' = disk \/ \E b \in BOOLEAN : disk' = Put(x.name, x.cur, [EmptyFile EXCEPT !.torn = b])
        BY <1>9 DEF HeaderFails
      <3> QED BY <1>2, <1>3, <1>7, <3>1, <3>2, PutFiles
    <2>3. "header" \in Faults /\ fails' \in 0..MaxFails
      BY <1>5, <1>9, TsConstants DEF Fault
    <2>4. StoreInv'
      BY <1>1, <1>2, <1>3, <1>5, <1>6, <2>1, <2>2, <2>3, FlushStore
    <2>5. EventInv' /\ SyncInv'
      BY <1>1, <1>3, <1>4, <2>1, FlushEvents
    <2> QED BY <2>4, <2>5
  <1> QED
    BY <1>8, <1>9 DEF StartSegment

LEMMA DiscardOldestStep ==
  ASSUME TsInv, NEW a \in Actors, DiscardOldest(a)
  PROVE  TsInv'
  <1> USE DEF TsInv
  <1> DEFINE sl == slots[at[a]]
             x == [sl EXCEPT !.oldest = sl.oldest + 1]
             f == FileAt(sl.name, sl.oldest)
  <1>1. pc[a] = "discard" /\ pc[a] \in FlushPlaces
    BY DEF DiscardOldest, FlushPlaces
  <1>2. /\ at[a] \in Slots /\ lock = a
        /\ sl \in Slot /\ sl.used /\ sl.scanned /\ sl.name \in Streams
        /\ sl.cur \in Nat /\ sl.oldest \in Nat
    BY <1>1, FlushSlot
  <1>10. sl.buf = <<>> /\ TooMany(sl)
    BY <1>1 DEF StoreInv, PlaceInv
  <1>3. /\ x \in Slot /\ x.used /\ x.scanned /\ x.name = sl.name /\ x.count = sl.count
        /\ x.buf = <<>> /\ x.buf = sl.buf /\ x.cur = sl.cur /\ x.pend = sl.pend
    BY <1>2, <1>10 DEF Slot
  <1>4. unheard' = unheard /\ unheard' \in Int /\ fails \in 0..MaxFails /\ gone \subseteq Samples
    BY DEF DiscardOldest, StoreInv, TypeOK
  <1>5. [slots EXCEPT ![at[a]] = sl] = slots
    BY <1>1, FlushSlot
  <1>6. Len(sl.buf) <= Capacity /\ Len(sl.buf) < Capacity
    <2>1. Capacity \in Nat \ {0}
      BY TsConstants
    <2>2. Len(sl.buf) = 0
      BY <1>10
    <2> QED BY <2>1, <2>2
  <1>7. FilesOK(disk)
    BY FilesNow
  <1>8. CASE /\ disk' = [disk EXCEPT ![sl.name] = [n \in DOMAIN @ \ {sl.oldest} |-> @[n]]]
             /\ gone' = gone \cup (Range(f.recs) \ {Bad})
             /\ slots' = [slots EXCEPT ![at[a]] = x]
             /\ Go(a, IF TooMany(x) THEN "discard" ELSE "flushed")
             /\ fails' = fails
    <2> DEFINE p == IF TooMany(x) THEN "discard" ELSE "flushed"
    <2>1. FlushMoves(a, p, x) /\ p \in {"discard", "flushed"} /\ (p = "discard" => TooMany(x))
      BY <1>8 DEF DiscardOldest, FlushMoves, Go, flushVars, callVars
    <2>2. gone' \subseteq Samples
      <3>1. f \in Segment
        BY <1>2, FileType DEF StoreInv
      <3>2. f.recs \in Seq(Samples \cup {Bad})
        BY <3>1 DEF Segment
      <3> HIDE DEF f
      <3>3. Range(f.recs) \subseteq Samples \cup {Bad}
        BY <3>2 DEF Range
      <3> QED BY <1>4, <1>8, <3>3
    <2>3. sl.cur # sl.oldest
      <3>1. MaxSegments \in Nat \ {0, 1}
        BY TsConstants
      <3>2. sl.cur - sl.oldest + 1 > MaxSegments
        BY <1>10 DEF TooMany
      <3> QED BY <1>2, <3>1, <3>2
    <2>4. /\ DOMAIN disk' = Streams
          /\ \A s \in Streams : s # sl.name => disk'[s] = disk[s]
          /\ disk'[sl.name] = [n \in DOMAIN disk[sl.name] \ {sl.oldest} |-> disk[sl.name][n]]
      BY <1>2, <1>7, <1>8 DEF FilesOK
    <2>5. \A s \in Streams : /\ DOMAIN disk'[s] \subseteq DOMAIN disk[s]
                             /\ \A n \in DOMAIN disk'[s] : disk'[s][n] = disk[s][n]
      BY <2>4
    <2>6. FilesOK(disk')
      BY <1>7, <2>4, <2>5 DEF FilesOK
    <2>7. slots'[at[a]] = x /\ \A i \in Slots : i # at[a] => slots'[i] = slots[i]
      BY <1>2, <1>8 DEF StoreInv, TypeOK
    <2>8. ASSUME "header" \notin Faults PROVE FilesHeaded(disk') /\ NewestHeaded(disk', slots')
      <3>1. FilesHeaded(disk) /\ NewestHeaded(disk, slots)
        BY <2>8 DEF StoreInv, HeaderInv
      <3>2. FilesHeaded(disk')
        BY <2>5, <3>1 DEF FilesHeaded
      <3>3. ASSUME NEW i \in Slots, slots'[i].used, slots'[i].scanned
            PROVE  /\ slots'[i].cur \in DOMAIN disk'[slots'[i].name]
                   /\ disk'[slots'[i].name][slots'[i].cur].hdr
        <4>1. CASE i = at[a]
          <5>1. sl.cur \in DOMAIN disk[sl.name] /\ disk[sl.name][sl.cur].hdr
            BY <1>2, <3>1 DEF NewestHeaded
          <5>2. slots'[i].cur = sl.cur /\ slots'[i].name = sl.name
            BY <1>3, <2>7, <4>1
          <5>3. sl.cur \in DOMAIN disk'[sl.name] /\ disk'[sl.name][sl.cur] = disk[sl.name][sl.cur]
            BY <2>3, <2>4, <5>1, SMTT(30)
          <5> QED BY <5>1, <5>2, <5>3
        <4>2. CASE i # at[a]
          <5>1. slots'[i] = slots[i] /\ slots[i].used /\ slots[i].name \in Streams
            BY <2>7, <3>3, <4>2 DEF StoreInv, SlotInv
          <5>2. slots[i].name # sl.name
            BY <1>2, <4>2, <5>1 DEF StoreInv, SlotInv
          <5> QED BY <2>4, <3>1, <3>3, <5>1, <5>2 DEF NewestHeaded
        <4> QED BY <4>1, <4>2
      <3> QED BY <3>2, <3>3 DEF NewestHeaded
    <2> HIDE DEF x, p
    <2>9. fails' = fails /\ Len(x.buf) <= Capacity /\ Len(x.buf) < Capacity
      BY <1>3, <1>6, <1>8
    <2>10. StoreInv'
      BY <1>1, <1>2, <1>3, <1>4, <2>1, <2>2, <2>6, <2>8, <2>9, FlushStore
    <2>11. EventInv' /\ SyncInv'
      BY <1>1, <1>3, <1>4, <2>1, FlushEvents
    <2> QED BY <2>10, <2>11
  <1>9. CASE Fault("unlink") /\ Go(a, "flush_failed") /\ UNCHANGED <<disk, slots, gone>>
    <2>1. FlushMoves(a, "flush_failed", sl)
      BY <1>5, <1>9 DEF DiscardOldest, FlushMoves, Go, flushVars, callVars
    <2>2. fails' \in 0..MaxFails
      BY <1>4, <1>9, TsConstants DEF Fault
    <2>3. "header" \notin Faults => FilesHeaded(disk') /\ NewestHeaded(disk', slots')
      BY <1>9 DEF StoreInv, HeaderInv
    <2>4. FilesOK(disk') /\ gone' \subseteq Samples
      BY <1>4, <1>7, <1>9
    <2>5. StoreInv'
      BY <1>1, <1>2, <1>4, <1>6, <2>1, <2>2, <2>3, <2>4, FlushStore
    <2>6. EventInv' /\ SyncInv'
      BY <1>1, <1>4, <2>1, FlushEvents
    <2> QED BY <2>5, <2>6
  <1> QED
    BY <1>8, <1>9 DEF DiscardOldest

--------------------------------------------------------------------------------
(* Steps of the work handler *)

(* The slots stay as they are, what they recorded apart. *)
SameSlots ==
  /\ slots' \in [Slots -> Slot]
  /\ \A i \in Slots : /\ slots'[i].used = slots[i].used /\ slots'[i].name = slots[i].name
                      /\ slots'[i].count = slots[i].count /\ slots'[i].buf = slots[i].buf
                      /\ slots'[i].scanned = slots[i].scanned /\ slots'[i].cur = slots[i].cur
                      /\ slots'[i].oldest = slots[i].oldest /\ slots'[i].bytes = slots[i].bytes
  /\ \A i \in Slots : ~slots[i].used => slots'[i] = FreeSlot

LEMMA FreeSlotType == FreeSlot \in Slot /\ FreeSlot.pend = 0
  <1>1. <<>> \in Seq(Samples)
    OBVIOUS
  <1> QED BY <1>1 DEF FreeSlot, Slot

LEMMA SameSlotsIs ==
  ASSUME TypeOK, SlotInv, slots' = [i \in Slots |-> [slots[i] EXCEPT !.pend = 0]]
  PROVE  SameSlots
  <1>1. slots \in [Slots -> Slot]
    BY DEF TypeOK
  <1>2. \A i \in Slots : ~slots[i].used => slots'[i] = FreeSlot
    <2>1. [FreeSlot EXCEPT !.pend = 0] = FreeSlot
      BY FreeSlotType DEF Slot
    <2>2. \A i \in Slots : ~slots[i].used => slots[i] = FreeSlot
      BY DEF SlotInv
    <2>3. \A i \in Slots : slots'[i] = [slots[i] EXCEPT !.pend = 0]
      OBVIOUS
    <2> QED BY <2>1, <2>2, <2>3
  <1> QED BY <1>1, <1>2, ZenonT(30) DEF SameSlots, Slot

LEMMA WorkerStore ==
  ASSUME StoreInv, SameSlots, lock \in {NoActor, Worker}, lock' \in {NoActor, Worker},
         pc' \in [Actors -> Places], pc'[Worker] \in {"idle", "drain", "write"},
         pc'[Worker] # "idle" => lock' = Worker,
         \A t \in Threads : pc'[t] = pc[t] \/ (pc[t] = "sync_wait" /\ pc'[t] = "sync_woken"),
         at' \in [Actors -> 0..MaxStreams], \A t \in Threads : at'[t] = at[t],
         pc'[Worker] = "write" =>
            at'[Worker] \in Slots /\ slots[at'[Worker]].used /\ slots[at'[Worker]].scanned,
         drain' \in [next : Nat, bytes : Nat, sum : Nat], released' \in Nat, unheard' \in Int,
         pending' \in BOOLEAN, sem' \in 0..1, queued' \in BOOLEAN,
         UNCHANGED <<disk, blocks, hd, todo, batch, made, boots, fails, log, gone, owed>>
  PROVE  StoreInv'
  <1> USE DEF StoreInv
  <1>1. \A i \in Slots : /\ slots'[i].used = slots[i].used /\ slots'[i].name = slots[i].name
                         /\ slots'[i].count = slots[i].count /\ slots'[i].buf = slots[i].buf
                         /\ slots'[i].scanned = slots[i].scanned /\ slots'[i].cur = slots[i].cur
                         /\ (~slots[i].used => slots'[i] = FreeSlot)
    BY DEF SameSlots
  <1>2. slots' \in [Slots -> Slot]
    BY DEF SameSlots
  <1>3. \A s : Open(s)' = Open(s)
    BY <1>1 DEF Open
  <1>4. TypeOK'
    <2>1. lock' \in Actors \cup {NoActor}
      BY ActorsAre
    <2>2. \A i \in Slots : Len(slots'[i].buf) <= Capacity
      BY <1>1 DEF TypeOK
    <2> QED BY <1>2, <2>1, <2>2 DEF TypeOK
  <1>5. BoundInv'
    BY DEF BoundInv
  <1>6. \A t \in Threads : pc[t] \notin FlushPlaces \cup {"drain"}
    BY ActorsAre DEF ControlInv
  <1>7. ControlInv'
    <2>1. \A a \in Actors : pc'[a] \in FlushPlaces \cup {"drain"} => lock' = a
      BY <1>6, ActorsAre DEF FlushPlaces
    <2>2. /\ \A t \in Threads : pc'[t] \notin {"work", "drain"}
          /\ \A t \in Threads : pc'[t] = "append" => todo'[t] > 0
          /\ \A t \in Threads : pc'[t] # "idle" => hd'[t] # NoStream
          /\ \A t \in Threads : pc'[t] = "unpend" => "submit" \in Faults
          /\ \A t \in Threads : todo'[t] > 0 => pc'[t] \in FlushPlaces \cup {"append"}
      BY DEF ControlInv, FlushPlaces
    <2>3. \A t \in Threads : Opening(t)' => \A u \in Threads : u # t => pc'[u] = "idle"
      BY DEF ControlInv, Opening
    <2> QED BY <2>1, <2>2, <2>3 DEF ControlInv, FlushPlaces
  <1>8. PlaceInv'
    <2>1. /\ \A a \in Actors : pc'[a] \in FlushPlaces => a = Worker /\ pc'[a] = "write"
      BY <1>6, ActorsAre DEF FlushPlaces
    <2>2. /\ \A a \in Actors : pc'[a] \in FlushPlaces =>
                at'[a] \in Slots /\ slots'[at'[a]].used /\ slots'[at'[a]].scanned
          /\ \A a \in Actors : pc'[a] \notin {"roll", "discard"}
          /\ \A t \in Threads : pc'[t] # "flushed"
      BY <1>1, <2>1, ActorsAre DEF FlushPlaces
    <2>3. ASSUME NEW t \in Threads,
                 \/ pc'[t] \in FlushPlaces \cup {"full", "join"}
                 \/ pc'[t] = "append" /\ ~batch'[t]
          PROVE  at'[t] \in Open(hd[t])
      BY <2>3 DEF PlaceInv, FlushPlaces
    <2>4. ASSUME NEW t \in Threads, pc'[t] = "claim"
          PROVE  at'[t] \in Slots /\ ~slots'[at'[t]].used /\ Open(hd[t]) = {}
      <3>1. pc[t] = "claim" /\ at'[t] = at[t]
        BY <2>4
      <3>2. at[t] \in Slots /\ ~slots[at[t]].used /\ Open(hd[t]) = {}
        BY <3>1 DEF PlaceInv
      <3> QED BY <1>1, <3>1, <3>2
    <2> QED BY <1>3, <2>2, <2>3, <2>4 DEF PlaceInv
  <1>9. \A t \in Threads : /\ Opening(t)' <=> Opening(t)
                           /\ pc'[t] \in {"join", "claim"} <=> pc[t] \in {"join", "claim"}
    BY DEF Opening
  <1>10. SlotInv'
    <2>1. /\ \A i \in Slots : ~slots'[i].used => slots'[i] = FreeSlot
          /\ \A i \in Slots : slots'[i].used => slots'[i].name \in Streams /\ slots'[i].count >= 1
          /\ \A i \in Slots : slots'[i].buf # <<>> => slots'[i].scanned
      BY <1>1 DEF SlotInv
    <2>2. \A i, j \in Slots :
             slots'[i].used /\ slots'[j].used /\ slots'[i].name = slots'[j].name => i = j
      BY <1>1 DEF SlotInv
    <2>3. \A t \in Threads : hd'[t] # NoStream /\ pc'[t] \notin {"join", "claim"} =>
             Open(hd[t]) # {}
      BY <1>9 DEF SlotInv
    <2>4. \A t \in Threads : hd'[t] # NoStream /\ ~Opening(t)' =>
             \A i \in Open(hd[t]) : slots[i].scanned
      BY <1>9 DEF SlotInv
    <2>5. \A t \in Threads : hd'[t] # NoStream /\ ~Opening(t)' =>
             \A i \in Open(hd[t]) : slots'[i].scanned
      BY <1>1, <2>4 DEF Open
    <2> QED BY <1>3, <2>1, <2>2, <2>3, <2>5 DEF SlotInv
  <1>11. \A r : Handles(r)' = Handles(r)
    BY <1>9 DEF Handles
  <1>12. CountInv'
    <2>1. {i \in Slots : slots'[i].used} = {i \in Slots : slots[i].used}
      BY <1>1
    <2> QED BY <1>1, <1>11, <2>1 DEF CountInv
  <1>13. HeaderInv'
    BY <1>1, <1>11 DEF HeaderInv, NewestHeaded
  <1> QED
    BY <1>4, <1>5, <1>7, <1>8, <1>10, <1>12, <1>13

LEMMA WorkerLockStep ==
  ASSUME TsInv, WorkerLock
  PROVE  TsInv'
  <1> USE DEF TsInv, StoreInv
  <1>1. /\ pc[Worker] = "work" /\ lock = NoActor /\ lock' = Worker
        /\ drain' = [next |-> 1, bytes |-> 0, sum |-> 0]
        /\ pc' = [pc EXCEPT ![Worker] = "drain"]
        /\ UNCHANGED <<disk, slots, blocks, pending, sem, queued, released, at, hd, todo, batch, made,
                       boots, fails, log, gone, owed, unheard>>
    BY DEF WorkerLock, Go, flushVars, callVars, sysVars, sampleVars
  <1>2. pc \in [Actors -> Places]
    BY DEF TypeOK
  <1>3. pc' \in [Actors -> Places] /\ pc'[Worker] = "drain" /\ \A t \in Threads : pc'[t] = pc[t]
    BY <1>1, <1>2, ActorsAre DEF Places
  <1>4. StoreInv'
    <2>1. SameSlots
      BY <1>1 DEF SameSlots, TypeOK, SlotInv
    <2>2. drain' \in [next : Nat, bytes : Nat, sum : Nat]
      BY <1>1
    <2> QED BY <1>1, <1>3, <2>1, <2>2, WorkerStore DEF TypeOK
  <1>5. EventInv'
    <2>1. drain'.sum = 0 /\ drain.sum = 0 /\ Pend(slots') = Pend(slots)
      BY <1>1 DEF EventInv
    <2> QED BY <1>1, <1>3, <2>1 DEF EventInv, FlushPlaces
  <1>6. SyncInv'
    <2>1. \A i \in Slots : i >= drain'.next
      BY <1>1 DEF Slots
    <2>2. Buffered' = Buffered
      BY <1>1 DEF Buffered
    <2> QED BY <1>1, <1>3, <2>1, <2>2 DEF SyncInv
  <1> QED BY <1>4, <1>5, <1>6

LEMMA DrainNextStep ==
  ASSUME TsInv, DrainNext
  PROVE  TsInv'
  <1> USE DEF TsInv, StoreInv
  <1> DEFINE i == Lowest(Waiting)
  <1>1. /\ pc[Worker] = "drain" /\ Waiting # {}
        /\ drain' = [drain EXCEPT !.next = i + 1, !.bytes = Len(slots[i].buf)]
        /\ at' = [at EXCEPT ![Worker] = i]
        /\ pc' = [pc EXCEPT ![Worker] = "write"]
        /\ UNCHANGED <<disk, slots, blocks, pending, sem, queued, released, lock, hd, todo, batch,
                       made, boots, fails, log, gone, owed, unheard>>
    BY DEF DrainNext, Go, flushVars, callVars, sysVars, sampleVars
  <1>2. i \in Waiting /\ \A j \in Waiting : i <= j
    <2>1. Waiting \in SUBSET Nat
      BY SlotsFinite DEF Waiting
    <2> QED BY <1>1, <2>1, LowestIsLeast
  <1> HIDE DEF i
  <1>3. /\ i \in Slots /\ i >= drain.next /\ slots[i].used /\ slots[i].buf # <<>>
        /\ slots[i].scanned
    BY <1>2 DEF Waiting, SlotInv
  <1>4. /\ pc \in [Actors -> Places] /\ at \in [Actors -> 0..MaxStreams]
        /\ drain \in [next : Nat, bytes : Nat, sum : Nat]
    BY DEF TypeOK
  <1>5. i \in Nat /\ i \in 0..MaxStreams /\ Len(slots[i].buf) \in Nat
    <2>1. MaxStreams \in Nat
      BY TsConstants
    <2>2. slots[i].buf \in Seq(Samples)
      BY <1>3 DEF TypeOK, Slot
    <2> QED BY <1>3, <2>1, <2>2 DEF Slots
  <1>6. /\ pc' \in [Actors -> Places] /\ pc'[Worker] = "write" /\ at'[Worker] = i
        /\ at' \in [Actors -> 0..MaxStreams]
        /\ \A t \in Threads : pc'[t] = pc[t] /\ at'[t] = at[t]
    BY <1>1, <1>4, <1>5, ActorsAre DEF Places
  <1>7. lock = Worker
    BY <1>1, ActorsAre DEF ControlInv
  <1>8. /\ drain' \in [next : Nat, bytes : Nat, sum : Nat] /\ drain'.next = i + 1
        /\ drain'.sum = drain.sum /\ drain'.bytes = Len(slots[i].buf)
    <2> DEFINE n == i + 1
               b == Len(slots[i].buf)
    <2>1. n \in Nat /\ b \in Nat
      BY <1>5
    <2>2. drain' = [drain EXCEPT !.next = n, !.bytes = b]
      BY <1>1
    <2> HIDE DEF n, b
    <2>3. drain' \in [next : Nat, bytes : Nat, sum : Nat] /\ drain'.next = n
          /\ drain'.sum = drain.sum /\ drain'.bytes = b
      BY <1>4, <2>1, <2>2
    <2> QED BY <2>3 DEF n, b
  <1>9. StoreInv'
    <2>1. SameSlots
      BY <1>1 DEF SameSlots, TypeOK, SlotInv
    <2> QED BY <1>1, <1>3, <1>6, <1>7, <1>8, <2>1, WorkerStore DEF TypeOK
  <1>10. EventInv'
    <2>1. Pend(slots') = Pend(slots)
      BY <1>1
    <2>2. \A j \in Slots : j >= i + 1 => j >= drain.next
      BY <1>3, <1>4, <1>5 DEF Slots
    <2>3. slots[i].pend = 0
      BY <1>1, <1>3 DEF EventInv
    <2>4. i < i + 1
      BY <1>5
    <2>5. released' = 0 /\ unheard' = Pend(slots') + drain'.sum
      BY <1>1, <1>8, <2>1 DEF EventInv
    <2>6. \A j \in Slots : j >= drain'.next => slots'[j].pend = 0
      BY <1>1, <1>8, <2>2 DEF EventInv
    <2> QED BY <1>1, <1>6, <1>7, <1>8, <2>3, <2>4, <2>5, <2>6, ActorsAre DEF EventInv
  <1>11. SyncInv'
    <2> SUFFICES ASSUME Faults \cap {"write", "submit"} = {} PROVE SyncInv'
      BY DEF SyncInv
    <2>1. Buffered' = Buffered
      BY <1>1 DEF Buffered
    <2>2. ASSUME NEW t \in Threads, pc'[t] \in SyncPlaces, NEW j \in Slots,
                 owed'[t] \cap Range(slots'[j].buf) # {}
          PROVE  j >= drain'.next \/ j = i
      <3>1. j >= drain.next
        BY <1>1, <1>6, <2>2 DEF SyncInv
      <3>2. slots[j].buf # <<>>
        <4>1. CASE slots[j].buf = <<>>
          <5>1. Range(<<>>) = {}
            BY DEF Range
          <5> QED BY <1>1, <2>2, <4>1, <5>1
        <4> QED BY <4>1
      <3>3. slots[j].used
        BY <3>2 DEF SlotInv, FreeSlot
      <3>4. j \in Waiting
        BY <3>1, <3>2, <3>3 DEF Waiting
      <3>5. i <= j /\ j \in Nat
        BY <1>2, <3>4 DEF Slots
      <3> QED BY <1>5, <1>8, <3>5
    <2> QED BY <1>1, <1>6, <2>1, <2>2 DEF SyncInv
  <1> QED BY <1>9, <1>10, <1>11
LEMMA DrainDoneStep ==
  ASSUME TsInv, DrainDone
  PROVE  TsInv'
  <1> USE DEF TsInv, StoreInv
  <1> DEFINE i == at[Worker]
  <1>1. /\ pc[Worker] \in {"flushed", "flush_failed"} /\ pc[Worker] \in FlushPlaces
        /\ pc' = [pc EXCEPT ![Worker] = "drain"] /\ at' = [at EXCEPT ![Worker] = 0]
        /\ UNCHANGED <<disk, blocks, pending, sem, queued, released, lock, hd, todo, batch, made,
                       boots, fails, log, gone, owed, unheard>>
    BY DEF DrainDone, Go, flushVars, callVars, sysVars, sampleVars, FlushPlaces
  <1>2. /\ i \in Slots /\ lock = Worker /\ slots[i] \in Slot /\ slots[i].used
        /\ slots[i].pend \in Nat /\ i \in Nat
    BY <1>1, FlushSlot, ActorsAre, SlotsFinite
  <1>3. /\ pc \in [Actors -> Places] /\ at \in [Actors -> 0..MaxStreams]
        /\ drain \in [next : Nat, bytes : Nat, sum : Nat] /\ slots \in [Slots -> Slot]
        /\ drain.sum \in Nat /\ drain.bytes \in Nat
    BY DEF TypeOK
  <1>4. /\ pc' \in [Actors -> Places] /\ pc'[Worker] = "drain"
        /\ at' \in [Actors -> 0..MaxStreams]
        /\ \A t \in Threads : pc'[t] = pc[t] /\ at'[t] = at[t]
    <2>1. 0 \in 0..MaxStreams
      BY TsConstants
    <2> QED BY <1>1, <1>3, <2>1, ActorsAre DEF Places
  <1>5. \A j \in Slots : slots[j].pend \in Nat
    BY <1>3 DEF Slot
  <1> HIDE DEF i
  <1>6. CASE pc[Worker] = "flushed"
    <2>1. /\ drain' = [drain EXCEPT !.sum = drain.sum + drain.bytes]
          /\ slots' = [slots EXCEPT ![i].pend = 0]
      BY <1>6 DEF DrainDone, i
    <2>2. slots' \in [Slots -> Slot] /\ slots'[i] = [slots[i] EXCEPT !.pend = 0]
          /\ \A j \in Slots : j # i => slots'[j] = slots[j]
      BY <1>2, <1>3, <2>1 DEF Slot
    <2>3. SameSlots
      <3>1. /\ slots'[i].used = slots[i].used /\ slots'[i].name = slots[i].name
            /\ slots'[i].count = slots[i].count /\ slots'[i].buf = slots[i].buf
            /\ slots'[i].scanned = slots[i].scanned /\ slots'[i].cur = slots[i].cur
            /\ slots'[i].oldest = slots[i].oldest /\ slots'[i].bytes = slots[i].bytes
        BY <1>2, <2>2, ZenonT(30) DEF Slot
      <3>2. \A j \in Slots : ~slots[j].used => slots'[j] = FreeSlot
        BY <1>2, <2>2 DEF SlotInv
      <3> QED BY <2>2, <3>1, <3>2 DEF SameSlots
    <2>4. /\ drain' \in [next : Nat, bytes : Nat, sum : Nat] /\ drain'.next = drain.next
          /\ drain'.sum = drain.sum + drain.bytes
      <3> DEFINE n == drain.sum + drain.bytes
      <3>1. n \in Nat /\ drain' = [drain EXCEPT !.sum = n]
        BY <1>3, <2>1
      <3> HIDE DEF n
      <3>2. drain' \in [next : Nat, bytes : Nat, sum : Nat] /\ drain'.next = drain.next
            /\ drain'.sum = n
        BY <1>3, <3>1
      <3> QED BY <3>2 DEF n
    <2>5. StoreInv'
      <3>1. released' \in Nat /\ unheard' \in Int /\ pending' \in BOOLEAN /\ sem' \in 0..1
            /\ queued' \in BOOLEAN
        BY <1>1 DEF TypeOK
      <3> QED BY <1>1, <1>2, <1>4, <2>3, <2>4, <3>1, WorkerStore
    <2>6. EventInv'
      <3>1. slots[i].pend = drain.bytes /\ slots'[i].pend = 0
        BY <1>2, <1>6, <2>2 DEF EventInv, Slot, i
      <3>2. \A j \in Slots : slots'[j].pend \in Nat
        <4>1. ASSUME NEW j \in Slots PROVE slots'[j].pend \in Nat
          <5>1. CASE j = i
            BY <3>1, <5>1
          <5>2. CASE j # i
            BY <1>5, <2>2, <5>2
          <5> QED BY <5>1, <5>2
        <4> QED BY <4>1
      <3>3. Pend(slots') = Pend(slots) - slots[i].pend + slots'[i].pend
        <4>1. \A j \in Slots : j # i => slots'[j].pend = slots[j].pend
          BY <2>2
        <4>2. i \in Slots
          BY <1>2
        <4> QED BY <1>5, <3>2, <4>1, <4>2, PendChange
      <3>4. Pend(slots) \in Nat
        BY <1>5, PendType
      <3>5. unheard' = Pend(slots') + drain'.sum
        BY <1>1, <1>3, <2>4, <3>1, <3>3, <3>4 DEF EventInv
      <3>6. \A j \in Slots : j >= drain'.next => slots'[j].pend = 0
        BY <1>1, <2>2, <2>4, <3>1 DEF EventInv
      <3> QED BY <1>1, <1>2, <1>4, <3>5, <3>6, ActorsAre DEF EventInv, FlushPlaces
    <2>7. SyncInv'
      <3>1. \A j \in Slots : Range(slots'[j].buf) \subseteq Range(slots[j].buf)
        BY <2>3 DEF SameSlots
      <3> QED BY <1>1, <1>6, <2>4, <3>1, DrainSync
    <2> QED BY <2>5, <2>6, <2>7
  <1>7. CASE pc[Worker] = "flush_failed"
    <2>1. drain' = drain /\ slots' = slots
      BY <1>7 DEF DrainDone
    <2>2. StoreInv'
      <3>1. released' \in Nat /\ unheard' \in Int /\ pending' \in BOOLEAN /\ sem' \in 0..1
            /\ queued' \in BOOLEAN
        BY <1>1 DEF TypeOK
      <3>2. SameSlots
        BY <1>3, <2>1 DEF SameSlots, SlotInv
      <3> QED BY <1>1, <1>2, <1>3, <1>4, <2>1, <3>1, <3>2, WorkerStore
    <2>3. EventInv'
      BY <1>1, <1>2, <1>4, <2>1, ActorsAre DEF EventInv, FlushPlaces
    <2>4. SyncInv'
      BY <1>1, <1>7, <2>1, DrainSync
    <2> QED BY <2>2, <2>3, <2>4
  <1> QED BY <1>1, <1>6, <1>7

(* Every slot was drained: what a waiting thread is owed has left the buffers. *)
LEMMA WorkerEndStep ==
  ASSUME TsInv, WorkerEnd
  PROVE  TsInv'
  <1> USE DEF TsInv, StoreInv
  <1>1. /\ pc[Worker] = "drain" /\ Waiting = {} /\ pending' = FALSE
        /\ Unlock(slots, released, drain.sum)
        /\ drain' = [next |-> 1, bytes |-> 0, sum |-> 0]
        /\ UNCHANGED <<disk, blocks, queued, at, hd, todo, batch, made, boots, fails, log, gone, owed>>
    BY DEF WorkerEnd, callVars, sysVars, sampleVars
  <1>2. lock = Worker
    BY <1>1, ActorsAre DEF ControlInv
  <1>3. /\ pc \in [Actors -> Places] /\ slots \in [Slots -> Slot]
        /\ drain \in [next : Nat, bytes : Nat, sum : Nat] /\ drain.sum \in Nat
    BY DEF TypeOK
  <1>4. /\ pc' \in [Actors -> Places] /\ pc'[Worker] = "idle"
        /\ \A t \in Threads : pc'[t] = pc[t] \/ (pc[t] = "sync_wait" /\ pc'[t] = "sync_woken")
        /\ sem' \in 0..1
    <2>1. CASE pc' = [pc EXCEPT ![Worker] = "idle"] /\ sem' = 1
      BY <1>3, <2>1, ActorsAre DEF Places
    <2>2. ASSUME NEW t \in Threads, pc[t] = "sync_wait", sem' = sem,
                 pc' = [pc EXCEPT ![Worker] = "idle", ![t] = "sync_woken"]
          PROVE  /\ pc' \in [Actors -> Places] /\ pc'[Worker] = "idle"
                 /\ \A u \in Threads : pc'[u] = pc[u] \/ (pc[u] = "sync_wait" /\ pc'[u] = "sync_woken")
                 /\ sem' \in 0..1
      BY <1>3, <2>2, ActorsAre DEF Places, TypeOK
    <2>3. \/ pc' = [pc EXCEPT ![Worker] = "idle"] /\ sem' = 1
          \/ \E t \in Threads : /\ pc[t] = "sync_wait" /\ sem' = sem
                               /\ pc' = [pc EXCEPT ![Worker] = "idle", ![t] = "sync_woken"]
      BY DEF WorkerEnd, Go
    <2> QED BY <2>1, <2>2, <2>3
  <1>5. /\ lock' = NoActor /\ released' = 0
        /\ slots' = [j \in Slots |-> [slots[j] EXCEPT !.pend = 0]]
        /\ unheard' = unheard - Pend(slots) - released - drain.sum
    BY <1>1 DEF Unlock
  <1>6. \A j \in Slots : slots[j].pend \in Nat /\ slots'[j].pend = 0 /\ slots'[j].buf = slots[j].buf
    BY <1>3, <1>5 DEF Slot
  <1>7. unheard' = 0 /\ Pend(slots') = 0
    <2>1. Pend(slots) \in Nat
      BY <1>6, PendType
    <2>2. Pend(slots') = 0
      BY <1>6, PendZero
    <2> QED BY <1>3, <1>5, <2>1, <2>2 DEF EventInv
  <1>8. drain' \in [next : Nat, bytes : Nat, sum : Nat] /\ drain'.sum = 0
    BY <1>1
  <1>9. StoreInv'
    <2>1. SameSlots
      BY <1>5, SameSlotsIs
    <2>2. released' \in Nat /\ unheard' \in Int /\ queued' \in BOOLEAN /\ pending' \in BOOLEAN
          /\ at' \in [Actors -> 0..MaxStreams]
      <3>1. released' \in Nat /\ unheard' \in Int
        BY <1>5, <1>7
      <3>2. queued \in BOOLEAN /\ at \in [Actors -> 0..MaxStreams]
        BY DEF TypeOK
      <3> QED BY <1>1, <3>1, <3>2
    <2> QED BY <1>1, <1>2, <1>4, <1>5, <1>8, <2>1, <2>2, WorkerStore
  <1>10. EventInv'
    BY <1>4, <1>5, <1>6, <1>7, <1>8 DEF EventInv, FlushPlaces
  <1>11. SyncInv'
    <2> SUFFICES ASSUME Faults \cap {"write", "submit"} = {} PROVE SyncInv'
      BY DEF SyncInv
    <2>1. Buffered' = Buffered
      BY <1>6 DEF Buffered
    <2>2. ASSUME NEW t \in Threads, pc'[t] \in SyncPlaces
          PROVE  owed[t] \cap Buffered = {}
      <3>1. pc[t] \in SyncPlaces
        BY <1>4, <2>2 DEF SyncPlaces
      <3> SUFFICES ASSUME NEW j \in Slots, owed[t] \cap Range(slots[j].buf) # {} PROVE FALSE
        BY DEF Buffered
      <3>2. j >= drain.next
        BY <1>1, <3>1 DEF SyncInv
      <3>3. slots[j].buf # <<>>
        <4>1. CASE slots[j].buf = <<>>
          <5>1. Range(<<>>) = {}
            BY DEF Range
          <5> QED BY <4>1, <5>1
        <4> QED BY <4>1
      <3>4. slots[j].used
        BY <3>3 DEF SlotInv, FreeSlot
      <3> QED BY <1>1, <3>2, <3>3, <3>4 DEF Waiting
    <2>3. \A t \in Threads : pc'[t] = "synced" => pc[t] = "synced"
      BY <1>4
    <2> QED BY <1>1, <1>4, <2>1, <2>2, <2>3 DEF SyncInv, FlushPlaces
  <1> QED BY <1>9, <1>10, <1>11

--------------------------------------------------------------------------------
(* Steps of a thread that owns the lock *)

(* The slots stay as they are, their buffers and what they recorded apart. *)
LEMMA ThreadStore ==
  ASSUME StoreInv, NEW t \in Threads, pc[t] \in FlushPlaces,
         NEW p \in {"idle", "full", "async", "write", "flushed"}, NEW i \in 0..MaxStreams,
         NEW n \in Nat, Moves(t, p, i, hd[t], n), hd' = hd,
         lock' = IF p \in FlushPlaces THEN t ELSE NoActor,
         p \in FlushPlaces \cup {"full"} => i = at[t],
         n > 0 => p \in FlushPlaces,
         p = "flushed" => Len(slots'[at[t]].buf) < Capacity,
         slots' \in [Slots -> Slot],
         \A j \in Slots : /\ slots'[j].used = slots[j].used /\ slots'[j].name = slots[j].name
                          /\ slots'[j].count = slots[j].count
                          /\ slots'[j].scanned = slots[j].scanned /\ slots'[j].cur = slots[j].cur
                          /\ Len(slots'[j].buf) <= Capacity
                          /\ (slots'[j].buf # <<>> => slots[j].scanned)
                          /\ (~slots[j].used => slots'[j] = FreeSlot),
         batch' \in [Threads -> BOOLEAN], \A u \in Threads : u # t => batch'[u] = batch[u],
         made' \in 0..MaxSamples, log' \in [Streams -> Seq(Samples)],
         made' + ToDo(todo') <= MaxSamples, released' \in Nat, unheard' \in Int,
         UNCHANGED <<disk, blocks, pending, sem, queued, drain, boots, fails, gone, owed>>
  PROVE  StoreInv'
  <1> USE DEF StoreInv
  <1>1. \A s : Open(s)' = Open(s)
    BY DEF Open
  <1>2. lock = t /\ t \in Actors
    BY ActorsAre DEF ControlInv
  <1>3. /\ pc'[t] = p /\ at'[t] = i /\ todo'[t] = n
        /\ \A a \in Actors : a # t => pc'[a] = pc[a] /\ at'[a] = at[a]
        /\ \A u \in Threads : u # t => todo'[u] = todo[u]
        /\ Worker # t
    BY MovesTo
  <1>4. \A a \in Actors : a # t => pc[a] \notin FlushPlaces \cup {"drain"}
    BY <1>2 DEF ControlInv
  <1>5. TypeOK'
    <2>1. pc' \in [Actors -> Places] /\ at' \in [Actors -> 0..MaxStreams]
          /\ todo' \in [Threads -> Nat]
      BY DEF Moves, TypeOK, Places
    <2>2. lock' \in Actors \cup {NoActor}
      BY <1>2
    <2> QED BY <2>1, <2>2 DEF TypeOK
  <1>6. BoundInv'
    BY DEF BoundInv
  <1>7. \A u \in Threads : /\ Opening(u)' <=> Opening(u)
                           /\ pc'[u] \in {"join", "claim"} <=> pc[u] \in {"join", "claim"}
    <2>1. ~Opening(t) /\ ~Opening(t)'
      BY <1>3 DEF Opening, FlushPlaces
    <2>2. pc'[t] \notin {"join", "claim"} /\ pc[t] \notin {"join", "claim"}
      BY <1>3 DEF FlushPlaces
    <2> QED BY <1>3, <2>1, <2>2, ActorsAre DEF Opening
  <1>8. ControlInv'
    <2>1. \A a \in Actors : pc'[a] \in FlushPlaces \cup {"drain"} => lock' = a
      BY <1>3, <1>4
    <2>2. pc[t] # "idle" /\ hd[t] # NoStream /\ \A u \in Threads : ~Opening(u)
      <3>1. pc[t] # "idle" /\ ~Opening(t)
        BY DEF FlushPlaces, Opening
      <3> QED BY <3>1 DEF ControlInv
    <2>3. /\ \A u \in Threads : pc'[u] \notin {"work", "drain"}
          /\ \A u \in Threads : pc'[u] = "append" => todo'[u] > 0
          /\ \A u \in Threads : pc'[u] # "idle" => hd'[u] # NoStream
          /\ \A u \in Threads : pc'[u] = "unpend" => "submit" \in Faults
          /\ \A u \in Threads : todo'[u] > 0 => pc'[u] \in FlushPlaces \cup {"append"}
      <3>1. /\ pc'[t] \notin {"work", "drain", "append", "unpend"} /\ hd'[t] # NoStream
            /\ (todo'[t] > 0 => pc'[t] \in FlushPlaces \cup {"append"})
        BY <1>3, <2>2
      <3>2. \A u \in Threads : u # t =>
               pc'[u] = pc[u] /\ todo'[u] = todo[u] /\ hd'[u] = hd[u]
        BY <1>3, ActorsAre
      <3>3. ASSUME NEW u \in Threads
            PROVE  /\ pc'[u] \notin {"work", "drain"}
                   /\ (pc'[u] = "append" => todo'[u] > 0)
                   /\ (pc'[u] # "idle" => hd'[u] # NoStream)
                   /\ (pc'[u] = "unpend" => "submit" \in Faults)
                   /\ (todo'[u] > 0 => pc'[u] \in FlushPlaces \cup {"append"})
        <4>1. CASE u = t
          BY <3>1, <4>1
        <4>2. CASE u # t
          BY <3>2, <4>2 DEF ControlInv
        <4> QED BY <4>1, <4>2
      <3> QED BY <3>3
    <2> QED BY <1>3, <1>7, <2>1, <2>2, <2>3, ActorsAre DEF ControlInv
  <1>9. PlaceInv'
    <2>1. at[t] \in Slots /\ slots[at[t]].used /\ slots[at[t]].scanned /\ at[t] \in Open(hd[t])
      BY <1>2 DEF PlaceInv
    <2>2. /\ \A a \in Actors : pc'[a] \in FlushPlaces =>
                at'[a] \in Slots /\ slots'[at'[a]].used /\ slots'[at'[a]].scanned
          /\ \A a \in Actors : pc'[a] \notin {"roll", "discard"}
          /\ \A u \in Threads : pc'[u] = "flushed" /\ todo'[u] > 0 =>
                Len(slots'[at'[u]].buf) < Capacity
      <3>1. \A a \in Actors : pc'[a] \in FlushPlaces => a = t
        BY <1>3, <1>4
      <3>2. pc'[t] \in FlushPlaces => at'[t] = at[t]
        BY <1>3
      <3>3. \A a \in Actors : pc'[a] \in FlushPlaces =>
                at'[a] \in Slots /\ slots'[at'[a]].used /\ slots'[at'[a]].scanned
        BY <2>1, <3>1, <3>2
      <3>4. \A a \in Actors : pc'[a] \notin {"roll", "discard"}
        BY <1>3, <3>1 DEF FlushPlaces
      <3>5. \A u \in Threads : pc'[u] = "flushed" => u = t
        BY <3>1, ActorsAre DEF FlushPlaces
      <3>6. pc'[t] = "flushed" => Len(slots'[at'[t]].buf) < Capacity
        BY <1>3, <3>2 DEF FlushPlaces
      <3> QED BY <3>3, <3>4, <3>5, <3>6
    <2>3. ASSUME NEW u \in Threads,
                 \/ pc'[u] \in FlushPlaces \cup {"full", "join"}
                 \/ pc'[u] = "append" /\ ~batch'[u]
          PROVE  at'[u] \in Open(hd[u])
      BY <1>3, <2>1, <2>3, ActorsAre DEF PlaceInv
    <2>4. ASSUME NEW u \in Threads, pc'[u] = "claim"
          PROVE  at'[u] \in Slots /\ ~slots'[at'[u]].used /\ Open(hd[u]) = {}
      <3>1. pc[u] = "claim" /\ at'[u] = at[u]
        BY <1>3, <2>4, ActorsAre
      <3>2. at[u] \in Slots /\ ~slots[at[u]].used /\ Open(hd[u]) = {}
        BY <3>1 DEF PlaceInv
      <3> QED BY <3>1, <3>2
    <2> QED BY <1>1, <2>2, <2>3, <2>4 DEF PlaceInv
  <1>10. SlotInv'
    <2>1. /\ \A j \in Slots : ~slots'[j].used => slots'[j] = FreeSlot
          /\ \A j \in Slots : slots'[j].used => slots'[j].name \in Streams /\ slots'[j].count >= 1
          /\ \A j \in Slots : slots'[j].buf # <<>> => slots'[j].scanned
      BY DEF SlotInv
    <2>2. \A j, k \in Slots :
             slots'[j].used /\ slots'[k].used /\ slots'[j].name = slots'[k].name => j = k
      BY DEF SlotInv
    <2>3. \A u \in Threads : hd'[u] # NoStream /\ pc'[u] \notin {"join", "claim"} =>
             Open(hd[u]) # {}
      BY <1>7 DEF SlotInv
    <2>4. \A u \in Threads : hd'[u] # NoStream /\ ~Opening(u)' =>
             \A j \in Open(hd[u]) : slots[j].scanned
      BY <1>7 DEF SlotInv
    <2>5. \A u \in Threads : hd'[u] # NoStream /\ ~Opening(u)' =>
             \A j \in Open(hd[u]) : slots'[j].scanned
      BY <2>4 DEF Open
    <2> QED BY <1>1, <2>1, <2>2, <2>3, <2>5 DEF SlotInv
  <1>11. \A r : Handles(r)' = Handles(r)
    BY <1>7 DEF Handles
  <1>12. CountInv'
    <2>1. {j \in Slots : slots'[j].used} = {j \in Slots : slots[j].used}
      OBVIOUS
    <2> QED BY <1>11, <2>1 DEF CountInv
  <1>13. HeaderInv'
    BY <1>11 DEF HeaderInv, NewestHeaded
  <1> QED
    BY <1>5, <1>6, <1>8, <1>9, <1>10, <1>12, <1>13

(* The unlock reports what the slots recorded; the work handler has nothing to  *)
(* report while a thread owns the lock.                                         *)
LEMMA UnlockEvents ==
  ASSUME TsInv, NEW t \in Threads, lock = t, pc'[Worker] = pc[Worker], drain' = drain,
         NEW sl, NEW rl \in Nat, \A j \in Slots : sl[j].pend \in Nat,
         Pend(sl) + rl = Pend(slots), Unlock(sl, rl, 0),
         \A j \in Slots : slots'[j].pend = 0
  PROVE  EventInv' /\ unheard' = 0 /\ released' = 0 /\ lock' = NoActor
  <1> USE DEF TsInv, StoreInv
  <1>1. pc[Worker] \in {"idle", "work"}
    BY ActorsAre DEF ControlInv
  <1>2. Pend(sl) \in Nat
    BY PendType
  <1>3. Pend(slots') = 0
    BY PendZero
  <1>4. drain.sum = 0 /\ unheard = Pend(slots) + drain.sum
    BY <1>1 DEF EventInv
  <1>5. unheard' = unheard - Pend(sl) - rl - 0 /\ released' = 0 /\ lock' = NoActor
    BY DEF Unlock
  <1>6. unheard' = 0
    BY <1>2, <1>4, <1>5
  <1>7. pc'[Worker] \in {"idle", "work"} /\ pc'[Worker] \notin FlushPlaces /\ drain'.sum = 0
    BY <1>1, <1>4 DEF FlushPlaces
  <1>8. unheard' = Pend(slots') + drain'.sum
    BY <1>3, <1>6, <1>7
  <1>9. EventInv'
    BY <1>5, <1>7, <1>8 DEF EventInv, FlushPlaces
  <1> QED BY <1>5, <1>6, <1>9

LEMMA AppendFailsStep ==
  ASSUME TsAssumptions, TsInv, NEW t \in Threads, AppendFails(t)
  PROVE  TsInv'
  <1> USE DEF TsInv, StoreInv
  <1>1. /\ pc[t] = "flush_failed" /\ pc[t] \in FlushPlaces /\ Unlock(slots, released, 0)
        /\ batch' = [batch EXCEPT ![t] = FALSE]
        /\ pc' = [pc EXCEPT ![t] = "idle"] /\ at' = [at EXCEPT ![t] = 0]
        /\ todo' = [todo EXCEPT ![t] = 0]
        /\ UNCHANGED <<disk, blocks, pending, sem, queued, hd, drain, made, boots, fails, log, gone,
                       owed>>
    BY DEF AppendFails, Go, flushVars, sysVars, sampleVars, FlushPlaces
  <1>2. /\ slots \in [Slots -> Slot] /\ hd \in [Threads -> Streams \cup {NoStream}]
        /\ todo \in [Threads -> Nat] /\ batch \in [Threads -> BOOLEAN] /\ made \in 0..MaxSamples
        /\ log \in [Streams -> Seq(Samples)]
    BY DEF TypeOK
  <1>3. Moves(t, "idle", 0, hd[t], 0)
    BY <1>1, <1>2 DEF Moves
  <1>4. slots' = [j \in Slots |-> [slots[j] EXCEPT !.pend = 0]]
    BY <1>1 DEF Unlock
  <1>5. SameSlots
    BY <1>4, SameSlotsIs
  <1>6. lock = t
    BY <1>1, ActorsAre DEF ControlInv
  <1>7. \A j \in Slots : slots[j].pend \in Nat /\ slots'[j].pend = 0
    BY <1>2, <1>4 DEF Slot
  <1>8. pc'[Worker] = pc[Worker] /\ at'[Worker] = at[Worker]
    BY <1>3, MovesTo, ActorsAre
  <1>9. EventInv' /\ unheard' = 0 /\ released' = 0 /\ lock' = NoActor
    <2>1. Pend(slots) + released = Pend(slots) /\ released \in Nat
      BY <1>7, PendType DEF EventInv
    <2> QED BY <1>1, <1>6, <1>7, <1>8, <2>1, UnlockEvents
  <1>10. StoreInv'
    <2>1. made' + ToDo(todo') <= MaxSamples
      <3>1. ToDo(todo') = ToDo(todo) - todo[t] + 0 /\ ToDo(todo) \in Nat
        BY <1>1, <1>2, ToDoChange DEF TsAssumptions
      <3>2. todo[t] \in Nat /\ made \in Nat /\ MaxSamples \in Nat /\ made + ToDo(todo) <= MaxSamples
        BY <1>2, TsConstants DEF BoundInv
      <3> QED BY <1>1, <3>1, <3>2
    <2>2. batch' \in [Threads -> BOOLEAN] /\ \A u \in Threads : u # t => batch'[u] = batch[u]
      BY <1>1, <1>2
    <2>3. 0 \in 0..MaxStreams /\ "idle" \notin FlushPlaces
      BY TsConstants DEF FlushPlaces
    <2>4. \A j \in Slots : /\ slots'[j].used = slots[j].used /\ slots'[j].name = slots[j].name
                           /\ slots'[j].count = slots[j].count
                           /\ slots'[j].scanned = slots[j].scanned /\ slots'[j].cur = slots[j].cur
                           /\ Len(slots'[j].buf) <= Capacity
                           /\ (slots'[j].buf # <<>> => slots[j].scanned)
                           /\ (~slots[j].used => slots'[j] = FreeSlot)
      BY <1>5 DEF SameSlots, SlotInv, TypeOK
    <2>5. slots' \in [Slots -> Slot]
      BY <1>5 DEF SameSlots
    <2>6. released' \in Nat /\ unheard' \in Int /\ made' \in 0..MaxSamples
          /\ log' \in [Streams -> Seq(Samples)]
      BY <1>1, <1>2, <1>9
    <2>7. /\ lock' = IF "idle" \in FlushPlaces THEN t ELSE NoActor
          /\ "idle" \in FlushPlaces \cup {"full"} => 0 = at[t]
          /\ ~(0 > 0)
      BY <1>9, <2>3
    <2>8. UNCHANGED <<disk, blocks, pending, sem, queued, drain, boots, fails, gone, owed>>
      BY <1>1
    <2>9. hd' = hd /\ pc[t] \in FlushPlaces
      BY <1>1
    <2> QED BY <1>3, <2>1, <2>2, <2>3, <2>4, <2>5, <2>6, <2>7, <2>8, <2>9, ThreadStore
  <1>11. SyncInv'
    <2>1. \A j \in Slots : Range(slots'[j].buf) \subseteq Range(slots[j].buf)
      BY <1>5 DEF SameSlots
    <2>2. t \in Actors /\ t # Worker /\ "idle" \notin SyncPlaces \cup {"synced"}
      BY ActorsAre DEF SyncPlaces
    <2> QED BY <1>1, <1>8, <2>1, <2>2, QuietSync
  <1> QED BY <1>9, <1>10, <1>11
LEMMA AppendBufferStep ==
  ASSUME TsAssumptions, TsInv, NEW t \in Threads, AppendBuffer(t)
  PROVE  TsInv'
  <1> USE DEF TsInv, StoreInv
  <1> DEFINE i == at[t]
             m == made + 1
             x == [slots[i] EXCEPT !.buf = Append(slots[i].buf, m)]
             sl == [slots EXCEPT ![i] = x]
             n == todo[t] - 1
  <1>1. /\ pc[t] = "flushed" /\ pc[t] \in FlushPlaces /\ todo[t] > 0
        /\ made' = m /\ log' = [log EXCEPT ![hd[t]] = Append(@, m)]
        /\ todo' = [todo EXCEPT ![t] = n]
        /\ UNCHANGED <<disk, blocks, pending, sem, queued, hd, batch, drain, boots, fails, gone, owed>>
    BY DEF AppendBuffer, flushVars, FlushPlaces
  <1>2. /\ slots \in [Slots -> Slot] /\ hd \in [Threads -> Streams \cup {NoStream}]
        /\ todo \in [Threads -> Nat] /\ batch \in [Threads -> BOOLEAN] /\ made \in Nat
        /\ log \in [Streams -> Seq(Samples)] /\ MaxSamples \in Nat /\ Capacity \in Nat
        /\ pc \in [Actors -> Places] /\ at \in [Actors -> 0..MaxStreams]
    BY TsConstants DEF TypeOK
  <1>3. /\ i \in Slots /\ lock = t /\ slots[i] \in Slot /\ slots[i].used /\ slots[i].scanned
        /\ slots[i].buf \in Seq(Samples) /\ slots[i].pend \in Nat
    BY <1>1, FlushSlot, ActorsAre
  <1>4. n \in Nat /\ m \in Samples /\ m \in 0..MaxSamples /\ m + ToDo(todo') <= MaxSamples
    <2>1. todo[t] \in Nat
      BY <1>2
    <2>2. n \in Nat
      BY <1>1, <2>1
    <2>3. /\ ToDo(todo) \in Nat /\ ToDo(todo) >= todo[t] /\ made + ToDo(todo) <= MaxSamples
          /\ ToDo(todo') = ToDo(todo) - todo[t] + n
      BY <1>1, <1>2, <2>2, ToDoChange DEF TsAssumptions, BoundInv
    <2>4. m \in Nat /\ m >= 1 /\ m <= MaxSamples
      BY <1>1, <1>2, <2>1, <2>3
    <2>5. m + ToDo(todo') <= MaxSamples
      BY <1>2, <2>1, <2>3
    <2> QED BY <2>2, <2>4, <2>5, <1>2 DEF Samples
  <1>5. /\ x \in Slot /\ x.used /\ x.name = slots[i].name /\ x.count = slots[i].count
        /\ x.scanned /\ x.cur = slots[i].cur /\ x.pend = slots[i].pend
        /\ x.buf = Append(slots[i].buf, m) /\ Len(x.buf) <= Capacity /\ Len(x.buf) \in Nat
    <2> DEFINE b == Append(slots[i].buf, m)
    <2>1. b \in Seq(Samples) /\ Len(b) = Len(slots[i].buf) + 1 /\ Len(slots[i].buf) \in Nat
      BY <1>3, <1>4
    <2>2. Len(slots[i].buf) < Capacity
      BY <1>1 DEF PlaceInv
    <2>3. Len(b) <= Capacity /\ Len(b) \in Nat
      BY <1>2, <2>1, <2>2
    <2>4. x = [slots[i] EXCEPT !.buf = b]
      OBVIOUS
    <2> HIDE DEF b, x
    <2>5. /\ x \in Slot /\ x.used /\ x.name = slots[i].name /\ x.count = slots[i].count
          /\ x.scanned /\ x.cur = slots[i].cur /\ x.pend = slots[i].pend /\ x.buf = b
      BY <1>3, <2>1, <2>4 DEF Slot
    <2> QED BY <2>3, <2>5 DEF b
  <1>6. [slots EXCEPT ![i].buf = Append(@, m)] = sl
    OBVIOUS
  <1> HIDE DEF x
  <1>7. sl \in [Slots -> Slot] /\ sl[i] = x /\ \A j \in Slots : j # i => sl[j] = slots[j]
    BY <1>2, <1>3, <1>5
  <1>8. \A j \in Slots : sl[j].pend = slots[j].pend /\ slots[j].pend \in Nat
    <2>1. \A j \in Slots : slots[j].pend \in Nat
      BY <1>2 DEF Slot
    <2> QED BY <1>3, <1>5, <1>7, <2>1
  <1>9. Pend(sl) = Pend(slots) /\ Pend(slots) \in Nat
    <2> HIDE DEF sl
    <2> QED BY <1>8, PendSame, PendType
  <1>10. released = 0 /\ pc[Worker] \in {"idle", "work"}
    BY <1>3, ActorsAre DEF EventInv, ControlInv
  <1>11. hd[t] # NoStream /\ hd[t] \in Streams
    <2>1. hd[t] # NoStream
      BY <1>1 DEF ControlInv
    <2> QED BY <1>2, <2>1
  <1>12. log' \in [Streams -> Seq(Samples)]
    BY <1>1, <1>2, <1>4, <1>11
  <1>13. [hd EXCEPT ![t] = hd[t]] = hd
    BY <1>2
  <1>14. /\ \A j \in Slots : slots[j].buf # <<>> => slots[j].scanned
         /\ \A j \in Slots : Len(slots[j].buf) <= Capacity
         /\ \A j \in Slots : ~slots[j].used => slots[j] = FreeSlot
    BY DEF SlotInv, TypeOK
  <1>15. \A j \in Slots : /\ sl[j].used = slots[j].used /\ sl[j].name = slots[j].name
                          /\ sl[j].count = slots[j].count
                          /\ sl[j].scanned = slots[j].scanned /\ sl[j].cur = slots[j].cur
                          /\ Len(sl[j].buf) <= Capacity
                          /\ (sl[j].buf # <<>> => slots[j].scanned)
                          /\ (~slots[j].used => sl[j] = FreeSlot)
    <2>1. ASSUME NEW j \in Slots, j = i
          PROVE /\ sl[j].used = slots[j].used /\ sl[j].name = slots[j].name
                /\ sl[j].count = slots[j].count
                /\ sl[j].scanned = slots[j].scanned /\ sl[j].cur = slots[j].cur
                /\ Len(sl[j].buf) <= Capacity /\ slots[j].scanned /\ slots[j].used
      BY <1>3, <1>5, <1>7, <2>1
    <2> HIDE DEF i
    <2> QED BY <1>7, <1>14, <2>1
  <1>16. /\ Range(x.buf) \subseteq Range(slots[i].buf) \cup {m}
    <2>1. x.buf = Append(slots[i].buf, m) /\ slots[i].buf \in Seq(Samples)
      BY <1>3, <1>5
    <2>2. ASSUME NEW r \in Seq(Samples), NEW k \in DOMAIN Append(r, m)
          PROVE  Append(r, m)[k] \in Range(r) \cup {m}
      <3>1. k \in 1..(Len(r) + 1)
        BY <2>2, <1>4
      <3>2. CASE k = Len(r) + 1
        BY <1>4, <3>2
      <3>3. CASE k \in 1..Len(r)
        BY <1>4, <3>3 DEF Range
      <3> QED BY <3>1, <3>2, <3>3
    <2> QED BY <2>1, <2>2 DEF Range
  <1>17. /\ \A j \in Slots : /\ sl[j].used = slots[j].used /\ sl[j].name = slots[j].name
                             /\ sl[j].count = slots[j].count
                             /\ sl[j].scanned = slots[j].scanned /\ sl[j].cur = slots[j].cur
                             /\ Len(sl[j].buf) <= Capacity
                             /\ (sl[j].buf # <<>> => slots[j].scanned)
                             /\ (~slots[j].used => sl[j] = FreeSlot)
         /\ UNCHANGED <<disk, blocks, pending, sem, queued, drain, boots, fails, gone, owed>>
         /\ hd' = hd /\ pc[t] \in FlushPlaces /\ n \in Nat
         /\ made' \in 0..MaxSamples /\ log' \in [Streams -> Seq(Samples)]
         /\ made' + ToDo(todo') <= MaxSamples
    BY <1>1, <1>4, <1>12, <1>15
  <1>18. ASSUME \A j \in Slots : slots'[j].buf = sl[j].buf,
                pc'[t] \notin SyncPlaces \cup {"synced"},
                \A a \in Actors : a # t => pc'[a] = pc[a]
         PROVE  SyncInv'
    <2> SUFFICES ASSUME Faults \cap {"write", "submit"} = {} PROVE SyncInv'
      BY DEF SyncInv
    <2>1. Buffered' \subseteq Buffered \cup {m}
      <3>1. \A j \in Slots : Range(sl[j].buf) \subseteq Range(slots[j].buf) \cup {m}
        BY <1>3, <1>7, <1>16
      <3> HIDE DEF sl, m
      <3> QED BY <1>18, <3>1 DEF Buffered
    <2>2. 1..made \subseteq 1..m /\ m \in 1..m /\ m \notin 1..made
      BY <1>2
    <2>3. Buffered' \subseteq 1..made' /\ \A u \in Threads : owed'[u] \subseteq 1..made'
      BY <1>1, <2>1, <2>2 DEF SyncInv
    <2>4. \A u \in Threads : owed[u] \cap Buffered = {} => owed'[u] \cap Buffered' = {}
      BY <1>1, <2>1, <2>2 DEF SyncInv
    <2>5. \A u \in Threads : pc'[u] \in SyncPlaces \cup {"synced"} => pc'[u] = pc[u]
      BY <1>18, ActorsAre
    <2>6. pc'[Worker] \in {"idle", "work"}
      BY <1>10, <1>18, ActorsAre
    <2>7. \A u \in Threads : pc'[u] = "synced" \/ (pc'[u] \in SyncPlaces /\ ~pending')
                             => owed'[u] \cap Buffered' = {}
      BY <1>1, <2>4, <2>5 DEF SyncInv
    <2> QED BY <2>3, <2>6, <2>7 DEF SyncInv, FlushPlaces
  <1>19. CASE todo[t] > 1
    <2> DEFINE p == Room(sl[i])
    <2>1. /\ slots' = sl /\ pc' = [pc EXCEPT ![t] = p]
          /\ UNCHANGED <<lock, released, at, unheard>>
      BY <1>6, <1>19 DEF AppendBuffer, Go
    <2>2. p \in {"write", "flushed"} /\ (p = "flushed" => Len(x.buf) < Capacity)
      BY <1>2, <1>5, <1>7 DEF Room, Full
    <2> HIDE DEF p
    <2>3. Moves(t, p, i, hd[t], n)
      BY <1>1, <1>2, <1>13, <2>1 DEF Moves
    <2>4. StoreInv'
      <3>1. p \in FlushPlaces /\ lock' = t
        BY <1>3, <2>1, <2>2 DEF FlushPlaces
      <3>2. released' \in Nat /\ unheard' \in Int
        BY <2>1 DEF TypeOK
      <3>3. i \in 0..MaxStreams
        BY <1>2, ActorsAre
      <3>4. slots' \in [Slots -> Slot]
        BY <1>7, <2>1
      <3>5. p = "flushed" => Len(slots'[at[t]].buf) < Capacity
        BY <1>7, <2>1, <2>2
      <3>6. batch' \in [Threads -> BOOLEAN] /\ \A u \in Threads : u # t => batch'[u] = batch[u]
        BY <1>1, <1>2
      <3>7. /\ lock' = IF p \in FlushPlaces THEN t ELSE NoActor
            /\ p \in FlushPlaces \cup {"full"} => i = at[t]
            /\ n > 0 => p \in FlushPlaces
            /\ p \in {"idle", "full", "async", "write", "flushed"}
        BY <2>2, <3>1
      <3> QED
        BY <1>17, <2>1, <2>3, <3>2, <3>3, <3>4, <3>5, <3>6, <3>7, ThreadStore
    <2>5. EventInv'
      <3>1. lock' # NoActor /\ pc'[Worker] = pc[Worker]
        BY <1>2, <1>3, <2>1, ActorsAre
      <3>2. unheard' = Pend(slots') + drain'.sum
        BY <1>1, <1>9, <2>1 DEF EventInv
      <3> QED BY <1>1, <1>10, <2>1, <3>1, <3>2 DEF EventInv, FlushPlaces
    <2>6. \A j \in Slots : slots'[j].buf = sl[j].buf
      BY <2>1
    <2>7. pc'[t] \notin SyncPlaces \cup {"synced"} /\ \A a \in Actors : a # t => pc'[a] = pc[a]
      BY <1>2, <2>1, <2>2, ActorsAre DEF SyncPlaces
    <2> QED BY <1>18, <2>4, <2>5, <2>6, <2>7
  <1>20. CASE ~(todo[t] > 1)
    <2> DEFINE k == IF batch[t] THEN i ELSE 0
               p == CASE batch[t] -> "full" [] ~batch[t] /\ Full(sl[i]) -> "async" [] OTHER -> "idle"
    <2>1. Unlock(sl, released, 0) /\ at' = [at EXCEPT ![t] = k] /\ pc' = [pc EXCEPT ![t] = p]
      BY <1>6, <1>20 DEF AppendBuffer, Go
    <2>2. p \in {"full", "async", "idle"} /\ (p = "full" => k = i) /\ k \in 0..MaxStreams
      <3>1. batch[t] \in BOOLEAN /\ i \in 0..MaxStreams /\ 0 \in 0..MaxStreams
        BY <1>2, ActorsAre, TsConstants
      <3>2. CASE batch[t]
        BY <3>1, <3>2
      <3>3. CASE ~batch[t] /\ Full(sl[i])
        BY <3>1, <3>3
      <3>4. CASE ~batch[t] /\ ~Full(sl[i])
        BY <3>1, <3>4
      <3> QED BY <3>1, <3>2, <3>3, <3>4
    <2>3. n = 0
      <3>1. todo[t] \in Nat
        BY <1>2
      <3> QED BY <1>1, <1>20, <3>1
    <2> HIDE DEF p, k
    <2>4. Moves(t, p, k, hd[t], n)
      BY <1>1, <1>13, <2>1 DEF Moves
    <2>5. /\ pc'[t] \notin SyncPlaces \cup {"synced"} /\ pc'[Worker] = pc[Worker]
          /\ \A a \in Actors : a # t => pc'[a] = pc[a]
      BY <1>2, <2>1, <2>2, ActorsAre DEF SyncPlaces
    <2>6. slots' = [j \in Slots |-> [sl[j] EXCEPT !.pend = 0]]
      BY <2>1 DEF Unlock
    <2>7. /\ slots' \in [Slots -> Slot]
          /\ \A j \in Slots :
                /\ slots'[j].used = sl[j].used /\ slots'[j].name = sl[j].name
                /\ slots'[j].count = sl[j].count /\ slots'[j].buf = sl[j].buf
                /\ slots'[j].scanned = sl[j].scanned /\ slots'[j].cur = sl[j].cur
                /\ slots'[j].pend = 0
      <3> HIDE DEF sl
      <3> QED BY <1>7, <2>6 DEF Slot
    <2>8. \A j \in Slots : ~slots[j].used => slots'[j] = FreeSlot
      <3>1. [FreeSlot EXCEPT !.pend = 0] = FreeSlot
        BY FreeSlotType DEF Slot
      <3> HIDE DEF sl
      <3> QED BY <1>15, <2>6, <3>1
    <2>9. EventInv' /\ unheard' = 0 /\ released' = 0 /\ lock' = NoActor
      <3>1. \A j \in Slots : sl[j].pend \in Nat
        BY <1>8
      <3>2. Pend(sl) + released = Pend(slots) /\ released \in Nat
        BY <1>9, <1>10
      <3>3. \A j \in Slots : slots'[j].pend = 0
        BY <2>7
      <3> HIDE DEF sl
      <3> QED BY <1>3, <1>17, <2>1, <2>5, <3>1, <3>2, <3>3, UnlockEvents
    <2>10. StoreInv'
      <3>1. p \notin FlushPlaces
        BY <2>2 DEF FlushPlaces
      <3>2. /\ lock' = IF p \in FlushPlaces THEN t ELSE NoActor
            /\ p \in FlushPlaces \cup {"full"} => k = at[t]
            /\ n > 0 => p \in FlushPlaces
            /\ p \in {"idle", "full", "async", "write", "flushed"}
            /\ p = "flushed" => Len(slots'[at[t]].buf) < Capacity
        BY <2>2, <2>3, <2>9, <3>1
      <3>3. released' \in Nat /\ unheard' \in Int
        BY <2>9
      <3>4. batch' \in [Threads -> BOOLEAN] /\ \A u \in Threads : u # t => batch'[u] = batch[u]
        BY <1>1, <1>2
      <3>5. \A j \in Slots : /\ slots'[j].used = slots[j].used /\ slots'[j].name = slots[j].name
                             /\ slots'[j].count = slots[j].count
                             /\ slots'[j].scanned = slots[j].scanned /\ slots'[j].cur = slots[j].cur
                             /\ Len(slots'[j].buf) <= Capacity
                             /\ (slots'[j].buf # <<>> => slots[j].scanned)
                             /\ (~slots[j].used => slots'[j] = FreeSlot)
        <4> HIDE DEF sl
        <4> QED BY <1>15, <2>7, <2>8
      <3> HIDE DEF n
      <3> QED BY <1>17, <2>2, <2>4, <2>7, <3>2, <3>3, <3>4, <3>5, ThreadStore
    <2> QED BY <1>18, <2>5, <2>7, <2>9, <2>10
  <1> QED BY <1>19, <1>20

LEMMA RangeIn ==
  ASSUME NEW S, NEW r \in Seq(S)
  PROVE  Range(r) \subseteq S
  BY DEF Range

LEMMA HandlesFinite ==
  ASSUME TsAssumptions, NEW s
  PROVE  /\ IsFiniteSet(Handles(s)) /\ Cardinality(Handles(s)) \in Nat
         /\ Cardinality(Handles(s)) <= OpenCountMax
  <1>1. Handles(s) \subseteq Threads /\ IsFiniteSet(Threads)
    BY DEF Handles, TsAssumptions
  <1>2. /\ IsFiniteSet(Handles(s)) /\ Cardinality(Handles(s)) <= Cardinality(Threads)
    BY <1>1, FS_Subset
  <1>3. Cardinality(Handles(s)) \in Nat /\ Cardinality(Threads) \in Nat
    BY <1>1, <1>2, FS_CardinalityType
  <1>4. Cardinality(Threads) <= OpenCountMax /\ OpenCountMax \in Nat
    BY TsConstants DEF TsAssumptions
  <1> QED BY <1>2, <1>3, <1>4

(* A handle is closed: with others open, the slot counts one handle less; the   *)
(* last one frees it, and nobody else works on it then.                         *)
LEMMA CloseReleaseStep ==
  ASSUME TsAssumptions, TsInv, NEW t \in Threads, CloseRelease(t)
  PROVE  TsInv'
  <1> USE DEF TsInv, StoreInv
  <1>0. PICK s \in Streams : s = hd[t] /\ s # NoStream
    <2>1. hd[t] # NoStream
      BY DEF ControlInv, CloseRelease
    <2> QED BY <2>1 DEF TypeOK
  <1> DEFINE i == at[t]
             last == ~(slots[i].count > 1)
             x == IF last THEN FreeSlot ELSE [slots[i] EXCEPT !.count = slots[i].count - 1]
             y == [x EXCEPT !.pend = 0]
             sl == [slots EXCEPT ![i] = x]
             rl == released + (IF last THEN slots[i].pend ELSE 0)
  <1>1. /\ pc[t] \in FlushPlaces /\ todo[t] = 0
        /\ hd' = [hd EXCEPT ![t] = NoStream] /\ pc' = [pc EXCEPT ![t] = "idle"]
        /\ at' = [at EXCEPT ![t] = 0]
        /\ UNCHANGED <<disk, pending, sem, queued, todo, batch, drain, made, boots, fails, log, owed>>
        /\ blocks' = IF last THEN blocks - 1 ELSE blocks
        /\ gone' = IF last THEN gone \cup Range(slots[i].buf) ELSE gone
    BY DEF CloseRelease, Go, flushVars, sysVars, FlushPlaces
  <1>2. /\ slots \in [Slots -> Slot] /\ hd \in [Threads -> Streams \cup {NoStream}]
        /\ todo \in [Threads -> Nat] /\ pc \in [Actors -> Places]
        /\ at \in [Actors -> 0..MaxStreams] /\ released = 0
        /\ blocks = Cardinality({j \in Slots : slots[j].used})
    BY DEF TypeOK, EventInv, CountInv
  <1>3. /\ i \in Slots /\ lock = t /\ slots[i] \in Slot /\ slots[i].used /\ slots[i].scanned
        /\ slots[i].buf \in Seq(Samples) /\ slots[i].pend \in Nat /\ slots[i].count \in Nat
        /\ slots[i].name = s /\ i \in Open(s) /\ slots[i].count >= 1
    <2>1. /\ i \in Slots /\ lock = t /\ slots[i] \in Slot /\ slots[i].used /\ slots[i].scanned
          /\ slots[i].buf \in Seq(Samples) /\ slots[i].pend \in Nat
      BY <1>1, FlushSlot, ActorsAre
    <2>2. i \in Open(s)
      BY <1>0, <1>1 DEF PlaceInv
    <2>3. slots[i].count \in Nat /\ slots[i].name = s /\ slots[i].count >= 1
      BY <2>1, <2>2 DEF Open, Slot, SlotInv
    <2> QED BY <2>1, <2>2, <2>3
  <1>4. Unlock(sl, rl, 0)
    <2>1. CASE last
      <3>1. x = FreeSlot /\ rl = released + slots[i].pend
        BY <2>1
      <3> QED BY <2>1, <3>1 DEF CloseRelease
    <2>2. CASE ~last
      <3>1. rl = released
        BY <1>2, <2>2
      <3>2. x = [slots[i] EXCEPT !.count = slots[i].count - 1]
        BY <2>2
      <3>3. sl = [slots EXCEPT ![i].count = @ - 1]
        BY <3>2
      <3> QED BY <2>2, <3>1, <3>3 DEF CloseRelease
    <2> QED BY <2>1, <2>2
  <1>5. x \in Slot /\ (~last => /\ x.used /\ x.name = s /\ x.scanned = slots[i].scanned
                                /\ x.buf = slots[i].buf /\ x.cur = slots[i].cur
                                /\ x.count = slots[i].count - 1 /\ x.pend = slots[i].pend)
    <2>1. CASE last
      BY <2>1, FreeSlotType
    <2>2. CASE ~last
      <3> DEFINE n == slots[i].count - 1
      <3>1. n \in Nat
        BY <1>3
      <3>2. x = [slots[i] EXCEPT !.count = n]
        BY <2>2
      <3> HIDE DEF n, x
      <3>3. /\ x \in Slot /\ x.used /\ x.name = s /\ x.scanned = slots[i].scanned /\ x.buf = slots[i].buf
            /\ x.cur = slots[i].cur /\ x.count = n /\ x.pend = slots[i].pend
        BY <1>3, <3>1, <3>2 DEF Slot
      <3> QED BY <3>3 DEF n
    <2> QED BY <2>1, <2>2
  <1>6. last => x = FreeSlot
    OBVIOUS
  <1>7. y = [x EXCEPT !.pend = 0]
    OBVIOUS
  <1> HIDE DEF x, y
  <1>8. y \in Slot /\ y.pend = 0 /\ y.used = x.used /\ y.name = x.name /\ y.scanned = x.scanned
        /\ y.buf = x.buf /\ y.cur = x.cur /\ y.count = x.count
    BY <1>5, <1>7 DEF Slot
  <1>9. last => y = FreeSlot
    <2>1. [FreeSlot EXCEPT !.pend = 0] = FreeSlot
      BY FreeSlotType DEF Slot
    <2> QED BY <1>6, <1>7, <2>1
  <1>10. sl \in [Slots -> Slot] /\ sl[i] = x /\ \A j \in Slots : j # i => sl[j] = slots[j]
    BY <1>2, <1>3, <1>5
  <1> HIDE DEF sl
  <1>11. /\ slots' = [j \in Slots |-> [sl[j] EXCEPT !.pend = 0]]
    BY <1>4 DEF Unlock
  <1>12. /\ slots' \in [Slots -> Slot] /\ slots'[i] = y /\ \A j \in Slots : slots'[j].pend = 0
         /\ \A j \in Slots : j # i =>
               /\ slots'[j].used = slots[j].used /\ slots'[j].name = slots[j].name
               /\ slots'[j].count = slots[j].count /\ slots'[j].buf = slots[j].buf
               /\ slots'[j].scanned = slots[j].scanned /\ slots'[j].cur = slots[j].cur
    <2>1. slots'[i] = y
      BY <1>3, <1>7, <1>10, <1>11
    <2>2. \A j \in Slots : j # i => slots'[j] = [slots[j] EXCEPT !.pend = 0]
      BY <1>10, <1>11
    <2>3. slots' \in [Slots -> Slot] /\ \A j \in Slots : slots'[j].pend = 0
      BY <1>10, <1>11 DEF Slot
    <2>4. \A j \in Slots : slots[j] \in Slot
      BY <1>2
    <2> QED BY <2>1, <2>2, <2>3, <2>4, SMTT(30) DEF Slot
  <1>13. \A j \in Slots : ~slots[j].used => j # i /\ slots'[j] = FreeSlot
    <2>1. [FreeSlot EXCEPT !.pend = 0] = FreeSlot
      BY FreeSlotType DEF Slot
    <2>2. \A j \in Slots : j # i => slots'[j] = [slots[j] EXCEPT !.pend = 0]
      BY <1>10, <1>11
    <2> QED BY <1>3, <2>1, <2>2 DEF SlotInv
  <1>14. s # NoStream /\ s \in Streams /\ \A u \in Threads : ~Opening(u)
    <2>1. pc[t] # "idle" /\ ~Opening(t)
      BY <1>1 DEF FlushPlaces, Opening
    <2> QED BY <1>0, <2>1 DEF ControlInv
  <1>15. /\ pc'[t] = "idle" /\ at'[t] = 0 /\ hd'[t] = NoStream
         /\ \A a \in Actors : a # t => pc'[a] = pc[a] /\ at'[a] = at[a]
         /\ \A u \in Threads : u # t => hd'[u] = hd[u]
         /\ Worker # t /\ t \in Actors
    BY <1>1, <1>2, ActorsAre
  <1>16. t \in Handles(s)
    BY <1>0, <1>1 DEF Handles, FlushPlaces
  <1>17. Handles(s)' = Handles(s) \ {t} /\ \A r \in Streams : r # s => Handles(r)' = Handles(r)
    <2>1. NoStream \notin Streams
      BY TsConstants
    <2>2. \A r \in Streams : \A u \in Threads : u # t => (u \in Handles(r)' <=> u \in Handles(r))
      BY <1>15, ActorsAre DEF Handles
    <2>3. \A r \in Streams : t \notin Handles(r)'
      BY <1>15, <2>1 DEF Handles
    <2>4. \A r \in Streams : r # s => t \notin Handles(r)
      BY <1>0 DEF Handles
    <2>5. \A r : Handles(r) \subseteq Threads /\ Handles(r)' \subseteq Threads
      BY DEF Handles
    <2>6. Handles(s)' = Handles(s) \ {t}
      BY <1>14, <2>2, <2>3, <2>5
    <2> QED BY <2>2, <2>3, <2>4, <2>5, <2>6
  <1> DEFINE c == Cardinality(Handles(s))
  <1>18. c \in Nat /\ c >= 1 /\ Cardinality(Handles(s)') = c - 1 /\ slots[i].count >= c
    <2>1. IsFiniteSet(Handles(s)) /\ c \in Nat
      BY HandlesFinite
    <2>2. Cardinality(Handles(s) \ {t}) = c - 1
      BY <1>16, <2>1, FS_RemoveElement
    <2>3. IsFiniteSet(Handles(s) \ {t}) /\ Cardinality(Handles(s) \ {t}) \in Nat
      BY <2>1, FS_RemoveElement, FS_CardinalityType
    <2>4. slots[i].count >= c
      BY <1>3 DEF CountInv
    <2> QED BY <1>17, <2>1, <2>2, <2>3, <2>4
  <1>19. last => \A u \in Threads : u # t => hd[u] # s
    <2> SUFFICES ASSUME last, NEW u \in Threads, u # t, hd[u] = s PROVE FALSE
      OBVIOUS
    <2>1. u \in Handles(s)
      BY <1>14 DEF Handles, Opening
    <2>2. c = 1
      BY <1>3, <1>18
    <2>3. Handles(s) # {} /\ IsFiniteSet(Handles(s))
      BY <2>1, HandlesFinite
    <2>4. IsFiniteSet(Handles(s) \ {t}) /\ Cardinality(Handles(s) \ {t}) = 0
      BY <1>17, <1>18, <2>2, <2>3, FS_RemoveElement
    <2>5. Handles(s) \ {t} = {}
      BY <2>4, FS_EmptySet
    <2> QED BY <2>1, <2>5
  <1> HIDE DEF last, i, c, rl
  <1>20. \A u \in Threads : u # t => Open(hd[u])' = Open(hd[u])
    <2> SUFFICES ASSUME NEW u \in Threads, u # t, NEW j \in Slots
                 PROVE  slots'[j].used /\ slots'[j].name = hd[u] <=> slots[j].used /\ slots[j].name = hd[u]
      BY <1>15 DEF Open
    <2>1. CASE j # i
      BY <1>12, <2>1
    <2>2. CASE j = i /\ ~last
      BY <1>3, <1>5, <1>8, <1>12, <2>2
    <2>3. CASE j = i /\ last
      BY <1>3, <1>9, <1>12, <1>19, <2>3 DEF FreeSlot
    <2> QED BY <2>1, <2>2, <2>3
  <1>21. EventInv' /\ unheard' = 0 /\ released' = 0 /\ lock' = NoActor
    <2>1. \A j \in Slots : slots[j].pend \in Nat
      BY <1>2 DEF Slot
    <2>2. x.pend \in Nat /\ x.pend = IF last THEN 0 ELSE slots[i].pend
      <3>1. CASE last
        BY <1>6, <3>1, FreeSlotType
      <3>2. CASE ~last
        BY <1>3, <1>5, <3>2
      <3> QED BY <3>1, <3>2
    <2>3. \A j \in Slots : sl[j].pend \in Nat
      BY <1>10, <2>1, <2>2
    <2>4. \A j \in Slots : j # i => sl[j].pend = slots[j].pend
      BY <1>10
    <2>5. Pend(sl) = Pend(slots) - slots[i].pend + sl[i].pend
      BY <1>3, <2>1, <2>3, <2>4, PendChange
    <2>6. Pend(slots) \in Nat
      BY <2>1, PendType
    <2>7. rl \in Nat /\ rl = IF last THEN slots[i].pend ELSE 0
      BY <1>2, <1>3 DEF rl
    <2>8. Pend(sl) + rl = Pend(slots)
      BY <1>3, <1>10, <2>2, <2>5, <2>6, <2>7
    <2> QED BY <1>1, <1>3, <1>4, <1>12, <1>15, <2>3, <2>7, <2>8, ActorsAre, UnlockEvents
  <1>22. SyncInv'
    <2>1. Range(<<>>) = {}
      BY DEF Range
    <2>2. Range(slots'[i].buf) \subseteq Range(slots[i].buf)
      <3>1. CASE last
        BY <1>9, <1>12, <2>1, <3>1 DEF FreeSlot
      <3>2. CASE ~last
        BY <1>5, <1>8, <1>12, <3>2
      <3> QED BY <3>1, <3>2
    <2>3. \A j \in Slots : Range(slots'[j].buf) \subseteq Range(slots[j].buf)
      BY <1>12, <2>2
    <2>4. "idle" \notin SyncPlaces \cup {"synced"}
      BY DEF SyncPlaces
    <2> QED BY <1>1, <1>15, <2>3, <2>4, ActorsAre, QuietSync
  <1>23. {j \in Slots : slots'[j].used} =
            IF last THEN {j \in Slots : slots[j].used} \ {i} ELSE {j \in Slots : slots[j].used}
    <2>1. CASE last
      <3>1. ~slots'[i].used
        BY <1>9, <1>12, <2>1 DEF FreeSlot
      <3> QED BY <1>12, <2>1, <3>1
    <2>2. CASE ~last
      <3>1. slots'[i].used
        BY <1>5, <1>8, <1>12, <2>2
      <3> QED BY <1>3, <1>12, <2>2, <3>1
    <2> QED BY <2>1, <2>2
  <1>24. blocks' = Cardinality({j \in Slots : slots'[j].used}) /\ blocks' \in 0..IngestBlocks
    <2> DEFINE U == {j \in Slots : slots[j].used}
    <2>1. IsFiniteSet(U) /\ i \in U
      <3>1. IsFiniteSet(Slots) /\ U \subseteq Slots
        BY SlotsFinite
      <3> QED BY <1>3, <3>1, FS_Subset
    <2>2. IsFiniteSet(U \ {i}) /\ Cardinality(U \ {i}) = Cardinality(U) - 1
      <3> HIDE DEF U
      <3> QED BY <2>1, FS_RemoveElement
    <2>3. Cardinality(U \ {i}) \in Nat
      BY <2>2, FS_CardinalityType
    <2>4. blocks \in 0..IngestBlocks /\ IngestBlocks \in Nat /\ blocks = Cardinality(U)
      BY <1>2, TsConstants DEF TypeOK
    <2>5. blocks - 1 \in Nat
      BY <2>2, <2>3, <2>4
    <2>6. blocks - 1 \in 0..IngestBlocks
      <3> HIDE DEF U
      <3> QED BY <2>4, <2>5
    <2>7. {j \in Slots : slots'[j].used} = IF last THEN U \ {i} ELSE U
      BY <1>23
    <2> HIDE DEF U
    <2>8. blocks' = IF last THEN blocks - 1 ELSE blocks
      BY <1>1 DEF last, i
    <2> QED BY <2>2, <2>4, <2>6, <2>7, <2>8
  <1>25. TypeOK'
    <2>1. \A j \in Slots : Len(slots'[j].buf) <= Capacity
      <3>1. \A j \in Slots : Len(slots[j].buf) <= Capacity
        BY DEF TypeOK
      <3>2. CASE last
        <4>1. slots'[i].buf = <<>> /\ Capacity \in Nat
          BY <1>9, <1>12, <3>2, TsConstants DEF FreeSlot
        <4>2. Len(slots'[i].buf) <= Capacity
          BY <4>1
        <4> QED BY <1>12, <3>1, <4>2
      <3>3. CASE ~last
        BY <1>3, <1>5, <1>8, <1>12, <3>1, <3>3
      <3> QED BY <3>2, <3>3
    <2>2. gone' \subseteq Samples
      <3>1. gone \subseteq Samples /\ Range(slots[i].buf) \subseteq Samples
        BY <1>3, RangeIn DEF TypeOK
      <3>2. gone' = IF last THEN gone \cup Range(slots[i].buf) ELSE gone
        BY <1>1 DEF last, i
      <3> QED BY <3>1, <3>2
    <2>3. /\ pc' \in [Actors -> Places] /\ at' \in [Actors -> 0..MaxStreams]
          /\ hd' \in [Threads -> Streams \cup {NoStream}]
      <3>1. 0 \in 0..MaxStreams /\ "idle" \in Places
        BY TsConstants DEF Places
      <3> QED BY <1>1, <1>2, <3>1
    <2>4. lock' \in Actors \cup {NoActor} /\ released' \in Nat /\ unheard' \in Int
      BY <1>21
    <2> QED BY <1>1, <1>12, <1>24, <2>1, <2>2, <2>3, <2>4 DEF TypeOK
  <1>26. BoundInv'
    BY <1>1 DEF BoundInv
  <1>27. \A a \in Actors : pc'[a] \notin FlushPlaces \cup {"drain"}
    <2>1. \A a \in Actors : a # t => pc[a] \notin FlushPlaces \cup {"drain"}
      BY <1>3 DEF ControlInv
    <2> QED BY <1>15, <2>1 DEF FlushPlaces
  <1>28. \A u \in Threads : ~Opening(u)' /\ pc'[u] \notin {"join", "claim"}
    <2>1. \A u \in Threads : pc'[u] = "idle" \/ pc'[u] = pc[u]
      BY <1>15, ActorsAre
    <2> QED BY <1>14, <2>1 DEF Opening
  <1>29. ControlInv'
    <2>1. ASSUME NEW u \in Threads
          PROVE  /\ pc'[u] \notin {"work", "drain"}
                 /\ (pc'[u] = "append" => todo'[u] > 0)
                 /\ (pc'[u] # "idle" => hd'[u] # NoStream)
                 /\ (pc'[u] = "unpend" => "submit" \in Faults)
                 /\ (todo'[u] > 0 => pc'[u] \in FlushPlaces \cup {"append"})
      <3>1. CASE u = t
        BY <1>1, <1>15, <3>1
      <3>2. CASE u # t
        <4>1. pc'[u] = pc[u] /\ hd'[u] = hd[u] /\ todo'[u] = todo[u]
          BY <1>1, <1>15, <3>2, ActorsAre
        <4> QED BY <4>1 DEF ControlInv
      <3> QED BY <3>1, <3>2
    <2>2. pc'[Worker] \in FlushPlaces \cup {"idle", "work", "drain"}
      BY <1>15, ActorsAre DEF ControlInv
    <2> QED BY <1>27, <1>28, <2>1, <2>2 DEF ControlInv
  <1>30. PlaceInv'
    <2>2. ASSUME NEW u \in Threads,
                 \/ pc'[u] \in FlushPlaces \cup {"full", "join"}
                 \/ pc'[u] = "append" /\ ~batch'[u]
          PROVE  at'[u] \in Open(hd[u])'
      <3>1. u # t
        BY <1>15, <2>2 DEF FlushPlaces
      <3>2. pc'[u] = pc[u] /\ at'[u] = at[u] /\ batch'[u] = batch[u]
        BY <1>1, <1>15, <3>1, ActorsAre
      <3>3. at[u] \in Open(hd[u])
        BY <2>2, <3>2 DEF PlaceInv
      <3> QED BY <1>20, <3>1, <3>2, <3>3
    <2> QED BY <1>27, <1>28, <2>2, ActorsAre DEF PlaceInv, FlushPlaces
  <1>31. /\ \A j \in Slots : slots'[j].used => /\ slots[j].used /\ slots'[j].name = slots[j].name
                                              /\ slots'[j].scanned = slots[j].scanned
                                              /\ slots'[j].cur = slots[j].cur /\ slots'[j].count >= 1
         /\ \A j \in Slots : ~slots'[j].used => slots'[j] = FreeSlot
         /\ slots'[i].used => ~last
    <2>1. CASE last
      <3>1. slots'[i] = FreeSlot /\ ~slots'[i].used
        BY <1>9, <1>12, <2>1 DEF FreeSlot
      <3>2. \A j \in Slots : slots[j].used => slots[j].count >= 1
        BY DEF SlotInv
      <3> QED BY <1>12, <1>13, <3>1, <3>2
    <2>2. CASE ~last
      <3>1. /\ slots'[i].used /\ slots'[i].name = s /\ slots'[i].scanned = slots[i].scanned
            /\ slots'[i].cur = slots[i].cur /\ slots'[i].count = slots[i].count - 1
        BY <1>5, <1>8, <1>12, <2>2
      <3>2. slots[i].count - 1 >= 1
        BY <1>3, <2>2 DEF last
      <3>3. \A j \in Slots : slots[j].used => slots[j].count >= 1
        BY DEF SlotInv
      <3>4. \A j \in Slots : slots'[j].used => /\ slots[j].used /\ slots'[j].name = slots[j].name
                                               /\ slots'[j].scanned = slots[j].scanned
                                               /\ slots'[j].cur = slots[j].cur
        BY <1>3, <1>12, <3>1
      <3>5. \A j \in Slots : slots'[j].used => slots'[j].count >= 1
        <4>1. ASSUME NEW j \in Slots, slots'[j].used PROVE slots'[j].count >= 1
          <5>1. CASE j = i
            BY <3>1, <3>2, <5>1
          <5>2. CASE j # i
            BY <1>12, <3>3, <4>1, <5>2
          <5> QED BY <5>1, <5>2
        <4> QED BY <4>1
      <3>6. \A j \in Slots : ~slots'[j].used => slots'[j] = FreeSlot
        BY <1>12, <1>13, <3>1
      <3> QED BY <2>2, <3>4, <3>5, <3>6
    <2> QED BY <2>1, <2>2
  <1>32. SlotInv'
    <2>1. /\ \A j \in Slots : ~slots'[j].used => slots'[j] = FreeSlot
          /\ \A j \in Slots : slots'[j].used => slots'[j].name \in Streams /\ slots'[j].count >= 1
      BY <1>31 DEF SlotInv
    <2>2. \A j, k \in Slots :
             slots'[j].used /\ slots'[k].used /\ slots'[j].name = slots'[k].name => j = k
      BY <1>31 DEF SlotInv
    <2>3. \A j \in Slots : slots'[j].buf # <<>> => slots'[j].scanned
      <3>1. CASE last
        BY <1>9, <1>12, <3>1 DEF FreeSlot, SlotInv
      <3>2. CASE ~last
        BY <1>5, <1>8, <1>12, <3>2 DEF SlotInv
      <3> QED BY <3>1, <3>2
    <2>4. ASSUME NEW u \in Threads, hd'[u] # NoStream
          PROVE  /\ Open(hd[u])' # {}
                 /\ \A j \in Open(hd[u])' : slots'[j].scanned
      <3>1. u # t
        BY <1>15, <2>4
      <3>2. pc[u] \notin {"join", "claim"} /\ hd[u] # NoStream /\ ~Opening(u)
        BY <1>14, <1>15, <2>4, <3>1 DEF Opening
      <3>3. Open(hd[u]) # {} /\ \A j \in Open(hd[u]) : slots[j].scanned
        BY <3>2 DEF SlotInv
      <3>4. \A j \in Open(hd[u])' : j \in Slots /\ slots'[j].used
        BY DEF Open
      <3> QED BY <1>20, <1>31, <3>1, <3>3, <3>4
    <2> QED BY <2>1, <2>2, <2>3, <2>4 DEF SlotInv
  <1>33. ASSUME NEW j \in Slots, slots'[j].used
         PROVE  \/ j = i /\ slots'[j].name = s /\ slots'[j].count = slots[j].count - 1
                \/ /\ slots[j].used /\ slots'[j].name = slots[j].name /\ slots[j].name # s
                   /\ slots'[j].count = slots[j].count /\ slots[j].name \in Streams
    <2>1. CASE j = i
      BY <1>5, <1>8, <1>12, <1>31, <1>33, <2>1
    <2>2. CASE j # i
      BY <1>3, <1>12, <1>33, <2>2 DEF SlotInv
    <2> QED BY <2>1, <2>2
  <1>34. CountInv'
    <2>1. ASSUME NEW j \in Slots, slots'[j].used
          PROVE  slots'[j].count >= Cardinality(Handles(slots[j].name)')
      <3>1. CASE j = i /\ slots'[j].name = s /\ slots'[j].count = slots[j].count - 1
        <4>1. Cardinality(Handles(slots[j].name)') = c - 1
          BY <1>18, <3>1
        <4> QED BY <1>3, <1>18, <3>1, <4>1
      <3>2. CASE /\ slots[j].used /\ slots'[j].name = slots[j].name /\ slots[j].name # s
                 /\ slots'[j].count = slots[j].count /\ slots[j].name \in Streams
        <4>1. slots[j].count >= Cardinality(Handles(slots[j].name))
          BY <3>2 DEF CountInv
        <4> QED BY <1>17, <3>2, <4>1
      <3> QED BY <1>33, <2>1, <3>1, <3>2
    <2> QED BY <1>24, <2>1 DEF CountInv
  <1>35. HeaderInv'
    <2> SUFFICES ASSUME "header" \notin Faults PROVE HeaderInv'
      BY DEF HeaderInv
    <2>1. FilesHeaded(disk')
      BY <1>1 DEF HeaderInv
    <2>2. NewestHeaded(disk', slots')
      <3>1. NewestHeaded(disk, slots)
        BY DEF HeaderInv
      <3> QED BY <1>1, <1>31, <3>1 DEF NewestHeaded
    <2>3. ASSUME NEW j \in Slots, slots'[j].used
          PROVE  slots'[j].count = Cardinality(Handles(slots[j].name)')
      <3>1. CASE j = i /\ slots'[j].name = s /\ slots'[j].count = slots[j].count - 1
        <4>1. slots[i].count = c
          BY <1>3 DEF HeaderInv, c
        <4> QED BY <1>18, <3>1, <4>1
      <3>2. CASE /\ slots[j].used /\ slots'[j].name = slots[j].name /\ slots[j].name # s
                 /\ slots'[j].count = slots[j].count /\ slots[j].name \in Streams
        <4>1. slots[j].count = Cardinality(Handles(slots[j].name))
          BY <3>2 DEF HeaderInv
        <4> QED BY <1>17, <3>2, <4>1
      <3> QED BY <1>33, <2>3, <3>1, <3>2
    <2> QED BY <2>1, <2>2, <2>3 DEF HeaderInv
  <1> QED
    BY <1>21, <1>22, <1>25, <1>26, <1>29, <1>30, <1>32, <1>34, <1>35

--------------------------------------------------------------------------------
(* Steps of zdb_ts_open() *)

(* The thread that opens stream s is alone in a call; it writes the slot of the *)
(* stream, whose buffer it leaves alone, and moves on with or without a handle. *)
LEMMA OpenMoves ==
  ASSUME TsInv, NEW t \in Threads, Opening(t), NEW s \in Streams, hd[t] = s,
         NEW i \in Slots, Open(s) \subseteq {i}, slots[i].used => slots[i].name = s,
         NEW p \in {"recover", "idle"}, NEW h \in {s, NoStream}, NEW k \in 0..MaxStreams,
         NEW x \in Slot, NEW H,
         H = IF h = s THEN Handles(s) \cup {t} ELSE Handles(s) \ {t},
         Moves(t, p, k, h, todo[t]), todo' = todo,
         slots' = [slots EXCEPT ![i] = x],
         x.used, x.name = s, x.count >= 1, x.buf = slots[i].buf, x.pend = slots[i].pend,
         slots[i].scanned => x.scanned /\ x.cur = slots[i].cur /\ x.oldest = slots[i].oldest,
         p = "idle" /\ h = s => x.scanned,
         p = "recover" => h = s,
         x.count >= Cardinality(H), "header" \notin Faults => x.count = Cardinality(H),
         blocks' = Cardinality({j \in Slots : slots[j].used} \cup {i}),
         blocks' \in 0..IngestBlocks,
         FilesOK(disk'),
         "header" \notin Faults => FilesHeaded(disk') /\ NewestHeaded(disk', slots'),
         gone' \subseteq Samples, fails' \in 0..MaxFails,
         UNCHANGED <<pending, sem, queued, released, lock, batch, drain, made, boots, log, owed, unheard>>
  PROVE  TsInv'
  <1> USE DEF TsInv, StoreInv
  <1>1. /\ slots \in [Slots -> Slot] /\ pc \in [Actors -> Places] /\ todo \in [Threads -> Nat]
        /\ hd \in [Threads -> Streams \cup {NoStream}] /\ at \in [Actors -> 0..MaxStreams]
    BY DEF TypeOK
  <1>2. NoStream \notin Streams /\ s # NoStream
    BY TsConstants
  <1>3. /\ pc'[t] = p /\ at'[t] = k /\ hd'[t] = h /\ Worker # t /\ t \in Actors
        /\ \A a \in Actors : a # t => pc'[a] = pc[a] /\ at'[a] = at[a]
        /\ \A u \in Threads : u # t => hd'[u] = hd[u]
    BY MovesTo
  <1>4. \A u \in Threads : u # t => pc[u] = "idle" /\ pc'[u] = "idle"
    <2>1. \A u \in Threads : u # t => pc[u] = "idle"
      BY DEF ControlInv
    <2> QED BY <1>3, <2>1, ActorsAre
  <1>5. pc[t] \in {"join", "claim", "recover"} /\ ~(todo[t] > 0)
    <2>1. pc[t] \in {"join", "claim", "recover"}
      BY DEF Opening
    <2> QED BY <2>1 DEF ControlInv, FlushPlaces
  <1>6. slots'[i] = x /\ \A j \in Slots : j # i => slots'[j] = slots[j]
    BY <1>1
  <1>7. \A j \in Slots : slots'[j].buf = slots[j].buf /\ slots'[j].pend = slots[j].pend
    BY <1>6
  <1>8. slots[i].used => i \in Open(s)
    BY DEF Open
  <1>9. \A r : r # s => Open(r)' = Open(r)
    <2> SUFFICES ASSUME NEW r, r # s, NEW j \in Slots
                 PROVE  slots'[j].used /\ slots'[j].name = r <=> slots[j].used /\ slots[j].name = r
      BY DEF Open
    <2>1. CASE j = i
      BY <1>6, <2>1
    <2>2. CASE j # i
      BY <1>6, <2>2
    <2> QED BY <2>1, <2>2
  <1>10. ASSUME NEW r, r = s PROVE Open(r)' = {i}
    <2>1. \A j \in Slots : j # i => ~(slots[j].used /\ slots[j].name = s)
      BY DEF Open
    <2> QED BY <1>6, <1>10, <2>1 DEF Open
  <1>11. \A r \in Streams : r # s => Handles(r)' = Handles(r)
    <2>1. \A r \in Streams : r # s =>
             \A u \in Threads : u \in Handles(r)' <=> u \in Handles(r)
      <3> SUFFICES ASSUME NEW r \in Streams, r # s, NEW u \in Threads
                   PROVE  u \in Handles(r)' <=> u \in Handles(r)
        OBVIOUS
      <3>1. CASE u = t
        BY <1>2, <1>3, <3>1 DEF Handles
      <3>2. CASE u # t
        BY <1>3, <1>4, <3>2 DEF Handles
      <3> QED BY <3>1, <3>2
    <2> QED BY <2>1 DEF Handles
  <1>12. Handles(s)' = H
    <2>1. t \in Handles(s)' <=> h = s
      BY <1>2, <1>3 DEF Handles
    <2>2. \A u \in Threads : u # t => (u \in Handles(s)' <=> u \in Handles(s))
      BY <1>3, <1>4 DEF Handles
    <2>3. Handles(s) \subseteq Threads /\ Handles(s)' \subseteq Threads
      BY DEF Handles
    <2> QED BY <2>1, <2>2, <2>3
  <1>13. TypeOK'
    <2>1. slots' \in [Slots -> Slot]
      BY <1>1
    <2>2. \A j \in Slots : Len(slots'[j].buf) <= Capacity
      BY <1>7 DEF TypeOK
    <2>3. /\ pc' \in [Actors -> Places] /\ at' \in [Actors -> 0..MaxStreams]
          /\ hd' \in [Threads -> Streams \cup {NoStream}]
      BY <1>1 DEF Moves, Places
    <2> QED BY <2>1, <2>2, <2>3 DEF TypeOK, FilesOK
  <1>14. BoundInv'
    BY DEF BoundInv, FilesOK
  <1>15. ControlInv'
    <2>1. \A a \in Actors : pc'[a] \in FlushPlaces \cup {"drain"} => a # t /\ lock' = a
      BY <1>3 DEF ControlInv, FlushPlaces
    <2>2. ASSUME NEW u \in Threads
          PROVE  /\ pc'[u] \notin {"work", "drain", "append", "unpend"}
                 /\ (pc'[u] # "idle" => hd'[u] # NoStream)
                 /\ ~(todo'[u] > 0)
                 /\ (Opening(u)' => u = t)
      <3>1. CASE u = t
        BY <1>2, <1>3, <1>5, <3>1
      <3>2. CASE u # t
        <4>1. ~(todo[u] > 0)
          BY <1>4, <3>2 DEF ControlInv, FlushPlaces
        <4> QED BY <1>4, <3>2, <4>1 DEF Opening
      <3> QED BY <3>1, <3>2
    <2>3. pc'[Worker] \in FlushPlaces \cup {"idle", "work", "drain"}
      BY <1>3, ActorsAre DEF ControlInv
    <2> QED BY <1>4, <2>1, <2>2, <2>3 DEF ControlInv
  <1>16. PlaceInv'
    <2>1. \A u \in Threads : pc'[u] \in {"idle", "recover"}
      BY <1>3, <1>4
    <2>2. \A a \in Actors : pc'[a] \in FlushPlaces =>
             a = Worker /\ pc'[a] = pc[a] /\ at'[a] = at[a]
      BY <1>3, <2>1, ActorsAre DEF FlushPlaces
    <2>3. ASSUME pc[Worker] \in FlushPlaces
          PROVE  /\ at[Worker] \in Slots
                 /\ slots'[at[Worker]].used /\ slots'[at[Worker]].scanned
                 /\ slots'[at[Worker]].buf = slots[at[Worker]].buf
                 /\ slots'[at[Worker]].cur = slots[at[Worker]].cur
                 /\ slots'[at[Worker]].oldest = slots[at[Worker]].oldest
      <3>1. at[Worker] \in Slots /\ slots[at[Worker]].used /\ slots[at[Worker]].scanned
        BY <2>3, ActorsAre DEF PlaceInv
      <3>2. CASE at[Worker] = i
        BY <1>6, <3>1, <3>2
      <3>3. CASE at[Worker] # i
        BY <1>6, <3>1, <3>3
      <3> QED BY <3>2, <3>3
    <2>4. \A a \in Actors : pc'[a] \in FlushPlaces =>
             at'[a] \in Slots /\ slots'[at'[a]].used /\ slots'[at'[a]].scanned
      BY <2>2, <2>3
    <2>5. \A a \in Actors : pc'[a] \in {"roll", "discard"} => slots'[at'[a]].buf = <<>>
      BY <2>2, <2>3 DEF PlaceInv, FlushPlaces
    <2>6. \A a \in Actors : pc'[a] = "discard" => TooMany(slots'[at'[a]])
      BY <2>2, <2>3 DEF PlaceInv, FlushPlaces, TooMany
    <2> QED BY <2>1, <2>4, <2>5, <2>6 DEF PlaceInv, FlushPlaces
  <1>17. SlotInv'
    <2>1. \A j \in Slots : ~slots'[j].used => slots'[j] = FreeSlot
      BY <1>6 DEF SlotInv
    <2>2. \A j \in Slots : slots'[j].used => slots'[j].name \in Streams /\ slots'[j].count >= 1
      BY <1>6 DEF SlotInv
    <2>3. \A j, l \in Slots :
             slots'[j].used /\ slots'[l].used /\ slots'[j].name = slots'[l].name => j = l
      <3>1. \A j \in Slots : slots'[j].used /\ slots'[j].name = s => j = i
        BY <1>6 DEF Open
      <3> QED BY <1>6, <3>1 DEF SlotInv
    <2>4. \A j \in Slots : slots'[j].buf # <<>> => slots'[j].scanned
      <3>1. \A j \in Slots : slots[j].buf # <<>> => slots[j].scanned
        BY DEF SlotInv
      <3> QED BY <1>6, <1>7, <3>1
    <2>5. ASSUME NEW u \in Threads, hd'[u] # NoStream
          PROVE  Open(hd[u])' # {}
      <3>1. CASE hd'[u] = s
        BY <1>10, <3>1
      <3>2. CASE hd'[u] # s
        <4>1. u # t
          BY <1>3, <2>5, <3>2
        <4>2. Open(hd[u]) # {} /\ hd[u] = hd'[u]
          BY <1>3, <1>4, <2>5, <4>1 DEF SlotInv
        <4> QED BY <1>9, <3>2, <4>2
      <3> QED BY <3>1, <3>2
    <2>6. ASSUME NEW u \in Threads, hd'[u] # NoStream, ~Opening(u)', NEW j \in Open(hd[u])'
          PROVE  slots'[j].scanned
      <3>1. CASE u = t
        <4>1. h = s /\ hd'[u] = s
          BY <1>3, <2>6, <3>1
        <4>2. p = "idle"
          BY <1>3, <2>6, <3>1 DEF Opening
        <4> QED BY <1>6, <1>10, <2>6, <4>1, <4>2
      <3>2. CASE u # t
        <4>1. hd[u] = hd'[u] /\ ~Opening(u)
          BY <1>3, <1>4, <3>2 DEF Opening
        <4>2. \A l \in Open(hd[u]) : slots[l].scanned
          BY <2>6, <4>1 DEF SlotInv
        <4>3. CASE hd[u] # s
          <5>1. j \in Open(hd[u]) /\ j # i
            BY <1>8, <1>9, <2>6, <4>1, <4>3 DEF Open
          <5> QED BY <1>6, <4>2, <5>1 DEF Open
        <4>4. CASE hd[u] = s
          <5>1. j = i
            BY <1>10, <2>6, <4>1, <4>4
          <5>2. Open(hd[u]) # {}
            BY <1>4, <2>6, <3>2, <4>1 DEF SlotInv
          <5>3. slots[i].scanned
            BY <4>2, <4>4, <5>2
          <5> QED BY <1>6, <5>1, <5>3
        <4> QED BY <4>3, <4>4
      <3> QED BY <3>1, <3>2
    <2> QED BY <2>1, <2>2, <2>3, <2>4, <2>5, <2>6 DEF SlotInv
  <1>18. {j \in Slots : slots'[j].used} = {j \in Slots : slots[j].used} \cup {i}
    BY <1>6
  <1>19. ASSUME NEW j \in Slots, slots'[j].used, j # i
         PROVE  /\ slots[j].used /\ slots'[j] = slots[j]
                /\ Handles(slots[j].name)' = Handles(slots[j].name)
    <2>1. slots[j].used /\ slots'[j] = slots[j] /\ slots[j].name \in Streams /\ slots[j].name # s
      BY <1>6, <1>19 DEF Open, SlotInv
    <2> QED BY <1>11, <2>1
  <1>20. ASSUME NEW j \in Slots, j = i
         PROVE  slots'[j] = x /\ Handles(slots[j].name)' = H
    BY <1>6, <1>12, <1>20
  <1>21. CountInv'
    <2>1. ASSUME NEW j \in Slots, slots'[j].used
          PROVE  slots'[j].count >= Cardinality(Handles(slots[j].name)')
      <3>1. CASE j = i
        BY <1>20, <3>1
      <3>2. CASE j # i
        BY <1>19, <2>1, <3>2 DEF CountInv
      <3> QED BY <3>1, <3>2
    <2> QED BY <1>18, <2>1 DEF CountInv
  <1>22. HeaderInv'
    <2> SUFFICES ASSUME "header" \notin Faults PROVE HeaderInv'
      BY DEF HeaderInv
    <2>1. ASSUME NEW j \in Slots, slots'[j].used
          PROVE  slots'[j].count = Cardinality(Handles(slots[j].name)')
      <3>1. CASE j = i
        BY <1>20, <3>1
      <3>2. CASE j # i
        BY <1>19, <2>1, <3>2 DEF HeaderInv
      <3> QED BY <3>1, <3>2
    <2> QED BY <2>1 DEF HeaderInv
  <1>23. EventInv'
    <2>1. \A j \in Slots : slots[j].pend \in Nat
      BY <1>1 DEF Slot
    <2>2. Pend(slots') = Pend(slots)
      BY <1>7, <2>1, PendSame
    <2>3. pc'[Worker] = pc[Worker] /\ at'[Worker] = at[Worker]
      BY <1>3, ActorsAre
    <2>4. pc[Worker] \in FlushPlaces => at[Worker] \in Slots
      BY ActorsAre DEF PlaceInv
    <2>5. /\ released' = 0 /\ unheard' = Pend(slots') + drain'.sum
          /\ (lock' = NoActor => \A j \in Slots : slots'[j].pend = 0)
          /\ (pc'[Worker] \in {"idle", "work"} => drain'.sum = 0)
          /\ (pc'[Worker] \notin {"idle", "work"} =>
                \A j \in Slots : j >= drain'.next => slots'[j].pend = 0)
      BY <1>7, <2>2, <2>3 DEF EventInv
    <2>6. /\ (pc'[Worker] \in FlushPlaces => at'[Worker] < drain'.next)
          /\ (pc'[Worker] = "write" =>
                slots'[at'[Worker]].pend = 0 /\ drain'.bytes = Len(slots'[at'[Worker]].buf))
          /\ (pc'[Worker] \in {"roll", "discard", "flushed"} =>
                slots'[at'[Worker]].pend = drain'.bytes)
      BY <1>7, <2>3, <2>4 DEF EventInv, FlushPlaces
    <2> QED BY <2>5, <2>6 DEF EventInv
  <1>24. SyncInv'
    <2>1. \A j \in Slots : Range(slots'[j].buf) \subseteq Range(slots[j].buf)
      BY <1>7
    <2>2. p \notin SyncPlaces \cup {"synced"} /\ pc' = [pc EXCEPT ![t] = p]
      BY DEF SyncPlaces, Moves
    <2>3. at'[Worker] = at[Worker]
      BY <1>3, ActorsAre
    <2> QED BY <1>3, <2>1, <2>2, <2>3, QuietSync
  <1> QED
    BY <1>13, <1>14, <1>15, <1>16, <1>17, <1>21, <1>22, <1>23, <1>24

LEMMA OpenOne ==
  ASSUME SlotInv, NEW s, NEW i \in Open(s)
  PROVE  Open(s) = {i} /\ i \in Slots /\ slots[i].used /\ slots[i].name = s
  BY DEF SlotInv, Open

LEMMA UsedSize ==
  /\ IsFiniteSet({j \in Slots : slots[j].used})
  /\ \A i \in Slots : ~slots[i].used =>
        /\ Cardinality({j \in Slots : slots[j].used} \cup {i}) =
              Cardinality({j \in Slots : slots[j].used}) + 1
        /\ Cardinality({j \in Slots : slots[j].used}) + 1 <= MaxStreams
  <1> DEFINE U == {j \in Slots : slots[j].used}
  <1>1. IsFiniteSet(Slots) /\ U \subseteq Slots /\ Cardinality(Slots) = MaxStreams
    <2>1. MaxStreams \in Nat /\ MaxStreams >= 1
      BY TsConstants
    <2>2. Cardinality(1..MaxStreams) = MaxStreams
      BY <2>1, FS_Interval
    <2> QED BY <2>2, SlotsFinite DEF Slots
  <1>2. IsFiniteSet(U)
    BY <1>1, FS_Subset
  <1>3. ASSUME NEW i \in Slots, i \notin U
        PROVE  Cardinality(U \cup {i}) = Cardinality(U) + 1 /\ Cardinality(U) + 1 <= MaxStreams
    <2>1. Cardinality(U \cup {i}) = Cardinality(U) + 1
      <3> HIDE DEF U
      <3> QED BY <1>2, <1>3, FS_AddElement
    <2>2. U \cup {i} \subseteq Slots
      OBVIOUS
    <2>3. Cardinality(U \cup {i}) <= MaxStreams
      <3> HIDE DEF U
      <3> QED BY <1>1, <2>2, FS_Subset
    <2> QED BY <2>1, <2>3
  <1> QED BY <1>2, <1>3

LEMMA OpenJoinStep ==
  ASSUME TsAssumptions, TsInv, NEW t \in Threads, OpenJoin(t)
  PROVE  TsInv'
  <1> USE DEF TsInv, StoreInv
  <1>1. /\ pc[t] = "join" /\ Opening(t) /\ pc' = [pc EXCEPT ![t] = "recover"]
        /\ UNCHANGED <<disk, blocks, pending, sem, queued, released, lock, at, hd, todo, batch, drain, made,
                       boots, fails, log, gone, owed, unheard>>
    BY DEF OpenJoin, Opening, Go, flushVars, callVars, sysVars, sampleVars
  <1>2. /\ slots \in [Slots -> Slot] /\ hd \in [Threads -> Streams \cup {NoStream}]
        /\ todo \in [Threads -> Nat] /\ at \in [Actors -> 0..MaxStreams]
    BY DEF TypeOK
  <1>3. PICK s \in Streams : s = hd[t]
    <2>1. hd[t] # NoStream
      BY <1>1 DEF ControlInv
    <2> QED BY <1>2, <2>1
  <1>4. PICK i \in Slots : i = at[t] /\ Open(s) = {i} /\ slots[i].used /\ slots[i].name = s
    <2>1. at[t] \in Open(s)
      BY <1>1, <1>3 DEF PlaceInv
    <2> QED BY <2>1, OpenOne
  <1> DEFINE c == slots[i].count
             n == IF c < OpenCountMax THEN c + 1 ELSE c
             x == [slots[i] EXCEPT !.count = n]
             H == Handles(s) \cup {t}
  <1>5. c \in Nat /\ n \in Nat /\ slots[i] \in Slot /\ OpenCountMax \in Nat /\ c >= 1 /\ n >= 1
    <2>1. slots[i] \in Slot /\ OpenCountMax \in Nat
      BY <1>2, <1>4, TsConstants
    <2>2. c \in Nat
      BY <2>1 DEF Slot
    <2>3. c >= 1
      BY <1>4 DEF SlotInv
    <2> QED BY <2>1, <2>2, <2>3
  <1>6. slots' = [slots EXCEPT ![i] = x]
    <2>1. slots' = IF c < OpenCountMax THEN [slots EXCEPT ![i].count = @ + 1] ELSE slots
      BY <1>4 DEF OpenJoin
    <2>2. CASE c < OpenCountMax
      BY <2>1, <2>2
    <2>3. CASE ~(c < OpenCountMax)
      <3>1. x = slots[i]
        BY <1>5, <2>3 DEF Slot
      <3>2. [slots EXCEPT ![i] = slots[i]] = slots
        BY <1>2, <1>4
      <3> QED BY <2>1, <2>3, <3>1, <3>2
    <2> QED BY <2>2, <2>3
  <1> HIDE DEF n
  <1>7. /\ x \in Slot /\ x.used /\ x.name = s /\ x.count = n /\ x.buf = slots[i].buf
        /\ x.pend = slots[i].pend /\ x.scanned = slots[i].scanned /\ x.cur = slots[i].cur
        /\ x.oldest = slots[i].oldest
    BY <1>4, <1>5 DEF Slot
  <1> HIDE DEF x
  <1>8. /\ n >= Cardinality(H) /\ ("header" \notin Faults => n = Cardinality(H))
    <2>1. IsFiniteSet(Handles(s)) /\ Cardinality(Handles(s)) \in Nat /\ t \notin Handles(s)
      BY <1>1, HandlesFinite DEF Handles
    <2>2. Cardinality(H) = Cardinality(Handles(s)) + 1
      BY <2>1, FS_AddElement
    <2>3. Cardinality(H) <= OpenCountMax
      <3>1. H \subseteq Threads /\ IsFiniteSet(Threads)
        BY DEF Handles, TsAssumptions
      <3>2. Cardinality(H) <= Cardinality(Threads)
        <4> HIDE DEF H
        <4> QED BY <3>1, FS_Subset
      <3>3. Cardinality(Threads) \in Nat
        BY <3>1, FS_CardinalityType
      <3>4. Cardinality(Threads) <= OpenCountMax
        BY DEF TsAssumptions
      <3> HIDE DEF H
      <3> QED BY <1>5, <2>1, <2>2, <3>2, <3>3, <3>4
    <2>4. c >= Cardinality(Handles(s))
      BY <1>4 DEF CountInv
    <2>5. "header" \notin Faults => c = Cardinality(Handles(s))
      BY <1>4 DEF HeaderInv
    <2> HIDE DEF H, c
    <2>6. n >= Cardinality(H)
      BY <1>5, <2>1, <2>2, <2>3, <2>4 DEF n
    <2>7. "header" \notin Faults => n = Cardinality(H)
      BY <1>5, <2>1, <2>2, <2>3, <2>5 DEF n
    <2> QED BY <2>6, <2>7
  <1>9. Moves(t, "recover", at[t], s, todo[t]) /\ at[t] \in 0..MaxStreams
    BY <1>1, <1>2, <1>3, ActorsAre DEF Moves
  <1>10. blocks' = Cardinality({j \in Slots : slots[j].used} \cup {i}) /\ blocks' \in 0..IngestBlocks
    <2>1. {j \in Slots : slots[j].used} \cup {i} = {j \in Slots : slots[j].used}
      BY <1>4
    <2> QED BY <1>1, <2>1 DEF CountInv, TypeOK
  <1>11. FilesOK(disk') /\ gone' \subseteq Samples /\ fails' \in 0..MaxFails
    BY <1>1, FilesNow DEF TypeOK
  <1>12. "header" \notin Faults => FilesHeaded(disk') /\ NewestHeaded(disk', slots')
    <2> SUFFICES ASSUME "header" \notin Faults
                 PROVE  FilesHeaded(disk') /\ NewestHeaded(disk', slots')
      OBVIOUS
    <2>1. FilesHeaded(disk) /\ NewestHeaded(disk, slots)
      BY DEF HeaderInv
    <2>2. slots'[i] = x /\ \A j \in Slots : j # i => slots'[j] = slots[j]
      BY <1>2, <1>6
    <2>3. \A j \in Slots : /\ slots'[j].used = slots[j].used \/ slots[j].used
                           /\ slots'[j].scanned = slots[j].scanned
                           /\ slots'[j].name = slots[j].name /\ slots'[j].cur = slots[j].cur
      BY <1>4, <1>7, <2>2
    <2> QED BY <1>1, <2>1, <2>3 DEF NewestHeaded
  <1>13. H = IF s = s THEN Handles(s) \cup {t} ELSE Handles(s) \ {t}
    OBVIOUS
  <1> HIDE DEF H
  <1>14. /\ x.count >= 1 /\ x.count >= Cardinality(H)
         /\ ("header" \notin Faults => x.count = Cardinality(H))
         /\ (slots[i].scanned => x.scanned /\ x.cur = slots[i].cur /\ x.oldest = slots[i].oldest)
    BY <1>5, <1>7, <1>8
  <1>15. Open(s) \subseteq {i} /\ (slots[i].used => slots[i].name = s) /\ hd[t] = s
    BY <1>3, <1>4
  <1> QED
    BY <1>1, <1>6, <1>7, <1>9, <1>10, <1>11, <1>12, <1>13, <1>14, <1>15, OpenMoves

LEMMA OpenClaimStep ==
  ASSUME TsAssumptions, TsInv, NEW t \in Threads, OpenClaim(t)
  PROVE  TsInv'
  <1> USE DEF TsInv, StoreInv
  <1>1. /\ pc[t] = "claim" /\ Opening(t)
        /\ UNCHANGED <<disk, pending, sem, queued, released, lock, todo, batch, drain, made, boots,
                       fails, log, gone, owed, unheard>>
    BY DEF OpenClaim, Opening, flushVars, sysVars, sampleVars
  <1>2. /\ slots \in [Slots -> Slot] /\ hd \in [Threads -> Streams \cup {NoStream}]
        /\ todo \in [Threads -> Nat] /\ at \in [Actors -> 0..MaxStreams]
    BY DEF TypeOK
  <1>3. PICK s \in Streams : s = hd[t]
    <2>1. hd[t] # NoStream
      BY <1>1 DEF ControlInv
    <2> QED BY <1>2, <2>1
  <1>4. PICK i \in Slots : i = at[t] /\ ~slots[i].used /\ Open(s) = {}
    BY <1>1, <1>3 DEF PlaceInv
  <1>5. slots[i] = FreeSlot
    BY <1>4 DEF SlotInv
  <1>6. /\ blocks < IngestBlocks /\ blocks + 1 \in 0..IngestBlocks
        /\ blocks + 1 = Cardinality({j \in Slots : slots[j].used} \cup {i})
    <2>1. /\ blocks = Cardinality({j \in Slots : slots[j].used}) /\ blocks \in Nat
      BY TsConstants DEF CountInv, TypeOK
    <2>2. MaxStreams \in Nat /\ IngestBlocks \in Nat /\ IngestBlocks >= MaxStreams
      BY TsConstants
    <2>3. /\ Cardinality({j \in Slots : slots[j].used} \cup {i}) = blocks + 1
          /\ blocks + 1 <= MaxStreams
      BY <1>4, <2>1, UsedSize
    <2>4. blocks < IngestBlocks /\ blocks + 1 \in 0..IngestBlocks
      BY <2>1, <2>2, <2>3
    <2> QED BY <2>3, <2>4
  <1> DEFINE x == [FreeSlot EXCEPT !.used = TRUE, !.name = s, !.count = 1]
             H == Handles(s) \cup {t}
  <1>7. /\ slots' = [slots EXCEPT ![i] = x] /\ blocks' = blocks + 1
        /\ pc' = [pc EXCEPT ![t] = "recover"] /\ hd' = hd /\ at' = at
    BY <1>3, <1>4, <1>6 DEF OpenClaim, Go
  <1>8. /\ x \in Slot /\ x.used /\ x.name = s /\ x.count = 1 /\ x.buf = slots[i].buf
        /\ x.pend = slots[i].pend /\ x.scanned = FALSE /\ ~slots[i].scanned
    <2>1. x \in Slot /\ x.used /\ x.name = s /\ x.count = 1
      BY FreeSlotType DEF Slot
    <2>2. x.buf = FreeSlot.buf /\ x.pend = FreeSlot.pend /\ x.scanned = FreeSlot.scanned
      BY FreeSlotType DEF Slot
    <2>3. FreeSlot.scanned = FALSE
      BY DEF FreeSlot
    <2> HIDE DEF x
    <2> QED BY <1>5, <2>1, <2>2, <2>3
  <1> HIDE DEF x
  <1>9. Cardinality(H) = 1
    <2>1. Handles(s) = {}
      <3> SUFFICES ASSUME NEW u \in Handles(s) PROVE FALSE
        OBVIOUS
      <3>1. NoStream \notin Streams
        BY TsConstants
      <3>2. Open(s) # {}
        BY <3>1 DEF Handles, SlotInv
      <3> QED BY <1>4, <3>2
    <2>2. H = {t}
      BY <2>1
    <2> QED BY <2>2, FS_Singleton
  <1>10. Moves(t, "recover", at[t], s, todo[t]) /\ at[t] \in 0..MaxStreams
    BY <1>1, <1>2, <1>3, <1>7, ActorsAre DEF Moves
  <1>11. FilesOK(disk') /\ gone' \subseteq Samples /\ fails' \in 0..MaxFails
    BY <1>1, FilesNow DEF TypeOK
  <1>12. "header" \notin Faults => FilesHeaded(disk') /\ NewestHeaded(disk', slots')
    <2> SUFFICES ASSUME "header" \notin Faults
                 PROVE  FilesHeaded(disk') /\ NewestHeaded(disk', slots')
      OBVIOUS
    <2>1. FilesHeaded(disk) /\ NewestHeaded(disk, slots)
      BY DEF HeaderInv
    <2>2. slots'[i] = x /\ \A j \in Slots : j # i => slots'[j] = slots[j]
      BY <1>2, <1>7
    <2>3. ~slots'[i].scanned
      BY <1>8, <2>2
    <2> QED BY <1>1, <2>1, <2>2, <2>3 DEF NewestHeaded
  <1>13. H = IF s = s THEN Handles(s) \cup {t} ELSE Handles(s) \ {t}
    OBVIOUS
  <1> HIDE DEF H
  <1>14. /\ x.count >= 1 /\ x.count >= Cardinality(H)
         /\ ("header" \notin Faults => x.count = Cardinality(H))
    BY <1>8, <1>9
  <1>15. Open(s) \subseteq {i} /\ ~slots[i].used /\ hd[t] = s
    BY <1>3, <1>4
  <1>16. blocks' = Cardinality({j \in Slots : slots[j].used} \cup {i}) /\ blocks' \in 0..IngestBlocks
    BY <1>6, <1>7
  <1> QED
    BY <1>1, <1>7, <1>8, <1>10, <1>11, <1>12, <1>13, <1>14, <1>15, <1>16, OpenMoves

(* The newest file of a stream, as recovery finds it, is one with a header      *)
(* unless writing one failed.                                                   *)
LEMMA OpenRecoverStep ==
  ASSUME TsAssumptions, TsInv, NEW t \in Threads, OpenRecover(t)
  PROVE  TsInv'
  <1> USE DEF TsInv, StoreInv
  <1>1. /\ pc[t] = "recover" /\ Opening(t)
        /\ pc' = [pc EXCEPT ![t] = "idle"] /\ at' = [at EXCEPT ![t] = 0]
        /\ UNCHANGED <<blocks, pending, sem, queued, released, lock, todo, batch, drain, made, boots,
                       log, owed, unheard>>
    BY DEF OpenRecover, Opening, Go, flushVars
  <1>2. /\ slots \in [Slots -> Slot] /\ hd \in [Threads -> Streams \cup {NoStream}]
        /\ todo \in [Threads -> Nat] /\ at \in [Actors -> 0..MaxStreams]
    BY DEF TypeOK
  <1>3. PICK s \in Streams : s = hd[t] /\ s # NoStream
    <2>1. hd[t] # NoStream
      BY <1>1 DEF ControlInv
    <2> QED BY <1>2, <2>1
  <1>4. PICK i \in Slots : i = slot_find(s) /\ Open(s) = {i} /\ slots[i].used /\ slots[i].name = s
    <2>1. Open(s) # {}
      BY <1>1, <1>3 DEF SlotInv
    <2>2. slot_find(s) \in Open(s)
      BY <2>1, FindSlot
    <2> QED BY <2>2, OpenOne
  <1>5. i # 0 /\ slots[i] \in Slot /\ slots[i].cur \in Nat
    <2>1. i # 0
      BY <1>4 DEF Slots
    <2>2. slots[i] \in Slot
      BY <1>2, <1>4
    <2> QED BY <2>1, <2>2 DEF Slot
  <1> DEFINE n == IF slots[i].scanned THEN slots[i].cur ELSE Highest(Window(s))
             old == FileAt(s, n)
             f == IF old = EmptyFile THEN NewSegment ELSE old
             good == GoodPrefix(f.recs)
             lost == {f.recs[j] : j \in {k \in 1..Len(f.recs) : BehindBad(f.recs, k)}} \ {Bad}
             g == [f EXCEPT !.recs = SubSeq(f.recs, 1, good), !.torn = FALSE]
             x == scan_segments(slots[i], s, f)
  <1>6. \/ /\ f.hdr /\ disk' = Put(s, n, g) /\ slots' = [slots EXCEPT ![i] = x]
           /\ gone' = gone \cup lost /\ UNCHANGED <<hd, fails>>
        \/ /\ \/ ~f.hdr /\ UNCHANGED <<disk, fails>>
              \/ old = EmptyFile /\ Fault("header") /\ disk' \in HeaderFails(s, n)
           /\ hd' = [hd EXCEPT ![t] = NoStream] /\ UNCHANGED <<slots, gone>>
    <2> DEFINE F(u, m) == IF FileAt(u, m) = EmptyFile THEN NewSegment ELSE FileAt(u, m)
               Lost(r) == {r[j] : j \in {k \in 1..Len(r) : BehindBad(r, k)}} \ {Bad}
               Recovers(u, k, m) ==
                 \/ /\ k # 0 /\ F(u, m).hdr
                    /\ disk' = Put(u, m, [F(u, m) EXCEPT
                                 !.recs = SubSeq(F(u, m).recs, 1, GoodPrefix(F(u, m).recs)),
                                 !.torn = FALSE])
                    /\ slots' = [slots EXCEPT ![k] = scan_segments(@, u, F(u, m))]
                    /\ gone' = gone \cup Lost(F(u, m).recs) /\ UNCHANGED <<hd, fails>>
                 \/ /\ \/ (k = 0 \/ ~F(u, m).hdr) /\ UNCHANGED <<disk, fails>>
                       \/ FileAt(u, m) = EmptyFile /\ Fault("header") /\ disk' \in HeaderFails(u, m)
                    /\ hd' = [hd EXCEPT ![t] = NoStream] /\ UNCHANGED <<slots, gone>>
               N(u, k) == IF k # 0 /\ slots[k].scanned THEN slots[k].cur ELSE Highest(Window(u))
    <2>1. Recovers(hd[t], slot_find(hd[t]), N(hd[t], slot_find(hd[t])))
      BY Zenon DEF OpenRecover
    <2>2. slot_find(hd[t]) = i /\ hd[t] = s /\ i # 0
      BY <1>3, <1>4, <1>5
    <2>3. N(s, i) = n
      BY <2>2
    <2>4. Recovers(s, i, n)
      <3> HIDE DEF Recovers, N, n
      <3> QED BY <2>1, <2>2, <2>3
    <2> QED
      <3> HIDE DEF n
      <3> QED BY <2>2, <2>4
  <1>7. n \in Nat /\ old \in Segment /\ f \in Segment
    <2>1. Highest(Window(s)) \in Nat
      BY WindowEnds
    <2>2. n \in Nat
      BY <1>5, <2>1
    <2>3. old \in Segment
      BY FileType
    <2> QED BY <2>2, <2>3, NewFiles
  <1>8. f.recs \in Seq(Samples \cup {Bad}) /\ Len(f.recs) \in Nat /\ f.hdr \in BOOLEAN
    <2> HIDE DEF f
    <2> QED BY <1>7 DEF Segment
  <1>9. "header" \notin Faults => f.hdr
    <2> SUFFICES ASSUME "header" \notin Faults, old # EmptyFile PROVE old.hdr
      BY NewFiles
    <2>1. n \in DOMAIN disk[s] /\ old = disk[s][n]
      BY DEF FileAt
    <2> QED BY <2>1 DEF HeaderInv, FilesHeaded
  <1>10. g \in Segment /\ g.hdr = f.hdr
    <2> DEFINE r == SubSeq(f.recs, 1, good)
    <2>1. good \in 0..Len(f.recs)
      <3> HIDE DEF f
      <3> QED BY <1>8, GoodPrefixIn
    <2>2. r \in Seq(Samples \cup {Bad})
      <3> HIDE DEF f, good
      <3> QED BY <1>8, <2>1
    <2>3. g = [f EXCEPT !.recs = r, !.torn = FALSE]
      OBVIOUS
    <2> HIDE DEF r, f, g
    <2> QED BY <1>7, <2>2, <2>3 DEF Segment
  <1>11. /\ x \in Slot /\ x.used = slots[i].used /\ x.name = s /\ x.count = slots[i].count
         /\ x.buf = slots[i].buf /\ x.pend = slots[i].pend /\ x.scanned /\ x.cur = n
         /\ (slots[i].scanned => x = slots[i])
    <2>1. CASE slots[i].scanned
      BY <1>4, <1>5, <2>1 DEF scan_segments
    <2>2. CASE ~slots[i].scanned
      <3> DEFINE lo == Lowest(Window(s))
                 hi == Highest(Window(s))
                 len == Len(f.recs)
      <3>1. lo \in Nat /\ hi \in Nat /\ len \in Nat /\ n = hi
        BY <1>8, <2>2, WindowEnds
      <3>2. x = [slots[i] EXCEPT !.scanned = TRUE, !.oldest = lo, !.cur = hi, !.bytes = len]
        BY <2>2 DEF scan_segments
      <3> HIDE DEF lo, hi, len, x, n
      <3>3. /\ x \in Slot /\ x.used = slots[i].used /\ x.name = slots[i].name
            /\ x.count = slots[i].count /\ x.buf = slots[i].buf /\ x.pend = slots[i].pend
            /\ x.scanned /\ x.cur = hi
        BY <1>5, <3>1, <3>2 DEF Slot
      <3> QED BY <1>4, <2>2, <3>1, <3>3
    <2> QED BY <2>1, <2>2
  <1>12. lost \subseteq Samples
    <2>1. \A j \in 1..Len(f.recs) : f.recs[j] \in Samples \cup {Bad}
      <3> HIDE DEF f
      <3> QED BY <1>8
    <2> HIDE DEF f
    <2> QED BY <2>1
  <1>13. /\ blocks' = Cardinality({j \in Slots : slots[j].used} \cup {i})
         /\ blocks' \in 0..IngestBlocks
    <2>1. {j \in Slots : slots[j].used} \cup {i} = {j \in Slots : slots[j].used}
      BY <1>4
    <2> QED BY <1>1, <2>1 DEF CountInv, TypeOK
  <1>14. /\ IsFiniteSet(Handles(s)) /\ t \in Handles(s) /\ Cardinality(Handles(s)) \in Nat
         /\ slots[i].count >= Cardinality(Handles(s)) /\ slots[i].count >= 1 /\ slots[i].count \in Nat
         /\ ("header" \notin Faults => slots[i].count = Cardinality(Handles(s)))
    <2>1. IsFiniteSet(Handles(s)) /\ t \in Handles(s) /\ Cardinality(Handles(s)) \in Nat
      BY <1>1, <1>3, HandlesFinite DEF Handles
    <2>2. slots[i].count >= 1 /\ slots[i].count \in Nat
      BY <1>4, <1>5 DEF SlotInv, Slot
    <2>3. slots[i].count >= Cardinality(Handles(s))
      BY <1>4 DEF CountInv
    <2>4. "header" \notin Faults => slots[i].count = Cardinality(Handles(s))
      BY <1>4 DEF HeaderInv
    <2> QED BY <2>1, <2>2, <2>3, <2>4
  <1>15. FilesOK(disk) /\ 0 \in 0..MaxStreams /\ gone \subseteq Samples /\ fails \in 0..MaxFails
         /\ MaxFails \in Nat
    BY FilesNow, TsConstants DEF TypeOK
  <1> HIDE DEF n, f, g, x, lost, old, good
  <1>16. CASE /\ f.hdr /\ disk' = Put(s, n, g) /\ slots' = [slots EXCEPT ![i] = x]
              /\ gone' = gone \cup lost /\ UNCHANGED <<hd, fails>>
    <2>1. FilesOK(disk')
      BY <1>7, <1>10, <1>15, <1>16, PutFiles
    <2>2. "header" \notin Faults => FilesHeaded(disk') /\ NewestHeaded(disk', slots')
      <3> SUFFICES ASSUME "header" \notin Faults
                   PROVE  FilesHeaded(disk') /\ NewestHeaded(disk', slots')
        OBVIOUS
      <3> QED BY <1>7, <1>10, <1>11, <1>16, PutHeaded
    <2>3. gone' \subseteq Samples /\ fails' \in 0..MaxFails
      BY <1>12, <1>15, <1>16
    <2>4. Moves(t, "idle", 0, s, todo[t])
      BY <1>1, <1>2, <1>3, <1>16 DEF Moves
    <2> DEFINE H == Handles(s) \cup {t}
    <2>5. H = IF s = s THEN Handles(s) \cup {t} ELSE Handles(s) \ {t}
      OBVIOUS
    <2>6. H = Handles(s)
      BY <1>14
    <2> HIDE DEF H
    <2>7. /\ x.used /\ x.count >= 1 /\ x.count >= Cardinality(H)
          /\ ("header" \notin Faults => x.count = Cardinality(H))
          /\ (slots[i].scanned => x.scanned /\ x.cur = slots[i].cur /\ x.oldest = slots[i].oldest)
      BY <1>4, <1>11, <1>14, <2>6
    <2>8. Open(s) \subseteq {i} /\ (slots[i].used => slots[i].name = s) /\ hd[t] = s
      BY <1>3, <1>4
    <2> QED
      BY <1>1, <1>11, <1>13, <1>15, <1>16, <2>1, <2>2, <2>3, <2>4, <2>5, <2>7, <2>8, OpenMoves, ZenonT(30)
  <1>17. CASE /\ \/ ~f.hdr /\ UNCHANGED <<disk, fails>>
                 \/ old = EmptyFile /\ Fault("header") /\ disk' \in HeaderFails(s, n)
              /\ hd' = [hd EXCEPT ![t] = NoStream] /\ UNCHANGED <<slots, gone>>
    <2>1. "header" \in Faults
      BY <1>9, <1>17 DEF Fault
    <2>2. FilesOK(disk') /\ fails' \in 0..MaxFails
      <3>1. CASE UNCHANGED <<disk, fails>>
        BY <1>15, <3>1
      <3>2. CASE Fault("header") /\ disk' \in HeaderFails(s, n)
        <4>1. fails' \in 0..MaxFails
          BY <1>15, <3>2 DEF Fault
        <4>2. disk' = disk \/ \E b \in BOOLEAN : disk' = Put(s, n, [EmptyFile EXCEPT !.torn = b])
          BY <3>2 DEF HeaderFails
        <4> QED BY <1>7, <1>15, <4>1, <4>2, NewFiles, PutFiles
      <3> QED BY <1>17, <3>1, <3>2
    <2>3. Moves(t, "idle", 0, NoStream, todo[t])
      BY <1>1, <1>2, <1>17 DEF Moves
    <2> DEFINE H == Handles(s) \ {t}
               y == slots[i]
    <2>4. H = IF NoStream = s THEN Handles(s) \cup {t} ELSE Handles(s) \ {t}
      BY <1>3
    <2>5. y.count >= Cardinality(H)
      <3>1. Cardinality(H) = Cardinality(Handles(s)) - 1
        BY <1>14, FS_RemoveElement
      <3> HIDE DEF H
      <3> QED BY <1>14, <3>1
    <2>6. slots' = [slots EXCEPT ![i] = y] /\ y \in Slot /\ y.used /\ y.name = s
      BY <1>2, <1>4, <1>5, <1>17
    <2>7. gone' \subseteq Samples /\ y.count >= 1
      BY <1>14, <1>15, <1>17
    <2>8. Open(s) \subseteq {i} /\ (slots[i].used => slots[i].name = s) /\ hd[t] = s /\ NoStream # s
      BY <1>3, <1>4
    <2>9. y.buf = slots[i].buf /\ y.pend = slots[i].pend
          /\ (slots[i].scanned => y.scanned /\ y.cur = slots[i].cur /\ y.oldest = slots[i].oldest)
      OBVIOUS
    <2> HIDE DEF H, y
    <2> QED
      BY <1>1, <1>13, <1>15, <2>1, <2>2, <2>3, <2>4, <2>5, <2>6, <2>7, <2>8, <2>9, OpenMoves, ZenonT(30)
  <1> QED BY <1>6, <1>16, <1>17

--------------------------------------------------------------------------------
(* Steps of the environment *)

(* What a power loss leaves of the files. *)
LEMMA CrashFiles ==
  ASSUME TsInv, NEW d \in CrashImages
  PROVE  FilesOK(d) /\ ("header" \notin Faults => FilesHeaded(d))
  <1> USE DEF TsInv
  <1>1. CASE d = disk
    BY <1>1, FilesNow DEF StoreInv, HeaderInv
  <1>2. ASSUME NEW a \in Actors, pc[a] = "write", d \in PartWritten(slots[at[a]])
        PROVE  FilesOK(d) /\ ("header" \notin Faults => FilesHeaded(d))
    BY <1>2, PartFiles DEF FlushPlaces
  <1>3. ASSUME NEW a \in Actors, pc[a] = "roll",
               d = Put(slots[at[a]].name, slots[at[a]].cur + 1, EmptyFile)
        PROVE  FilesOK(d) /\ ("header" \notin Faults => FilesHeaded(d))
    <2> DEFINE s == slots[at[a]].name
               n == slots[at[a]].cur + 1
    <2>1. s \in Streams /\ slots[at[a]].cur \in Nat
      BY <1>3, FlushSlot DEF FlushPlaces
    <2>2. n \in Nat
      BY <2>1
    <2>3. d = Put(s, n, EmptyFile)
      BY <1>3
    <2> HIDE DEF s, n
    <2>4. FilesOK(d)
      BY <2>1, <2>2, <2>3, FilesNow, NewFiles, PutFiles
    <2>5. "header" \notin Faults => FilesHeaded(d)
      <3> SUFFICES ASSUME "header" \notin Faults PROVE FilesHeaded(d)
        OBVIOUS
      <3>1. FilesHeaded(disk) /\ DOMAIN disk = Streams
        BY DEF StoreInv, HeaderInv, TypeOK
      <3>2. \A u \in Streams : u # s => d[u] = disk[u]
        BY <2>3, <3>1 DEF Put
      <3>3. d[s] = [i \in DOMAIN disk[s] \cup {n} |-> IF i = n THEN EmptyFile ELSE disk[s][i]]
        BY <2>1, <2>3, <3>1 DEF Put
      <3> QED BY <3>1, <3>2, <3>3 DEF FilesHeaded
    <2> QED BY <2>4, <2>5
  <1>4. \/ d = disk
        \/ \E a \in Actors : pc[a] = "write" /\ d \in PartWritten(slots[at[a]])
        \/ \E a \in Actors : pc[a] = "roll" /\
              d = Put(slots[at[a]].name, slots[at[a]].cur + 1, EmptyFile)
    <2> DEFINE W == UNION {PartWritten(slots[at[a]]) : a \in {b \in Actors : pc[b] = "write"}}
               R == {Put(slots[at[a]].name, slots[at[a]].cur + 1, EmptyFile) :
                       a \in {b \in Actors : pc[b] = "roll"}}
    <2>1. CrashImages = {disk} \cup W \cup R
      BY Zenon DEF CrashImages
    <2>2. d \in R => \E a \in Actors : pc[a] = "roll" /\
                       d = Put(slots[at[a]].name, slots[at[a]].cur + 1, EmptyFile)
      BY Zenon
    <2>3. d \in UNION {PartWritten(slots[at[a]]) : a \in {b \in Actors : pc[b] = "write"}} =>
             \E a \in Actors : pc[a] = "write" /\ d \in PartWritten(slots[at[a]])
      BY Zenon
    <2> HIDE DEF W, R
    <2>4. d = disk \/ d \in W \/ d \in R
      BY <2>1
    <2> QED BY <2>2, <2>3, <2>4 DEF W
  <1> QED BY <1>1, <1>2, <1>3, <1>4

LEMMA RamLostStep ==
  ASSUME TsAssumptions, TsInv, PowerLoss \/ Deinit
  PROVE  TsInv'
  <1> USE DEF TsInv, StoreInv
  <1>1. RamLost
    BY DEF PowerLoss, Deinit
  <1>2. FilesOK(disk') /\ ("header" \notin Faults => FilesHeaded(disk'))
    <2>1. disk' \in CrashImages
      BY DEF PowerLoss, Deinit, CrashImages
    <2> QED BY <2>1, CrashFiles
  <1>3. \A i \in Slots : slots'[i] = FreeSlot
    BY <1>1 DEF RamLost
  <1>4. /\ \A a \in Actors : pc'[a] = "idle" /\ at'[a] = 0
        /\ \A t \in Threads : pc'[t] = "idle" /\ hd'[t] = NoStream /\ todo'[t] = 0 /\ owed'[t] = {}
        /\ pc'[Worker] = "idle"
    BY <1>1, ActorsAre DEF RamLost
  <1>5. TypeOK'
    <2>1. slots' \in [Slots -> Slot] /\ \A i \in Slots : Len(slots'[i].buf) <= Capacity
      <3>1. slots' \in [Slots -> Slot]
        BY <1>1, FreeSlotType DEF RamLost
      <3>2. FreeSlot.buf = <<>> /\ Len(<<>>) = 0
        BY DEF FreeSlot
      <3>3. 0 <= Capacity
        BY TsConstants
      <3> QED BY <1>3, <3>1, <3>2, <3>3
    <2>2. gone' \subseteq Samples
      <3>1. \A i \in Slots : Range(slots[i].buf) \subseteq Samples
        BY RangeIn DEF TypeOK, Slot
      <3>2. Buffered \subseteq Samples
        BY <3>1 DEF Buffered
      <3>3. gone \subseteq Samples
        BY DEF TypeOK
      <3> QED BY <1>1, <3>2, <3>3 DEF RamLost
    <2>3. boots' \in 0..MaxBoots /\ made' \in 0..MaxSamples /\ fails' \in 0..MaxFails
      <3>1. /\ boots \in 0..MaxBoots /\ MaxBoots \in Nat
            /\ boots' = boots \/ (boots < MaxBoots /\ boots' = boots + 1)
        BY TsConstants DEF TypeOK, PowerLoss, Deinit
      <3>2. boots' \in 0..MaxBoots
        BY <3>1
      <3> QED BY <1>1, <3>2 DEF TypeOK, RamLost
    <2>4. /\ pc' \in [Actors -> Places] /\ at' \in [Actors -> 0..MaxStreams]
          /\ hd' \in [Threads -> Streams \cup {NoStream}]
          /\ todo' \in [Threads -> Nat] /\ batch' \in [Threads -> BOOLEAN]
          /\ owed' \in [Threads -> SUBSET Samples]
      <3>1. 0 \in 0..MaxStreams
        BY TsConstants
      <3> QED BY <1>1, <3>1 DEF RamLost, Places
    <2>5. /\ blocks' \in 0..IngestBlocks /\ pending' \in BOOLEAN /\ sem' \in 0..1
          /\ queued' \in BOOLEAN /\ released' \in Nat /\ lock' \in Actors \cup {NoActor}
          /\ drain' \in [next : Nat, bytes : Nat, sum : Nat] /\ unheard' \in Int
      <3>1. 0 \in 0..IngestBlocks
        BY TsConstants
      <3>2. [next |-> 1, bytes |-> 0, sum |-> 0] \in [next : Nat, bytes : Nat, sum : Nat]
        OBVIOUS
      <3>3. drain' = [next |-> 1, bytes |-> 0, sum |-> 0]
        BY <1>1 DEF RamLost
      <3>4. /\ blocks' \in 0..IngestBlocks /\ pending' \in BOOLEAN /\ sem' \in 0..1
            /\ queued' \in BOOLEAN /\ released' \in Nat /\ lock' \in Actors \cup {NoActor}
            /\ unheard' \in Int
        <4>1. /\ blocks' = 0 /\ pending' = FALSE /\ sem' = 0 /\ queued' = FALSE /\ released' = 0
              /\ lock' = NoActor /\ unheard' = 0
          BY <1>1 DEF RamLost
        <4>2. pending' \in BOOLEAN /\ queued' \in BOOLEAN
          BY <4>1, Zenon
        <4>3. blocks' \in 0..IngestBlocks /\ sem' \in 0..1 /\ released' \in Nat /\ unheard' \in Int
          BY <3>1, <4>1
        <4> QED BY <4>1, <4>2, <4>3
      <3> QED BY <3>2, <3>3, <3>4
    <2>6. log' \in [Streams -> Seq(Samples)]
      BY <1>1 DEF TypeOK, RamLost
    <2> QED BY <1>2, <2>1, <2>2, <2>3, <2>4, <2>5, <2>6 DEF TypeOK, FilesOK
  <1>6. BoundInv'
    <2>1. ToDo(todo') = 0
      BY <1>1, ToDoZero DEF RamLost, TsAssumptions
    <2>2. made' = made /\ made \in 0..MaxSamples /\ MaxSamples \in Nat
      BY <1>1, TsConstants DEF TypeOK, RamLost
    <2>3. made' + ToDo(todo') <= MaxSamples
      BY <2>1, <2>2
    <2> QED BY <1>2, <2>3 DEF BoundInv, FilesOK
  <1>7. ControlInv'
    BY <1>4 DEF ControlInv, FlushPlaces, Opening
  <1>8. PlaceInv'
    BY <1>4 DEF PlaceInv, FlushPlaces
  <1>9. SlotInv'
    <2>1. ~FreeSlot.used /\ FreeSlot.buf = <<>>
      BY DEF FreeSlot
    <2>2. \A i \in Slots : slots'[i] = FreeSlot /\ ~slots'[i].used /\ slots'[i].buf = <<>>
      BY <1>3, <2>1
    <2> QED BY <1>4, <2>2 DEF SlotInv
  <1>10. CountInv'
    <2>1. {i \in Slots : slots'[i].used} = {}
      BY <1>3 DEF FreeSlot
    <2>2. Cardinality({}) = 0
      BY FS_EmptySet
    <2>3. blocks' = 0
      BY <1>1 DEF RamLost
    <2> QED BY <1>3, <2>1, <2>2, <2>3 DEF CountInv, FreeSlot
  <1>11. HeaderInv'
    BY <1>2, <1>3 DEF HeaderInv, NewestHeaded, FreeSlot
  <1>12. EventInv'
    <2>1. \A i \in Slots : slots'[i].pend = 0
      BY <1>3 DEF FreeSlot
    <2>2. Pend(slots') = 0
      BY <2>1, PendZero
    <2>3. drain'.sum = 0 /\ released' = 0 /\ unheard' = 0
      BY <1>1 DEF RamLost
    <2> QED BY <1>4, <2>1, <2>2, <2>3 DEF EventInv, FlushPlaces
  <1>13. SyncInv'
    <2>1. \A i \in Slots : Range(slots'[i].buf) = {}
      BY <1>3 DEF FreeSlot, Range
    <2>2. Buffered' = {}
      BY <2>1 DEF Buffered
    <2> QED BY <1>4, <2>1, <2>2 DEF SyncInv, FlushPlaces
  <1> QED
    BY <1>5, <1>6, <1>7, <1>8, <1>9, <1>10, <1>11, <1>12, <1>13

LEMMA RotStep ==
  ASSUME TsInv, NEW s \in Streams, Rot(s)
  PROVE  TsInv'
  <1> USE DEF TsInv, StoreInv
  <1>1. /\ Fault("rot") /\ Open(s) = {}
        /\ UNCHANGED <<slots, blocks, pending, sem, queued, released, lock, pc, at, hd, todo, batch,
                       drain, made, boots, log, owed, unheard>>
    BY DEF Rot, flushVars, callVars
  <1>2. PICK n \in DOMAIN disk[s] : \E j \in 1..Len(disk[s][n].recs) :
           /\ disk[s][n].recs[j] # Bad
           /\ disk' = [disk EXCEPT ![s][n].recs[j] = Bad]
           /\ gone' = gone \cup {disk[s][n].recs[j]}
    BY DEF Rot
  <1>3. PICK j \in 1..Len(disk[s][n].recs) :
           /\ disk[s][n].recs[j] # Bad
           /\ disk' = [disk EXCEPT ![s][n].recs[j] = Bad]
           /\ gone' = gone \cup {disk[s][n].recs[j]}
    BY <1>2
  <1> DEFINE f == disk[s][n]
             r == [f.recs EXCEPT ![j] = Bad]
             g == [f EXCEPT !.recs = r]
  <1>4. FilesOK(disk) /\ n \in Nat /\ f \in Segment /\ f.recs \in Seq(Samples \cup {Bad})
        /\ DOMAIN disk = Streams
    <2>1. FilesOK(disk)
      BY FilesNow
    <2>2. n \in Nat /\ f \in Segment /\ DOMAIN disk = Streams
      BY <2>1 DEF FilesOK
    <2> QED BY <2>1, <2>2 DEF Segment
  <1>5. g \in Segment /\ g.hdr = f.hdr
    <2>1. r \in Seq(Samples \cup {Bad})
      BY <1>3, <1>4
    <2> HIDE DEF r
    <2> QED BY <1>4, <2>1 DEF Segment
  <1>6. /\ DOMAIN disk' = Streams /\ \A u \in Streams : u # s => disk'[u] = disk[u]
        /\ DOMAIN disk'[s] = DOMAIN disk[s] /\ disk'[s][n] = g
        /\ \A m \in DOMAIN disk[s] : m # n => disk'[s][m] = disk[s][m]
    BY <1>3, <1>4
  <1> HIDE DEF g, r
  <1>7. FilesOK(disk')
    <2>1. \A u \in Streams : DOMAIN disk'[u] = DOMAIN disk[u]
      BY <1>6
    <2>2. \A u \in Streams : \A m \in DOMAIN disk[u] : m \in Nat /\ disk'[u][m] \in Segment
      BY <1>4, <1>5, <1>6 DEF FilesOK
    <2> QED BY <1>4, <1>6, <2>1, <2>2 DEF FilesOK
  <1>8. "header" \notin Faults => FilesHeaded(disk') /\ NewestHeaded(disk', slots')
    <2> SUFFICES ASSUME "header" \notin Faults
                 PROVE  FilesHeaded(disk') /\ NewestHeaded(disk', slots')
      OBVIOUS
    <2>1. FilesHeaded(disk) /\ NewestHeaded(disk, slots)
      BY DEF HeaderInv
    <2>2. f # EmptyFile
      <3>1. CASE f = EmptyFile
        <4>1. Len(f.recs) = 0
          BY <3>1 DEF EmptyFile
        <4> QED BY <1>3, <4>1
      <3> QED BY <3>1
    <2>3. f.hdr
      BY <2>1, <2>2 DEF FilesHeaded
    <2>4. FilesHeaded(disk')
      <3> SUFFICES ASSUME NEW u \in Streams, NEW m \in DOMAIN disk'[u]
                   PROVE  disk'[u][m].hdr \/ disk'[u][m] = EmptyFile
        BY DEF FilesHeaded
      <3>1. CASE u = s /\ m = n
        BY <1>5, <1>6, <2>3, <3>1
      <3>2. CASE u = s /\ m # n
        BY <1>6, <2>1, <3>2 DEF FilesHeaded
      <3>3. CASE u # s
        BY <1>6, <2>1, <3>3 DEF FilesHeaded
      <3> QED BY <3>1, <3>2, <3>3
    <2>5. \A i \in Slots : slots[i].used => slots[i].name # s /\ slots[i].name \in Streams
      BY <1>1 DEF Open, SlotInv
    <2>6. NewestHeaded(disk', slots')
      BY <1>1, <1>6, <2>1, <2>5 DEF NewestHeaded
    <2> QED BY <2>4, <2>6
  <1>9. TypeOK'
    <2>1. fails' \in 0..MaxFails
      <3>1. fails \in 0..MaxFails /\ MaxFails \in Nat /\ fails < MaxFails /\ fails' = fails + 1
        BY <1>1, TsConstants DEF TypeOK, Fault
      <3> QED BY <3>1
    <2>2. gone' \subseteq Samples
      <3>1. f.recs[j] \in Samples
        BY <1>3, <1>4
      <3> QED BY <1>3, <3>1 DEF TypeOK
    <2> QED BY <1>1, <1>7, <2>1, <2>2 DEF TypeOK, FilesOK
  <1>10. BoundInv'
    BY <1>1, <1>7 DEF BoundInv, FilesOK
  <1>11. ControlInv' /\ PlaceInv' /\ SlotInv'
    BY <1>1 DEF ControlInv, PlaceInv, SlotInv, Opening, Open
  <1>12. \A u : Handles(u)' = Handles(u)
    BY <1>1 DEF Handles
  <1>13. CountInv' /\ HeaderInv'
    BY <1>1, <1>8, <1>12 DEF CountInv, HeaderInv
  <1>14. EventInv' /\ SyncInv'
    BY <1>1 DEF EventInv, SyncInv, Buffered
  <1> QED
    BY <1>9, <1>10, <1>11, <1>13, <1>14

--------------------------------------------------------------------------------
(* The invariant holds *)

LEMMA TsInit ==
  ASSUME TsAssumptions, Init
  PROVE  TsInv
  <1> USE DEF TsInv, StoreInv
  <1>1. FilesOK(disk) /\ FilesHeaded(disk)
    <2>1. \A s \in Streams : disk[s] = <<>> /\ DOMAIN disk[s] = {}
      BY DEF Init
    <2>2. DOMAIN disk = Streams /\ 0 \in Nat
      BY DEF Init
    <2> QED BY <2>1, <2>2 DEF FilesOK, FilesHeaded
  <1>2. \A i \in Slots : slots[i] = FreeSlot
    BY DEF Init
  <1>3. /\ \A a \in Actors : pc[a] = "idle" /\ at[a] = 0
        /\ \A t \in Threads : pc[t] = "idle" /\ hd[t] = NoStream /\ todo[t] = 0 /\ owed[t] = {}
        /\ pc[Worker] = "idle"
    BY ActorsAre DEF Init
  <1>4. ~FreeSlot.used /\ FreeSlot.buf = <<>> /\ FreeSlot.pend = 0
    BY DEF FreeSlot
  <1>5. TypeOK
    <2>1. slots \in [Slots -> Slot] /\ \A i \in Slots : Len(slots[i].buf) <= Capacity
      <3>1. slots \in [Slots -> Slot]
        BY FreeSlotType DEF Init
      <3>2. Len(<<>>) = 0 /\ 0 <= Capacity
        BY TsConstants
      <3> QED BY <1>2, <1>4, <3>1, <3>2
    <2>2. /\ pc \in [Actors -> Places] /\ at \in [Actors -> 0..MaxStreams]
          /\ hd \in [Threads -> Streams \cup {NoStream}]
          /\ todo \in [Threads -> Nat] /\ batch \in [Threads -> BOOLEAN]
          /\ owed \in [Threads -> SUBSET Samples]
      <3>1. 0 \in 0..MaxStreams
        BY TsConstants
      <3> QED BY <3>1 DEF Init, Places
    <2>3. pending \in BOOLEAN /\ queued \in BOOLEAN
      BY Zenon DEF Init
    <2>4. /\ blocks \in 0..IngestBlocks /\ sem \in 0..1 /\ released \in Nat
          /\ lock \in Actors \cup {NoActor} /\ unheard \in Int
          /\ made \in 0..MaxSamples /\ boots \in 0..MaxBoots /\ fails \in 0..MaxFails
      <3>1. 0 \in 0..IngestBlocks /\ 0 \in 0..MaxSamples /\ 0 \in 0..MaxBoots /\ 0 \in 0..MaxFails
        BY TsConstants
      <3> QED BY <3>1 DEF Init
    <2>5. drain \in [next : Nat, bytes : Nat, sum : Nat]
      <3>1. [next |-> 1, bytes |-> 0, sum |-> 0] \in [next : Nat, bytes : Nat, sum : Nat]
        OBVIOUS
      <3> QED BY <3>1 DEF Init
    <2>6. log \in [Streams -> Seq(Samples)] /\ gone \subseteq Samples
      <3>1. <<>> \in Seq(Samples)
        OBVIOUS
      <3> QED BY <3>1 DEF Init
    <2> QED BY <1>1, <2>1, <2>2, <2>3, <2>4, <2>5, <2>6 DEF TypeOK, FilesOK
  <1>6. BoundInv
    <2>1. ToDo(todo) = 0
      BY ToDoZero DEF Init, TsAssumptions
    <2>2. made = 0 /\ MaxSamples \in Nat
      BY TsConstants DEF Init
    <2>3. made + ToDo(todo) <= MaxSamples
      BY <2>1, <2>2
    <2> QED BY <1>1, <2>3 DEF BoundInv, FilesOK
  <1>7. ControlInv
    BY <1>3 DEF ControlInv, FlushPlaces, Opening
  <1>8. PlaceInv
    BY <1>3 DEF PlaceInv, FlushPlaces
  <1>9. SlotInv
    BY <1>2, <1>3, <1>4 DEF SlotInv
  <1>10. CountInv
    <2>1. {i \in Slots : slots[i].used} = {}
      BY <1>2, <1>4
    <2>2. Cardinality({}) = 0
      BY FS_EmptySet
    <2>3. blocks = 0
      BY DEF Init
    <2> QED BY <1>2, <1>4, <2>1, <2>2, <2>3 DEF CountInv
  <1>11. HeaderInv
    BY <1>1, <1>2, <1>4 DEF HeaderInv, NewestHeaded
  <1>12. EventInv
    <2>1. Pend(slots) = 0
      BY <1>2, <1>4, PendZero
    <2>2. drain.sum = 0 /\ released = 0 /\ unheard = 0
      BY DEF Init
    <2> QED BY <1>2, <1>3, <1>4, <2>1, <2>2 DEF EventInv, FlushPlaces
  <1>13. SyncInv
    <2>1. \A i \in Slots : Range(slots[i].buf) = {}
      BY <1>2, <1>4 DEF Range
    <2>2. Buffered = {}
      BY <2>1 DEF Buffered
    <2> QED BY <1>3, <2>1, <2>2 DEF SyncInv, FlushPlaces
  <1> QED
    BY <1>5, <1>6, <1>7, <1>8, <1>9, <1>10, <1>11, <1>12, <1>13

LEMMA TsStutter ==
  ASSUME TsInv, UNCHANGED vars
  PROVE  TsInv'
  <1> USE DEF TsInv, StoreInv
  <1>1. UNCHANGED <<disk, slots, blocks, pending, sem, queued, released, lock, pc, at, hd, todo,
                    batch, drain, made, boots, fails, log, gone, owed, unheard>>
    BY DEF vars
  <1>2. TypeOK' /\ BoundInv'
    BY <1>1 DEF TypeOK, BoundInv
  <1>3. ControlInv' /\ PlaceInv' /\ SlotInv'
    BY <1>1 DEF ControlInv, PlaceInv, SlotInv, Opening, Open
  <1>4. \A u : Handles(u)' = Handles(u)
    BY <1>1 DEF Handles
  <1>5. CountInv' /\ HeaderInv'
    BY <1>1, <1>4 DEF CountInv, HeaderInv
  <1>6. EventInv' /\ SyncInv'
    BY <1>1 DEF EventInv, SyncInv, Buffered
  <1> QED
    BY <1>2, <1>3, <1>5, <1>6

LEMMA FlushStepKeeps ==
  ASSUME TsAssumptions, TsInv, NEW a \in Actors, FlushStep(a)
  PROVE  TsInv'
  BY FlushWriteStep, StartSegmentStep, DiscardOldestStep DEF FlushStep

LEMMA TsNext ==
  ASSUME TsAssumptions, TsInv, [Next]_vars
  PROVE  TsInv'
  <1>1. ASSUME NEW t \in Threads, Call(t) PROVE TsInv'
    BY <1>1, CallOpenStep, CallAppendStep, CallCloseStep, CallFlushAsyncStep, CallFlushSyncStep
       DEF Call
  <1>2. ASSUME NEW t \in Threads, InCall(t) PROVE TsInv'
    <2>1. t \in Actors
      BY ActorsAre
    <2>2. CASE OpenJoin(t) \/ OpenClaim(t) \/ OpenRecover(t)
      BY <2>2, OpenJoinStep, OpenClaimStep, OpenRecoverStep
    <2>3. CASE FlushStep(t) \/ AppendBuffer(t) \/ BatchFull(t) \/ AppendFails(t) \/ CloseRelease(t)
      BY <2>1, <2>3, FlushStepKeeps, AppendBufferStep, BatchFullStep, AppendFailsStep,
         CloseReleaseStep
    <2>4. CASE FlushNotQueued(t) \/ SyncCheck(t) \/ SyncTake(t) \/ SyncWoken(t) \/ SyncReturn(t)
      BY <2>4, FlushNotQueuedStep, SyncCheckStep, SyncTakeStep, SyncWokenStep, SyncEndStep
    <2> QED BY <1>2, <2>2, <2>3, <2>4 DEF InCall
  <1>3. ASSUME NEW t \in Threads, WaitsForLock(t) \/ SyncTimeout(t) PROVE TsInv'
    BY <1>3, AppendLockStep, FlushAsyncStep, SyncEndStep DEF WaitsForLock
  <1>4. CASE WorkerStep \/ WorkerLock
    BY <1>4, ActorsAre, WorkerStartStep, FlushStepKeeps, DrainNextStep, DrainDoneStep,
       WorkerEndStep, WorkerLockStep DEF WorkerStep
  <1>5. ASSUME NEW s \in Streams, Rot(s) PROVE TsInv'
    BY <1>5, RotStep
  <1>6. CASE PowerLoss \/ Deinit
    BY <1>6, RamLostStep
  <1>7. CASE UNCHANGED vars
    BY <1>7, TsStutter
  <1> QED
    BY <1>1, <1>2, <1>3, <1>4, <1>5, <1>6, <1>7 DEF Next, UpNext

LEMMA TsInvariant ==
  ASSUME TsAssumptions
  PROVE  Spec => []TsInv
  BY TsInit, TsNext, PTL DEF Spec

--------------------------------------------------------------------------------
(* Theorems *)

(* Type correctness, for every instance in which a stream is opened while no    *)
(* other thread calls: an ingest buffer never holds more than its capacity and  *)
(* the slab never gives out more blocks than it has, whatever writes, headers,  *)
(* unlinks and submits fail and wherever the power goes.                        *)
THEOREM TsTypeCorrect ==
  ASSUME TsAssumptions
  PROVE  Spec => []TypeOK
  <1>1. TsInv => TypeOK
    BY DEF TsInv, StoreInv
  <1> QED
    BY <1>1, TsInvariant, PTL

(* ZDB_TS_EVENT_FLUSH: every record of a flush whose write and close succeeded  *)
(* is reported exactly once.  Whoever flushes, a thread in append or close or   *)
(* the work handler, the records are in a slot's total, a released slot's or    *)
(* the handler's, and the unlock leaves nothing behind; also when the rollover  *)
(* behind the write, another stream's flush or an earlier attempt failed.  It   *)
(* does not say that the totals are all that storage got: the bytes of a flush  *)
(* that failed are in none of them.                                             *)
THEOREM FlushEventsAccount ==
  ASSUME TsAssumptions
  PROVE  Spec => []EventAccounting
  <1>1. TsInv => EventAccounting
    <2> SUFFICES ASSUME TsInv PROVE EventAccounting
      OBVIOUS
    <2> USE DEF TsInv, StoreInv
    <2>1. slots \in [Slots -> Slot] /\ drain \in [next : Nat, bytes : Nat, sum : Nat]
      BY DEF TypeOK
    <2>2. \A i \in Slots : slots[i].pend \in Nat
      BY <2>1 DEF Slot
    <2>3. Pend(slots) \in Nat /\ drain.sum \in Nat
      BY <2>1, <2>2, PendType
    <2>4. unheard = Pend(slots) + released + drain.sum
      BY <2>3 DEF EventInv
    <2>5. ASSUME lock = NoActor PROVE unheard = 0
      <3>1. Pend(slots) = 0
        BY <2>5, PendZero DEF EventInv
      <3>2. pc[Worker] \in {"idle", "work"}
        BY <2>5, ActorsAre DEF ControlInv
      <3> QED BY <3>1, <3>2 DEF EventInv
    <2> QED BY <2>4, <2>5 DEF EventAccounting
  <1> QED
    BY <1>1, TsInvariant, PTL

(* A stream has one slot exactly while a handle is open on it, the slot counts  *)
(* its handles, and every ingest block taken belongs to a slot in use: no open, *)
(* close or failed flush leaks one.  A header that cannot be written makes an   *)
(* open fail after it counted its handle, so that fault is left out.            *)
THEOREM SlotsFollowHandles ==
  ASSUME TsAssumptions, "header" \notin Faults
  PROVE  Spec => []SlotsMatchHandles
  <1>1. TsInv => SlotsMatchHandles
    <2> SUFFICES ASSUME TsInv PROVE SlotsMatchHandles
      OBVIOUS
    <2> USE DEF TsInv, StoreInv
    <2>1. ASSUME NEW s \in Streams, Handles(s) = {} PROVE Open(s) = {}
      <3> SUFFICES ASSUME NEW i \in Open(s) PROVE FALSE
        OBVIOUS
      <3>1. i \in Slots /\ slots[i].used /\ slots[i].name = s
        BY DEF Open
      <3>2. slots[i].count = Cardinality(Handles(s)) /\ slots[i].count >= 1
        BY <3>1 DEF HeaderInv, SlotInv
      <3>3. Cardinality(Handles(s)) = 0
        BY <2>1, FS_EmptySet
      <3> QED BY <3>2, <3>3
    <2>2. ASSUME NEW s \in Streams, Handles(s) # {}
          PROVE  \E i \in Slots : Open(s) = {i} /\ slots[i].count = Cardinality(Handles(s))
      <3>1. PICK t \in Handles(s) : TRUE
        BY <2>2
      <3>2. t \in Threads /\ hd[t] = s /\ pc[t] \notin {"join", "claim"} /\ s # NoStream
        BY <3>1, TsConstants DEF Handles
      <3>3. PICK i \in Open(s) : TRUE
        BY <3>2 DEF SlotInv
      <3>4. Open(s) = {i} /\ i \in Slots /\ slots[i].used /\ slots[i].name = s
        BY <3>3, OpenOne
      <3> QED BY <3>4 DEF HeaderInv
    <2> QED BY <2>1, <2>2 DEF SlotsMatchHandles, CountInv
  <1> QED
    BY <1>1, TsInvariant, PTL

(* zdb_ts_flush_sync(): when it returns ZDB_OK, nothing that was buffered at    *)
(* the call is still only in RAM, for any number of threads flushing, appending *)
(* and closing meanwhile, of timeouts and of power losses.  A failed write      *)
(* keeps its records in RAM and a refused submit clears the flag of others, so  *)
(* those two faults are left out.                                               *)
THEOREM FlushSyncIsComplete ==
  ASSUME TsAssumptions, Faults \cap {"write", "submit"} = {}
  PROVE  Spec => []FlushSyncCovers
  <1>1. TsInv => FlushSyncCovers
    BY DEF TsInv, SyncInv, FlushSyncCovers
  <1> QED
    BY <1>1, TsInvariant, PTL
================================================================================
