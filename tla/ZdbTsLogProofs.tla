----------------------------- MODULE ZdbTsLogProofs -----------------------------
(***************************************************************************)
(* What was appended to a stream and not lost is what its segment files    *)
(* and its ingest buffer hold, once and in order, for any number of        *)
(* threads, streams, segments and samples.  First the theory of the two    *)
(* operators that build a log from files, Readable and Only, both defined  *)
(* by recursion; then, for each step of the store, how the log a reader    *)
(* finds changes (the lemmas called View); then the invariant.             *)
(***************************************************************************)
EXTENDS ZdbTsProofs, SequenceTheorems

--------------------------------------------------------------------------------
(* Recursion over numbers and induction over sequences *)

(* f puts the sequences g[0], g[1], ... together, up to g[m]. *)
Builds(f, g, m) == \A n \in 0..m : f[n] = IF n = 0 THEN g[0] ELSE f[n - 1] \o g[n]

LEMMA BuildsAgree ==
  ASSUME NEW g, NEW m \in Nat, NEW k \in Nat, m <= k, NEW f, NEW h,
         Builds(f, g, m), Builds(h, g, k)
  PROVE  f[m] = h[m]
  <1> DEFINE S == {n \in Nat : n <= m => f[n] = h[n]}
  <1>1. 0 \in S
    BY DEF Builds
  <1>2. ASSUME NEW n \in S PROVE n + 1 \in S
    <2> SUFFICES ASSUME n + 1 <= m PROVE f[n + 1] = h[n + 1]
      OBVIOUS
    <2>1. n \in Nat /\ n + 1 \in 0..m /\ n + 1 \in 0..k /\ n + 1 # 0 /\ n + 1 - 1 = n
      OBVIOUS
    <2>2. f[n + 1] = f[n] \o g[n + 1] /\ h[n + 1] = h[n] \o g[n + 1]
      <3> DEFINE k1 == n + 1
      <3>1. k1 \in 0..m /\ k1 \in 0..k /\ k1 # 0 /\ k1 - 1 = n
        BY <2>1
      <3> HIDE DEF k1
      <3>2. f[k1] = f[k1 - 1] \o g[k1] /\ h[k1] = h[k1 - 1] \o g[k1]
        BY <3>1, Zenon DEF Builds
      <3>3. f[k1] = f[n] \o g[k1] /\ h[k1] = h[n] \o g[k1]
        BY <3>1, <3>2, Zenon
      <3> QED BY <3>3 DEF k1
    <2>3. f[n] = h[n]
      BY <1>2, <2>1
    <2> QED BY <2>2, <2>3
  <1> HIDE DEF S
  <1>3. S = Nat
    <2>1. S \in SUBSET Nat
      BY DEF S
    <2> QED BY <1>1, <1>2, <2>1, NumberInduction
  <1> QED
    BY <1>3 DEF S

LEMMA BuildsExist ==
  ASSUME NEW g, NEW m \in Nat
  PROVE  \E f : Builds(f, g, m)
  <1> DEFINE S == {k \in Nat : \E f : Builds(f, g, k)}
  <1>1. 0 \in S
    <2> DEFINE f == [n \in 0..0 |-> g[0]]
    <2>1. Builds(f, g, 0)
      BY DEF Builds
    <2> QED BY <2>1
  <1>2. ASSUME NEW k \in S PROVE k + 1 \in S
    <2>1. PICK f : Builds(f, g, k)
      OBVIOUS
    <2> DEFINE h == [n \in 0..(k + 1) |-> IF n = k + 1 THEN f[k] \o g[k + 1] ELSE f[n]]
    <2>2. k \in Nat
      OBVIOUS
    <2>3. ASSUME NEW n \in 0..(k + 1)
          PROVE  h[n] = IF n = 0 THEN g[0] ELSE h[n - 1] \o g[n]
      <3>1. CASE n = k + 1
        BY <2>2, <3>1
      <3>2. CASE n # k + 1
        <4>1. n \in 0..k /\ h[n] = f[n] /\ (n # 0 => h[n - 1] = f[n - 1])
          BY <2>2, <2>3, <3>2
        <4> QED BY <2>1, <4>1 DEF Builds
      <3> QED BY <3>1, <3>2
    <2>4. Builds(h, g, k + 1)
      BY <2>3 DEF Builds
    <2> QED BY <2>2, <2>4
  <1> HIDE DEF S
  <1>3. S = Nat
    <2>1. S \in SUBSET Nat
      BY DEF S
    <2> QED BY <1>1, <1>2, <2>1, NumberInduction
  <1> QED
    BY <1>3 DEF S

(* The sequences g[0] to g[n], one behind the other. *)
Joined(g) == [n \in Nat |-> (CHOOSE f : Builds(f, g, n))[n]]

LEMMA JoinedIs ==
  ASSUME NEW g
  PROVE  /\ Joined(g)[0] = g[0]
         /\ \A n \in Nat : Joined(g)[n + 1] = Joined(g)[n] \o g[n + 1]
  <1> DEFINE F(n) == CHOOSE f : Builds(f, g, n)
  <1>1. \A n \in Nat : Builds(F(n), g, n)
    BY BuildsExist
  <1>2. \A n \in Nat : Joined(g)[n] = F(n)[n]
    BY DEF Joined
  <1> HIDE DEF F
  <1>3. Joined(g)[0] = g[0]
    BY <1>1, <1>2 DEF Builds
  <1>4. ASSUME NEW n \in Nat PROVE Joined(g)[n + 1] = Joined(g)[n] \o g[n + 1]
    <2>1. n + 1 \in Nat /\ n + 1 \in 0..(n + 1) /\ n + 1 # 0 /\ n + 1 - 1 = n /\ n <= n + 1
      OBVIOUS
    <2>2. F(n + 1)[n + 1] = F(n + 1)[n] \o g[n + 1]
      <3> DEFINE k1 == n + 1
      <3>1. k1 \in Nat /\ k1 \in 0..k1 /\ k1 # 0 /\ k1 - 1 = n
        BY <2>1
      <3> HIDE DEF k1
      <3>2. F(k1)[k1] = F(k1)[k1 - 1] \o g[k1]
        BY <1>1, <3>1, Zenon DEF Builds
      <3>3. F(k1)[k1] = F(k1)[n] \o g[k1]
        BY <3>1, <3>2, Zenon
      <3> QED BY <3>3 DEF k1
    <2>3. F(n)[n] = F(n + 1)[n]
      BY <1>1, <2>1, BuildsAgree
    <2> QED BY <1>2, <2>1, <2>2, <2>3
  <1> QED
    BY <1>3, <1>4

LEMMA JoinedType ==
  ASSUME NEW T, NEW g \in [Nat -> Seq(T)]
  PROVE  Joined(g) \in [Nat -> Seq(T)]
  <1> DEFINE S == {n \in Nat : Joined(g)[n] \in Seq(T)}
  <1>1. 0 \in S
    BY JoinedIs
  <1>2. ASSUME NEW n \in S PROVE n + 1 \in S
    <2>1. n \in Nat /\ n + 1 \in Nat /\ Joined(g)[n] \in Seq(T) /\ g[n + 1] \in Seq(T)
      OBVIOUS
    <2>2. Joined(g)[n + 1] = Joined(g)[n] \o g[n + 1]
      BY <2>1, JoinedIs
    <2>3. Joined(g)[n + 1] \in Seq(T)
      BY <2>1, <2>2, ConcatProperties
    <2> QED BY <2>1, <2>3
  <1> HIDE DEF S
  <1>3. S = Nat
    <2>1. S \in SUBSET Nat
      BY DEF S
    <2> QED BY <1>1, <1>2, <2>1, NumberInduction
  <1>4. \A n \in Nat : Joined(g)[n] \in Seq(T)
    BY <1>3 DEF S
  <1> QED
    BY <1>4 DEF Joined

(* Induction over a sequence, for a set of sequences. *)
LEMMA SequenceInduction ==
  ASSUME NEW T, NEW X \in SUBSET Seq(T), <<>> \in X,
         \A q \in X : \A e \in T : Append(q, e) \in X
  PROVE  X = Seq(T)
  <1> DEFINE S == {n \in Nat : \A q \in Seq(T) : Len(q) = n => q \in X}
  <1>1. 0 \in S
    <2>1. \A q \in Seq(T) : Len(q) = 0 => q = <<>>
      OBVIOUS
    <2> QED BY <2>1
  <1>2. ASSUME NEW n \in S PROVE n + 1 \in S
    <2> SUFFICES ASSUME NEW q \in Seq(T), Len(q) = n + 1 PROVE q \in X
      OBVIOUS
    <2>1. n \in Nat /\ q # <<>>
      OBVIOUS
    <2>2. PICK r \in Seq(T), e \in T : q = Append(r, e)
      BY <2>1, SequenceEmptyOrAppend
    <2>3. Len(r) = n
      BY <2>1, <2>2, AppendProperties, LenProperties
    <2> QED BY <2>2, <2>3
  <1> HIDE DEF S
  <1>3. S = Nat
    <2>1. S \in SUBSET Nat
      BY DEF S
    <2> QED BY <1>1, <1>2, <2>1, NumberInduction
  <1>4. ASSUME NEW q \in Seq(T) PROVE q \in X
    <2>1. Len(q) \in S
      BY <1>3, LenProperties
    <2> QED BY <2>1 DEF S
  <1> QED
    BY <1>4, Zenon

--------------------------------------------------------------------------------
(* Only *)

(* What Only(q, S) takes at each place of q. *)
Picked(q, S) == [i \in Nat |-> IF i \in 1..Len(q) /\ q[i] \in S THEN <<q[i]>> ELSE <<>>]

LEMMA OnlyIs ==
  ASSUME NEW T, NEW q \in Seq(T), NEW S
  PROVE  Only(q, S) = Joined(Picked(q, S))[Len(q)]
  <1> DEFINE J == Joined(Picked(q, S))
             Step(f, i) == IF i = 0 THEN <<>>
                           ELSE IF q[i] \in S THEN Append(f[i - 1], q[i]) ELSE f[i - 1]
             w == [i \in 0..Len(q) |-> J[i]]
             c == CHOOSE f : f = [i \in 0..Len(q) |-> Step(f, i)]
  <1>1. Only(q, S) = c[Len(q)]
    BY DEF Only
  <1>2. Len(q) \in Nat /\ \A i \in 1..Len(q) : q[i] \in T
    BY LenProperties, ElementOfSeq
  <1>3. Picked(q, S) \in [Nat -> Seq(T)]
    BY <1>2 DEF Picked
  <1>4. \A i \in Nat : J[i] \in Seq(T)
    BY <1>3, JoinedType
  <1>5. ASSUME NEW i \in 0..Len(q), NEW f, i # 0 => f[i - 1] = J[i - 1]
        PROVE  J[i] = Step(f, i)
    <2>1. CASE i = 0
      <3>1. J[0] = Picked(q, S)[0]
        BY JoinedIs
      <3>2. Picked(q, S)[0] = <<>>
        BY DEF Picked
      <3> QED BY <2>1, <3>1, <3>2
    <2>2. CASE i # 0
      <3>1. i - 1 \in Nat /\ i - 1 + 1 = i /\ i \in Nat /\ i \in 1..Len(q)
        BY <1>2, <2>2
      <3>2. J[i] = J[i - 1] \o Picked(q, S)[i] /\ J[i - 1] \in Seq(T)
        <4>1. J[i - 1 + 1] = J[i - 1] \o Picked(q, S)[i - 1 + 1]
          BY <3>1, JoinedIs, Zenon
        <4> QED BY <1>4, <3>1, <4>1, Zenon
      <3>3. Picked(q, S)[i] = IF q[i] \in S THEN <<q[i]>> ELSE <<>>
        BY <3>1 DEF Picked
      <3>4. q[i] \in T
        BY <1>2, <3>1
      <3>5. CASE q[i] \in S
        <4>1. J[i] = Append(J[i - 1], q[i])
          BY <3>2, <3>3, <3>4, <3>5, AppendIsConcat
        <4> QED BY <1>5, <2>2, <3>5, <4>1, Zenon
      <3>6. CASE q[i] \notin S
        <4>1. J[i] = J[i - 1]
          BY <3>2, <3>3, <3>6, ConcatEmptySeq
        <4> QED BY <1>5, <2>2, <3>6, <4>1, Zenon
      <3> QED BY <3>5, <3>6
    <2> QED BY <2>1, <2>2
  <1>6. w = [i \in 0..Len(q) |-> Step(w, i)]
    <2>1. ASSUME NEW i \in 0..Len(q) PROVE w[i] = Step(w, i)
      <3>1. w[i] = J[i] /\ (i # 0 => w[i - 1] = J[i - 1])
        BY <1>2
      <3> HIDE DEF w, J, Step
      <3> QED BY <1>5, <3>1, Zenon
    <2> HIDE DEF Step, J
    <2> QED BY <2>1
  <1>7. c = [i \in 0..Len(q) |-> Step(c, i)]
    <2> HIDE DEF w, J, Step
    <2> QED BY <1>6, Zenon
  <1> HIDE DEF c, w
  <1> DEFINE X == {i \in Nat : i <= Len(q) => c[i] = J[i]}
  <1>8. 0 \in X
    <2>1. 0 \in 0..Len(q) /\ c[0] = Step(c, 0)
      BY <1>2, <1>7
    <2> HIDE DEF J, Step
    <2>2. J[0] = Step(c, 0)
      BY <1>5, <2>1, Zenon
    <2> QED BY <2>1, <2>2
  <1>9. ASSUME NEW i \in X PROVE i + 1 \in X
    <2> SUFFICES ASSUME i + 1 <= Len(q) PROVE c[i + 1] = J[i + 1]
      OBVIOUS
    <2>1. i \in Nat /\ i + 1 \in 0..Len(q) /\ i + 1 # 0 /\ i + 1 - 1 = i /\ c[i] = J[i]
      BY <1>2
    <2>2. c[i + 1] = Step(c, i + 1)
      BY <1>7, <2>1
    <2> HIDE DEF J, Step
    <2>3. c[i + 1 - 1] = J[i + 1 - 1]
      BY <2>1
    <2>4. J[i + 1] = Step(c, i + 1)
      <3> DEFINE k == i + 1
      <3>1. k \in 0..Len(q) /\ c[k - 1] = J[k - 1]
        BY <2>1, <2>3
      <3> HIDE DEF k
      <3>2. J[k] = Step(c, k)
        BY <1>5, <3>1, Zenon
      <3> QED BY <3>2 DEF k
    <2> QED BY <2>2, <2>4
  <1> HIDE DEF X
  <1>10. X = Nat
    <2>1. X \in SUBSET Nat
      BY DEF X
    <2> QED BY <1>8, <1>9, <2>1, NumberInduction
  <1>11. c[Len(q)] = J[Len(q)]
    BY <1>2, <1>10 DEF X
  <1> QED
    BY <1>1, <1>11

LEMMA OnlyType ==
  ASSUME NEW T, NEW q \in Seq(T), NEW S
  PROVE  Only(q, S) \in Seq(T)
  <1>1. Len(q) \in Nat /\ \A i \in 1..Len(q) : q[i] \in T
    BY LenProperties, ElementOfSeq
  <1>2. Picked(q, S) \in [Nat -> Seq(T)]
    BY <1>1 DEF Picked
  <1>3. Joined(Picked(q, S))[Len(q)] \in Seq(T)
    BY <1>1, <1>2, JoinedType
  <1> QED
    BY <1>3, OnlyIs

LEMMA JoinedSame ==
  ASSUME NEW g, NEW h, NEW m \in Nat, \A n \in 0..m : g[n] = h[n]
  PROVE  Joined(g)[m] = Joined(h)[m]
  <1> DEFINE X == {n \in Nat : n <= m => Joined(g)[n] = Joined(h)[n]}
  <1>1. 0 \in X
    <2>1. g[0] = h[0]
      OBVIOUS
    <2>2. Joined(g)[0] = g[0] /\ Joined(h)[0] = h[0]
      BY JoinedIs
    <2> QED BY <2>1, <2>2
  <1>2. ASSUME NEW n \in X PROVE n + 1 \in X
    <2> SUFFICES ASSUME n + 1 <= m PROVE Joined(g)[n + 1] = Joined(h)[n + 1]
      OBVIOUS
    <2>1. n \in Nat /\ n + 1 \in 0..m /\ Joined(g)[n] = Joined(h)[n]
      OBVIOUS
    <2>2. /\ Joined(g)[n + 1] = Joined(g)[n] \o g[n + 1]
          /\ Joined(h)[n + 1] = Joined(h)[n] \o h[n + 1]
      BY <2>1, JoinedIs
    <2>3. g[n + 1] = h[n + 1]
      BY <2>1
    <2> QED BY <2>1, <2>2, <2>3, Zenon
  <1> HIDE DEF X
  <1>3. X = Nat
    <2>1. X \in SUBSET Nat
      BY DEF X
    <2> QED BY <1>1, <1>2, <2>1, NumberInduction
  <1> QED
    BY <1>3 DEF X

LEMMA OnlyEmpty ==
  ASSUME NEW S
  PROVE  Only(<<>>, S) = <<>>
  <1>1. <<>> \in Seq({}) /\ Len(<<>>) = 0
    BY EmptySeq
  <1>2. Only(<<>>, S) = Joined(Picked(<<>>, S))[0]
    BY <1>1, OnlyIs
  <1>3. Joined(Picked(<<>>, S))[0] = Picked(<<>>, S)[0]
    BY JoinedIs
  <1>4. Picked(<<>>, S)[0] = <<>>
    BY DEF Picked
  <1> QED
    BY <1>2, <1>3, <1>4

LEMMA OnlyAppend ==
  ASSUME NEW T, NEW q \in Seq(T), NEW e \in T, NEW S
  PROVE  Only(Append(q, e), S) = IF e \in S THEN Append(Only(q, S), e) ELSE Only(q, S)
  <1> DEFINE r == Append(q, e)
             n == Len(q)
             P == Picked(q, S)
             R == Picked(r, S)
  <1>1. n \in Nat /\ r \in Seq(T) /\ Len(r) = n + 1 /\ r[n + 1] = e /\ \A i \in 1..n : r[i] = q[i]
    BY LenProperties, AppendProperties
  <1>2. R[n + 1] = IF e \in S THEN <<e>> ELSE <<>>
    BY <1>1 DEF Picked
  <1>3. \A i \in 0..n : R[i] = P[i]
    BY <1>1 DEF Picked
  <1> HIDE DEF P, R, r, n
  <1>4. Joined(R)[n] = Joined(P)[n]
    BY <1>1, <1>3, JoinedSame
  <1>5. Joined(R)[n + 1] = Joined(R)[n] \o R[n + 1]
    BY <1>1, JoinedIs
  <1>6. Only(r, S) = Joined(R)[n + 1] /\ Only(q, S) = Joined(P)[n] /\ Only(q, S) \in Seq(T)
    BY <1>1, OnlyIs, OnlyType DEF R, P, n
  <1>7. Only(r, S) = Only(q, S) \o R[n + 1]
    BY <1>4, <1>5, <1>6, Zenon
  <1>8. Only(q, S) \o <<>> = Only(q, S) /\ Append(Only(q, S), e) = Only(q, S) \o <<e>>
    BY <1>6, ConcatEmptySeq, AppendIsConcat
  <1>9. Only(r, S) = IF e \in S THEN Append(Only(q, S), e) ELSE Only(q, S)
    BY <1>2, <1>7, <1>8, Zenon
  <1> QED
    BY <1>9 DEF r

LEMMA RangeIs ==
  ASSUME NEW T, NEW q \in Seq(T)
  PROVE  Range(q) = {q[i] : i \in 1..Len(q)} /\ Range(q) \subseteq T
  <1>1. DOMAIN q = 1..Len(q) /\ \A i \in 1..Len(q) : q[i] \in T
    BY LenProperties, ElementOfSeq
  <1> QED BY <1>1 DEF Range

LEMMA RangeEmpty == Range(<<>>) = {}
  BY DEF Range

LEMMA RangeCat ==
  ASSUME NEW T, NEW a \in Seq(T), NEW b \in Seq(T)
  PROVE  Range(a \o b) = Range(a) \cup Range(b)
  <1> DEFINE c == a \o b
  <1>1. /\ c \in Seq(T) /\ Len(a) \in Nat /\ Len(b) \in Nat /\ Len(c) = Len(a) + Len(b)
        /\ \A i \in 1..(Len(a) + Len(b)) : c[i] = IF i <= Len(a) THEN a[i] ELSE b[i - Len(a)]
    BY ConcatProperties, LenProperties
  <1>2. /\ Range(a) = {a[i] : i \in 1..Len(a)} /\ Range(b) = {b[i] : i \in 1..Len(b)}
        /\ Range(c) = {c[i] : i \in 1..Len(c)}
    BY <1>1, RangeIs
  <1> HIDE DEF c
  <1>3. ASSUME NEW x \in Range(c) PROVE x \in Range(a) \cup Range(b)
    <2>1. PICK i \in 1..(Len(a) + Len(b)) : x = c[i]
      BY <1>1, <1>2
    <2>2. i <= Len(a) => i \in 1..Len(a) /\ x = a[i]
      BY <1>1, <2>1
    <2>3. ~(i <= Len(a)) => i - Len(a) \in 1..Len(b) /\ x = b[i - Len(a)]
      BY <1>1, <2>1
    <2> QED BY <1>2, <2>2, <2>3
  <1>4. ASSUME NEW x \in Range(a) PROVE x \in Range(c)
    <2>1. PICK i \in 1..Len(a) : x = a[i]
      BY <1>2
    <2>2. i \in 1..Len(c) /\ c[i] = a[i]
      BY <1>1, <2>1
    <2> QED BY <1>2, <2>1, <2>2
  <1>5. ASSUME NEW x \in Range(b) PROVE x \in Range(c)
    <2>1. PICK i \in 1..Len(b) : x = b[i]
      BY <1>2
    <2>2. Len(a) + i \in 1..Len(c) /\ c[Len(a) + i] = b[i]
      BY <1>1, <2>1
    <2> QED BY <1>2, <2>1, <2>2
  <1>6. Range(c) = Range(a) \cup Range(b)
    BY <1>3, <1>4, <1>5, Zenon
  <1> QED BY <1>6 DEF c

LEMMA RangeAppend ==
  ASSUME NEW T, NEW q \in Seq(T), NEW e \in T
  PROVE  Range(Append(q, e)) = Range(q) \cup {e}
  <1>1. Append(q, e) = q \o <<e>> /\ <<e>> \in Seq(T)
    BY AppendIsConcat
  <1>2. Range(<<e>>) = {e}
    <2>1. DOMAIN <<e>> = 1..1 /\ <<e>>[1] = e
      OBVIOUS
    <2>2. \A i \in 1..1 : i = 1
      OBVIOUS
    <2>3. 1 \in 1..1
      OBVIOUS
    <2> QED BY <2>1, <2>2, <2>3, Zenon DEF Range
  <1>3. Range(q \o <<e>>) = Range(q) \cup Range(<<e>>)
    BY <1>1, RangeCat, ZenonT(40)
  <1> QED BY <1>1, <1>2, <1>3, Zenon

LEMMA CatAppend ==
  ASSUME NEW T, NEW a \in Seq(T), NEW q \in Seq(T), NEW e \in T
  PROVE  a \o Append(q, e) = Append(a \o q, e)
  BY AppendIsConcat, ConcatAssociative, ConcatProperties

LEMMA OnlyCat ==
  ASSUME NEW T, NEW a \in Seq(T), NEW b \in Seq(T), NEW S
  PROVE  Only(a \o b, S) = Only(a, S) \o Only(b, S)
  <1> DEFINE X == {q \in Seq(T) : Only(a \o q, S) = Only(a, S) \o Only(q, S)}
  <1>1. <<>> \in X
    <2>1. a \o <<>> = a /\ Only(a, S) \o <<>> = Only(a, S)
      BY OnlyType, ConcatEmptySeq
    <2> QED BY <2>1, OnlyEmpty, EmptySeq
  <1>2. ASSUME NEW q \in X, NEW e \in T PROVE Append(q, e) \in X
    <2>1. q \in Seq(T) /\ Only(a \o q, S) = Only(a, S) \o Only(q, S)
      OBVIOUS
    <2> HIDE DEF X
    <2>2. /\ Append(q, e) \in Seq(T) /\ a \o q \in Seq(T) /\ <<e>> \in Seq(T)
          /\ Only(a, S) \in Seq(T) /\ Only(q, S) \in Seq(T)
      BY <2>1, AppendProperties, ConcatProperties, OnlyType
    <2>3. a \o Append(q, e) = Append(a \o q, e)
      BY <2>1, CatAppend
    <2>4. Only(Append(a \o q, e), S)
            = IF e \in S THEN Append(Only(a \o q, S), e) ELSE Only(a \o q, S)
      BY <2>2, OnlyAppend, Zenon
    <2>5. Only(Append(q, e), S) = IF e \in S THEN Append(Only(q, S), e) ELSE Only(q, S)
      BY <2>1, OnlyAppend
    <2>6. Append(Only(a, S) \o Only(q, S), e) = Only(a, S) \o Append(Only(q, S), e)
      <3>1. PICK u \in Seq(T), v \in Seq(T) : u = Only(a, S) /\ v = Only(q, S)
        BY <2>2
      <3>2. u \o Append(v, e) = Append(u \o v, e)
        BY CatAppend
      <3> QED BY <3>1, <3>2, Zenon
    <2>7. Only(a \o Append(q, e), S) = Only(a, S) \o Only(Append(q, e), S)
      BY <2>1, <2>3, <2>4, <2>5, <2>6, Zenon
    <2> QED BY <2>2, <2>7 DEF X
  <1> HIDE DEF X
  <1>3. X = Seq(T)
    <2>1. X \in SUBSET Seq(T)
      BY DEF X
    <2> QED BY <1>1, <1>2, <2>1, SequenceInduction
  <1> QED BY <1>3 DEF X

LEMMA OnlyRange ==
  ASSUME NEW T, NEW q \in Seq(T), NEW S
  PROVE  Range(Only(q, S)) = Range(q) \cap S
  <1> DEFINE X == {r \in Seq(T) : Range(Only(r, S)) = Range(r) \cap S}
  <1>1. <<>> \in X
    BY OnlyEmpty, RangeEmpty, EmptySeq
  <1>2. ASSUME NEW r \in X, NEW e \in T PROVE Append(r, e) \in X
    <2>1. /\ r \in Seq(T) /\ Range(Only(r, S)) = Range(r) \cap S /\ Only(r, S) \in Seq(T)
          /\ Append(r, e) \in Seq(T)
      BY OnlyType, AppendProperties
    <2>2. Range(Append(r, e)) = Range(r) \cup {e}
      BY <2>1, RangeAppend
    <2>3. Range(Append(Only(r, S), e)) = Range(Only(r, S)) \cup {e}
      BY <2>1, RangeAppend
    <2>4. Only(Append(r, e), S) = IF e \in S THEN Append(Only(r, S), e) ELSE Only(r, S)
      BY <2>1, OnlyAppend
    <2>5. Range(Only(Append(r, e), S)) = Range(Append(r, e)) \cap S
      BY <2>1, <2>2, <2>3, <2>4
    <2> QED BY <2>1, <2>5
  <1> HIDE DEF X
  <1>3. X = Seq(T)
    <2>1. X \in SUBSET Seq(T)
      BY DEF X
    <2> QED BY <1>1, <1>2, <2>1, SequenceInduction
  <1> QED BY <1>3 DEF X

LEMMA OnlySame ==
  ASSUME NEW T, NEW q \in Seq(T), NEW S, NEW R, Range(q) \cap S = Range(q) \cap R
  PROVE  Only(q, S) = Only(q, R)
  <1> DEFINE X == {r \in Seq(T) : Range(r) \cap S = Range(r) \cap R => Only(r, S) = Only(r, R)}
  <1>1. <<>> \in X
    BY OnlyEmpty, EmptySeq
  <1>2. ASSUME NEW r \in X, NEW e \in T PROVE Append(r, e) \in X
    <2>1. r \in Seq(T) /\ Append(r, e) \in Seq(T) /\ Range(Append(r, e)) = Range(r) \cup {e}
      BY AppendProperties, RangeAppend
    <2>2. ASSUME Range(Append(r, e)) \cap S = Range(Append(r, e)) \cap R
          PROVE  Only(Append(r, e), S) = Only(Append(r, e), R)
      <3>1. Range(r) \cap S = Range(r) \cap R /\ (e \in S <=> e \in R)
        BY <2>1, <2>2
      <3>2. Only(r, S) = Only(r, R)
        BY <3>1
      <3>3. /\ Only(Append(r, e), S) = IF e \in S THEN Append(Only(r, S), e) ELSE Only(r, S)
            /\ Only(Append(r, e), R) = IF e \in R THEN Append(Only(r, R), e) ELSE Only(r, R)
        BY <2>1, OnlyAppend
      <3> QED BY <3>1, <3>2, <3>3, Zenon
    <2> QED BY <2>1, <2>2
  <1> HIDE DEF X
  <1>3. X = Seq(T)
    <2>1. X \in SUBSET Seq(T)
      BY DEF X
    <2> QED BY <1>1, <1>2, <2>1, SequenceInduction
  <1> QED BY <1>3 DEF X

LEMMA OnlyAll ==
  ASSUME NEW T, NEW q \in Seq(T), NEW S, Range(q) \subseteq S
  PROVE  Only(q, S) = q
  <1> DEFINE X == {r \in Seq(T) : Range(r) \subseteq S => Only(r, S) = r}
  <1>1. <<>> \in X
    BY OnlyEmpty, EmptySeq
  <1>2. ASSUME NEW r \in X, NEW e \in T PROVE Append(r, e) \in X
    <2>1. r \in Seq(T) /\ Append(r, e) \in Seq(T) /\ Range(Append(r, e)) = Range(r) \cup {e}
      BY AppendProperties, RangeAppend
    <2>2. ASSUME Range(Append(r, e)) \subseteq S PROVE Only(Append(r, e), S) = Append(r, e)
      <3>1. Range(r) \subseteq S /\ e \in S
        BY <2>1, <2>2
      <3>2. Only(r, S) = r
        BY <3>1
      <3>3. Only(Append(r, e), S) = IF e \in S THEN Append(Only(r, S), e) ELSE Only(r, S)
        BY <2>1, OnlyAppend
      <3> QED BY <3>1, <3>2, <3>3, Zenon
    <2> QED BY <2>1, <2>2
  <1> HIDE DEF X
  <1>3. X = Seq(T)
    <2>1. X \in SUBSET Seq(T)
      BY DEF X
    <2> QED BY <1>1, <1>2, <2>1, SequenceInduction
  <1> QED BY <1>3 DEF X

LEMMA OnlyNone ==
  ASSUME NEW T, NEW q \in Seq(T), NEW S, Range(q) \cap S = {}
  PROVE  Only(q, S) = <<>>
  <1>1. Only(q, S) \in Seq(T) /\ Range(Only(q, S)) = {}
    BY OnlyType, OnlyRange
  <1>2. {Only(q, S)[i] : i \in 1..Len(Only(q, S))} = {} /\ Len(Only(q, S)) \in Nat
    <2>1. PICK p \in Seq(T) : p = Only(q, S)
      BY <1>1
    <2>2. Range(p) = {p[i] : i \in 1..Len(p)} /\ Len(p) \in Nat
      BY RangeIs, LenProperties
    <2> QED BY <1>1, <2>1, <2>2
  <1>3. ~(Len(Only(q, S)) \in Nat \ {0})
    <2> SUFFICES ASSUME Len(Only(q, S)) \in Nat \ {0} PROVE FALSE
      OBVIOUS
    <2>1. 1 \in 1..Len(Only(q, S))
      OBVIOUS
    <2>2. Only(q, S)[1] \in {}
      BY <1>2, <2>1, Zenon
    <2> QED BY <2>2
  <1> QED BY <1>1, <1>3, EmptySeq

LEMMA OnlyOnly ==
  ASSUME NEW T, NEW q \in Seq(T), NEW S, NEW R
  PROVE  Only(Only(q, S), R) = Only(q, S \cap R)
  <1> DEFINE X == {r \in Seq(T) : Only(Only(r, S), R) = Only(r, S \cap R)}
  <1>1. <<>> \in X
    <2>1. Only(Only(<<>>, S), R) = <<>> /\ Only(<<>>, S \cap R) = <<>>
      BY OnlyEmpty, Zenon
    <2> QED BY <2>1, EmptySeq
  <1>2. ASSUME NEW r \in X, NEW e \in T PROVE Append(r, e) \in X
    <2>1. /\ r \in Seq(T) /\ Append(r, e) \in Seq(T) /\ Only(r, S) \in Seq(T)
          /\ Only(Only(r, S), R) = Only(r, S \cap R)
      BY AppendProperties, OnlyType
    <2> HIDE DEF X
    <2>2. /\ Only(Append(r, e), S) = IF e \in S THEN Append(Only(r, S), e) ELSE Only(r, S)
          /\ Only(Append(r, e), S \cap R)
                = IF e \in S \cap R THEN Append(Only(r, S \cap R), e) ELSE Only(r, S \cap R)
          /\ Only(Append(Only(r, S), e), R)
                = IF e \in R THEN Append(Only(Only(r, S), R), e) ELSE Only(Only(r, S), R)
      <3>1. Only(Append(r, e), S) = IF e \in S THEN Append(Only(r, S), e) ELSE Only(r, S)
        BY <2>1, OnlyAppend
      <3>2. PICK U : U = S \cap R
        OBVIOUS
      <3>3. Only(Append(r, e), U) = IF e \in U THEN Append(Only(r, U), e) ELSE Only(r, U)
        BY <2>1, OnlyAppend
      <3>4. PICK v \in Seq(T) : v = Only(r, S)
        BY <2>1
      <3>5. Only(Append(v, e), R) = IF e \in R THEN Append(Only(v, R), e) ELSE Only(v, R)
        BY OnlyAppend
      <3> QED BY <3>1, <3>2, <3>3, <3>4, <3>5, Zenon
    <2>3. e \in S \cap R <=> e \in S /\ e \in R
      OBVIOUS
    <2>4. Only(Only(Append(r, e), S), R) = Only(Append(r, e), S \cap R)
      BY <2>1, <2>2, <2>3, Zenon
    <2> QED BY <2>1, <2>4 DEF X
  <1> HIDE DEF X
  <1>3. X = Seq(T)
    <2>1. X \in SUBSET Seq(T)
      BY DEF X
    <2> QED BY <1>1, <1>2, <2>1, SequenceInduction
  <1> QED BY <1>3 DEF X

(* Samples in the order they were made. *)
Increasing(q) == \A i, j \in 1..Len(q) : i < j => q[i] < q[j]

LEMMA IncreasingAppend ==
  ASSUME NEW q \in Seq(Nat), NEW e \in Nat
  PROVE  Increasing(Append(q, e)) <=> Increasing(q) /\ \A x \in Range(q) : x < e
  <1> DEFINE r == Append(q, e)
             n == Len(q)
  <1>1. /\ n \in Nat /\ Len(r) = n + 1 /\ r[n + 1] = e /\ \A i \in 1..n : r[i] = q[i]
        /\ \A i \in 1..n : q[i] \in Nat
    BY AppendProperties, LenProperties, ElementOfSeq
  <1>2. Range(q) = {q[i] : i \in 1..n}
    BY RangeIs
  <1> HIDE DEF r, n
  <1>3. Increasing(q) <=> \A i, j \in 1..n : i < j => q[i] < q[j]
    BY DEF Increasing, n
  <1>4. Increasing(r) <=> \A i, j \in 1..(n + 1) : i < j => r[i] < r[j]
    BY <1>1 DEF Increasing
  <1>5. ASSUME Increasing(r) PROVE Increasing(q) /\ \A x \in Range(q) : x < e
    BY <1>1, <1>2, <1>3, <1>4, <1>5
  <1>6. ASSUME Increasing(q), \A x \in Range(q) : x < e PROVE Increasing(r)
    <2> SUFFICES ASSUME NEW i \in 1..(n + 1), NEW j \in 1..(n + 1), i < j PROVE r[i] < r[j]
      BY <1>4
    <2>1. CASE j = n + 1
      BY <1>1, <1>2, <1>6, <2>1
    <2>2. CASE j # n + 1
      BY <1>1, <1>3, <1>6, <2>2
    <2> QED BY <2>1, <2>2
  <1> QED BY <1>5, <1>6 DEF r

LEMMA OnlyIncreasing ==
  ASSUME NEW q \in Seq(Nat), NEW S, Increasing(q)
  PROVE  Increasing(Only(q, S))
  <1> DEFINE X == {r \in Seq(Nat) : Increasing(r) => Increasing(Only(r, S))}
  <1>1. <<>> \in X
    <2>1. Increasing(<<>>)
      BY DEF Increasing
    <2> QED BY <2>1, OnlyEmpty, EmptySeq
  <1>2. ASSUME NEW r \in X, NEW e \in Nat PROVE Append(r, e) \in X
    <2>1. /\ r \in Seq(Nat) /\ Append(r, e) \in Seq(Nat) /\ Only(r, S) \in Seq(Nat)
          /\ Range(Only(r, S)) = Range(r) \cap S
      BY AppendProperties, OnlyType, OnlyRange
    <2>2. ASSUME Increasing(Append(r, e)) PROVE Increasing(Only(Append(r, e), S))
      <3>1. Increasing(r) /\ \A x \in Range(r) : x < e
        BY <2>1, <2>2, IncreasingAppend
      <3>2. Increasing(Only(r, S)) /\ \A x \in Range(Only(r, S)) : x < e
        BY <2>1, <3>1
      <3>3. Increasing(Append(Only(r, S), e))
        BY <2>1, <3>2, IncreasingAppend
      <3>4. Only(Append(r, e), S) = IF e \in S THEN Append(Only(r, S), e) ELSE Only(r, S)
        BY <2>1, OnlyAppend
      <3> QED BY <3>2, <3>3, <3>4
    <2> QED BY <2>1, <2>2
  <1> HIDE DEF X
  <1>3. X = Seq(Nat)
    <2>1. X \in SUBSET Seq(Nat)
      BY DEF X
    <2> QED BY <1>1, <1>2, <2>1, SequenceInduction
  <1> QED BY <1>3 DEF X

LEMMA IncreasingCat ==
  ASSUME NEW a \in Seq(Nat), NEW b \in Seq(Nat)
  PROVE  Increasing(a \o b) <=> /\ Increasing(a) /\ Increasing(b)
                                /\ \A x \in Range(a), y \in Range(b) : x < y
  <1> DEFINE c == a \o b
             m == Len(a)
             n == Len(b)
  <1>1. /\ m \in Nat /\ n \in Nat /\ Len(c) = m + n
        /\ \A i \in 1..(m + n) : c[i] = IF i <= m THEN a[i] ELSE b[i - m]
        /\ \A i \in 1..m : a[i] \in Nat
        /\ \A i \in 1..n : b[i] \in Nat
    BY ConcatProperties, LenProperties, ElementOfSeq
  <1>2. Range(a) = {a[i] : i \in 1..m} /\ Range(b) = {b[i] : i \in 1..n}
    BY RangeIs
  <1>3. /\ Increasing(a) <=> \A i, j \in 1..m : i < j => a[i] < a[j]
        /\ Increasing(b) <=> \A i, j \in 1..n : i < j => b[i] < b[j]
    BY DEF Increasing
  <1>4. Increasing(c) <=> \A i, j \in 1..(m + n) : i < j => c[i] < c[j]
    BY <1>1 DEF Increasing
  <1> HIDE DEF c, m, n
  <1>5. ASSUME Increasing(c)
        PROVE  Increasing(a) /\ Increasing(b) /\ \A x \in Range(a), y \in Range(b) : x < y
    <2>1. ASSUME NEW i \in 1..m, NEW j \in 1..m, i < j PROVE a[i] < a[j]
      BY <1>1, <1>4, <1>5, <2>1
    <2>2. ASSUME NEW i \in 1..n, NEW j \in 1..n, i < j PROVE b[i] < b[j]
      <3>1. /\ m + i \in 1..(m + n) /\ m + j \in 1..(m + n) /\ m + i < m + j
            /\ c[m + i] = b[i] /\ c[m + j] = b[j]
        BY <1>1, <2>2
      <3>2. c[m + i] < c[m + j]
        BY <1>4, <1>5, <3>1
      <3> QED BY <3>1, <3>2
    <2>3. ASSUME NEW i \in 1..m, NEW j \in 1..n PROVE a[i] < b[j]
      <3>1. /\ i \in 1..(m + n) /\ m + j \in 1..(m + n) /\ i < m + j
            /\ c[i] = a[i] /\ c[m + j] = b[j]
        BY <1>1
      <3>2. c[i] < c[m + j]
        BY <1>4, <1>5, <3>1
      <3> QED BY <3>1, <3>2
    <2> QED BY <1>2, <1>3, <2>1, <2>2, <2>3
  <1>6. ASSUME Increasing(a), Increasing(b), \A x \in Range(a), y \in Range(b) : x < y
        PROVE  Increasing(c)
    <2> SUFFICES ASSUME NEW i \in 1..(m + n), NEW j \in 1..(m + n), i < j PROVE c[i] < c[j]
      BY <1>4
    <2>1. CASE j <= m
      BY <1>1, <1>3, <1>6, <2>1
    <2>2. CASE i <= m /\ ~(j <= m)
      <3>1. i \in 1..m /\ j - m \in 1..n /\ c[i] = a[i] /\ c[j] = b[j - m]
        BY <1>1, <2>2
      <3>2. a[i] \in Range(a) /\ b[j - m] \in Range(b)
        BY <1>2, <3>1
      <3> QED BY <1>6, <3>1, <3>2
    <2>3. CASE ~(i <= m)
      <3>1. i - m \in 1..n /\ j - m \in 1..n /\ i - m < j - m /\ c[i] = b[i - m] /\ c[j] = b[j - m]
        BY <1>1, <2>3
      <3> QED BY <1>3, <1>6, <3>1
    <2> QED BY <2>1, <2>2, <2>3
  <1> QED BY <1>5, <1>6 DEF c

--------------------------------------------------------------------------------
(* Concatenation, as a name the provers do not look into *)

Cat(a, b) == a \o b

LEMMA CatType ==
  ASSUME NEW T, NEW a \in Seq(T), NEW b \in Seq(T)
  PROVE  Cat(a, b) \in Seq(T)
  BY ConcatProperties DEF Cat

LEMMA CatAssoc ==
  ASSUME NEW T, NEW a \in Seq(T), NEW b \in Seq(T), NEW c \in Seq(T)
  PROVE  Cat(Cat(a, b), c) = Cat(a, Cat(b, c))
  BY ConcatAssociative DEF Cat

LEMMA CatEmpty ==
  ASSUME NEW T, NEW a \in Seq(T)
  PROVE  Cat(<<>>, a) = a /\ Cat(a, <<>>) = a
  BY ConcatEmptySeq DEF Cat

LEMMA CatOnly ==
  ASSUME NEW T, NEW a \in Seq(T), NEW b \in Seq(T), NEW S
  PROVE  Only(Cat(a, b), S) = Cat(Only(a, S), Only(b, S))
  BY OnlyCat DEF Cat

LEMMA CatRange ==
  ASSUME NEW T, NEW a \in Seq(T), NEW b \in Seq(T)
  PROVE  Range(Cat(a, b)) = Range(a) \cup Range(b)
  BY RangeCat DEF Cat

LEMMA CatIncreasing ==
  ASSUME NEW a \in Seq(Nat), NEW b \in Seq(Nat)
  PROVE  Increasing(Cat(a, b)) <=> /\ Increasing(a) /\ Increasing(b)
                                   /\ \A x \in Range(a), y \in Range(b) : x < y
  BY IncreasingCat DEF Cat

LEMMA CatLen ==
  ASSUME NEW T, NEW a \in Seq(T), NEW b \in Seq(T)
  PROVE  Len(Cat(a, b)) = Len(a) + Len(b) /\ Len(a) \in Nat /\ Len(b) \in Nat
  BY ConcatProperties, LenProperties DEF Cat

--------------------------------------------------------------------------------
(* Joined *)

LEMMA JoinedTail ==
  ASSUME NEW T, NEW g \in [Nat -> Seq(T)], NEW k \in Nat, NEW m \in Nat, k <= m,
         \A n \in (k + 1)..m : g[n] = <<>>
  PROVE  Joined(g)[m] = Joined(g)[k]
  <1> DEFINE X == {n \in Nat : k <= n /\ n <= m => Joined(g)[n] = Joined(g)[k]}
  <1>1. 0 \in X
    OBVIOUS
  <1>2. ASSUME NEW n \in X PROVE n + 1 \in X
    <2> SUFFICES ASSUME k <= n + 1, n + 1 <= m PROVE Joined(g)[n + 1] = Joined(g)[k]
      OBVIOUS
    <2>1. CASE k = n + 1
      BY <2>1
    <2>2. CASE k # n + 1
      <3>1. n \in Nat /\ k <= n /\ n <= m /\ n + 1 \in (k + 1)..m
        BY <2>2
      <3>2. Joined(g)[n] = Joined(g)[k] /\ g[n + 1] = <<>>
        BY <3>1
      <3>3. Joined(g)[n + 1] = Joined(g)[n] \o g[n + 1] /\ Joined(g)[n] \in Seq(T)
        BY <3>1, JoinedIs, JoinedType
      <3> QED BY <3>2, <3>3, ConcatEmptySeq
    <2> QED BY <2>1, <2>2
  <1> HIDE DEF X
  <1>3. X = Nat
    <2>1. X \in SUBSET Nat
      BY DEF X
    <2> QED BY <1>1, <1>2, <2>1, NumberInduction
  <1>4. m \in X /\ k <= m /\ m <= m
    BY <1>3
  <1> QED BY <1>4 DEF X

(* What is before and what is behind g[k]. *)
Splits(T, g, h, k, m) ==
  \E p, q \in Seq(T) :
     /\ Joined(g)[m] = Cat(p, Cat(g[k], q))
     /\ Joined(h)[m] = Cat(p, Cat(h[k], q))
     /\ (\A n \in 0..(k - 1) : g[n] = <<>>) => p = <<>>
     /\ (\A n \in (k + 1)..m : g[n] = <<>>) => q = <<>>
LEMMA SplitAt ==
  ASSUME NEW T, NEW g \in [Nat -> Seq(T)], NEW h \in [Nat -> Seq(T)],
         NEW k \in Nat, NEW m \in Nat, k <= m, \A n \in 0..m : n # k => g[n] = h[n]
  PROVE  Splits(T, g, h, k, m)
  <1> DEFINE Before(p) == /\ Joined(g)[k] = p \o g[k] /\ Joined(h)[k] = p \o h[k]
                          /\ (\A n \in 0..(k - 1) : g[n] = <<>>) => p = <<>>
  <1>1. g[k] \in Seq(T) /\ h[k] \in Seq(T) /\ <<>> \in Seq(T)
    BY EmptySeq
  <1>2. \E p \in Seq(T) : Before(p)
    <2>1. CASE k = 0
      <3>1. Joined(g)[k] = g[k] /\ Joined(h)[k] = h[k]
        BY <2>1, JoinedIs
      <3>2. <<>> \o g[k] = g[k] /\ <<>> \o h[k] = h[k]
        BY <1>1, ConcatEmptySeq
      <3>3. Before(<<>>)
        BY <3>1, <3>2
      <3> HIDE DEF Before
      <3> QED BY <1>1, <3>3
    <2>2. CASE k # 0
      <3>1. PICK j \in Nat : k = j + 1
        <4>1. k - 1 \in Nat /\ k = k - 1 + 1
          BY <2>2
        <4> QED BY <4>1
      <3>2. j <= m /\ \A n \in 0..j : n \in 0..m /\ n # k
        BY <3>1
      <3>3. Joined(g)[j] = Joined(h)[j] /\ Joined(g)[j] \in Seq(T)
        <4>1. \A n \in 0..j : g[n] = h[n]
          BY <3>2
        <4> QED BY <4>1, JoinedSame, JoinedType
      <3>4. Joined(g)[k] = Joined(g)[j] \o g[k] /\ Joined(h)[k] = Joined(h)[j] \o h[k]
        BY <3>1, JoinedIs
      <3>5. ASSUME \A n \in 0..(k - 1) : g[n] = <<>> PROVE Joined(g)[j] = <<>>
        <4>1. g[0] = <<>> /\ \A n \in (0 + 1)..j : g[n] = <<>>
          BY <3>1, <3>5
        <4>2. Joined(g)[0] = <<>>
          BY <4>1, JoinedIs
        <4>3. 0 \in Nat /\ 0 <= j
          OBVIOUS
        <4>4. Joined(g)[j] = Joined(g)[0]
          BY <4>1, <4>3, JoinedTail, Zenon
        <4> QED BY <4>2, <4>4
      <3>6. Before(Joined(g)[j])
        BY <3>3, <3>4, <3>5, Zenon
      <3> HIDE DEF Before
      <3> QED BY <3>3, <3>6
    <2> QED BY <2>1, <2>2
  <1>3. PICK p \in Seq(T) : Before(p)
    BY <1>2
  <1> DEFINE Behind(n, q) == /\ Joined(g)[n] = p \o (g[k] \o q)
                             /\ Joined(h)[n] = p \o (h[k] \o q)
                             /\ (\A i \in (k + 1)..n : g[i] = <<>>) => q = <<>>
             X == {n \in Nat : k <= n /\ n <= m => \E q \in Seq(T) : Behind(n, q)}
  <1>4. ASSUME NEW n \in Nat, n = k PROVE \E q \in Seq(T) : Behind(n, q)
    <2>1. g[k] \o <<>> = g[k] /\ h[k] \o <<>> = h[k]
      BY <1>1, ConcatEmptySeq
    <2>2. Behind(n, <<>>)
      BY <1>3, <1>4, <2>1, Zenon
    <2> HIDE DEF Behind
    <2> QED BY <1>1, <2>2
  <1> HIDE DEF Behind
  <1>5. 0 \in X
    <2>1. k <= 0 => 0 = k
      OBVIOUS
    <2> QED BY <1>4, <2>1
  <1>6. ASSUME NEW n \in X PROVE n + 1 \in X
    <2> SUFFICES ASSUME k <= n + 1, n + 1 <= m PROVE \E q \in Seq(T) : Behind(n + 1, q)
      OBVIOUS
    <2>1. n \in Nat /\ n + 1 \in Nat
      OBVIOUS
    <2>2. CASE n + 1 = k
      BY <1>4, <2>1, <2>2
    <2>3. CASE n + 1 # k
      <3>1. k <= n /\ n <= m /\ n + 1 \in 0..m
        BY <2>1, <2>3
      <3>2. PICK q \in Seq(T) : Behind(n, q)
        BY <3>1
      <3> DEFINE e == g[n + 1]
                 r == q \o e
      <3>3. e \in Seq(T) /\ e = h[n + 1] /\ r \in Seq(T)
        BY <2>1, <2>3, <3>1, ConcatProperties
      <3>4. Joined(g)[n + 1] = Joined(g)[n] \o e /\ Joined(h)[n + 1] = Joined(h)[n] \o e
        BY <2>1, <3>3, JoinedIs, Zenon
      <3>5. ASSUME NEW u \in Seq(T) PROVE (p \o (u \o q)) \o e = p \o (u \o r)
        <4>1. e \in Seq(T)
          BY <3>3
        <4> HIDE DEF e
        <4>2. Cat(Cat(p, Cat(u, q)), e) = Cat(p, Cat(u, Cat(q, e)))
          BY <4>1, CatType, CatAssoc
        <4> QED BY <4>2 DEF Cat
      <3>6. ASSUME \A i \in (k + 1)..(n + 1) : g[i] = <<>> PROVE r = <<>>
        <4>1. e = <<>> /\ \A i \in (k + 1)..n : g[i] = <<>>
          <5>1. n + 1 \in (k + 1)..(n + 1) /\ \A i \in (k + 1)..n : i \in (k + 1)..(n + 1)
            BY <2>1, <3>1
          <5> QED BY <3>6, <5>1
        <4>2. q = <<>>
          BY <3>2, <4>1 DEF Behind
        <4> QED BY <4>1, <4>2, <1>1, ConcatEmptySeq
      <3> HIDE DEF e, r
      <3>7. Behind(n + 1, r)
        <4>1. Joined(g)[n + 1] = p \o (g[k] \o r) /\ Joined(h)[n + 1] = p \o (h[k] \o r)
          BY <1>1, <3>2, <3>4, <3>5, Zenon DEF Behind
        <4> QED BY <3>6, <4>1 DEF Behind
      <3> QED BY <3>3, <3>7
    <2> QED BY <2>2, <2>3
  <1> HIDE DEF X, Before
  <1>7. X = Nat
    <2>1. X \in SUBSET Nat
      BY DEF X
    <2> QED BY <1>5, <1>6, <2>1, NumberInduction
  <1>8. PICK q \in Seq(T) : Behind(m, q)
    <2>1. m \in X /\ k <= m /\ m <= m
      BY <1>7
    <2> QED BY <2>1 DEF X
  <1>9. /\ Joined(g)[m] = Cat(p, Cat(g[k], q))
        /\ Joined(h)[m] = Cat(p, Cat(h[k], q))
        /\ (\A n \in 0..(k - 1) : g[n] = <<>>) => p = <<>>
        /\ (\A n \in (k + 1)..m : g[n] = <<>>) => q = <<>>
    BY <1>3, <1>8, Zenon DEF Before, Behind, Cat
  <1> QED BY <1>9 DEF Splits

--------------------------------------------------------------------------------
(* What the files of a stream hold *)

Records == Samples \cup {Bad}

LEMMA SeqIn ==
  ASSUME NEW T, NEW q \in Seq(T), NEW S, Range(q) \subseteq S
  PROVE  q \in Seq(S)
  <1>1. Range(q) = {q[i] : i \in 1..Len(q)} /\ Len(q) \in Nat
    BY RangeIs, LenProperties
  <1>2. \A i \in 1..Len(q) : q[i] \in S
    BY <1>1
  <1> QED BY <1>1, <1>2

LEMMA OnlyIn ==
  ASSUME NEW T, NEW q \in Seq(T), NEW S
  PROVE  Only(q, S) \in Seq(S)
  <1>1. Only(q, S) \in Seq(T) /\ Range(Only(q, S)) \subseteq S
    BY OnlyType, OnlyRange
  <1> QED BY <1>1, SeqIn

LEMMA SegmentType ==
  ASSUME NEW f \in Segment
  PROVE  f.hdr \in BOOLEAN /\ f.recs \in Seq(Records) /\ f.torn \in BOOLEAN
  BY DEF Segment, Records

LEMMA ReadType ==
  ASSUME NEW f \in Segment
  PROVE  Read(f) \in Seq(Samples)
  <1>1. f.recs \in Seq(Records)
    BY SegmentType
  <1>2. Only(f.recs, Samples) \in Seq(Samples)
    BY <1>1, OnlyIn
  <1> QED BY <1>2 DEF Read

(* The files of one stream, by number. *)
FileSet(fs) == \A n \in DOMAIN fs : n \in Nat /\ fs[n] \in Segment
UpTo(fs, m) == \A n \in DOMAIN fs : n <= m
Shown(fs) == [n \in Nat |-> IF n \in DOMAIN fs THEN Read(fs[n]) ELSE <<>>]
Held(fs, n) == IF n \in DOMAIN fs THEN fs[n] ELSE EmptyFile
StoredIn(fs) ==
  LET read[n \in Nat] == IF n = 0 THEN Read(Held(fs, 0)) ELSE read[n - 1] \o Read(Held(fs, n))
  IN  read[Highest(IF DOMAIN fs = {} THEN {0} ELSE DOMAIN fs)]

LEMMA ReadableIs ==
  ASSUME NEW s
  PROVE  Readable(s) = StoredIn(disk[s]) /\ Readable(s)' = StoredIn(disk'[s])
  BY DEF Readable, StoredIn, FileAt, Held, Window

LEMMA ShownType ==
  ASSUME NEW fs, FileSet(fs)
  PROVE  Shown(fs) \in [Nat -> Seq(Samples)]
  <1>1. \A n \in Nat : (IF n \in DOMAIN fs THEN Read(fs[n]) ELSE <<>>) \in Seq(Samples)
    BY ReadType, EmptySeq DEF FileSet
  <1> QED BY <1>1 DEF Shown

LEMMA StoredIs ==
  ASSUME NEW fs, FileSet(fs), NEW m \in Nat, UpTo(fs, m)
  PROVE  StoredIn(fs) = Joined(Shown(fs))[m] /\ StoredIn(fs) \in Seq(Samples)
  <1> DEFINE J == Joined(Shown(fs))
             g == Shown(fs)
             Step(f, n) == IF n = 0 THEN Read(Held(fs, 0)) ELSE f[n - 1] \o Read(Held(fs, n))
             c == CHOOSE f : f = [n \in Nat |-> Step(f, n)]
             W == IF DOMAIN fs = {} THEN {0} ELSE DOMAIN fs
             k == Highest(W)
  <1>1. StoredIn(fs) = c[k]
    BY DEF StoredIn
  <1>2. g \in [Nat -> Seq(Samples)] /\ J \in [Nat -> Seq(Samples)]
    BY ShownType, JoinedType
  <1>3. \A n \in Nat : g[n] = Read(Held(fs, n))
    BY DEF Shown, Held, Read, EmptyFile
  <1>4. ASSUME NEW n \in Nat, NEW f, n # 0 => f[n - 1] = J[n - 1]
        PROVE  J[n] = Step(f, n)
    <2>1. CASE n = 0
      <3>1. J[0] = g[0]
        BY JoinedIs
      <3> QED BY <1>3, <2>1, <3>1
    <2>2. CASE n # 0
      <3>1. n - 1 \in Nat /\ n - 1 + 1 = n
        BY <2>2
      <3> HIDE DEF g, J
      <3>2. J[n] = J[n - 1] \o g[n]
        <4>1. J[n - 1 + 1] = J[n - 1] \o g[n - 1 + 1]
          BY <3>1, JoinedIs, Zenon DEF J, g
        <4> QED BY <3>1, <4>1, Zenon
      <3> QED BY <1>3, <1>4, <2>2, <3>2, Zenon
    <2> QED BY <2>1, <2>2
  <1>5. J = [n \in Nat |-> Step(J, n)]
    <2>1. ASSUME NEW n \in Nat PROVE J[n] = Step(J, n)
      <3> HIDE DEF J, Step
      <3> QED BY <1>4, Zenon
    <2> HIDE DEF Step, J
    <2> QED BY <1>2, <2>1
  <1>6. c = [n \in Nat |-> Step(c, n)]
    <2> HIDE DEF J, Step
    <2> QED BY <1>5, Zenon
  <1> HIDE DEF c, J, Step
  <1> DEFINE X == {n \in Nat : c[n] = J[n]}
  <1>7. 0 \in X
    <2>1. c[0] = Step(c, 0)
      BY <1>6
    <2>2. J[0] = Step(c, 0)
      BY <1>4, 0 \in Nat, Zenon
    <2> QED BY <2>1, <2>2
  <1>8. ASSUME NEW n \in X PROVE n + 1 \in X
    <2>1. n \in Nat /\ n + 1 \in Nat /\ n + 1 - 1 = n /\ c[n] = J[n]
      OBVIOUS
    <2> HIDE DEF X
    <2> DEFINE i == n + 1
    <2>2. i \in Nat /\ c[i - 1] = J[i - 1]
      BY <2>1
    <2> HIDE DEF i
    <2>3. c[i] = Step(c, i)
      BY <1>6, <2>2
    <2>4. J[i] = Step(c, i)
      BY <1>4, <2>2, Zenon
    <2> QED BY <2>2, <2>3, <2>4 DEF X, i
  <1> HIDE DEF X
  <1>9. X = Nat
    <2>1. X \in SUBSET Nat
      BY DEF X
    <2> QED BY <1>7, <1>8, <2>1, NumberInduction
  <1>10. W \in SUBSET Nat /\ W # {} /\ \A n \in W : n <= m
    <2>1. CASE DOMAIN fs = {}
      BY <2>1
    <2>2. CASE DOMAIN fs # {}
      <3>1. W = DOMAIN fs
        BY <2>2
      <3> HIDE DEF W
      <3> QED BY <2>2, <3>1 DEF FileSet, UpTo
    <2> QED BY <2>1, <2>2
  <1>11. k \in Nat /\ k <= m /\ \A n \in DOMAIN fs : n <= k
    <2> HIDE DEF W
    <2>1. Highest(W) \in W /\ \A j \in W : Highest(W) >= j
      BY <1>10, HighestIsGreatest
    <2>2. \A n \in DOMAIN fs : n \in W
      BY DEF W
    <2> QED BY <1>10, <2>1, <2>2
  <1>12. c[k] = J[k]
    BY <1>9, <1>11 DEF X
  <1>13. \A n \in (k + 1)..m : g[n] = <<>>
    BY <1>11 DEF Shown
  <1> HIDE DEF k, g
  <1>14. J[m] = J[k]
    BY <1>2, <1>11, <1>13, JoinedTail DEF J, g
  <1>15. J[k] \in Seq(Samples)
    BY <1>2, <1>11
  <1> QED BY <1>1, <1>12, <1>14, <1>15 DEF J, g

(* What is before and what is behind file k. *)
StoredSplits(fs, gs, k) ==
  \E p, q \in Seq(Samples) :
     /\ StoredIn(fs) = Cat(p, Cat(Read(Held(fs, k)), q))
     /\ StoredIn(gs) = Cat(p, Cat(Read(Held(gs, k)), q))
     /\ (\A n \in DOMAIN fs : k <= n) => p = <<>>
     /\ (\A n \in DOMAIN fs : n <= k) => q = <<>>
LEMMA StoredChange ==
  ASSUME NEW fs, NEW gs, FileSet(fs), FileSet(gs), NEW k \in Nat,
         NEW a \in Nat, UpTo(fs, a), NEW b \in Nat, UpTo(gs, b),
         \A n \in Nat : n # k => (n \in DOMAIN fs <=> n \in DOMAIN gs),
         \A n \in DOMAIN fs : n # k => gs[n] = fs[n]
  PROVE  StoredSplits(fs, gs, k)
  <1> DEFINE m == a + b + k
             g == Shown(fs)
             h == Shown(gs)
  <1>1. m \in Nat /\ k <= m /\ UpTo(fs, m) /\ UpTo(gs, m)
    BY DEF UpTo, FileSet
  <1>2. g \in [Nat -> Seq(Samples)] /\ h \in [Nat -> Seq(Samples)]
    BY ShownType
  <1>3. \A n \in 0..m : n # k => g[n] = h[n]
    BY <1>1 DEF Shown
  <1>4. StoredIn(fs) = Joined(g)[m] /\ StoredIn(gs) = Joined(h)[m]
    BY <1>1, StoredIs
  <1>5. g[k] = Read(Held(fs, k)) /\ h[k] = Read(Held(gs, k))
    BY DEF Shown, Held, Read, EmptyFile
  <1>6. ASSUME \A n \in DOMAIN fs : k <= n PROVE \A n \in 0..(k - 1) : g[n] = <<>>
    BY <1>6 DEF Shown
  <1>7. ASSUME \A n \in DOMAIN fs : n <= k PROVE \A n \in (k + 1)..m : g[n] = <<>>
    BY <1>1, <1>7 DEF Shown
  <1> HIDE DEF m, g, h
  <1>8. PICK p \in Seq(Samples), q \in Seq(Samples) :
            /\ Joined(g)[m] = Cat(p, Cat(g[k], q))
            /\ Joined(h)[m] = Cat(p, Cat(h[k], q))
            /\ (\A n \in 0..(k - 1) : g[n] = <<>>) => p = <<>>
            /\ (\A n \in (k + 1)..m : g[n] = <<>>) => q = <<>>
    <2>1. Splits(Samples, g, h, k, m)
      BY <1>1, <1>2, <1>3, SplitAt
    <2> QED BY <2>1 DEF Splits
  <1>9. /\ StoredIn(fs) = Cat(p, Cat(Read(Held(fs, k)), q))
        /\ StoredIn(gs) = Cat(p, Cat(Read(Held(gs, k)), q))
    BY <1>4, <1>5, <1>8, Zenon
  <1>10. /\ (\A n \in DOMAIN fs : k <= n) => p = <<>>
         /\ (\A n \in DOMAIN fs : n <= k) => q = <<>>
    BY <1>6, <1>7, <1>8, Zenon
  <1> QED BY <1>9, <1>10 DEF StoredSplits

LEMMA FilesOf ==
  ASSUME NEW d, FilesOK(d), NEW s \in Streams
  PROVE  /\ FileSet(d[s]) /\ \E m \in Nat : UpTo(d[s], m)
         /\ StoredIn(d[s]) \in Seq(Samples)
  <1>1. FileSet(d[s]) /\ \E m \in Nat : UpTo(d[s], m)
    BY DEF FilesOK, FileSet, UpTo
  <1> QED BY <1>1, StoredIs

(* File k of stream s is written, or created. *)
Written(d, s, k, f) ==
  /\ FilesOK(d) /\ \A u \in Streams : u # s => d[u] = disk[u]
  /\ DOMAIN d[s] = DOMAIN disk[s] \cup {k} /\ d[s][k] = f
  /\ \A n \in DOMAIN disk[s] : n # k => d[s][n] = disk[s][n]
WrittenSplits(d, s, k, f) ==
  \E p, q \in Seq(Samples) :
     /\ StoredIn(disk[s]) = Cat(p, Cat(Read(FileAt(s, k)), q))
     /\ StoredIn(d[s]) = Cat(p, Cat(Read(f), q))
     /\ (\A n \in DOMAIN disk[s] : k <= n) => p = <<>>
     /\ (\A n \in DOMAIN disk[s] : n <= k) => q = <<>>
LEMMA PutStored ==
  ASSUME FilesOK(disk), NEW s \in Streams, NEW k \in Nat, NEW f \in Segment, NEW d,
         d = Put(s, k, f)
  PROVE  Written(d, s, k, f) /\ WrittenSplits(d, s, k, f)
  <1>1. DOMAIN disk = Streams
    BY DEF FilesOK
  <1>2. /\ \A u \in Streams : u # s => d[u] = disk[u]
        /\ d[s] = [i \in DOMAIN disk[s] \cup {k} |-> IF i = k THEN f ELSE disk[s][i]]
    BY <1>1 DEF Put
  <1>3. /\ DOMAIN d[s] = DOMAIN disk[s] \cup {k} /\ d[s][k] = f
        /\ \A n \in DOMAIN disk[s] : n # k => d[s][n] = disk[s][n]
    BY <1>2
  <1>4. FilesOK(d)
    BY PutFiles
  <1>5. PICK a \in Nat : UpTo(disk[s], a)
    BY FilesOf
  <1>6. PICK b \in Nat : UpTo(d[s], b)
    BY <1>4, FilesOf
  <1>7. FileSet(disk[s]) /\ FileSet(d[s])
    BY <1>4, FilesOf
  <1>8. Held(disk[s], k) = FileAt(s, k) /\ Held(d[s], k) = f
    BY <1>3 DEF Held, FileAt
  <1>9. PICK p \in Seq(Samples), q \in Seq(Samples) :
            /\ StoredIn(disk[s]) = Cat(p, Cat(Read(Held(disk[s], k)), q))
            /\ StoredIn(d[s]) = Cat(p, Cat(Read(Held(d[s], k)), q))
            /\ (\A n \in DOMAIN disk[s] : k <= n) => p = <<>>
            /\ (\A n \in DOMAIN disk[s] : n <= k) => q = <<>>
    <2> DEFINE fs == disk[s]
               gs == d[s]
    <2>1. /\ \A n \in Nat : n # k => (n \in DOMAIN fs <=> n \in DOMAIN gs)
          /\ \A n \in DOMAIN fs : n # k => gs[n] = fs[n]
      BY <1>3
    <2> HIDE DEF fs, gs
    <2>2. FileSet(fs) /\ FileSet(gs) /\ UpTo(fs, a) /\ UpTo(gs, b)
      BY <1>5, <1>6, <1>7 DEF fs, gs
    <2>3. StoredSplits(fs, gs, k)
      BY <2>1, <2>2, StoredChange
    <2> QED BY <2>3 DEF StoredSplits, fs, gs
  <1>10. /\ StoredIn(disk[s]) = Cat(p, Cat(Read(FileAt(s, k)), q))
         /\ StoredIn(d[s]) = Cat(p, Cat(Read(f), q))
    BY <1>8, <1>9, Zenon
  <1>11. WrittenSplits(d, s, k, f)
    BY <1>9, <1>10 DEF WrittenSplits
  <1> QED BY <1>2, <1>3, <1>4, <1>11 DEF Written

--------------------------------------------------------------------------------
(* What the slots hold of a stream *)

OpenIn(sl, s) == {i \in Slots : sl[i].used /\ sl[i].name = s}
FindIn(sl, s) == IF OpenIn(sl, s) = {} THEN 0 ELSE Lowest(OpenIn(sl, s))
RamIn(sl, s) == IF FindIn(sl, s) = 0 THEN <<>> ELSE sl[FindIn(sl, s)].buf

LEMMA InRamIs ==
  ASSUME NEW s
  PROVE  /\ InRam(s) = RamIn(slots, s) /\ InRam(s)' = RamIn(slots', s)
         /\ Open(s) = OpenIn(slots, s) /\ Open(s)' = OpenIn(slots', s)
  BY DEF InRam, RamIn, FindIn, OpenIn, slot_find, Open

LEMMA RamInIs ==
  ASSUME NEW sl, NEW s
  PROVE  /\ OpenIn(sl, s) = {} => RamIn(sl, s) = <<>>
         /\ \A i \in Slots : OpenIn(sl, s) = {i} => RamIn(sl, s) = sl[i].buf
  <1>1. Slots \in SUBSET Nat /\ \A i \in Slots : i # 0
    BY SlotsFinite DEF Slots
  <1>2. ASSUME NEW i \in Slots, OpenIn(sl, s) = {i} PROVE FindIn(sl, s) = i
    <2>1. OpenIn(sl, s) \in SUBSET Nat /\ OpenIn(sl, s) # {}
      BY <1>1, <1>2
    <2>2. Lowest(OpenIn(sl, s)) \in OpenIn(sl, s)
      BY <2>1, LowestIsLeast
    <2> QED BY <1>2, <2>1, <2>2 DEF FindIn
  <1> QED BY <1>1, <1>2 DEF RamIn, FindIn

LEMMA RamSame ==
  ASSUME NEW sl, NEW su, NEW s,
         \A i \in Slots : su[i].used = sl[i].used /\ su[i].name = sl[i].name /\ su[i].buf = sl[i].buf
  PROVE  OpenIn(su, s) = OpenIn(sl, s) /\ RamIn(su, s) = RamIn(sl, s)
  <1>1. OpenIn(su, s) = OpenIn(sl, s)
    BY DEF OpenIn
  <1>2. FindIn(su, s) = FindIn(sl, s)
    BY <1>1 DEF FindIn
  <1>3. FindIn(sl, s) = 0 \/ FindIn(sl, s) \in Slots
    <2>1. OpenIn(sl, s) \in SUBSET Slots /\ Slots \in SUBSET Nat
      BY SlotsFinite DEF OpenIn
    <2>2. OpenIn(sl, s) # {} => Lowest(OpenIn(sl, s)) \in OpenIn(sl, s)
      BY <2>1, LowestIsLeast
    <2> QED BY <2>1, <2>2 DEF FindIn
  <1> QED BY <1>1, <1>2, <1>3 DEF RamIn

--------------------------------------------------------------------------------
(* The inductive invariant of the log *)

(* Samples are appended in the order they are made, each to one stream, and     *)
(* only samples that were made are lost.                                        *)
HistInv ==
  /\ gone \subseteq 1..made
  /\ \A s \in Streams : Range(log[s]) \subseteq 1..made /\ Increasing(log[s])
  /\ \A s, u \in Streams : s # u => Range(log[s]) \cap Range(log[u]) = {}

(* A slot that scanned the files of its stream knows the newest one, which ends *)
(* in a whole and sound record, and none older than its oldest.                 *)
Covers(sl, fs) ==
  /\ sl.cur \in DOMAIN fs
  /\ \A n \in DOMAIN fs : sl.oldest <= n /\ n <= sl.cur
  /\ ~fs[sl.cur].torn /\ Bad \notin Range(fs[sl.cur].recs)
FileInv ==
  \A i \in Slots : slots[i].used /\ slots[i].scanned => Covers(slots[i], disk[slots[i].name])

KeptInv == \A s \in Streams : Cat(Readable(s), InRam(s)) = Only(log[s], Samples \ gone)

LogInv == HistInv /\ FileInv /\ KeptInv

(* Writes succeed, and headers do. *)
LogAssumptions == TsAssumptions /\ Faults \cap {"write", "header"} = {}

LEMMA SamplesNat == Samples \in SUBSET Nat /\ Bad \notin Samples /\ MaxSamples \in Nat
  BY TsConstants DEF Samples

LEMMA LogType ==
  ASSUME TsInv, NEW s \in Streams
  PROVE  /\ log[s] \in Seq(Samples) /\ log[s] \in Seq(Nat)
         /\ gone \subseteq Samples /\ made \in Nat
  <1>1. log[s] \in Seq(Samples) /\ gone \subseteq Samples /\ made \in Nat
    BY SamplesNat DEF TsInv, StoreInv, TypeOK
  <1>2. Range(log[s]) \subseteq Nat
    BY <1>1, RangeIs, SamplesNat
  <1> QED BY <1>1, <1>2, SeqIn

LEMMA Disjoint ==
  ASSUME NEW a \in Seq(Samples), NEW b \in Seq(Samples), Increasing(Cat(a, b))
  PROVE  Range(a) \cap Range(b) = {} /\ Increasing(a) /\ Increasing(b)
  <1>1. /\ a \in Seq(Nat) /\ b \in Seq(Nat)
        /\ Range(a) \in SUBSET Nat /\ Range(b) \in SUBSET Nat
    <2>1. Range(a) \subseteq Samples /\ Range(b) \subseteq Samples
      BY RangeIs
    <2> QED BY <2>1, SamplesNat, SeqIn
  <1>2. \A x \in Range(a), y \in Range(b) : x < y
    BY <1>1, CatIncreasing
  <1>3. \A x \in Range(a) : x \notin Range(b)
    <2> SUFFICES ASSUME NEW x \in Range(a), x \in Range(b) PROVE FALSE
      OBVIOUS
    <2>1. x \in Nat /\ x < x
      BY <1>1, <1>2
    <2> QED BY <2>1
  <1> QED BY <1>1, <1>3, CatIncreasing

(* The samples Z, out of the middle part b of what is kept of s, are lost. *)
Lost(s, a, b, c, Z) ==
  /\ Only(log[s], Samples \ (gone \cup Z)) = Cat(a, Cat(Only(b, Samples \ Z), c))
  /\ \A u \in Streams : u # s =>
       Only(log[u], Samples \ (gone \cup Z)) = Only(log[u], Samples \ gone)
  /\ gone \cup Z \subseteq 1..made

LEMMA Loses ==
  ASSUME TsInv, HistInv, NEW s \in Streams,
         NEW a \in Seq(Samples), NEW b \in Seq(Samples), NEW c \in Seq(Samples),
         Only(log[s], Samples \ gone) = Cat(a, Cat(b, c)),
         NEW Z, Z \subseteq Range(b)
  PROVE  Lost(s, a, b, c, Z)
  <1> DEFINE A == Samples \ gone
             B == Samples \ Z
             G == Samples \ (gone \cup Z)
             K == Only(log[s], A)
             e == Cat(b, c)
  <1>1. log[s] \in Seq(Samples) /\ log[s] \in Seq(Nat) /\ gone \subseteq Samples
    BY LogType
  <1>2. A \cap B = G
    OBVIOUS
  <1> HIDE DEF A, B, G
  <1>3. Only(K, B) = Only(log[s], G)
    BY <1>1, <1>2, OnlyOnly
  <1>4. K \in Seq(Samples) /\ Range(K) = Range(log[s]) \cap A /\ Increasing(K)
    BY <1>1, OnlyType, OnlyRange, OnlyIncreasing DEF HistInv
  <1>5. K = Cat(a, e) /\ e \in Seq(Samples)
    BY CatType DEF A
  <1> HIDE DEF K
  <1>6. Range(a) \cap Range(e) = {} /\ Increasing(e)
    BY <1>4, <1>5, Disjoint
  <1>7. Range(b) \cap Range(c) = {}
    BY <1>6, Disjoint
  <1>8. Range(e) = Range(b) \cup Range(c) /\ Range(K) = Range(a) \cup Range(e)
    BY <1>5, CatRange
  <1>9. Range(a) \subseteq B /\ Range(c) \subseteq B
    <2>1. Range(a) \subseteq Samples /\ Range(c) \subseteq Samples
      BY RangeIs
    <2> QED BY <1>6, <1>7, <1>8, <2>1 DEF B
  <1>10. Only(a, B) = a /\ Only(c, B) = c
    BY <1>9, OnlyAll
  <1>11. Only(K, B) = Cat(Only(a, B), Only(e, B)) /\ Only(e, B) = Cat(Only(b, B), Only(c, B))
    <2>1. Only(e, B) = Cat(Only(b, B), Only(c, B))
      BY CatOnly
    <2> HIDE DEF e
    <2> QED BY <1>5, <2>1, CatOnly
  <1>12. Only(log[s], G) = Cat(a, Cat(Only(b, B), c))
    BY <1>3, <1>10, <1>11, Zenon
  <1>13. Z \subseteq Range(log[s])
    BY <1>4, <1>8
  <1>14. ASSUME NEW u \in Streams, u # s PROVE Only(log[u], G) = Only(log[u], A)
    <2>1. Range(log[u]) \cap Z = {} /\ log[u] \in Seq(Samples)
      BY <1>13, <1>14, LogType DEF HistInv
    <2>2. Range(log[u]) \cap G = Range(log[u]) \cap A
      BY <2>1 DEF A, G
    <2> QED BY <2>1, <2>2, OnlySame
  <1>15. gone \cup Z \subseteq 1..made
    BY <1>13 DEF HistInv
  <1> QED BY <1>12, <1>14, <1>15 DEF A, B, G, Lost

--------------------------------------------------------------------------------
(* Steps that touch no sample *)

Alike(sl, su) ==
  \A i \in Slots :
     /\ su[i].used = sl[i].used /\ su[i].name = sl[i].name /\ su[i].buf = sl[i].buf
     /\ su[i].scanned = sl[i].scanned /\ su[i].cur = sl[i].cur /\ su[i].oldest = sl[i].oldest
Untouched == UNCHANGED <<disk, log, gone, made>> /\ Alike(slots, slots')
Unseen ==
  \A s \in Streams : Readable(s)' = Readable(s) /\ InRam(s)' = InRam(s) /\ Open(s)' = Open(s)

LEMMA UntouchedView ==
  ASSUME Untouched
  PROVE  Unseen
  <1> SUFFICES ASSUME NEW s \in Streams
               PROVE  Readable(s)' = Readable(s) /\ InRam(s)' = InRam(s) /\ Open(s)' = Open(s)
    BY DEF Unseen
  <1>1. StoredIn(disk'[s]) = StoredIn(disk[s])
    BY DEF Untouched
  <1>2. OpenIn(slots', s) = OpenIn(slots, s) /\ RamIn(slots', s) = RamIn(slots, s)
    BY RamSame DEF Untouched, Alike
  <1> QED BY <1>1, <1>2, ReadableIs, InRamIs

LEMMA HistSame ==
  ASSUME HistInv, UNCHANGED <<log, made>>, gone' \subseteq 1..made
  PROVE  HistInv'
  BY DEF HistInv, Increasing

LEMMA UntouchedStep ==
  ASSUME LogInv, Untouched
  PROVE  LogInv'
  <1>1. HistInv'
    BY HistSame DEF LogInv, HistInv, Untouched
  <1>2. FileInv'
    BY DEF LogInv, FileInv, Covers, Untouched, Alike
  <1>3. KeptInv'
    <2>1. \A s \in Streams : Only(log[s], Samples \ gone)' = Only(log[s], Samples \ gone)
      BY DEF Untouched
    <2> QED BY <2>1, UntouchedView DEF LogInv, KeptInv, Unseen
  <1> QED BY <1>1, <1>2, <1>3 DEF LogInv

LEMMA SlotFields ==
  ASSUME TsInv, NEW i \in Slots
  PROVE  slots[i] \in Slot
  BY DEF TsInv, StoreInv, TypeOK

LEMMA UnlockAlike ==
  ASSUME NEW sl, \A i \in Slots : sl[i] \in Slot, Alike(slots, sl),
         NEW rl, NEW n, Unlock(sl, rl, n)
  PROVE  Alike(slots, slots')
  <1> SUFFICES ASSUME NEW i \in Slots
               PROVE  /\ slots'[i].used = sl[i].used /\ slots'[i].name = sl[i].name
                      /\ slots'[i].buf = sl[i].buf /\ slots'[i].scanned = sl[i].scanned
                      /\ slots'[i].cur = sl[i].cur /\ slots'[i].oldest = sl[i].oldest
    BY DEF Alike
  <1>1. slots'[i] = [sl[i] EXCEPT !.pend = 0] /\ sl[i] \in Slot
    BY DEF Unlock
  <1> QED BY <1>1 DEF Slot

LEMMA CallsTouchNothing ==
  ASSUME NEW t, \/ CallOpen(t) \/ CallAppend(t) \/ CallClose(t) \/ CallFlushAsync(t)
                \/ CallFlushSync(t) \/ AppendLock(t) \/ BatchFull(t)
  PROVE  UNCHANGED <<disk, slots, log, gone, made, boots, fails>>
  BY DEF CallOpen, CallAppend, CallClose, CallFlushAsync, CallFlushSync, AppendLock, BatchFull,
         sampleVars, sysVars

LEMMA FlushCallsTouchNothing ==
  ASSUME NEW t, \/ FlushAsync(t) \/ FlushNotQueued(t) \/ SyncCheck(t) \/ SyncTake(t)
                \/ SyncTimeout(t) \/ SyncWoken(t) \/ SyncReturn(t)
  PROVE  /\ UNCHANGED <<disk, slots, log, gone, made, boots>>
         /\ "submit" \notin Faults => fails' = fails
  BY DEF FlushAsync, FlushNotQueued, SyncCheck, SyncTake, SyncTimeout, SyncWoken, SyncReturn,
         sampleVars, sysVars, Fault

LEMMA WorkerTouchesNothing ==
  ASSUME WorkerStart \/ WorkerLock \/ DrainNext
  PROVE  UNCHANGED <<disk, slots, log, gone, made, boots, fails>>
  BY DEF WorkerStart, WorkerLock, DrainNext, sampleVars, sysVars

LEMMA SameUntouched ==
  ASSUME UNCHANGED <<disk, slots, log, gone, made>>
  PROVE  Untouched
  BY DEF Untouched, Alike

LEMMA AppendFailsUntouched ==
  ASSUME TsInv, NEW t, AppendFails(t)
  PROVE  Untouched /\ UNCHANGED <<boots, fails>>
  <1>1. Unlock(slots, released, 0) /\ UNCHANGED <<disk, log, gone, made, boots, fails>>
    BY DEF AppendFails, sampleVars, sysVars
  <1>2. Alike(slots, slots)
    BY DEF Alike
  <1> QED BY <1>1, <1>2, SlotFields, UnlockAlike DEF Untouched

LEMMA WorkerEndUntouched ==
  ASSUME TsInv, WorkerEnd
  PROVE  Untouched /\ UNCHANGED <<boots, fails>>
  <1>1. Unlock(slots, released, drain.sum) /\ UNCHANGED <<disk, log, gone, made, boots, fails>>
    BY DEF WorkerEnd, sampleVars, sysVars
  <1>2. Alike(slots, slots)
    BY DEF Alike
  <1> QED BY <1>1, <1>2, SlotFields, UnlockAlike DEF Untouched

LEMMA OneFieldAlike ==
  ASSUME TsInv, NEW i \in Slots, NEW n, NEW sl,
         \/ sl = [slots EXCEPT ![i].pend = n] \/ sl = [slots EXCEPT ![i].count = n]
  PROVE  Alike(slots, sl)
  <1>1. slots \in [Slots -> Slot]
    BY DEF TsInv, StoreInv, TypeOK
  <1> SUFFICES ASSUME NEW j \in Slots
               PROVE  /\ sl[j].used = slots[j].used /\ sl[j].name = slots[j].name
                      /\ sl[j].buf = slots[j].buf /\ sl[j].scanned = slots[j].scanned
                      /\ sl[j].cur = slots[j].cur /\ sl[j].oldest = slots[j].oldest
    BY DEF Alike
  <1>2. CASE j # i
    BY <1>1, <1>2
  <1>3. CASE j = i
    <2>1. \/ sl[i] = [slots[i] EXCEPT !.pend = n] \/ sl[i] = [slots[i] EXCEPT !.count = n]
      BY <1>1
    <2> QED BY <1>1, <1>3, <2>1 DEF Slot
  <1> QED BY <1>2, <1>3

LEMMA DrainDoneUntouched ==
  ASSUME TsInv, DrainDone
  PROVE  Untouched /\ UNCHANGED <<boots, fails>>
  <1>1. UNCHANGED <<disk, log, gone, made, boots, fails>>
    BY DEF DrainDone, sampleVars, sysVars
  <1>2. at[Worker] \in Slots
    BY ActorsAre DEF DrainDone, TsInv, StoreInv, PlaceInv, FlushPlaces
  <1>3. slots' = slots \/ slots' = [slots EXCEPT ![at[Worker]].pend = 0]
    BY DEF DrainDone
  <1>4. Alike(slots, slots')
    <2>1. CASE slots' = slots
      BY <2>1 DEF Alike
    <2>2. CASE slots' = [slots EXCEPT ![at[Worker]].pend = 0]
      BY <1>2, <2>2, OneFieldAlike
    <2> QED BY <1>3, <2>1, <2>2
  <1> QED BY <1>1, <1>4 DEF Untouched

LEMMA OpenJoinUntouched ==
  ASSUME TsInv, NEW t \in Threads, OpenJoin(t)
  PROVE  Untouched /\ UNCHANGED <<boots, fails>>
  <1>1. UNCHANGED <<disk, log, gone, made, boots, fails>>
    BY DEF OpenJoin, sampleVars, sysVars
  <1>2. at[t] \in Slots
    BY DEF OpenJoin, TsInv, StoreInv, PlaceInv, Open
  <1>3. slots' = slots \/ slots' = [slots EXCEPT ![at[t]].count = @ + 1]
    BY DEF OpenJoin
  <1>4. Alike(slots, slots')
    <2>1. CASE slots' = slots
      BY <2>1 DEF Alike
    <2>2. CASE slots' = [slots EXCEPT ![at[t]].count = @ + 1]
      <3>1. slots' = [slots EXCEPT ![at[t]].count = slots[at[t]].count + 1]
        BY <2>2
      <3> QED BY <1>2, <3>1, OneFieldAlike
    <2> QED BY <1>3, <2>1, <2>2
  <1> QED BY <1>1, <1>4 DEF Untouched

--------------------------------------------------------------------------------
(* Samples enter: zdb_ts_append_i64() *)

LEMMA RamChange ==
  ASSUME NEW sl, NEW su, NEW i \in Slots, NEW s, OpenIn(sl, s) = {i},
         \A j \in Slots : su[j].used = sl[j].used /\ su[j].name = sl[j].name,
         \A j \in Slots : j # i => su[j].buf = sl[j].buf
  PROVE  /\ \A u : OpenIn(su, u) = OpenIn(sl, u)
         /\ RamIn(sl, s) = sl[i].buf /\ RamIn(su, s) = su[i].buf
         /\ \A u : u # s => RamIn(su, u) = RamIn(sl, u)
  <1>1. \A u : OpenIn(su, u) = OpenIn(sl, u)
    BY DEF OpenIn
  <1>2. RamIn(sl, s) = sl[i].buf /\ RamIn(su, s) = su[i].buf
    BY <1>1, RamInIs
  <1>3. ASSUME NEW u, u # s PROVE RamIn(su, u) = RamIn(sl, u)
    <2>1. FindIn(su, u) = FindIn(sl, u)
      BY <1>1 DEF FindIn
    <2>2. FindIn(sl, u) = 0 \/ FindIn(sl, u) \in OpenIn(sl, u)
      <3>1. OpenIn(sl, u) \in SUBSET Nat
        BY SlotsFinite DEF OpenIn
      <3> QED BY <3>1, LowestIsLeast DEF FindIn
    <2>3. \A j \in OpenIn(sl, u) : j \in Slots /\ j # i
      BY <1>3 DEF OpenIn
    <2> QED BY <2>1, <2>2, <2>3 DEF RamIn
  <1> QED BY <1>1, <1>2, <1>3

(* The slot of a stream, and what it has in RAM. *)
LEMMA SlotOf ==
  ASSUME TsInv, NEW i \in Slots, slots[i].used
  PROVE  /\ slots[i].name \in Streams
         /\ OpenIn(slots, slots[i].name) = {i} /\ Open(slots[i].name) = {i}
         /\ InRam(slots[i].name) = slots[i].buf
  <1> DEFINE s == slots[i].name
  <1>1. s \in Streams
    BY DEF TsInv, StoreInv, SlotInv
  <1>2. i \in Open(s)
    BY DEF Open
  <1>3. Open(s) = {i}
    BY <1>2, OpenOne DEF TsInv, StoreInv
  <1> HIDE DEF s
  <1>4. OpenIn(slots, s) = {i}
    BY <1>3, InRamIs
  <1>5. InRam(s) = slots[i].buf
    BY <1>4, RamInIs, InRamIs
  <1> QED BY <1>1, <1>3, <1>4, <1>5 DEF s

LEMMA RamType ==
  ASSUME TsInv, NEW s \in Streams
  PROVE  InRam(s) \in Seq(Samples) /\ Readable(s) \in Seq(Samples) /\ Len(InRam(s)) <= Capacity
  <1>1. Readable(s) \in Seq(Samples)
    BY FilesNow, FilesOf, ReadableIs DEF TsInv
  <1>2. CASE Open(s) = {}
    <2>1. InRam(s) = <<>>
      BY <1>2, InRamIs, RamInIs
    <2> QED BY <1>1, <2>1, TsConstants
  <1>3. CASE Open(s) # {}
    <2>1. PICK i \in Slots : slots[i].used /\ slots[i].name = s
      BY <1>3 DEF Open
    <2>2. InRam(s) = slots[i].buf
      BY <2>1, SlotOf
    <2>3. slots[i].buf \in Seq(Samples) /\ Len(slots[i].buf) <= Capacity
      BY DEF TsInv, StoreInv, TypeOK, Slot
    <2> QED BY <1>1, <2>2, <2>3
  <1> QED BY <1>2, <1>3

(* Slot i changes in its buffer, and in what the listeners are owed. *)
BufBecomes(i, b) ==
  /\ slots'[i].buf = b
  /\ \A j \in Slots : j # i => slots'[j].buf = slots[j].buf
  /\ \A j \in Slots : /\ slots'[j].used = slots[j].used /\ slots'[j].name = slots[j].name
                      /\ slots'[j].scanned = slots[j].scanned
                      /\ slots'[j].cur = slots[j].cur /\ slots'[j].oldest = slots[j].oldest

LEMMA BufView ==
  ASSUME TsInv, NEW i \in Slots, slots[i].used, NEW b, BufBecomes(i, b), NEW s, s = slots[i].name
  PROVE  /\ \A u : Open(u)' = Open(u)
         /\ InRam(s)' = b
         /\ \A u : u # s => InRam(u)' = InRam(u)
  <1>1. OpenIn(slots, s) = {i}
    BY SlotOf
  <1>2. /\ \A u : OpenIn(slots', u) = OpenIn(slots, u)
        /\ RamIn(slots', s) = slots'[i].buf
        /\ \A u : u # s => RamIn(slots', u) = RamIn(slots, u)
    BY <1>1, RamChange DEF BufBecomes
  <1>3. slots'[i].buf = b
    BY DEF BufBecomes
  <1>4. \A u : Open(u)' = Open(u)
    BY <1>2, InRamIs
  <1>5. InRam(s)' = b
    BY <1>2, <1>3, InRamIs
  <1>6. \A u : u # s => InRam(u)' = InRam(u)
    BY <1>2, InRamIs
  <1> QED BY <1>4, <1>5, <1>6

SameFiles ==
  \A i \in Slots : /\ slots'[i].used = slots[i].used /\ slots'[i].name = slots[i].name
                   /\ slots'[i].scanned = slots[i].scanned
                   /\ slots'[i].cur = slots[i].cur /\ slots'[i].oldest = slots[i].oldest

LEMMA AppendView ==
  ASSUME TsInv, TsInv', NEW t \in Threads, AppendBuffer(t),
         NEW s, s = hd[t], NEW x, x = made + 1
  PROVE  /\ s \in Streams /\ x \in Samples /\ made' = x /\ Open(s) # {}
         /\ Len(InRam(s)) < Capacity
         /\ InRam(s)' = Append(InRam(s), x)
         /\ \A u \in Streams : u # s => InRam(u)' = InRam(u)
         /\ \A u \in Streams : Readable(u)' = Readable(u) /\ Open(u)' = Open(u)
         /\ log' = [log EXCEPT ![s] = Append(log[s], x)]
         /\ UNCHANGED <<disk, gone, boots, fails>> /\ SameFiles
  <1>0. PICK i, b : i = at[t] /\ b = Append(slots[i].buf, x)
    OBVIOUS
  <1>1. /\ pc[t] = "flushed" /\ todo[t] > 0 /\ made' = x
        /\ log' = [log EXCEPT ![s] = Append(log[s], x)]
        /\ UNCHANGED <<disk, gone, boots, fails>>
    BY DEF AppendBuffer
  <1>2. /\ i \in Slots /\ slots[i] \in Slot /\ slots[i].used /\ slots[i].name = s
        /\ s \in Streams /\ slots \in [Slots -> Slot]
    <2>1. i \in Open(s)
      BY <1>0, <1>1 DEF TsInv, StoreInv, PlaceInv, FlushPlaces
    <2> QED BY <2>1 DEF Open, TsInv, StoreInv, TypeOK, SlotInv
  <1>3. made \in Nat /\ x \in Samples
    <2>1. made \in Nat /\ made' \in 0..MaxSamples
      BY SamplesNat DEF TsInv, StoreInv, TypeOK
    <2> QED BY <1>1, <2>1, SamplesNat DEF Samples
  <1> DEFINE y == [slots[i] EXCEPT !.buf = b]
             sl == [slots EXCEPT ![i] = y]
             z == [slots EXCEPT ![at[t]].buf = Append(@, made + 1)]
  <1>4. z = sl
    BY <1>0
  <1>5. slots' = sl \/ slots' = [j \in Slots |-> [sl[j] EXCEPT !.pend = 0]]
    <2>1. slots' = z \/ slots' = [j \in Slots |-> [z[j] EXCEPT !.pend = 0]]
      BY DEF AppendBuffer, Unlock
    <2> HIDE DEF z, sl
    <2> QED BY <1>4, <2>1, Zenon
  <1>6. BufBecomes(i, b)
    <2>1. slots[i].buf \in Seq(Samples) /\ b \in Seq(Samples)
      BY <1>0, <1>2, <1>3 DEF Slot
    <2>2. /\ y \in Slot /\ y.buf = b
          /\ y.used = slots[i].used /\ y.name = slots[i].name /\ y.scanned = slots[i].scanned
          /\ y.cur = slots[i].cur /\ y.oldest = slots[i].oldest
      BY <1>2, <2>1 DEF Slot
    <2> HIDE DEF y
    <2>3. sl[i] = y /\ \A j \in Slots : j # i => sl[j] = slots[j]
      BY <1>2
    <2> HIDE DEF sl
    <2>4. \A j \in Slots : sl[j] \in Slot
      BY <1>2, <2>2, <2>3
    <2>5. \A j \in Slots : /\ slots'[j].buf = sl[j].buf
                           /\ slots'[j].used = sl[j].used /\ slots'[j].name = sl[j].name
                           /\ slots'[j].scanned = sl[j].scanned
                           /\ slots'[j].cur = sl[j].cur /\ slots'[j].oldest = sl[j].oldest
      <3>1. CASE slots' = sl
        BY <3>1
      <3>2. CASE slots' = [j \in Slots |-> [sl[j] EXCEPT !.pend = 0]]
        BY <2>4, <3>2 DEF Slot
      <3> QED BY <1>5, <3>1, <3>2
    <2>6. slots'[i].buf = b
      BY <1>2, <2>2, <2>3, <2>5
    <2>7. \A j \in Slots : j # i => slots'[j].buf = slots[j].buf
      BY <2>3, <2>5
    <2>8. \A j \in Slots : /\ sl[j].used = slots[j].used /\ sl[j].name = slots[j].name
                           /\ sl[j].scanned = slots[j].scanned
                           /\ sl[j].cur = slots[j].cur /\ sl[j].oldest = slots[j].oldest
      BY <2>2, <2>3
    <2> QED BY <2>5, <2>6, <2>7, <2>8 DEF BufBecomes
  <1> HIDE DEF y, sl
  <1>7. /\ \A u : Open(u)' = Open(u)
        /\ InRam(s)' = b
        /\ \A u : u # s => InRam(u)' = InRam(u)
    BY <1>2, <1>6, BufView
  <1>8. InRam(s) = slots[i].buf /\ Open(s) # {}
    BY <1>2, SlotOf
  <1>9. Len(slots[i].buf) < Capacity
    BY <1>0, <1>1 DEF TsInv, StoreInv, PlaceInv
  <1>10. \A u \in Streams : Readable(u)' = Readable(u)
    BY <1>1, ReadableIs
  <1>11. SameFiles
    BY <1>6 DEF BufBecomes, SameFiles
  <1>12. InRam(s)' = Append(InRam(s), x)
    BY <1>0, <1>7, <1>8, Zenon
  <1> QED BY <1>1, <1>2, <1>3, <1>7, <1>8, <1>9, <1>10, <1>11, <1>12

LEMMA AppendKept ==
  ASSUME TsInv, TsInv', LogInv, NEW t \in Threads, AppendBuffer(t)
  PROVE  LogInv'
  <1>0. PICK s, x : s = hd[t] /\ x = made + 1
    OBVIOUS
  <1>1. /\ s \in Streams /\ x \in Samples /\ x \in Nat /\ made \in Nat /\ made' = x
        /\ InRam(s)' = Append(InRam(s), x)
        /\ \A u \in Streams : u # s => InRam(u)' = InRam(u)
        /\ \A u \in Streams : Readable(u)' = Readable(u)
        /\ log' = [log EXCEPT ![s] = Append(log[s], x)] /\ UNCHANGED <<disk, gone>> /\ SameFiles
    <2>1. made \in Nat
      BY DEF TsInv, StoreInv, TypeOK
    <2> QED BY <1>0, <2>1, AppendView, SamplesNat
  <1>2. log[s] \in Seq(Samples) /\ log[s] \in Seq(Nat)
    BY <1>1, LogType
  <1>3. /\ log'[s] = Append(log[s], x) /\ \A u \in Streams : u # s => log'[u] = log[u]
    BY <1>1 DEF TsInv, StoreInv, TypeOK
  <1>4. HistInv'
    <2>1. Range(log'[s]) = Range(log[s]) \cup {x}
      BY <1>1, <1>2, <1>3, RangeAppend
    <2>2. \A u \in Streams : \A y \in Range(log[u]) : y \in Nat /\ 1 <= y /\ y <= made
      BY <1>1 DEF LogInv, HistInv
    <2>3. Increasing(log'[s])
      <3>1. \A y \in Range(log[s]) : y < x
        <4>1. \A y \in Range(log[s]) : y \in Nat /\ y <= made
          BY <1>1, <2>2
        <4>2. made \in Nat /\ x = made + 1
          BY <1>0, <1>1
        <4> QED BY <4>1, <4>2
      <3>2. Increasing(Append(log[s], x))
        BY <1>1, <1>2, <3>1, IncreasingAppend DEF LogInv, HistInv
      <3> QED BY <1>3, <3>2
    <2>4. \A u \in Streams : x \notin Range(log[u])
      BY <1>0, <1>1, <2>2
    <2>5. \A u \in Streams : Range(log'[u]) \subseteq 1..made' /\ Increasing(log'[u])
      <3>1. ASSUME NEW u \in Streams, u # s PROVE Range(log'[u]) \subseteq 1..made' /\ Increasing(log'[u])
        <4>1. log'[u] = log[u] /\ Increasing(log[u])
          BY <1>3, <3>1 DEF LogInv, HistInv
        <4>2. \A y \in Range(log[u]) : y \in 1..x
          <5>1. \A y \in Range(log[u]) : y \in Nat /\ 1 <= y /\ y <= made
            BY <2>2
          <5>2. made <= x /\ made \in Nat /\ x \in Nat
            BY <1>0, <1>1
          <5> QED BY <5>1, <5>2
        <4> QED BY <1>1, <4>1, <4>2
      <3>2. \A y \in Range(log[s]) : y \in 1..x
        <4>1. \A y \in Range(log[s]) : y \in Nat /\ 1 <= y /\ y <= made
          BY <1>1, <2>2
        <4>2. made <= x /\ made \in Nat /\ x \in Nat
          BY <1>0, <1>1
        <4> QED BY <4>1, <4>2
      <3>3. x \in 1..x
        BY <1>1, SamplesNat DEF Samples
      <3> QED BY <1>1, <2>1, <2>3, <3>1, <3>2, <3>3
    <2>6. ASSUME NEW u \in Streams, NEW v \in Streams, u # v
          PROVE  Range(log'[u]) \cap Range(log'[v]) = {}
      <3>1. Range(log[u]) \cap Range(log[v]) = {}
        BY <2>6 DEF LogInv, HistInv
      <3>2. \A w \in Streams : Range(log'[w]) = Range(log[w]) \cup (IF w = s THEN {x} ELSE {})
        BY <1>3, <2>1
      <3> QED BY <2>4, <2>6, <3>1, <3>2
    <2>7. gone' \subseteq 1..made'
      <3>1. gone \subseteq 1..made /\ gone' = gone
        BY <1>1 DEF LogInv, HistInv
      <3>2. \A y \in 1..made : y \in 1..x
        BY <1>0, <1>1
      <3> QED BY <1>1, <3>1, <3>2
    <2> QED BY <2>5, <2>6, <2>7 DEF HistInv, Increasing
  <1>5. FileInv'
    BY <1>1 DEF LogInv, FileInv, Covers, SameFiles
  <1>6. ASSUME NEW u \in Streams
        PROVE  Cat(Readable(u)', InRam(u)') = Only(log'[u], Samples \ gone')
    <2>1. CASE u # s
      BY <1>1, <1>3, <2>1 DEF LogInv, KeptInv
    <2>2. CASE u = s
      <3> DEFINE A == Samples \ gone
      <3>1. x \in A
        <4>1. \A y \in gone : y \in Nat /\ y <= made
          BY <1>1 DEF LogInv, HistInv
        <4> QED BY <1>0, <1>1, <4>1
      <3> HIDE DEF A
      <3>2. Only(Append(log[s], x), A) = Append(Only(log[s], A), x)
        BY <1>1, <1>2, <3>1, OnlyAppend
      <3>3. Only(log[s], A) = Cat(Readable(s), InRam(s))
        BY <1>1 DEF LogInv, KeptInv, A
      <3>4. Cat(Readable(s), Append(InRam(s), x)) = Append(Cat(Readable(s), InRam(s)), x)
        <4>1. PICK a \in Seq(Samples), b \in Seq(Samples) : a = Readable(s) /\ b = InRam(s)
          BY <1>1, RamType
        <4>2. a \o Append(b, x) = Append(a \o b, x)
          BY <1>1, CatAppend
        <4> QED BY <4>1, <4>2, Zenon DEF Cat
      <3>5. Cat(Readable(s)', InRam(s)') = Only(log'[s], A)
        BY <1>1, <1>3, <3>2, <3>3, <3>4, Zenon
      <3>6. Samples \ gone' = A
        BY <1>1 DEF A
      <3> QED BY <2>2, <3>5, <3>6, Zenon
    <2> QED BY <2>1, <2>2
  <1>7. KeptInv'
    BY <1>6 DEF KeptInv, Cat
  <1> QED BY <1>4, <1>5, <1>7 DEF LogInv

--------------------------------------------------------------------------------
(* A slot is claimed or released *)

Dropped(sl, su, i, s) ==
  /\ OpenIn(su, s) = {} /\ RamIn(su, s) = <<>> /\ RamIn(sl, s) = sl[i].buf
  /\ \A u : u # s => OpenIn(su, u) = OpenIn(sl, u) /\ RamIn(su, u) = RamIn(sl, u)
LEMMA RamDrop ==
  ASSUME NEW sl, NEW su, NEW i \in Slots, NEW s, OpenIn(sl, s) = {i}, ~su[i].used,
         \A j \in Slots : j # i => /\ su[j].used = sl[j].used /\ su[j].name = sl[j].name
                                   /\ su[j].buf = sl[j].buf
  PROVE  Dropped(sl, su, i, s)
  <1>1. OpenIn(su, s) = {}
    BY DEF OpenIn
  <1>2. RamIn(su, s) = <<>> /\ RamIn(sl, s) = sl[i].buf
    BY <1>1, RamInIs
  <1>3. ASSUME NEW u, u # s PROVE OpenIn(su, u) = OpenIn(sl, u) /\ RamIn(su, u) = RamIn(sl, u)
    <2>1. sl[i].name = s
      BY DEF OpenIn
    <2>2. OpenIn(su, u) = OpenIn(sl, u) /\ \A j \in OpenIn(sl, u) : j \in Slots /\ j # i
      BY <1>3, <2>1 DEF OpenIn
    <2>3. FindIn(su, u) = FindIn(sl, u)
      BY <2>2 DEF FindIn
    <2>4. FindIn(sl, u) = 0 \/ FindIn(sl, u) \in OpenIn(sl, u)
      <3>1. OpenIn(sl, u) \in SUBSET Nat
        BY SlotsFinite DEF OpenIn
      <3> QED BY <3>1, LowestIsLeast DEF FindIn
    <2> QED BY <2>2, <2>3, <2>4 DEF RamIn
  <1> QED BY <1>1, <1>2, <1>3 DEF Dropped

LEMMA ClaimView ==
  ASSUME TsInv, NEW t \in Threads, OpenClaim(t), NEW s, s = hd[t]
  PROVE  /\ UNCHANGED <<disk, log, gone, made, boots, fails>>
         /\ \/ Untouched
            \/ /\ s \in Streams /\ Open(s) = {} /\ Open(s)' # {}
               /\ \A u \in Streams : Readable(u)' = Readable(u) /\ InRam(u)' = InRam(u)
               /\ \A u \in Streams : u # s => Open(u)' = Open(u)
               /\ \A j \in Slots : slots'[j].scanned => slots'[j] = slots[j]
  <1>0. PICK i : i = at[t]
    OBVIOUS
  <1>1. UNCHANGED <<disk, log, gone, made, boots, fails>>
    BY DEF OpenClaim, sampleVars, sysVars
  <1>2. i \in Slots /\ ~slots[i].used /\ slots[i] = FreeSlot /\ Open(s) = {}
    BY <1>0 DEF OpenClaim, TsInv, StoreInv, PlaceInv, SlotInv
  <1>3. s \in Streams /\ slots \in [Slots -> Slot]
    BY DEF OpenClaim, TsInv, StoreInv, ControlInv, TypeOK
  <1>4. CASE slots' = [slots EXCEPT ![i] = FreeSlot]
    <2>1. slots' = slots
      BY <1>2, <1>3, <1>4
    <2> QED BY <1>1, <2>1, SameUntouched
  <1>5. CASE slots' = [slots EXCEPT ![i] = [FreeSlot EXCEPT !.used = TRUE, !.name = s, !.count = 1]]
    <2>1. /\ slots'[i].used /\ slots'[i].name = s /\ slots'[i].buf = <<>> /\ ~slots'[i].scanned
          /\ \A j \in Slots : j # i => slots'[j] = slots[j]
      BY <1>2, <1>3, <1>5 DEF FreeSlot
    <2>2. OpenIn(slots', s) = {i}
      <3>1. OpenIn(slots, s) = {}
        BY <1>2, InRamIs
      <3> QED BY <1>2, <2>1, <3>1 DEF OpenIn
    <2>3. /\ OpenIn(slots, s) = {} /\ RamIn(slots, s) = <<>> /\ RamIn(slots', s) = slots'[i].buf
          /\ \A u : u # s => OpenIn(slots, u) = OpenIn(slots', u) /\ RamIn(slots, u) = RamIn(slots', u)
      <3>1. PICK sl : sl = slots'
        OBVIOUS
      <3>2. /\ OpenIn(sl, s) = {i}
            /\ \A j \in Slots : j # i => /\ slots[j].used = sl[j].used /\ slots[j].name = sl[j].name
                                         /\ slots[j].buf = sl[j].buf
        BY <2>1, <2>2, <3>1
      <3>3. /\ OpenIn(slots, s) = {} /\ RamIn(slots, s) = <<>> /\ RamIn(sl, s) = sl[i].buf
            /\ \A u : u # s => OpenIn(slots, u) = OpenIn(sl, u) /\ RamIn(slots, u) = RamIn(sl, u)
        <4>1. Dropped(sl, slots, i, s)
          BY <1>2, <3>2, RamDrop
        <4> QED BY <4>1 DEF Dropped
      <3> QED BY <3>1, <3>3
    <2>4. \A u \in Streams : InRam(u)' = InRam(u)
      BY <2>1, <2>3, InRamIs
    <2>5. Open(s)' # {} /\ \A u \in Streams : u # s => Open(u)' = Open(u)
      BY <2>2, <2>3, InRamIs
    <2>6. \A u \in Streams : Readable(u)' = Readable(u)
      BY <1>1, ReadableIs
    <2> QED BY <1>1, <1>2, <1>3, <2>1, <2>4, <2>5, <2>6
  <1> QED BY <1>0, <1>4, <1>5 DEF OpenClaim

LEMMA ClaimKept ==
  ASSUME TsInv, LogInv, NEW t \in Threads, OpenClaim(t)
  PROVE  LogInv'
  <1>0. PICK s : s = hd[t]
    OBVIOUS
  <1>1. CASE Untouched
    BY <1>1, UntouchedStep
  <1>2. CASE /\ \A u \in Streams : Readable(u)' = Readable(u) /\ InRam(u)' = InRam(u)
             /\ \A j \in Slots : slots'[j].scanned => slots'[j] = slots[j]
    <2>1. UNCHANGED <<disk, log, gone, made>>
      BY <1>0, ClaimView
    <2>2. HistInv'
      BY <2>1, HistSame DEF LogInv, HistInv
    <2>3. FileInv'
      BY <1>2, <2>1 DEF LogInv, FileInv, Covers
    <2>4. KeptInv'
      BY <1>2, <2>1 DEF LogInv, KeptInv
    <2> QED BY <2>2, <2>3, <2>4 DEF LogInv
  <1> QED BY <1>0, <1>1, <1>2, ClaimView

LEMMA ReleaseView ==
  ASSUME TsInv, NEW t \in Threads, CloseRelease(t), NEW s, s = hd[t]
  PROVE  /\ UNCHANGED <<disk, log, made, boots, fails>>
         /\ \/ Untouched
            \/ /\ s \in Streams /\ Open(s) # {} /\ Open(s)' = {} /\ InRam(s)' = <<>>
               /\ at[t] \in Slots /\ slots[at[t]].count <= 1 /\ slots[at[t]].buf = InRam(s)
               /\ gone' = gone \cup Range(InRam(s))
               /\ \A u \in Streams : Readable(u)' = Readable(u)
               /\ \A u \in Streams : u # s => Open(u)' = Open(u) /\ InRam(u)' = InRam(u)
               /\ \A j \in Slots : slots'[j].used =>
                    /\ slots[j].used /\ slots'[j].name = slots[j].name
                    /\ slots'[j].scanned = slots[j].scanned /\ slots'[j].cur = slots[j].cur
                    /\ slots'[j].oldest = slots[j].oldest
  <1>0. PICK i : i = at[t]
    OBVIOUS
  <1>1. UNCHANGED <<disk, log, made, boots, fails>>
    BY DEF CloseRelease, sysVars
  <1>2. /\ i \in Slots /\ slots[i].used /\ slots[i].name = s /\ s \in Streams
        /\ slots \in [Slots -> Slot] /\ slots[i].count \in Nat
    <2>1. i \in Open(s)
      BY <1>0 DEF CloseRelease, TsInv, StoreInv, PlaceInv, FlushPlaces
    <2> QED BY <2>1 DEF Open, TsInv, StoreInv, SlotInv, TypeOK, Slot
  <1>3. CASE slots[i].count > 1
    <2> DEFINE sl == [slots EXCEPT ![i].count = @ - 1]
    <2>1. Unlock(sl, released, 0) /\ gone' = gone
      BY <1>0, <1>3 DEF CloseRelease
    <2>2. sl = [slots EXCEPT ![i].count = slots[i].count - 1]
      OBVIOUS
    <2>3. slots[i].count - 1 \in Nat
      BY <1>2, <1>3
    <2>4. \A j \in Slots : sl[j] \in Slot
      <3>1. sl[i] = [slots[i] EXCEPT !.count = slots[i].count - 1] /\ slots[i] \in Slot
        BY <1>2
      <3>2. sl[i] \in Slot
        BY <2>3, <3>1 DEF Slot
      <3> QED BY <1>2, <3>2
    <2> HIDE DEF sl
    <2>5. Alike(slots, sl)
      BY <1>2, <2>2, OneFieldAlike
    <2>6. Alike(slots, slots')
      BY <2>1, <2>4, <2>5, UnlockAlike
    <2> QED BY <1>1, <2>1, <2>6 DEF Untouched
  <1>4. CASE ~(slots[i].count > 1)
    <2> DEFINE sl == [slots EXCEPT ![i] = FreeSlot]
    <2>1. slots' = [j \in Slots |-> [sl[j] EXCEPT !.pend = 0]] /\ gone' = gone \cup Range(slots[i].buf)
      BY <1>0, <1>4 DEF CloseRelease, Unlock
    <2>2. sl[i] = FreeSlot /\ \A j \in Slots : j # i => sl[j] = slots[j] /\ slots[j] \in Slot
      BY <1>2
    <2> HIDE DEF sl
    <2>3. /\ ~slots'[i].used
          /\ \A j \in Slots : j # i =>
               /\ slots'[j].used = slots[j].used /\ slots'[j].name = slots[j].name
               /\ slots'[j].buf = slots[j].buf /\ slots'[j].scanned = slots[j].scanned
               /\ slots'[j].cur = slots[j].cur /\ slots'[j].oldest = slots[j].oldest
      <3>1. slots'[i] = [FreeSlot EXCEPT !.pend = 0]
        BY <1>2, <2>1, <2>2
      <3>2. \A j \in Slots : j # i => slots'[j] = [slots[j] EXCEPT !.pend = 0] /\ slots[j] \in Slot
        BY <2>1, <2>2
      <3>3. ~slots'[i].used
        BY <3>1 DEF FreeSlot
      <3> QED BY <3>2, <3>3 DEF Slot
    <2>4. OpenIn(slots, s) = {i} /\ Open(s) # {} /\ InRam(s) = slots[i].buf
      BY <1>2, SlotOf
    <2>5. /\ OpenIn(slots', s) = {} /\ RamIn(slots', s) = <<>>
          /\ \A u : u # s => OpenIn(slots', u) = OpenIn(slots, u) /\ RamIn(slots', u) = RamIn(slots, u)
      <3>1. Dropped(slots, slots', i, s)
        BY <1>2, <2>3, <2>4, RamDrop
      <3> QED BY <3>1 DEF Dropped
    <2>6. Open(s)' = {} /\ InRam(s)' = <<>>
      BY <2>5, InRamIs
    <2>7. \A u \in Streams : u # s => Open(u)' = Open(u) /\ InRam(u)' = InRam(u)
      BY <2>5, InRamIs
    <2>8. \A u \in Streams : Readable(u)' = Readable(u)
      BY <1>1, ReadableIs
    <2>9. slots[at[t]].count <= 1 /\ at[t] \in Slots /\ slots[at[t]].buf = InRam(s)
      BY <1>0, <1>2, <1>4, <2>4
    <2>10. gone' = gone \cup Range(InRam(s))
      BY <2>1, <2>4
    <2>11. \A j \in Slots : slots'[j].used =>
                    /\ slots[j].used /\ slots'[j].name = slots[j].name
                    /\ slots'[j].scanned = slots[j].scanned /\ slots'[j].cur = slots[j].cur
                    /\ slots'[j].oldest = slots[j].oldest
      BY <2>3
    <2> QED BY <1>1, <1>2, <2>4, <2>6, <2>7, <2>8, <2>9, <2>10, <2>11
  <1> QED BY <1>3, <1>4

LEMMA ReleaseKept ==
  ASSUME TsInv, LogInv, NEW t \in Threads, CloseRelease(t)
  PROVE  LogInv'
  <1>0. PICK s : s = hd[t]
    OBVIOUS
  <1>1. CASE Untouched
    BY <1>1, UntouchedStep
  <1>2. CASE ~Untouched
    <2>1. /\ UNCHANGED <<disk, log, made>> /\ s \in Streams /\ InRam(s)' = <<>>
          /\ gone' = gone \cup Range(InRam(s))
          /\ \A u \in Streams : Readable(u)' = Readable(u)
          /\ \A u \in Streams : u # s => InRam(u)' = InRam(u)
      BY <1>0, <1>2, ReleaseView
    <2>2. PICK a \in Seq(Samples), b \in Seq(Samples) : a = Readable(s) /\ b = InRam(s)
      BY <2>1, RamType
    <2>3. Only(log[s], Samples \ gone) = Cat(a, Cat(b, <<>>)) /\ <<>> \in Seq(Samples)
      <3>1. Cat(b, <<>>) = b
        BY CatEmpty
      <3> QED BY <2>1, <2>2, <3>1, EmptySeq DEF LogInv, KeptInv
    <2>4. PICK Z : Z = Range(b)
      OBVIOUS
    <2>5. /\ Only(log[s], Samples \ (gone \cup Z)) = Cat(a, Cat(Only(b, Samples \ Z), <<>>))
          /\ \A u \in Streams : u # s =>
               Only(log[u], Samples \ (gone \cup Z)) = Only(log[u], Samples \ gone)
          /\ gone \cup Z \subseteq 1..made
      <3>1. PICK c \in Seq(Samples) : c = <<>>
        BY <2>3
      <3>2. Lost(s, a, b, c, Z)
        BY <2>1, <2>3, <2>4, <3>1, Loses DEF LogInv
      <3> QED BY <3>1, <3>2 DEF Lost
    <2>6. Only(b, Samples \ Z) = <<>>
      BY <2>4, OnlyNone
    <2>7. Only(log[s], Samples \ (gone \cup Z)) = Cat(a, <<>>)
      <3>1. Cat(<<>>, <<>>) = <<>>
        BY <2>3, CatEmpty
      <3> QED BY <2>5, <2>6, <3>1, Zenon
    <2>8. gone' = gone \cup Z /\ log' = log
      BY <2>1, <2>2, <2>4
    <2>9. HistInv'
      BY <2>1, <2>5, <2>8, HistSame DEF LogInv
    <2>10. FileInv'
      <3>1. \A j \in Slots : slots'[j].used =>
                    /\ slots[j].used /\ slots'[j].name = slots[j].name
                    /\ slots'[j].scanned = slots[j].scanned /\ slots'[j].cur = slots[j].cur
                    /\ slots'[j].oldest = slots[j].oldest
        BY <1>0, <1>2, ReleaseView
      <3> QED BY <2>1, <3>1 DEF LogInv, FileInv, Covers
    <2>11. ASSUME NEW u \in Streams
           PROVE  Cat(Readable(u)', InRam(u)') = Only(log'[u], Samples \ gone')
      <3>1. CASE u = s
        BY <2>1, <2>2, <2>7, <2>8, <3>1, Zenon
      <3>2. CASE u # s
        <4>1. Cat(Readable(u), InRam(u)) = Only(log[u], Samples \ gone)
          BY DEF LogInv, KeptInv
        <4> QED BY <2>1, <2>5, <2>8, <3>2, <4>1, Zenon
      <3> QED BY <3>1, <3>2
    <2>12. KeptInv'
      BY <2>11 DEF KeptInv, Cat
    <2> QED BY <2>9, <2>10, <2>12 DEF LogInv
  <1> QED BY <1>1, <1>2

--------------------------------------------------------------------------------
(* flush_buffer_locked() *)

LEMMA FileOther ==
  ASSUME TsInv, FileInv, NEW i \in Slots, slots[i].used, NEW s, s = slots[i].name,
         \A j \in Slots : j # i =>
            /\ slots'[j].used = slots[j].used /\ slots'[j].name = slots[j].name
            /\ slots'[j].scanned = slots[j].scanned
            /\ slots'[j].cur = slots[j].cur /\ slots'[j].oldest = slots[j].oldest,
         \A u \in Streams : u # s => disk'[u] = disk[u],
         slots'[i].used /\ slots'[i].scanned => Covers(slots'[i], disk'[slots'[i].name])
  PROVE  FileInv'
  <1> SUFFICES ASSUME NEW j \in Slots, slots'[j].used, slots'[j].scanned
               PROVE  Covers(slots'[j], disk'[slots'[j].name])
    BY DEF FileInv, Covers
  <1>1. CASE j = i
    BY <1>1
  <1>2. CASE j # i
    <2>1. /\ slots[j].used /\ slots[j].scanned /\ slots'[j].name = slots[j].name
          /\ slots'[j].cur = slots[j].cur /\ slots'[j].oldest = slots[j].oldest
      BY <1>2
    <2>2. slots[j].name \in Streams /\ slots[j].name # s
      BY <1>2, <2>1 DEF TsInv, StoreInv, SlotInv
    <2>3. disk'[slots'[j].name] = disk[slots[j].name]
      BY <2>1, <2>2
    <2>4. Covers(slots[j], disk[slots[j].name])
      BY <2>1 DEF FileInv
    <2> QED BY <2>1, <2>3, <2>4 DEF Covers
  <1> QED BY <1>1, <1>2

LEMMA SubSamples ==
  ASSUME NEW b \in Seq(Samples)
  PROVE  b \in Seq(Records) /\ Only(b, Samples) = b /\ Bad \notin Range(b)
  <1>1. Range(b) \subseteq Samples
    BY RangeIs
  <1>2. Only(b, Samples) = b
    BY <1>1, OnlyAll
  <1>3. b \in Seq(Records)
    BY <1>1, SeqIn DEF Records
  <1> QED BY <1>1, <1>2, <1>3, SamplesNat

LEMMA ReadMore ==
  ASSUME NEW f \in Segment, NEW g, f.hdr, g.hdr, NEW b \in Seq(Samples), g.recs = Cat(f.recs, b)
  PROVE  Read(g) = Cat(Read(f), b) /\ Range(g.recs) = Range(f.recs) \cup Range(b)
  <1>1. f.recs \in Seq(Records)
    BY SegmentType
  <1>2. b \in Seq(Records) /\ Only(b, Samples) = b
    BY SubSamples
  <1>3. PICK r \in Seq(Records) : r = f.recs
    BY <1>1
  <1>4. Only(Cat(r, b), Samples) = Cat(Only(r, Samples), Only(b, Samples))
    BY <1>2, CatOnly
  <1>5. Range(Cat(r, b)) = Range(r) \cup Range(b)
    BY <1>2, CatRange
  <1>6. Read(f) = Only(r, Samples) /\ Read(g) = Only(Cat(r, b), Samples)
    BY <1>3 DEF Read
  <1> QED BY <1>2, <1>3, <1>4, <1>5, <1>6, Zenon

(* Slot i works on the newest file k of its stream s. *)
Newest(i, s, k) ==
  /\ i \in Slots /\ slots[i] \in Slot /\ slots[i].used /\ slots[i].scanned
  /\ s \in Streams /\ k \in Nat /\ k \in DOMAIN disk[s] /\ slots[i].oldest \in Nat
  /\ FileAt(s, k) = disk[s][k] /\ disk[s][k] \in Segment
  /\ disk[s][k].hdr /\ ~disk[s][k].torn /\ Bad \notin Range(disk[s][k].recs)
  /\ \A n \in DOMAIN disk[s] : slots[i].oldest <= n /\ n <= k /\ n \in Nat
  /\ slots \in [Slots -> Slot] /\ FilesOK(disk) /\ FilesHeaded(disk)
  /\ Open(s) = {i} /\ InRam(s) = slots[i].buf /\ slots[i].buf \in Seq(Samples)
LEMMA NewestFile ==
  ASSUME LogAssumptions, TsInv, FileInv, NEW a \in Actors, pc[a] \in FlushPlaces,
         NEW i, i = at[a], NEW s, s = slots[i].name, NEW k, k = slots[i].cur
  PROVE  Newest(i, s, k)
  <1>1. /\ i \in Slots /\ slots[i] \in Slot /\ slots[i].used /\ slots[i].scanned
        /\ s \in Streams /\ k \in Nat /\ slots[i].oldest \in Nat /\ slots[i].buf \in Seq(Samples)
        /\ FileAt(s, k) \in Segment /\ FileAt(s, k).hdr
    BY FlushSlot DEF TsInv, LogAssumptions
  <1>2. Covers(slots[i], disk[s])
    BY <1>1 DEF FileInv
  <1>3. FileAt(s, k) = disk[s][k]
    BY <1>2 DEF Covers, FileAt
  <1>4. Open(s) = {i} /\ InRam(s) = slots[i].buf
    BY <1>1, SlotOf
  <1>5. slots \in [Slots -> Slot] /\ FilesOK(disk) /\ FilesHeaded(disk)
    BY FilesNow DEF TsInv, StoreInv, TypeOK, HeaderInv, LogAssumptions
  <1>6. \A n \in DOMAIN disk[s] : n \in Nat
    BY <1>1, <1>5 DEF FilesOK
  <1> QED BY <1>1, <1>2, <1>3, <1>4, <1>5, <1>6 DEF Covers, Newest

(* Records b are written behind those of the newest file of s. *)
LEMMA NewestGrows ==
  ASSUME FilesOK(disk), NEW s \in Streams, NEW k \in DOMAIN disk[s], k \in Nat,
         disk[s][k].hdr, \A n \in DOMAIN disk[s] : n <= k,
         NEW b \in Seq(Samples), NEW g \in Segment, g.hdr, g.recs = Cat(disk[s][k].recs, b),
         NEW d, d = Put(s, k, g)
  PROVE  /\ StoredIn(d[s]) = Cat(StoredIn(disk[s]), b)
         /\ FilesOK(d) /\ \A u \in Streams : u # s => d[u] = disk[u]
         /\ DOMAIN d[s] = DOMAIN disk[s] /\ d[s][k] = g
         /\ \A n \in DOMAIN disk[s] : n # k => d[s][n] = disk[s][n]
         /\ Range(g.recs) = Range(disk[s][k].recs) \cup Range(b)
  <1>0. Written(d, s, k, g) /\ WrittenSplits(d, s, k, g)
    BY PutStored
  <1>1. FileAt(s, k) = disk[s][k] /\ disk[s][k] \in Segment
    BY DEF FileAt, FilesOK
  <1>2. PICK f \in Segment : f = disk[s][k]
    BY <1>1
  <1>3. Read(g) = Cat(Read(f), b) /\ Range(g.recs) = Range(f.recs) \cup Range(b)
    BY <1>2, ReadMore
  <1>4. /\ FilesOK(d) /\ \A u \in Streams : u # s => d[u] = disk[u]
        /\ DOMAIN d[s] = DOMAIN disk[s] \cup {k} /\ d[s][k] = g
        /\ \A n \in DOMAIN disk[s] : n # k => d[s][n] = disk[s][n]
    BY <1>0 DEF Written
  <1>5. PICK p \in Seq(Samples), q \in Seq(Samples) :
              /\ StoredIn(disk[s]) = Cat(p, Cat(Read(FileAt(s, k)), q))
              /\ StoredIn(d[s]) = Cat(p, Cat(Read(g), q))
              /\ (\A n \in DOMAIN disk[s] : n <= k) => q = <<>>
    BY <1>0 DEF WrittenSplits
  <1>6. q = <<>> /\ Read(f) \in Seq(Samples)
    BY <1>5, ReadType
  <1>7. PICK r \in Seq(Samples) : r = Read(f)
    BY <1>6
  <1>8. StoredIn(disk[s]) = Cat(p, r) /\ StoredIn(d[s]) = Cat(p, Cat(r, b))
    <2>1. Cat(r, <<>>) = r
      BY CatEmpty
    <2>2. Cat(Cat(r, b), <<>>) = Cat(r, b)
      BY CatType, CatEmpty
    <2> QED BY <1>1, <1>2, <1>3, <1>5, <1>6, <1>7, <2>1, <2>2, Zenon
  <1>9. Cat(p, Cat(r, b)) = Cat(Cat(p, r), b)
    BY CatAssoc
  <1>10. StoredIn(d[s]) = Cat(StoredIn(disk[s]), b)
    BY <1>8, <1>9, Zenon
  <1>11. Range(g.recs) = Range(disk[s][k].recs) \cup Range(b)
    BY <1>2, <1>3, Zenon
  <1> QED BY <1>4, <1>10, <1>11

(* The stream s gives what it has in RAM to its files. *)
Flushed(s) ==
  /\ s \in Streams /\ Open(s) # {} /\ InRam(s) # <<>> /\ InRam(s)' = <<>>
  /\ Readable(s)' = Cat(Readable(s), InRam(s))
  /\ \A u \in Streams : u # s => Readable(u)' = Readable(u) /\ InRam(u)' = InRam(u)
  /\ \A u \in Streams : Open(u)' = Open(u)

LEMMA FlushView ==
  ASSUME LogAssumptions, TsInv, FileInv, NEW a \in Actors, FlushWrite(a),
         NEW s, s = slots[at[a]].name
  PROVE  /\ UNCHANGED <<log, gone, made, boots, fails>>
         /\ Untouched \/ (Flushed(s) /\ FileInv')
  <1>0. PICK i, k, b : i = at[a] /\ k = slots[i].cur /\ b = slots[i].buf
    OBVIOUS
  <1>1. UNCHANGED <<log, gone, made, boots>> /\ pc[a] \in FlushPlaces
    BY DEF FlushWrite, sampleVars, FlushPlaces
  <1>2. /\ i \in Slots /\ slots[i] \in Slot /\ slots[i].used /\ slots[i].scanned
        /\ s \in Streams /\ k \in Nat /\ k \in DOMAIN disk[s]
        /\ FileAt(s, k) = disk[s][k] /\ disk[s][k] \in Segment
        /\ disk[s][k].hdr /\ ~disk[s][k].torn /\ Bad \notin Range(disk[s][k].recs)
        /\ \A n \in DOMAIN disk[s] : slots[i].oldest <= n /\ n <= k
        /\ slots \in [Slots -> Slot] /\ FilesOK(disk)
        /\ Open(s) = {i} /\ InRam(s) = slots[i].buf /\ b \in Seq(Samples)
    <2>1. Newest(i, s, k)
      BY <1>0, <1>1, NewestFile
    <2> QED BY <1>0, <2>1 DEF Newest
  <1>3. \/ UNCHANGED <<disk, slots, fails>>
        \/ /\ b # <<>> /\ fails' = fails
           /\ disk' = Put(s, k, IF FileAt(s, k).torn THEN FileAt(s, k)
                                ELSE [FileAt(s, k) EXCEPT !.recs = FileAt(s, k).recs \o b])
           /\ \E n, m : slots' = [slots EXCEPT ![i] = [slots[i] EXCEPT !.buf = <<>>, !.bytes = n,
                                                                    !.pend = m]]
    BY <1>0 DEF FlushWrite, Fault, LogAssumptions
  <1>4. CASE UNCHANGED <<disk, slots, fails>>
    BY <1>1, <1>4, SameUntouched
  <1>5. CASE /\ b # <<>> /\ fails' = fails
             /\ disk' = Put(s, k, IF FileAt(s, k).torn THEN FileAt(s, k)
                                  ELSE [FileAt(s, k) EXCEPT !.recs = FileAt(s, k).recs \o b])
             /\ \E n, m : slots' = [slots EXCEPT ![i] = [slots[i] EXCEPT !.buf = <<>>, !.bytes = n,
                                                                      !.pend = m]]
    <2>1. PICK f \in Segment : f = disk[s][k]
      BY <1>2
    <2>2. PICK g : g = [f EXCEPT !.recs = f.recs \o b]
      OBVIOUS
    <2>3. disk' = Put(s, k, g)
      BY <1>2, <1>5, <2>1, <2>2
    <2>4. g \in Segment /\ g.hdr /\ ~g.torn /\ g.recs = Cat(disk[s][k].recs, b)
      <3>1. f.recs \in Seq(Records) /\ b \in Seq(Records)
        BY <1>2, SegmentType, SubSamples
      <3>2. PICK r \in Seq(Records) : r = f.recs \o b
        BY <3>1, ConcatProperties
      <3>3. g = [f EXCEPT !.recs = r]
        BY <2>2, <3>2, Zenon
      <3>4. g \in Segment /\ g.hdr = f.hdr /\ g.torn = f.torn /\ g.recs = r
        BY <3>3 DEF Segment, Records
      <3> QED BY <1>2, <2>1, <3>2, <3>4 DEF Cat
    <2>5. /\ StoredIn(disk'[s]) = Cat(StoredIn(disk[s]), b)
          /\ \A u \in Streams : u # s => disk'[u] = disk[u]
          /\ DOMAIN disk'[s] = DOMAIN disk[s] /\ disk'[s][k] = g
          /\ Range(g.recs) = Range(disk[s][k].recs) \cup Range(b)
      <3>1. /\ FilesOK(disk) /\ s \in Streams /\ k \in DOMAIN disk[s] /\ k \in Nat
            /\ disk[s][k].hdr /\ b \in Seq(Samples)
        BY <1>2
      <3>2. \A n \in DOMAIN disk[s] : n <= k
        BY <1>2
      <3> QED BY <2>3, <2>4, <3>1, <3>2, NewestGrows
    <2>6. PICK n, m : slots' = [slots EXCEPT ![i] = [slots[i] EXCEPT !.buf = <<>>, !.bytes = n,
                                                                     !.pend = m]]
      BY <1>5
    <2>7. BufBecomes(i, <<>>)
      <3>1. slots'[i] = [slots[i] EXCEPT !.buf = <<>>, !.bytes = n, !.pend = m]
        BY <1>2, <2>6
      <3>2. \A j \in Slots : j # i => slots'[j] = slots[j]
        BY <1>2, <2>6
      <3>3. /\ slots'[i].buf = <<>> /\ slots'[i].used = slots[i].used
            /\ slots'[i].name = slots[i].name /\ slots'[i].scanned = slots[i].scanned
            /\ slots'[i].cur = slots[i].cur /\ slots'[i].oldest = slots[i].oldest
        BY <1>2, <3>1 DEF Slot
      <3> QED BY <3>2, <3>3 DEF BufBecomes
    <2>8. /\ \A u : Open(u)' = Open(u)
          /\ InRam(s)' = <<>>
          /\ \A u : u # s => InRam(u)' = InRam(u)
      <3>1. PICK e : e = <<>>
        OBVIOUS
      <3>2. BufBecomes(i, e)
        BY <2>7, <3>1
      <3> QED BY <1>0, <1>2, <3>1, <3>2, BufView, SMTT(20)
    <2>9. FileInv'
      <3>1. Bad \notin Range(b)
        BY <1>2, SubSamples
      <3>2. Covers(slots'[i], disk'[slots'[i].name])
        BY <1>0, <1>2, <2>4, <2>5, <2>7, <3>1 DEF BufBecomes, Covers
      <3>3. \A j \in Slots : j # i =>
               /\ slots'[j].used = slots[j].used /\ slots'[j].name = slots[j].name
               /\ slots'[j].scanned = slots[j].scanned
               /\ slots'[j].cur = slots[j].cur /\ slots'[j].oldest = slots[j].oldest
        BY <2>7 DEF BufBecomes
      <3>4. i \in Slots /\ slots[i].used /\ s = slots[i].name
        BY <1>0, <1>2
      <3>5. \A u \in Streams : u # s => disk'[u] = disk[u]
        BY <2>5
      <3> QED BY <3>2, <3>3, <3>4, <3>5, FileOther
    <2>10. Readable(s)' = Cat(Readable(s), InRam(s))
      BY <1>0, <1>2, <2>5, ReadableIs
    <2>11. \A u \in Streams : u # s => Readable(u)' = Readable(u)
      BY <2>5, ReadableIs
    <2>12. Open(s) # {} /\ InRam(s) # <<>>
      BY <1>0, <1>2, <1>5
    <2> QED BY <1>1, <1>2, <1>5, <2>8, <2>9, <2>10, <2>11, <2>12 DEF Flushed
  <1> QED BY <1>3, <1>4, <1>5

LEMMA FlushKept ==
  ASSUME LogAssumptions, TsInv, LogInv, NEW a \in Actors, FlushWrite(a)
  PROVE  LogInv'
  <1>0. PICK s : s = slots[at[a]].name
    OBVIOUS
  <1>1. CASE Untouched
    BY <1>1, UntouchedStep
  <1>2. CASE Flushed(s) /\ FileInv'
    <2>1. UNCHANGED <<log, gone, made>>
      BY <1>0, FlushView DEF LogInv
    <2>2. HistInv'
      BY <2>1, HistSame DEF LogInv, HistInv
    <2>3. ASSUME NEW u \in Streams
          PROVE  Cat(Readable(u)', InRam(u)') = Only(log'[u], Samples \ gone')
      <3>1. Cat(Readable(u), InRam(u)) = Only(log[u], Samples \ gone)
        BY DEF LogInv, KeptInv
      <3>2. CASE u = s
        <4>1. Readable(s)' = Cat(Readable(s), InRam(s)) /\ InRam(s)' = <<>>
          BY <1>2 DEF Flushed
        <4>2. Cat(Readable(s), InRam(s)) \in Seq(Samples)
          BY <3>2, RamType, CatType
        <4>3. Cat(Cat(Readable(s), InRam(s)), <<>>) = Cat(Readable(s), InRam(s))
          BY <4>2, CatEmpty
        <4> QED BY <2>1, <3>1, <3>2, <4>1, <4>3
      <3>3. CASE u # s
        BY <1>2, <2>1, <3>1, <3>3 DEF Flushed
      <3> QED BY <3>2, <3>3
    <2>4. KeptInv'
      BY <2>3 DEF KeptInv, Cat
    <2> QED BY <1>2, <2>2, <2>4 DEF LogInv
  <1> QED BY <1>0, <1>1, <1>2, FlushView DEF LogInv

LEMMA StartView ==
  ASSUME LogAssumptions, TsInv, FileInv, NEW a \in Actors, StartSegment(a)
  PROVE  /\ UNCHANGED <<log, gone, made, boots, fails>>
         /\ Unseen /\ FileInv'
  <1>0. PICK i, s, k : i = at[a] /\ s = slots[i].name /\ k = slots[i].cur
    OBVIOUS
  <1>1. UNCHANGED <<log, gone, made, boots>> /\ pc[a] \in FlushPlaces
    BY DEF StartSegment, sampleVars, FlushPlaces
  <1>2. /\ i \in Slots /\ slots[i] \in Slot /\ slots[i].used /\ slots[i].scanned
        /\ s \in Streams /\ k \in Nat /\ slots[i].oldest \in Nat
        /\ k \in DOMAIN disk[s]
        /\ \A n \in DOMAIN disk[s] : slots[i].oldest <= n /\ n <= k /\ n \in Nat
        /\ slots \in [Slots -> Slot] /\ FilesOK(disk)
    <2>1. Newest(i, s, k)
      BY <1>0, <1>1, NewestFile
    <2> QED BY <1>0, <2>1 DEF Newest
  <1>3. PICK x : x = [slots[i] EXCEPT !.cur = @ + 1, !.bytes = 0]
    OBVIOUS
  <1>4. x.cur = k + 1 /\ x.name = s /\ x.used /\ x.scanned /\ x.oldest = slots[i].oldest /\ x.buf = slots[i].buf
    BY <1>0, <1>2, <1>3 DEF Slot
  <1>5. slots' = [slots EXCEPT ![i] = x] /\ disk' = Put(s, k + 1, NewSegment) /\ fails' = fails
    <2>1. slots' = [slots EXCEPT ![i] = x] /\ disk' = Put(x.name, x.cur, NewSegment) /\ fails' = fails
      BY <1>0, <1>3 DEF StartSegment, Fault, LogAssumptions
    <2> QED BY <1>4, <2>1
  <1>6. slots'[i] = x /\ \A j \in Slots : j # i => slots'[j] = slots[j]
    BY <1>2, <1>5
  <1>7. PICK f \in Segment : f = NewSegment /\ ~f.torn /\ Range(f.recs) = {} /\ Read(f) = <<>>
    <2>1. NewSegment \in Segment /\ NewSegment.recs = <<>> /\ ~NewSegment.torn
      <3>1. EmptyFile \in Segment /\ NewSegment \in Segment
        BY NewFiles
      <3>2. EmptyFile.recs = <<>> /\ ~EmptyFile.torn
        BY DEF EmptyFile
      <3>3. NewSegment.recs = EmptyFile.recs /\ NewSegment.torn = EmptyFile.torn
        BY <3>1 DEF NewSegment, Segment
      <3> QED BY <3>1, <3>2, <3>3
    <2>2. Read(NewSegment) = <<>>
      BY <2>1, OnlyEmpty DEF Read
    <2> QED BY <2>1, <2>2, RangeEmpty
  <1>8. PICK m \in Nat : m = k + 1
    BY <1>2
  <1>9. Written(disk', s, m, f) /\ WrittenSplits(disk', s, m, f)
    BY <1>2, <1>5, <1>7, <1>8, PutStored
  <1>10. StoredIn(disk'[s]) = StoredIn(disk[s])
    <2>1. m \notin DOMAIN disk[s]
      BY <1>2, <1>8
    <2>2. Read(FileAt(s, m)) = <<>>
      BY <2>1 DEF FileAt, Read, EmptyFile
    <2> QED BY <1>7, <1>9, <2>2 DEF WrittenSplits
  <1>11. \A u \in Streams : u # s => disk'[u] = disk[u]
    BY <1>9 DEF Written
  <1>12. Unseen
    <2>1. \A u \in Streams : StoredIn(disk'[u]) = StoredIn(disk[u])
      BY <1>10, <1>11
    <2>2. \A j \in Slots : /\ slots'[j].used = slots[j].used /\ slots'[j].name = slots[j].name
                           /\ slots'[j].buf = slots[j].buf
      <3> SUFFICES ASSUME NEW j \in Slots
                   PROVE  /\ slots'[j].used = slots[j].used /\ slots'[j].name = slots[j].name
                          /\ slots'[j].buf = slots[j].buf
        OBVIOUS
      <3>1. x.used = slots[i].used
        BY <1>2, <1>3 DEF Slot
      <3>2. CASE j = i
        BY <1>0, <1>4, <1>6, <3>1, <3>2
      <3>3. CASE j # i
        BY <1>6, <3>3
      <3> QED BY <3>2, <3>3
    <2>3. \A u : OpenIn(slots', u) = OpenIn(slots, u) /\ RamIn(slots', u) = RamIn(slots, u)
      BY <2>2, RamSame
    <2> QED BY <2>1, <2>3, ReadableIs, InRamIs DEF Unseen
  <1>13. FileInv'
    <2>1. /\ DOMAIN disk'[s] = DOMAIN disk[s] \cup {m} /\ disk'[s][m] = f
      BY <1>9 DEF Written
    <2>2. Covers(slots'[i], disk'[slots'[i].name])
      <3>1. x.oldest <= m /\ \A n \in DOMAIN disk[s] : x.oldest <= n /\ n <= m
        BY <1>2, <1>4, <1>8
      <3> QED BY <1>4, <1>6, <1>7, <1>8, <2>1, <3>1 DEF Covers
    <2> QED BY <1>0, <1>2, <1>6, <1>11, <2>2, FileOther
  <1> QED BY <1>1, <1>5, <1>12, <1>13

LEMMA StartKept ==
  ASSUME LogAssumptions, TsInv, LogInv, NEW a \in Actors, StartSegment(a)
  PROVE  LogInv'
  <1>1. UNCHANGED <<log, gone, made>> /\ Unseen /\ FileInv'
    BY StartView DEF LogInv
  <1>2. HistInv'
    BY <1>1, HistSame DEF LogInv, HistInv
  <1>3. KeptInv'
    BY <1>1 DEF LogInv, KeptInv, Unseen
  <1> QED BY <1>1, <1>2, <1>3 DEF LogInv

LEMMA ReadRange ==
  ASSUME NEW f \in Segment, f.hdr \/ f = EmptyFile
  PROVE  Range(Read(f)) = Range(f.recs) \ {Bad}
  <1>1. f.recs \in Seq(Records)
    BY SegmentType
  <1>2. Range(f.recs) \subseteq Records
    BY <1>1, RangeIs
  <1>3. CASE f.hdr
    <2>1. Range(Only(f.recs, Samples)) = Range(f.recs) \cap Samples
      BY <1>1, OnlyRange
    <2> QED BY <1>2, <1>3, <2>1, SamplesNat DEF Read, Records
  <1>4. CASE ~f.hdr
    <2>1. f.recs = <<>> /\ Read(f) = <<>>
      BY <1>4 DEF EmptyFile, Read
    <2> QED BY <2>1, RangeEmpty
  <1> QED BY <1>3, <1>4

(* The stream s loses b, the oldest of its stored samples. *)
Discarded(s, b) ==
  /\ s \in Streams /\ Open(s) # {}
  /\ Readable(s) = Cat(b, Readable(s)')
  /\ \A u \in Streams : u # s => Readable(u)' = Readable(u)
  /\ \A u \in Streams : InRam(u)' = InRam(u) /\ Open(u)' = Open(u)
  /\ gone' = gone \cup Range(b)

LEMMA DiscardView ==
  ASSUME LogAssumptions, TsInv, FileInv, NEW a \in Actors, DiscardOldest(a),
         NEW s, s = slots[at[a]].name, NEW b, b = Read(FileAt(s, slots[at[a]].oldest))
  PROVE  /\ UNCHANGED <<log, made, boots>> /\ ("unlink" \notin Faults => fails' = fails)
         /\ b \in Seq(Samples)
         /\ Untouched \/ (Discarded(s, b) /\ FileInv' /\ fails' = fails)
  <1>0. PICK i, k, o : i = at[a] /\ k = slots[i].cur /\ o = slots[i].oldest
    OBVIOUS
  <1>1. UNCHANGED <<log, made, boots>> /\ pc[a] = "discard" /\ pc[a] \in FlushPlaces
    BY DEF DiscardOldest, FlushPlaces
  <1>2. /\ i \in Slots /\ slots[i] \in Slot /\ slots[i].used /\ slots[i].scanned
        /\ s \in Streams /\ k \in Nat /\ k \in DOMAIN disk[s] /\ o \in Nat
        /\ ~disk[s][k].torn /\ Bad \notin Range(disk[s][k].recs)
        /\ \A n \in DOMAIN disk[s] : o <= n /\ n <= k /\ n \in Nat
        /\ slots \in [Slots -> Slot] /\ FilesOK(disk) /\ FilesHeaded(disk)
        /\ Open(s) = {i}
    <2>1. Newest(i, s, k)
      BY <1>0, <1>1, NewestFile
    <2> QED BY <1>0, <2>1 DEF Newest
  <1>3. PICK f \in Segment : f = FileAt(s, o) /\ (f.hdr \/ f = EmptyFile)
    <2>1. FileAt(s, o) \in Segment
      BY <1>2, FileType DEF TsInv, StoreInv
    <2>2. FileAt(s, o).hdr \/ FileAt(s, o) = EmptyFile
      BY <1>2 DEF FileAt, FilesHeaded
    <2> QED BY <2>1, <2>2
  <1>4. b = Read(f) /\ b \in Seq(Samples) /\ Range(b) = Range(f.recs) \ {Bad}
    BY <1>0, <1>3, ReadType, ReadRange
  <1>5. o < k
    <2>1. TooMany(slots[i])
      BY <1>0, <1>1 DEF TsInv, StoreInv, PlaceInv
    <2> QED BY <1>0, <1>2, <2>1, TsConstants, SMTT(20) DEF TooMany
  <1>6. \/ UNCHANGED <<disk, slots, gone>> /\ "unlink" \in Faults
        \/ /\ disk' = [disk EXCEPT ![s] = [n \in DOMAIN disk[s] \ {o} |-> disk[s][n]]]
           /\ gone' = gone \cup (Range(FileAt(s, o).recs) \ {Bad})
           /\ slots' = [slots EXCEPT ![i] = [slots[i] EXCEPT !.oldest = o + 1]]
           /\ fails' = fails
    BY <1>0 DEF DiscardOldest, Fault
  <1>7. CASE UNCHANGED <<disk, slots, gone>> /\ "unlink" \in Faults
    BY <1>1, <1>4, <1>7, SameUntouched
  <1>8. CASE /\ disk' = [disk EXCEPT ![s] = [n \in DOMAIN disk[s] \ {o} |-> disk[s][n]]]
             /\ gone' = gone \cup (Range(FileAt(s, o).recs) \ {Bad})
             /\ slots' = [slots EXCEPT ![i] = [slots[i] EXCEPT !.oldest = o + 1]]
             /\ fails' = fails
    <2>1. DOMAIN disk = Streams
      BY <1>2 DEF FilesOK
    <2>2. PICK fs, gs : fs = disk[s] /\ gs = disk'[s]
      OBVIOUS
    <2>3. gs = [n \in DOMAIN fs \ {o} |-> fs[n]]
      BY <1>2, <1>8, <2>1, <2>2
    <2>4. \A u \in Streams : u # s => disk'[u] = disk[u]
      BY <1>8, <2>1
    <2>5. FileSet(fs) /\ \E m \in Nat : UpTo(fs, m)
      BY <1>2, <2>2, FilesOf
    <2>6. FileSet(gs) /\ \E m \in Nat : UpTo(gs, m)
      BY <2>3, <2>5 DEF FileSet, UpTo
    <2>7. StoredSplits(fs, gs, o)
      <3>1. PICK x \in Nat, y \in Nat : UpTo(fs, x) /\ UpTo(gs, y)
        BY <2>5, <2>6
      <3>2. /\ \A n \in Nat : n # o => (n \in DOMAIN fs <=> n \in DOMAIN gs)
            /\ \A n \in DOMAIN fs : n # o => gs[n] = fs[n]
        BY <2>3
      <3> QED BY <1>2, <2>5, <2>6, <3>1, <3>2, StoredChange
    <2>8. Read(Held(fs, o)) = b /\ Read(Held(gs, o)) = <<>>
      BY <1>3, <1>4, <2>2, <2>3 DEF Held, FileAt, Read, EmptyFile
    <2>9. PICK p \in Seq(Samples), q \in Seq(Samples) :
             /\ StoredIn(fs) = Cat(p, Cat(b, q)) /\ StoredIn(gs) = Cat(p, Cat(<<>>, q)) /\ p = <<>>
      BY <1>2, <2>2, <2>7, <2>8 DEF StoredSplits
    <2>10. StoredIn(fs) = Cat(b, StoredIn(gs))
      <3>1. Cat(b, q) \in Seq(Samples) /\ Cat(<<>>, q) = q
        BY <1>4, CatType, CatEmpty
      <3>2. Cat(<<>>, Cat(b, q)) = Cat(b, q)
        BY <3>1, CatEmpty
      <3> QED BY <2>9, <3>1, <3>2, Zenon
    <2>11. PICK x : x = [slots[i] EXCEPT !.oldest = o + 1]
      OBVIOUS
    <2>12. /\ x.cur = k /\ x.name = s /\ x.used = slots[i].used /\ x.scanned /\ x.oldest = o + 1
           /\ x.buf = slots[i].buf
      BY <1>0, <1>2, <2>11 DEF Slot
    <2>13. slots'[i] = x /\ \A j \in Slots : j # i => slots'[j] = slots[j]
      BY <1>2, <1>8, <2>11
    <2>14. \A j \in Slots : /\ slots'[j].used = slots[j].used /\ slots'[j].name = slots[j].name
                            /\ slots'[j].buf = slots[j].buf
      <3> SUFFICES ASSUME NEW j \in Slots
                   PROVE  /\ slots'[j].used = slots[j].used /\ slots'[j].name = slots[j].name
                          /\ slots'[j].buf = slots[j].buf
        OBVIOUS
      <3>1. CASE j = i
        BY <1>0, <2>12, <2>13, <3>1
      <3>2. CASE j # i
        BY <2>13, <3>2
      <3> QED BY <3>1, <3>2
    <2>15. \A u : OpenIn(slots', u) = OpenIn(slots, u) /\ RamIn(slots', u) = RamIn(slots, u)
      BY <2>14, RamSame
    <2>16. FileInv'
      <3>1. DOMAIN disk'[s] = DOMAIN disk[s] \ {o} /\ disk'[s][k] = disk[s][k]
        BY <1>2, <1>5, <2>2, <2>3, SMTT(20)
      <3>2. \A n \in DOMAIN disk'[s] : o + 1 <= n /\ n <= k
        BY <1>2, <3>1
      <3>3. k \in DOMAIN disk'[s]
        BY <1>2, <1>5, <3>1
      <3>4. Covers(slots'[i], disk'[slots'[i].name])
        BY <1>2, <2>12, <2>13, <3>1, <3>2, <3>3 DEF Covers
      <3> QED BY <1>0, <1>2, <2>4, <2>13, <3>4, FileOther, SMTT(30)
    <2>17. Discarded(s, b)
      <3>1. Readable(s) = Cat(b, Readable(s)')
        BY <2>2, <2>10, ReadableIs
      <3>2. \A u \in Streams : u # s => Readable(u)' = Readable(u)
        BY <2>4, ReadableIs
      <3>3. \A u \in Streams : InRam(u)' = InRam(u) /\ Open(u)' = Open(u)
        BY <2>15, InRamIs
      <3>4. gone' = gone \cup Range(b)
        BY <1>3, <1>4, <1>8
      <3> QED BY <1>2, <3>1, <3>2, <3>3, <3>4 DEF Discarded
    <2> QED BY <1>1, <1>4, <1>8, <2>16, <2>17
  <1> QED BY <1>6, <1>7, <1>8

LEMMA DiscardKept ==
  ASSUME LogAssumptions, TsInv, TsInv', LogInv, NEW a \in Actors, DiscardOldest(a)
  PROVE  LogInv'
  <1>0. PICK s, b : s = slots[at[a]].name /\ b = Read(FileAt(s, slots[at[a]].oldest))
    OBVIOUS
  <1>1. /\ UNCHANGED <<log, made>> /\ b \in Seq(Samples)
        /\ Untouched \/ (Discarded(s, b) /\ FileInv')
    BY <1>0, DiscardView DEF LogInv
  <1>2. CASE Untouched
    BY <1>2, UntouchedStep
  <1>3. CASE Discarded(s, b) /\ FileInv'
    <2>1. s \in Streams
      BY <1>3 DEF Discarded
    <2>2. PICK d \in Seq(Samples), r \in Seq(Samples) : d = Readable(s)' /\ r = InRam(s)
      <3>1. FilesOK(disk')
        BY DEF TsInv, StoreInv, TypeOK, BoundInv, FilesOK
      <3>2. Readable(s)' \in Seq(Samples)
        BY <2>1, <3>1, FilesOf, ReadableIs
      <3> QED BY <2>1, <3>2, RamType
    <2>3. PICK c \in Seq(Samples), e \in Seq(Samples), Z \in {Range(b)} :
             c = Cat(d, r) /\ e = <<>> /\ Z = Range(b)
      BY CatType, EmptySeq
    <2>4. Only(log[s], Samples \ gone) = Cat(e, Cat(b, c))
      <3>1. Cat(Cat(b, d), r) = Cat(b, Cat(d, r))
        BY <1>1, CatAssoc
      <3>2. Cat(e, Cat(b, c)) = Cat(b, c)
        <4>1. Cat(b, c) \in Seq(Samples)
          BY <1>1, CatType
        <4> QED BY <2>3, <4>1, CatEmpty
      <3>3. Only(log[s], Samples \ gone) = Cat(Cat(b, d), r)
        BY <1>3, <2>1, <2>2 DEF LogInv, KeptInv, Discarded
      <3> QED BY <2>3, <3>1, <3>2, <3>3, Zenon
    <2>5. Lost(s, e, b, c, Z)
      BY <1>1, <2>1, <2>3, <2>4, Loses DEF LogInv
    <2>6. Only(b, Samples \ Z) = <<>>
      BY <1>1, <2>3, OnlyNone
    <2>7. Only(log[s], Samples \ (gone \cup Z)) = c
      <3>1. Only(log[s], Samples \ (gone \cup Z)) = Cat(e, Cat(e, c))
        BY <2>3, <2>5, <2>6 DEF Lost
      <3>2. Cat(e, c) = c
        BY <2>3, CatEmpty
      <3> QED BY <3>1, <3>2, Zenon
    <2>8. gone' = gone \cup Z /\ log' = log
      BY <1>1, <1>3, <2>3 DEF Discarded
    <2>9. HistInv'
      BY <1>1, <2>5, <2>8, HistSame DEF LogInv, Lost
    <2>10. ASSUME NEW u \in Streams
           PROVE  Cat(Readable(u)', InRam(u)') = Only(log'[u], Samples \ gone')
      <3>1. CASE u = s
        <4>1. InRam(s)' = r
          BY <1>3, <2>1, <2>2 DEF Discarded
        <4> QED BY <2>2, <2>3, <2>7, <2>8, <3>1, <4>1, Zenon
      <3>2. CASE u # s
        <4>1. Cat(Readable(u), InRam(u)) = Only(log[u], Samples \ gone)
          BY DEF LogInv, KeptInv
        <4>2. Only(log[u], Samples \ (gone \cup Z)) = Only(log[u], Samples \ gone)
          BY <2>5, <3>2 DEF Lost
        <4>3. Readable(u)' = Readable(u) /\ InRam(u)' = InRam(u)
          BY <1>3, <3>2 DEF Discarded
        <4> QED BY <2>8, <4>1, <4>2, <4>3, Zenon
      <3> QED BY <3>1, <3>2
    <2>11. KeptInv'
      BY <2>10 DEF KeptInv, Cat
    <2> QED BY <1>3, <2>9, <2>11 DEF LogInv
  <1> QED BY <1>1, <1>2, <1>3

--------------------------------------------------------------------------------
(* recover_stream() *)

Pieces(T, r, a, m, b, n) ==
  /\ a \in Seq(T) /\ b \in Seq(T) /\ r \in Seq(T) /\ m \in Nat /\ n \in Nat
  /\ m = Len(a) /\ n = Len(b) /\ Len(r) = m + n
  /\ \A i \in 1..m : r[i] = a[i]
  /\ \A i \in 1..n : r[m + i] = b[i]
LEMMA CatIs ==
  ASSUME NEW T, NEW r, NEW a, NEW m, NEW b, NEW n, Pieces(T, r, a, m, b, n)
  PROVE  r = Cat(a, b)
  <1> USE DEF Pieces
  <1>1. PICK c : c = a \o b
    OBVIOUS
  <1>2. /\ c \in Seq(T) /\ Len(c) = m + n
        /\ \A i \in 1..m : c[i] = a[i]
        /\ \A i \in 1..n : c[m + i] = b[i]
    BY <1>1, ConcatProperties
  <1>3. ASSUME NEW i \in 1..(m + n) PROVE c[i] = r[i]
    <2>1. CASE i \in 1..m
      BY <1>2, <2>1
    <2>2. CASE i \notin 1..m
      <3>1. PICK j \in 1..n : i = m + j
        <4>1. i - m \in 1..n /\ i = m + (i - m)
          BY <2>2
        <4> QED BY <4>1
      <3> QED BY <1>2, <3>1
    <2> QED BY <2>1, <2>2
  <1>4. c = r
    BY <1>2, <1>3, SeqEqual
  <1> QED BY <1>1, <1>4 DEF Cat

(* The records of r up to the n-th are a, those behind it b. *)
CutAt(r, n, a, b) ==
  /\ a \in Seq(Records) /\ b \in Seq(Records) /\ r = Cat(a, b)
  /\ Len(a) = n /\ \A i \in 1..n : a[i] = r[i]
  /\ Len(b) = Len(r) - n /\ \A i \in 1..(Len(r) - n) : b[i] = r[n + i]

LEMMA SplitSeq ==
  ASSUME NEW r \in Seq(Records), NEW n \in 0..Len(r)
  PROVE  CutAt(r, n, SubSeq(r, 1, n), SubSeq(r, n + 1, Len(r)))
  <1>1. PICK l \in Nat : l = Len(r)
    BY LenProperties
  <1>2. n \in Nat /\ n \in 0..l
    BY <1>1
  <1>3. PICK a, b : a = SubSeq(r, 1, n) /\ b = SubSeq(r, n + 1, Len(r))
    OBVIOUS
  <1>4. a \in Seq(Records) /\ Len(a) = n /\ \A i \in 1..n : a[i] = r[i]
    BY <1>1, <1>2, <1>3, SubSeqProperties
  <1>5. b \in Seq(Records) /\ Len(b) = l - n /\ \A i \in 1..(l - n) : b[i] = r[n + i]
    BY <1>1, <1>2, <1>3, SubSeqProperties
  <1>6. PICK k \in Nat : k = l - n /\ l = n + k
    BY <1>2
  <1>7. r = Cat(a, b)
    <2>1. a \in Seq(Records) /\ b \in Seq(Records) /\ n = Len(a) /\ k = Len(b) /\ Len(r) = n + k
      BY <1>1, <1>4, <1>5, <1>6
    <2>2. /\ \A i \in 1..n : r[i] = a[i]
          /\ \A i \in 1..k : r[n + i] = b[i]
      BY <1>4, <1>5, <1>6
    <2>3. Pieces(Records, r, a, n, b, k)
      BY <1>2, <2>1, <2>2 DEF Pieces
    <2> QED BY <1>2, <2>3, CatIs
  <1>8. CutAt(r, n, a, b)
    BY <1>1, <1>4, <1>5, <1>7 DEF CutAt
  <1> QED BY <1>3, <1>8

LEMMA GoodSplit ==
  ASSUME NEW r \in Seq(Records), NEW g, g = GoodPrefix(r)
  PROVE  /\ g \in 0..Len(r) /\ \A i \in 1..g : r[i] # Bad
         /\ g < Len(r) => r[g + 1] = Bad
  <1> DEFINE G == {n \in 0..Len(r) : \A i \in 1..n : r[i] # Bad}
  <1>1. G \in SUBSET Nat /\ 0 \in G /\ Len(r) \in Nat /\ \A n \in G : n <= Len(r)
    BY LenProperties
  <1>2. Highest(G) \in G /\ \A j \in G : Highest(G) >= j
    <2> HIDE DEF G
    <2> QED BY <1>1, HighestIsGreatest
  <1>3. g = Highest(G)
    BY DEF GoodPrefix
  <1>4. g \in G /\ \A j \in G : g >= j
    BY <1>2, <1>3
  <1>5. g \in 0..Len(r) /\ \A i \in 1..g : r[i] # Bad
    BY <1>4
  <1>6. ASSUME g < Len(r), r[g + 1] # Bad PROVE FALSE
    <2>1. g + 1 \in 0..Len(r)
      BY <1>1, <1>5, <1>6
    <2>2. \A i \in 1..(g + 1) : r[i] # Bad
      BY <1>1, <1>5, <1>6
    <2>3. g + 1 \in G
      BY <2>1, <2>2
    <2> QED BY <1>1, <1>4, <2>3
  <1> QED BY <1>5, <1>6

(* What the recovery of records r cuts off, as far as it is readable. *)
CutOff(r) == Only(SubSeq(r, GoodPrefix(r) + 1, Len(r)), Samples)
CutsOff(r, a, l) ==
  /\ a \in Seq(Records) /\ Bad \notin Range(a) /\ l \in Seq(Samples)
  /\ Only(r, Samples) = Cat(Only(a, Samples), l)
  /\ Range(l) = {r[j] : j \in {k \in 1..Len(r) : BehindBad(r, k)}} \ {Bad}
  /\ Bad \notin Range(r) => l = <<>> /\ a = r

LEMMA BehindIs ==
  ASSUME NEW r \in Seq(Records), NEW g \in Nat, NEW m \in Nat, m = Len(r), g <= m,
         \A i \in 1..g : r[i] # Bad, g < m => r[g + 1] = Bad
  PROVE  {r[j] : j \in {k \in 1..m : BehindBad(r, k)}} \ {Bad}
           = {r[g + i] : i \in 1..(m - g)} \ {Bad}
  <1>1. ASSUME NEW k \in 1..m, r[k] # Bad PROVE BehindBad(r, k) <=> k > g
    <2>1. ASSUME BehindBad(r, k) PROVE k > g
      <3>1. PICK i \in 1..(k - 1) : r[i] = Bad
        BY <2>1 DEF BehindBad
      <3>2. i \notin 1..g
        BY <3>1
      <3> QED BY <3>2
    <2>2. ASSUME k > g PROVE BehindBad(r, k)
      <3>1. g < m /\ r[g + 1] = Bad
        BY <2>2
      <3>2. k # g + 1
        BY <1>1, <3>1
      <3>3. g + 1 \in 1..(k - 1)
        BY <2>2, <3>2
      <3> QED BY <3>1, <3>3 DEF BehindBad
    <2> QED BY <2>1, <2>2
  <1>2. ASSUME NEW x, x # Bad
        PROVE  (\E k \in 1..m : BehindBad(r, k) /\ x = r[k]) <=> (\E i \in 1..(m - g) : x = r[g + i])
    <2>1. ASSUME NEW k \in 1..m, BehindBad(r, k), x = r[k] PROVE \E i \in 1..(m - g) : x = r[g + i]
      <3>1. k > g
        BY <1>1, <1>2, <2>1
      <3>2. k - g \in 1..(m - g) /\ g + (k - g) = k
        BY <3>1
      <3> QED BY <2>1, <3>2
    <2>2. ASSUME NEW i \in 1..(m - g), x = r[g + i] PROVE \E k \in 1..m : BehindBad(r, k) /\ x = r[k]
      <3>1. PICK k : k = g + i
        OBVIOUS
      <3>2. k \in 1..m /\ k > g /\ x = r[k]
        BY <2>2, <3>1
      <3>3. BehindBad(r, k)
        BY <1>1, <1>2, <3>2
      <3> QED BY <3>2, <3>3
    <2> QED BY <2>1, <2>2
  <1>3. \A x : x \in {r[j] : j \in {k \in 1..m : BehindBad(r, k)}} <=> \E k \in 1..m : BehindBad(r, k) /\ x = r[k]
    OBVIOUS
  <1>4. \A x : x \in {r[g + i] : i \in 1..(m - g)} <=> \E i \in 1..(m - g) : x = r[g + i]
    OBVIOUS
  <1> DEFINE A == {r[j] : j \in {k \in 1..m : BehindBad(r, k)}}
             B == {r[g + i] : i \in 1..(m - g)}
             InA(x) == \E k \in 1..m : BehindBad(r, k) /\ x = r[k]
             InB(x) == \E i \in 1..(m - g) : x = r[g + i]
  <1>5. /\ \A x : x \in A <=> InA(x)
        /\ \A x : x \in B <=> InB(x)
        /\ \A x : x # Bad => (InA(x) <=> InB(x))
    BY <1>2, <1>3, <1>4, Zenon
  <1> HIDE DEF A, B, InA, InB
  <1>6. A \ {Bad} = B \ {Bad}
    BY <1>5
  <1> QED BY <1>6 DEF A, B

LEMMA CutOffIs ==
  ASSUME NEW r \in Seq(Records)
  PROVE  CutsOff(r, SubSeq(r, 1, GoodPrefix(r)), CutOff(r))
  <1>0. PICK g, a, b, l, m : /\ g = GoodPrefix(r) /\ a = SubSeq(r, 1, g)
                             /\ b = SubSeq(r, g + 1, Len(r)) /\ l = Only(b, Samples) /\ m = Len(r)
    OBVIOUS
  <1>1. /\ g \in 0..Len(r) /\ \A i \in 1..g : r[i] # Bad
        /\ g < Len(r) => r[g + 1] = Bad
    BY <1>0, GoodSplit
  <1>2. CutAt(r, g, a, b)
    BY <1>0, <1>1, SplitSeq
  <1>3. m \in Nat /\ g \in Nat /\ g <= m
    BY <1>0, <1>1, LenProperties
  <1>4. /\ Len(a) = g /\ \A i \in 1..g : a[i] = r[i]
        /\ Len(b) = m - g /\ \A i \in 1..(m - g) : b[i] = r[g + i]
    BY <1>0, <1>2 DEF CutAt
  <1>5. a \in Seq(Records) /\ b \in Seq(Records)
    BY <1>2 DEF CutAt
  <1>6. r = Cat(a, b)
    BY <1>2 DEF CutAt
  <1>7. l = Only(b, Samples)
    BY <1>0
  <1>8. l \in Seq(Samples) /\ Range(l) = Range(b) \cap Samples
    BY <1>5, <1>7, OnlyIn, OnlyRange
  <1>9. Only(r, Samples) = Cat(Only(a, Samples), l)
    <2>1. Only(Cat(a, b), Samples) = Cat(Only(a, Samples), Only(b, Samples))
      BY <1>5, CatOnly
    <2> QED BY <1>6, <1>7, <2>1, Zenon
  <1>10. /\ Range(a) = {a[i] : i \in 1..g} /\ Range(b) = {b[i] : i \in 1..(m - g)}
        /\ Range(r) = {r[i] : i \in 1..m} /\ Range(b) \subseteq Records
    <2>1. /\ Range(a) = {a[i] : i \in 1..Len(a)} /\ Range(b) = {b[i] : i \in 1..Len(b)}
          /\ Range(r) = {r[i] : i \in 1..Len(r)} /\ Range(b) \subseteq Records
      BY <1>5, RangeIs
    <2>2. Len(r) = m
      BY <1>0
    <2> QED BY <1>4, <2>1, <2>2
  <1>11. Bad \notin Range(a)
    BY <1>1, <1>4, <1>10
  <1>12. Range(l) = {r[j] : j \in {k \in 1..m : BehindBad(r, k)}} \ {Bad}
    <2>1. Range(b) = {r[g + i] : i \in 1..(m - g)}
      <3>1. Range(b) = {b[i] : i \in 1..(m - g)} /\ \A i \in 1..(m - g) : b[i] = r[g + i]
        BY <1>4, <1>10
      <3> QED BY <3>1
    <2>2. Range(b) \cap Samples = Range(b) \ {Bad}
      BY <1>10, SamplesNat DEF Records
    <2>3. {r[j] : j \in {k \in 1..m : BehindBad(r, k)}} \ {Bad}
           = {r[g + i] : i \in 1..(m - g)} \ {Bad}
      BY <1>0, <1>1, <1>3, BehindIs, ZenonT(30)
    <2> QED BY <1>8, <2>1, <2>2, <2>3, Zenon
  <1>13. ASSUME Bad \notin Range(r) PROVE l = <<>> /\ a = r
    <2>1. g = m
      BY <1>0, <1>1, <1>3, <1>10, <1>13
    <2>2. b = <<>>
      BY <1>3, <1>4, <1>5, <2>1, EmptySeq
    <2>3. l = <<>>
      BY <1>0, <2>2, OnlyEmpty
    <2>4. a = r
      BY <1>5, <1>6, <2>2, CatEmpty
    <2> QED BY <2>3, <2>4
  <1>14. CutsOff(r, a, l)
    <2>1. m = Len(r)
      BY <1>0
    <2> QED BY <1>8, <1>9, <1>11, <1>12, <1>13, <1>5, <2>1 DEF CutsOff
  <1> QED BY <1>0, <1>14 DEF CutOff

(* Stream s, with slot i and newest file n, is recovered from f to g. *)
Recovers(s, i, n, f, g, x) ==
  /\ s \in Streams /\ i \in Slots /\ slots[i] \in Slot /\ slots[i].used /\ slots[i].name = s
  /\ Open(s) = {i}
  /\ n = (IF slots[i].scanned THEN slots[i].cur ELSE Highest(Window(s))) /\ n \in Nat
  /\ f = (IF FileAt(s, n) = EmptyFile THEN NewSegment ELSE FileAt(s, n)) /\ f \in Segment /\ f.hdr
  /\ g = [f EXCEPT !.recs = SubSeq(f.recs, 1, GoodPrefix(f.recs)), !.torn = FALSE]
  /\ x = scan_segments(slots[i], s, f)
  /\ disk' = Put(s, n, g) /\ slots' = [slots EXCEPT ![i] = x]
  /\ gone' = gone \cup
       ({f.recs[j] : j \in {k \in 1..Len(f.recs) : BehindBad(f.recs, k)}} \ {Bad})
  /\ UNCHANGED <<log, made, boots, fails>>
(* The newest file of a stream has no header, and is not empty: nothing happens. *)
Refused ==
  /\ UNCHANGED <<disk, slots, gone, log, made, boots, fails>>
  /\ \E s \in Streams : \E n \in DOMAIN disk[s] : ~disk[s][n].hdr /\ disk[s][n] # EmptyFile
LEMMA RecoverCases ==
  ASSUME TsInv, NEW t \in Threads, OpenRecover(t)
  PROVE  (\E s, i, n, f, g, x : Recovers(s, i, n, f, g, x)) \/ Refused \/ Fault("header")
  <1> USE DEF TsInv, StoreInv
  <1>1. pc[t] = "recover" /\ UNCHANGED <<made, boots, log>>
    BY DEF OpenRecover
  <1>2. slots \in [Slots -> Slot] /\ hd \in [Threads -> Streams \cup {NoStream}]
    BY DEF TypeOK
  <1>3. PICK s \in Streams : s = hd[t] /\ s # NoStream
    <2>1. hd[t] # NoStream
      BY <1>1 DEF ControlInv
    <2> QED BY <1>2, <2>1
  <1>4. PICK i \in Slots : i = slot_find(s) /\ Open(s) = {i} /\ slots[i].used /\ slots[i].name = s
    <2>1. Open(s) # {}
      BY <1>1, <1>3 DEF SlotInv
    <2>2. slot_find(s) \in Open(s)
      BY <2>1, FindSlot
    <2> QED BY <2>2, OpenOne
  <1>5. i # 0 /\ slots[i] \in Slot /\ slots[i].cur \in Nat
    <2>1. i # 0
      BY <1>4 DEF Slots
    <2>2. slots[i] \in Slot
      BY <1>2, <1>4
    <2> QED BY <2>1, <2>2 DEF Slot
  <1> DEFINE n == IF slots[i].scanned THEN slots[i].cur ELSE Highest(Window(s))
             F(u, m) == IF FileAt(u, m) = EmptyFile THEN NewSegment ELSE FileAt(u, m)
             G(f) == [f EXCEPT !.recs = SubSeq(f.recs, 1, GoodPrefix(f.recs)), !.torn = FALSE]
             Cuts(r) == {r[j] : j \in {k \in 1..Len(r) : BehindBad(r, k)}} \ {Bad}
             Effect(u, k, m) ==
               \/ /\ k # 0 /\ F(u, m).hdr
                  /\ disk' = Put(u, m, G(F(u, m)))
                  /\ slots' = [slots EXCEPT ![k] = scan_segments(@, u, F(u, m))]
                  /\ gone' = gone \cup Cuts(F(u, m).recs) /\ UNCHANGED fails
               \/ (k = 0 \/ ~F(u, m).hdr) /\ UNCHANGED <<disk, slots, gone, fails>>
               \/ Fault("header")
             N(u, k) == IF k # 0 /\ slots[k].scanned THEN slots[k].cur ELSE Highest(Window(u))
  <1>6. Effect(s, i, n)
    <2>1. Effect(hd[t], slot_find(hd[t]), N(hd[t], slot_find(hd[t])))
      BY Zenon DEF OpenRecover
    <2>2. slot_find(hd[t]) = i /\ hd[t] = s /\ i # 0
      BY <1>3, <1>4, <1>5
    <2>3. N(s, i) = n
      BY <2>2
    <2> HIDE DEF Effect, N, n
    <2> QED BY <2>1, <2>2, <2>3
  <1>7. n \in Nat
    <2>1. Highest(Window(s)) \in Nat
      BY WindowEnds
    <2> QED BY <1>5, <2>1
  <1>8. PICK m, f : m = n /\ f = F(s, m)
    OBVIOUS
  <1>9. f \in Segment /\ (~f.hdr => m \in DOMAIN disk[s] /\ f = disk[s][m] /\ f # EmptyFile)
    <2>1. FileAt(s, m) \in Segment
      BY FileType
    <2>2. f \in Segment
      BY <1>8, <2>1, NewFiles
    <2>3. CASE FileAt(s, m) = EmptyFile
      BY <1>8, <2>3, NewFiles
    <2>4. CASE FileAt(s, m) # EmptyFile
      BY <1>8, <2>2, <2>4 DEF FileAt
    <2> QED BY <2>2, <2>3, <2>4
  <1>10. \/ /\ f.hdr /\ disk' = Put(s, m, G(f))
            /\ slots' = [slots EXCEPT ![i] = scan_segments(slots[i], s, f)]
            /\ gone' = gone \cup Cuts(f.recs) /\ UNCHANGED fails
         \/ ~f.hdr /\ UNCHANGED <<disk, slots, gone, fails>>
         \/ Fault("header")
    <2> HIDE DEF n, G, Cuts
    <2> QED BY <1>5, <1>6, <1>8
  <1>11. ASSUME ~f.hdr, UNCHANGED <<disk, slots, gone, fails>> PROVE Refused
    BY <1>1, <1>9, <1>11 DEF Refused
  <1>12. ASSUME f.hdr, disk' = Put(s, m, G(f)),
                slots' = [slots EXCEPT ![i] = scan_segments(slots[i], s, f)],
                gone' = gone \cup Cuts(f.recs), UNCHANGED fails
         PROVE  Recovers(s, i, m, f, G(f), scan_segments(slots[i], s, f))
    <2>1. m = (IF slots[i].scanned THEN slots[i].cur ELSE Highest(Window(s))) /\ m \in Nat
      BY <1>7, <1>8
    <2>2. f = (IF FileAt(s, m) = EmptyFile THEN NewSegment ELSE FileAt(s, m))
      BY <1>8
    <2> HIDE DEF n, F
    <2> QED BY <1>1, <1>4, <1>5, <1>9, <1>12, <2>1, <2>2, Zenon DEF Recovers
  <1> HIDE DEF G, Cuts
  <1> QED BY <1>10, <1>11, <1>12, Zenon

LEMMA RecoverIs ==
  ASSUME LogAssumptions, TsInv, NEW t \in Threads, OpenRecover(t)
  PROVE  \E s, i, n, f, g, x : Recovers(s, i, n, f, g, x)
  <1>1. ~Fault("header")
    BY DEF Fault, LogAssumptions
  <1>2. ~Refused
    BY DEF Refused, TsInv, StoreInv, HeaderInv, FilesHeaded, LogAssumptions
  <1> QED BY <1>1, <1>2, RecoverCases

(* The stream s loses l, the newest of its stored samples. *)
Recovered(s, l) ==
  /\ s \in Streams /\ Open(s) # {}
  /\ Readable(s) = Cat(Readable(s)', l)
  /\ \A u \in Streams : u # s => Readable(u)' = Readable(u)
  /\ \A u \in Streams : InRam(u)' = InRam(u) /\ Open(u)' = Open(u)
  /\ gone' = gone \cup Range(l)
  /\ l # <<>> => InRam(s) = <<>> /\ \E n \in DOMAIN disk[s] : Bad \in Range(disk[s][n].recs)

LEMMA RecoverView ==
  ASSUME LogAssumptions, TsInv, FileInv,
         NEW s, NEW i, NEW n, NEW f, NEW g, NEW x, Recovers(s, i, n, f, g, x),
         NEW l, l = CutOff(f.recs)
  PROVE  l \in Seq(Samples) /\ Recovered(s, l) /\ FileInv'
  <1>1. /\ s \in Streams /\ i \in Slots /\ slots[i] \in Slot /\ slots[i].used /\ slots[i].name = s
        /\ Open(s) = {i} /\ n \in Nat /\ f \in Segment /\ f.hdr
    BY DEF Recovers
  <1>2. disk' = Put(s, n, g) /\ slots' = [slots EXCEPT ![i] = x]
    BY DEF Recovers
  <1>0. PICK r, a : r = f.recs /\ a = SubSeq(r, 1, GoodPrefix(r))
    OBVIOUS
  <1>3. r \in Seq(Records) /\ r = f.recs /\ a = SubSeq(r, 1, GoodPrefix(r))
    BY <1>0, <1>1, SegmentType
  <1>4. CutsOff(r, a, l)
    BY <1>3, CutOffIs
  <1>5. /\ a \in Seq(Records) /\ Bad \notin Range(a) /\ l \in Seq(Samples)
        /\ Only(r, Samples) = Cat(Only(a, Samples), l)
        /\ Bad \notin Range(r) => l = <<>>
    BY <1>4 DEF CutsOff
  <1>6. gone' = gone \cup Range(l)
    <2>1. gone' = gone \cup ({r[j] : j \in {k \in 1..Len(r) : BehindBad(r, k)}} \ {Bad})
      <3>1. gone' = gone \cup ({f.recs[j] : j \in {k \in 1..Len(f.recs) : BehindBad(f.recs, k)}} \ {Bad})
        BY ZenonT(30) DEF Recovers
      <3> QED BY <1>3, <3>1, ZenonT(30)
    <2> QED BY <1>4, <2>1 DEF CutsOff
  <1>7. g \in Segment /\ g.hdr /\ ~g.torn /\ g.recs = a
    <2>1. g = [f EXCEPT !.recs = a, !.torn = FALSE]
      BY <1>3 DEF Recovers
    <2> QED BY <1>1, <1>5, <2>1 DEF Segment, Records
  <1>8. PICK e \in Seq(Samples) : e = Read(g)
    BY <1>7, ReadType
  <1>9. Read(f) = Cat(e, l)
    <2>1. Read(f) = Only(r, Samples) /\ Read(g) = Only(a, Samples)
      BY <1>1, <1>3, <1>7 DEF Read
    <2> QED BY <1>5, <1>8, <2>1, Zenon
  <1>10. \/ FileAt(s, n) = f /\ n \in DOMAIN disk[s] /\ disk[s][n] = f
         \/ Read(FileAt(s, n)) = <<>> /\ r = <<>>
    <2>1. f = (IF FileAt(s, n) = EmptyFile THEN NewSegment ELSE FileAt(s, n))
      BY DEF Recovers
    <2>2. CASE FileAt(s, n) = EmptyFile
      <3>1. Read(FileAt(s, n)) = <<>>
        BY <2>2 DEF Read, EmptyFile
      <3>2. f = NewSegment
        BY <2>1, <2>2
      <3>3. NewSegment.recs = <<>>
        BY DEF NewSegment, EmptyFile
      <3> QED BY <1>3, <3>1, <3>2, <3>3
    <2>3. CASE FileAt(s, n) # EmptyFile
      BY <2>1, <2>3 DEF FileAt
    <2> QED BY <2>2, <2>3
  <1>11. Read(FileAt(s, n)) = Cat(e, l)
    <2>1. CASE FileAt(s, n) = f
      BY <1>9, <2>1
    <2>2. CASE Read(FileAt(s, n)) = <<>> /\ r = <<>>
      <3>1. Read(f) = <<>>
        BY <1>1, <1>3, <2>2, OnlyEmpty DEF Read
      <3> QED BY <1>9, <2>2, <3>1
    <2> QED BY <1>10, <2>1, <2>2
  <1>12. /\ Written(disk', s, n, g) /\ WrittenSplits(disk', s, n, g)
    <2>1. FilesOK(disk)
      BY FilesNow DEF TsInv
    <2> QED BY <1>1, <1>2, <1>7, <2>1, PutStored
  <1>13. x.used = slots[i].used /\ x.name = s /\ x.buf = slots[i].buf /\ x.cur = n /\ x.scanned
         /\ x.oldest = (IF slots[i].scanned THEN slots[i].oldest ELSE Lowest(Window(s)))
    <2>1. x = scan_segments(slots[i], s, f)
          /\ n = (IF slots[i].scanned THEN slots[i].cur ELSE Highest(Window(s)))
      BY DEF Recovers
    <2>2. CASE slots[i].scanned
      BY <1>1, <2>1, <2>2 DEF scan_segments
    <2>3. CASE ~slots[i].scanned
      <3>1. PICK lo, hi, len : lo = Lowest(Window(s)) /\ hi = Highest(Window(s)) /\ len = Len(f.recs)
        OBVIOUS
      <3>2. x = [slots[i] EXCEPT !.scanned = TRUE, !.oldest = lo, !.cur = hi, !.bytes = len]
        BY <2>1, <2>3, <3>1 DEF scan_segments
      <3>3. x.used = slots[i].used /\ x.name = slots[i].name /\ x.buf = slots[i].buf /\ x.cur = hi
            /\ x.scanned /\ x.oldest = lo
        BY <1>1, <3>2 DEF Slot
      <3> QED BY <1>1, <2>1, <2>3, <3>1, <3>3
    <2> QED BY <2>2, <2>3
  <1>14. /\ \A m \in DOMAIN disk[s] : x.oldest <= m /\ m <= n
         /\ x.oldest <= n
         /\ slots[i].scanned => Bad \notin Range(r)
    <2>1. n = (IF slots[i].scanned THEN slots[i].cur ELSE Highest(Window(s)))
      BY DEF Recovers
    <2>2. CASE slots[i].scanned
      <3>1. Covers(slots[i], disk[s]) /\ n = slots[i].cur /\ x.oldest = slots[i].oldest
        BY <1>1, <1>13, <2>1, <2>2 DEF FileInv
      <3>2. Bad \notin Range(disk[s][n].recs) /\ n \in DOMAIN disk[s]
        BY <3>1 DEF Covers
      <3>3. Bad \notin Range(r)
        BY <1>3, <1>10, <3>2, RangeEmpty
      <3> QED BY <3>1, <3>2, <3>3 DEF Covers
    <2>3. CASE ~slots[i].scanned
      <3>1. n = Highest(Window(s)) /\ x.oldest = Lowest(Window(s))
        BY <1>13, <2>1, <2>3
      <3>2. \A m \in DOMAIN disk[s] : m \in Window(s)
        BY DEF Window
      <3>3. n \in Window(s) /\ \A m \in Window(s) : x.oldest <= m /\ m <= n
        BY <1>1, <3>1, WindowEnds DEF TsInv, StoreInv
      <3> QED BY <2>3, <3>2, <3>3
    <2> QED BY <2>2, <2>3
  <1>15. StoredIn(disk[s]) = Cat(StoredIn(disk'[s]), l)
    <2>1. PICK p \in Seq(Samples), q \in Seq(Samples) :
             /\ StoredIn(disk[s]) = Cat(p, Cat(Read(FileAt(s, n)), q))
             /\ StoredIn(disk'[s]) = Cat(p, Cat(Read(g), q))
             /\ (\A m \in DOMAIN disk[s] : m <= n) => q = <<>>
      BY <1>12 DEF WrittenSplits
    <2>2. q = <<>>
      BY <1>14, <2>1
    <2>3. StoredIn(disk[s]) = Cat(p, Cat(e, l)) /\ StoredIn(disk'[s]) = Cat(p, e)
      <3>1. Cat(e, <<>>) = e
        BY CatEmpty
      <3>2. Cat(Cat(e, l), <<>>) = Cat(e, l)
        BY <1>5, CatType, CatEmpty
      <3> QED BY <1>8, <1>11, <2>1, <2>2, <3>1, <3>2, Zenon
    <2>4. Cat(p, Cat(e, l)) = Cat(Cat(p, e), l)
      BY <1>5, CatAssoc
    <2> QED BY <2>3, <2>4, Zenon
  <1>16. \A u \in Streams : u # s => disk'[u] = disk[u]
    BY <1>12 DEF Written
  <1>17. slots'[i] = x /\ \A j \in Slots : j # i => slots'[j] = slots[j]
    <2>1. slots \in [Slots -> Slot]
      BY DEF TsInv, StoreInv, TypeOK
    <2> QED BY <1>1, <1>2, <2>1
  <1>18. \A j \in Slots : /\ slots'[j].used = slots[j].used /\ slots'[j].name = slots[j].name
                          /\ slots'[j].buf = slots[j].buf
    <2> SUFFICES ASSUME NEW j \in Slots
                 PROVE  /\ slots'[j].used = slots[j].used /\ slots'[j].name = slots[j].name
                        /\ slots'[j].buf = slots[j].buf
      OBVIOUS
    <2>1. CASE j = i
      BY <1>1, <1>13, <1>17, <2>1
    <2>2. CASE j # i
      BY <1>17, <2>2
    <2> QED BY <2>1, <2>2
  <1>19. \A u : OpenIn(slots', u) = OpenIn(slots, u) /\ RamIn(slots', u) = RamIn(slots, u)
    BY <1>18, RamSame
  <1>20. FileInv'
    <2>1. DOMAIN disk'[s] = DOMAIN disk[s] \cup {n} /\ disk'[s][n] = g
      BY <1>12 DEF Written
    <2>2. n <= n
      BY <1>1
    <2>3. Covers(slots'[i], disk'[slots'[i].name])
      BY <1>5, <1>7, <1>13, <1>14, <1>17, <2>1, <2>2 DEF Covers
    <2> QED BY <1>1, <1>16, <1>17, <2>3, FileOther
  <1>21. ASSUME l # <<>> PROVE InRam(s) = <<>> /\ \E m \in DOMAIN disk[s] : Bad \in Range(disk[s][m].recs)
    <2>1. Bad \in Range(r) /\ ~slots[i].scanned
      BY <1>5, <1>14, <1>21
    <2>2. slots[i].buf = <<>>
      BY <1>1, <2>1 DEF TsInv, StoreInv, SlotInv
    <2>3. InRam(s) = <<>>
      BY <1>1, <2>2, SlotOf
    <2>4. n \in DOMAIN disk[s] /\ disk[s][n].recs = r
      BY <1>3, <1>10, <2>1, RangeEmpty
    <2> QED BY <2>1, <2>3, <2>4
  <1>22. Recovered(s, l)
    <2>1. Readable(s) = Cat(Readable(s)', l)
      BY <1>15, ReadableIs
    <2>2. \A u \in Streams : u # s => Readable(u)' = Readable(u)
      BY <1>16, ReadableIs
    <2>3. \A u \in Streams : InRam(u)' = InRam(u) /\ Open(u)' = Open(u)
      BY <1>19, InRamIs
    <2> QED BY <1>1, <1>6, <1>21, <2>1, <2>2, <2>3 DEF Recovered
  <1> QED BY <1>5, <1>20, <1>22

(* What is lost is the part b of what is kept of s. *)
LEMMA LossKept ==
  ASSUME TsInv, LogInv, FileInv', UNCHANGED <<log, made>>, NEW s \in Streams,
         NEW a \in Seq(Samples), NEW b \in Seq(Samples), NEW c \in Seq(Samples),
         Cat(Readable(s), InRam(s)) = Cat(a, Cat(b, c)),
         Cat(Readable(s)', InRam(s)') = Cat(a, c),
         \A u \in Streams : u # s => Readable(u)' = Readable(u) /\ InRam(u)' = InRam(u),
         gone' = gone \cup Range(b)
  PROVE  LogInv'
  <1>1. PICK Z : Z = Range(b)
    OBVIOUS
  <1>2. Only(log[s], Samples \ gone) = Cat(a, Cat(b, c))
    BY DEF LogInv, KeptInv
  <1>3. Lost(s, a, b, c, Z)
    BY <1>1, <1>2, Loses DEF LogInv
  <1>4. Only(b, Samples \ Z) = <<>>
    BY <1>1, OnlyNone
  <1>5. Only(log[s], Samples \ (gone \cup Z)) = Cat(a, c)
    <2>1. Only(log[s], Samples \ (gone \cup Z)) = Cat(a, Cat(<<>>, c))
      BY <1>3, <1>4 DEF Lost
    <2>2. Cat(<<>>, c) = c
      BY CatEmpty
    <2> QED BY <2>1, <2>2, Zenon
  <1>6. gone' = gone \cup Z /\ log' = log
    BY <1>1
  <1>7. HistInv'
    BY <1>3, <1>6, HistSame DEF LogInv, Lost
  <1>8. ASSUME NEW u \in Streams
        PROVE  Cat(Readable(u)', InRam(u)') = Only(log'[u], Samples \ gone')
    <2>1. CASE u = s
      BY <1>5, <1>6, <2>1, Zenon
    <2>2. CASE u # s
      <3>1. Cat(Readable(u), InRam(u)) = Only(log[u], Samples \ gone)
        BY DEF LogInv, KeptInv
      <3>2. Only(log[u], Samples \ (gone \cup Z)) = Only(log[u], Samples \ gone)
        BY <1>3, <2>2 DEF Lost
      <3>3. Readable(u)' = Readable(u) /\ InRam(u)' = InRam(u)
        BY <2>2
      <3> QED BY <1>6, <3>1, <3>2, <3>3, Zenon
    <2> QED BY <2>1, <2>2
  <1>9. KeptInv'
    BY <1>8 DEF KeptInv, Cat
  <1> QED BY <1>7, <1>9 DEF LogInv

LEMMA ReadableNext ==
  ASSUME TsInv', NEW s \in Streams
  PROVE  Readable(s)' \in Seq(Samples)
  <1>1. FilesOK(disk')
    BY DEF TsInv, StoreInv, TypeOK, BoundInv, FilesOK
  <1> QED BY <1>1, FilesOf, ReadableIs

LEMMA RecoverKept ==
  ASSUME LogAssumptions, TsInv, TsInv', LogInv, NEW t \in Threads, OpenRecover(t)
  PROVE  LogInv'
  <1>1. PICK s, i, n, f, g, x : Recovers(s, i, n, f, g, x)
    BY RecoverIs
  <1>2. PICK l : l = CutOff(f.recs)
    OBVIOUS
  <1>3. l \in Seq(Samples) /\ Recovered(s, l) /\ FileInv'
    BY <1>1, <1>2, RecoverView DEF LogInv
  <1>4. UNCHANGED <<log, made>>
    BY <1>1 DEF Recovers
  <1>5. s \in Streams /\ gone' = gone \cup Range(l)
    BY <1>3 DEF Recovered
  <1>6. PICK a \in Seq(Samples), c \in Seq(Samples) : a = Readable(s)' /\ c = InRam(s)
    BY <1>5, ReadableNext, RamType
  <1>7. InRam(s)' = c /\ Readable(s) = Cat(a, l)
    BY <1>3, <1>5, <1>6 DEF Recovered
  <1>8. Cat(Readable(s), InRam(s)) = Cat(a, Cat(l, c))
    <2>1. Cat(Cat(a, l), c) = Cat(a, Cat(l, c))
      BY <1>3, CatAssoc
    <2> QED BY <1>6, <1>7, <2>1, Zenon
  <1>9. Cat(Readable(s)', InRam(s)') = Cat(a, c)
    BY <1>6, <1>7, Zenon
  <1>10. \A u \in Streams : u # s => Readable(u)' = Readable(u) /\ InRam(u)' = InRam(u)
    BY <1>3 DEF Recovered
  <1> QED BY <1>3, <1>4, <1>5, <1>8, <1>9, <1>10, LossKept

--------------------------------------------------------------------------------
(* Stored bytes go bad *)

(* r and w have the member at one place for themselves, h and k. *)
Differ(r, w, a, h, k, b) ==
  /\ a \in Seq(Records) /\ h \in Seq(Records) /\ k \in Seq(Records) /\ b \in Seq(Records)
  /\ r = Cat(a, Cat(h, b)) /\ w = Cat(a, Cat(k, b))
OneApart(r, w, j) ==
  \E a, h, k, b : /\ Differ(r, w, a, h, k, b) /\ Len(h) = 1
                  /\ Range(h) = {r[j]} /\ Range(k) = {w[j]}
LEMMA OneDiffers ==
  ASSUME NEW r \in Seq(Records), NEW w \in Seq(Records), NEW m \in Nat, m = Len(r), m = Len(w),
         NEW j \in 1..m, \A i \in 1..m : i # j => w[i] = r[i]
  PROVE  OneApart(r, w, j)
  <1>1. PICK n \in Nat : j = n + 1 /\ n <= m
    <2>1. j - 1 \in Nat /\ j = j - 1 + 1 /\ j - 1 <= m
      OBVIOUS
    <2> QED BY <2>1
  <1>2. n \in 0..Len(r) /\ n \in 0..Len(w)
    BY <1>1
  <1>3. ASSUME NEW q \in Seq(Records), m = Len(q)
        PROVE  \E a, e, h, b : CutAt(q, n, a, e) /\ CutAt(e, 1, h, b)
    <2>1. n \in 0..Len(q)
      BY <1>1, <1>3
    <2>2. PICK a, e : CutAt(q, n, a, e)
      BY <2>1, SplitSeq
    <2>3. e \in Seq(Records) /\ Len(e) = m - n
      BY <1>3, <2>2 DEF CutAt
    <2>4. 1 \in 0..Len(e)
      BY <1>1, <2>3
    <2>5. PICK h, b : CutAt(e, 1, h, b)
      BY <2>3, <2>4, SplitSeq
    <2> QED BY <2>2, <2>5
  <1>4. PICK a, e, h, b : CutAt(r, n, a, e) /\ CutAt(e, 1, h, b)
    BY <1>3
  <1>5. PICK aa, ee, k, bb : CutAt(w, n, aa, ee) /\ CutAt(ee, 1, k, bb)
    BY <1>3
  <1>6. /\ Len(a) = n /\ \A i \in 1..n : a[i] = r[i]
        /\ Len(e) = m - n /\ \A i \in 1..(m - n) : e[i] = r[n + i]
        /\ Len(h) = 1 /\ h[1] = e[1]
        /\ Len(b) = Len(e) - 1 /\ \A i \in 1..(Len(e) - 1) : b[i] = e[1 + i]
    <2>1. /\ Len(a) = n /\ \A i \in 1..n : a[i] = r[i]
          /\ Len(e) = Len(r) - n /\ \A i \in 1..(Len(r) - n) : e[i] = r[n + i]
      BY <1>4 DEF CutAt
    <2>2. /\ Len(h) = 1 /\ \A i \in 1..1 : h[i] = e[i]
          /\ Len(b) = Len(e) - 1 /\ \A i \in 1..(Len(e) - 1) : b[i] = e[1 + i]
      BY <1>4 DEF CutAt
    <2>3. 1 \in 1..1 /\ Len(r) = m
      OBVIOUS
    <2> QED BY <2>1, <2>2, <2>3
  <1>7. /\ Len(aa) = n /\ \A i \in 1..n : aa[i] = w[i]
        /\ Len(ee) = m - n /\ \A i \in 1..(m - n) : ee[i] = w[n + i]
        /\ Len(k) = 1 /\ k[1] = ee[1]
        /\ Len(bb) = Len(ee) - 1 /\ \A i \in 1..(Len(ee) - 1) : bb[i] = ee[1 + i]
    <2>1. /\ Len(aa) = n /\ \A i \in 1..n : aa[i] = w[i]
          /\ Len(ee) = Len(w) - n /\ \A i \in 1..(Len(w) - n) : ee[i] = w[n + i]
      BY <1>5 DEF CutAt
    <2>2. /\ Len(k) = 1 /\ \A i \in 1..1 : k[i] = ee[i]
          /\ Len(bb) = Len(ee) - 1 /\ \A i \in 1..(Len(ee) - 1) : bb[i] = ee[1 + i]
      BY <1>5 DEF CutAt
    <2>3. 1 \in 1..1 /\ Len(w) = m
      OBVIOUS
    <2> QED BY <2>1, <2>2, <2>3
  <1>8. /\ a \in Seq(Records) /\ h \in Seq(Records) /\ b \in Seq(Records)
        /\ aa \in Seq(Records) /\ k \in Seq(Records) /\ bb \in Seq(Records)
    BY <1>4, <1>5 DEF CutAt
  <1>9. a = aa
    <2>1. \A i \in 1..n : i \in 1..m /\ i # j
      BY <1>1
    <2>2. Len(a) = Len(aa) /\ \A i \in 1..Len(a) : a[i] = aa[i]
      BY <1>6, <1>7, <2>1
    <2> QED BY <1>8, <2>2, SeqEqual
  <1>10. b = bb
    <2>1. Len(b) = Len(bb) /\ Len(b) = m - n - 1
      BY <1>6, <1>7
    <2>2. ASSUME NEW i \in 1..(m - n - 1) PROVE b[i] = bb[i]
      <3>1. 1 + i \in 1..(m - n) /\ i \in 1..(Len(e) - 1) /\ i \in 1..(Len(ee) - 1)
        BY <1>6, <1>7, <1>1
      <3>2. n + (1 + i) \in 1..m /\ n + (1 + i) # j
        BY <1>1, <3>1
      <3>3. b[i] = r[n + (1 + i)] /\ bb[i] = w[n + (1 + i)]
        BY <1>6, <1>7, <3>1
      <3> QED BY <3>2, <3>3
    <2> QED BY <1>8, <2>1, <2>2, SeqEqual
  <1>11. h[1] = r[j] /\ k[1] = w[j]
    <2>1. 1 \in 1..(m - n) /\ n + 1 = j
      BY <1>1
    <2> QED BY <1>6, <1>7, <2>1
  <1>12. Range(h) = {r[j]} /\ Range(k) = {w[j]}
    <2>1. /\ Range(h) = {h[i] : i \in 1..Len(h)} /\ Range(k) = {k[i] : i \in 1..Len(k)}
      BY <1>8, RangeIs
    <2>2. 1..1 = {1} /\ Len(h) = 1 /\ Len(k) = 1
      BY <1>6, <1>7
    <2> QED BY <1>11, <2>1, <2>2
  <1>13. r = Cat(a, Cat(h, b)) /\ w = Cat(a, Cat(k, b))
    <2>1. r = Cat(a, e) /\ e = Cat(h, b)
      BY <1>4 DEF CutAt
    <2>2. w = Cat(aa, ee) /\ ee = Cat(k, bb)
      BY <1>5 DEF CutAt
    <2> QED BY <1>9, <1>10, <2>1, <2>2
  <1>14. Differ(r, w, a, h, k, b)
    BY <1>8, <1>13, Zenon DEF Differ
  <1>15. Len(h) = 1
    BY <1>6
  <1> QED BY <1>12, <1>14, <1>15, Zenon DEF OneApart

(* The stream s loses one of its stored samples, between a and c. *)
Rotted(s, a, h, c) ==
  /\ a \in Seq(Samples) /\ h \in Seq(Samples) /\ c \in Seq(Samples) /\ Len(h) = 1
  /\ Readable(s) = Cat(a, Cat(h, c)) /\ Readable(s)' = Cat(a, c)
  /\ InRam(s) = <<>> /\ Open(s) = {}
  /\ \A u \in Streams : u # s => Readable(u)' = Readable(u)
  /\ \A u \in Streams : InRam(u)' = InRam(u) /\ Open(u)' = Open(u)
  /\ gone' = gone \cup Range(h)

LEMMA RotView ==
  ASSUME LogAssumptions, TsInv, FileInv, NEW s \in Streams, Rot(s)
  PROVE  /\ UNCHANGED <<log, made, boots>> /\ fails' = fails + 1
         /\ \E a, h, c : Rotted(s, a, h, c)
         /\ FileInv'
  <1>1. Fault("rot") /\ Open(s) = {} /\ UNCHANGED <<slots, log, made, boots>>
    BY DEF Rot
  <1>2. PICK n \in DOMAIN disk[s] : \E j \in 1..Len(disk[s][n].recs) :
           /\ disk[s][n].recs[j] # Bad
           /\ disk' = [disk EXCEPT ![s][n].recs[j] = Bad]
           /\ gone' = gone \cup {disk[s][n].recs[j]}
    BY DEF Rot
  <1>3. PICK j \in 1..Len(disk[s][n].recs) :
           /\ disk[s][n].recs[j] # Bad
           /\ disk' = [disk EXCEPT ![s][n].recs[j] = Bad]
           /\ gone' = gone \cup {disk[s][n].recs[j]}
    BY <1>2
  <1>4. FilesOK(disk) /\ FilesHeaded(disk) /\ DOMAIN disk = Streams
    BY FilesNow DEF TsInv, StoreInv, HeaderInv, LogAssumptions, FilesOK
  <1>5. n \in Nat /\ disk[s][n] \in Segment
    BY <1>4 DEF FilesOK
  <1>6. PICK f \in Segment, r \in Seq(Records), m \in Nat : f = disk[s][n] /\ r = f.recs /\ m = Len(r)
    BY <1>5, SegmentType, LenProperties
  <1>7. j \in 1..m /\ r[j] # Bad /\ r[j] \in Samples /\ gone' = gone \cup {r[j]}
    <2>1. j \in 1..m /\ r[j] # Bad /\ gone' = gone \cup {r[j]}
      BY <1>3, <1>6
    <2>2. r[j] \in Records
      BY <1>6, <2>1, ElementOfSeq
    <2> QED BY <2>1, <2>2 DEF Records
  <1>8. PICK w : w = [r EXCEPT ![j] = Bad]
    OBVIOUS
  <1>9. w \in Seq(Records) /\ Len(w) = m /\ w[j] = Bad /\ \A i \in 1..m : i # j => w[i] = r[i]
    <2>1. Bad \in Records
      BY DEF Records
    <2> QED BY <1>6, <1>7, <1>8, <2>1
  <1>10. PICK g : g = [f EXCEPT !.recs = w]
    OBVIOUS
  <1>11. g \in Segment /\ g.hdr = f.hdr /\ g.recs = w
    BY <1>9, <1>10 DEF Segment, Records
  <1>12. /\ \A u \in Streams : u # s => disk'[u] = disk[u]
         /\ DOMAIN disk'[s] = DOMAIN disk[s] /\ disk'[s][n] = g
         /\ \A i \in DOMAIN disk[s] : i # n => disk'[s][i] = disk[s][i]
    BY <1>3, <1>4, <1>6, <1>8, <1>10
  <1>13. f.hdr
    <2>1. f # EmptyFile
      <3>1. CASE f = EmptyFile
        <4>1. r = <<>>
          BY <1>6, <3>1 DEF EmptyFile
        <4>2. m = 0
          BY <1>6, <4>1
        <4> QED BY <1>7, <4>2
      <3> QED BY <3>1
    <2> QED BY <1>4, <1>6, <2>1 DEF FilesHeaded
  <1>14. PICK a, h, k, b : Differ(r, w, a, h, k, b) /\ Range(h) = {r[j]} /\ Range(k) = {w[j]} /\ Len(h) = 1
    <2>1. m = Len(r) /\ m = Len(w) /\ j \in 1..m /\ w \in Seq(Records)
      BY <1>6, <1>7, <1>9
    <2>2. \A i \in 1..m : i # j => w[i] = r[i]
      BY <1>9
    <2>3. OneApart(r, w, j)
      BY <2>1, <2>2, OneDiffers
    <2> QED BY <2>3 DEF OneApart
  <1>15. /\ a \in Seq(Records) /\ h \in Seq(Records) /\ k \in Seq(Records) /\ b \in Seq(Records)
    BY <1>14 DEF Differ
  <1>16. PICK a1 \in Seq(Samples), b1 \in Seq(Samples) : a1 = Only(a, Samples) /\ b1 = Only(b, Samples)
    BY <1>15, OnlyIn
  <1>17. h \in Seq(Samples) /\ Only(h, Samples) = h /\ Only(k, Samples) = <<>>
    <2>1. Range(h) \subseteq Samples /\ Range(k) \cap Samples = {}
      BY <1>7, <1>9, <1>14, SamplesNat
    <2> QED BY <1>15, <2>1, OnlyAll, OnlyNone, SeqIn
  <1>18. Only(r, Samples) = Cat(a1, Cat(h, b1)) /\ Only(w, Samples) = Cat(a1, b1)
    <2>1. r = Cat(a, Cat(h, b)) /\ w = Cat(a, Cat(k, b))
      BY <1>14 DEF Differ
    <2>2. Cat(h, b) \in Seq(Records) /\ Cat(k, b) \in Seq(Records)
      BY <1>15, CatType
    <2>3. /\ Only(Cat(h, b), Samples) = Cat(Only(h, Samples), Only(b, Samples))
          /\ Only(Cat(k, b), Samples) = Cat(Only(k, Samples), Only(b, Samples))
      BY <1>15, CatOnly
    <2>4. /\ Only(Cat(a, Cat(h, b)), Samples) = Cat(Only(a, Samples), Only(Cat(h, b), Samples))
          /\ Only(Cat(a, Cat(k, b)), Samples) = Cat(Only(a, Samples), Only(Cat(k, b), Samples))
      BY <1>15, <2>2, CatOnly
    <2>5. Cat(<<>>, b1) = b1
      BY CatEmpty
    <2> QED BY <1>16, <1>17, <2>1, <2>3, <2>4, <2>5, Zenon
  <1>19. PICK fs, gs : fs = disk[s] /\ gs = disk'[s]
    OBVIOUS
  <1>20. StoredSplits(fs, gs, n)
    <2>1. FileSet(fs) /\ \E x \in Nat : UpTo(fs, x)
      BY <1>4, <1>19, FilesOf
    <2>2. FileSet(gs) /\ \E y \in Nat : UpTo(gs, y)
      BY <1>11, <1>12, <1>19, <2>1 DEF FileSet, UpTo
    <2>3. PICK x \in Nat, y \in Nat : UpTo(fs, x) /\ UpTo(gs, y)
      BY <2>1, <2>2
    <2>4. /\ \A i \in Nat : i # n => (i \in DOMAIN fs <=> i \in DOMAIN gs)
          /\ \A i \in DOMAIN fs : i # n => gs[i] = fs[i]
      BY <1>12, <1>19
    <2> QED BY <1>5, <2>1, <2>2, <2>3, <2>4, StoredChange
  <1>21. Read(Held(fs, n)) = Only(r, Samples) /\ Read(Held(gs, n)) = Only(w, Samples)
    BY <1>2, <1>6, <1>11, <1>12, <1>13, <1>19 DEF Held, Read
  <1>22. PICK p \in Seq(Samples), q \in Seq(Samples) :
            /\ StoredIn(fs) = Cat(p, Cat(Only(r, Samples), q))
            /\ StoredIn(gs) = Cat(p, Cat(Only(w, Samples), q))
    BY <1>20, <1>21 DEF StoredSplits
  <1>23. PICK a2 \in Seq(Samples), c2 \in Seq(Samples) : a2 = Cat(p, a1) /\ c2 = Cat(b1, q)
    BY CatType
  <1>24. Readable(s) = Cat(a2, Cat(h, c2)) /\ Readable(s)' = Cat(a2, c2)
    <2>1. PICK hb \in Seq(Samples) : hb = Cat(h, b1)
      BY <1>17, CatType
    <2>2. /\ Cat(Cat(a1, hb), q) = Cat(a1, Cat(hb, q))
          /\ Cat(Cat(a1, b1), q) = Cat(a1, c2)
      BY <1>23, CatAssoc
    <2>3. Cat(hb, q) = Cat(h, c2) /\ Cat(h, c2) \in Seq(Samples)
      BY <1>17, <1>23, <2>1, CatAssoc, CatType
    <2>4. /\ Cat(p, Cat(a1, Cat(h, c2))) = Cat(a2, Cat(h, c2))
          /\ Cat(p, Cat(a1, c2)) = Cat(a2, c2)
      BY <1>23, <2>3, CatAssoc
    <2>5. StoredIn(fs) = Cat(a2, Cat(h, c2)) /\ StoredIn(gs) = Cat(a2, c2)
      BY <1>18, <1>22, <2>1, <2>2, <2>3, <2>4, Zenon
    <2> QED BY <1>19, <2>5, ReadableIs
  <1>25. InRam(s) = <<>> /\ \A u \in Streams : InRam(u)' = InRam(u) /\ Open(u)' = Open(u)
    <2>1. InRam(s) = <<>>
      BY <1>1, InRamIs, RamInIs
    <2> QED BY <1>1, <2>1, InRamIs
  <1>26. \A u \in Streams : u # s => Readable(u)' = Readable(u)
    BY <1>12, ReadableIs
  <1>27. gone' = gone \cup Range(h)
    BY <1>7, <1>14
  <1>28. Rotted(s, a2, h, c2)
    BY <1>1, <1>14, <1>17, <1>24, <1>25, <1>26, <1>27 DEF Rotted
  <1>29. FileInv'
    <2> SUFFICES ASSUME NEW i \in Slots, slots[i].used, slots[i].scanned
                 PROVE  Covers(slots[i], disk'[slots[i].name])
      BY <1>1 DEF FileInv, Covers
    <2>1. slots[i].name \in Streams /\ slots[i].name # s
      BY <1>1 DEF TsInv, StoreInv, SlotInv, Open
    <2> QED BY <1>12, <2>1 DEF FileInv
  <1> QED BY <1>1, <1>28, <1>29 DEF Fault

LEMMA RotKept ==
  ASSUME LogAssumptions, TsInv, LogInv, NEW s \in Streams, Rot(s)
  PROVE  LogInv'
  <1>1. UNCHANGED <<log, made>> /\ FileInv'
    BY RotView DEF LogInv
  <1>2. PICK a, h, c : Rotted(s, a, h, c)
    BY RotView DEF LogInv
  <1>3. /\ a \in Seq(Samples) /\ h \in Seq(Samples) /\ c \in Seq(Samples)
        /\ Readable(s) = Cat(a, Cat(h, c)) /\ Readable(s)' = Cat(a, c)
        /\ InRam(s) = <<>> /\ InRam(s)' = <<>>
        /\ gone' = gone \cup Range(h)
    BY <1>2 DEF Rotted
  <1>4. \A u \in Streams : u # s => Readable(u)' = Readable(u) /\ InRam(u)' = InRam(u)
    BY <1>2 DEF Rotted
  <1>5. Cat(Readable(s), InRam(s)) = Cat(a, Cat(h, c)) /\ Cat(Readable(s)', InRam(s)') = Cat(a, c)
    <2>1. PICK x \in Seq(Samples), y \in Seq(Samples) : x = Cat(a, Cat(h, c)) /\ y = Cat(a, c)
      BY <1>3, CatType
    <2>2. Cat(x, <<>>) = x /\ Cat(y, <<>>) = y
      BY CatEmpty
    <2> QED BY <1>3, <2>1, <2>2, Zenon
  <1>6. a \in Seq(Samples) /\ h \in Seq(Samples) /\ c \in Seq(Samples) /\ gone' = gone \cup Range(h)
    BY <1>3
  <1> QED BY <1>1, <1>4, <1>5, <1>6, LossKept

--------------------------------------------------------------------------------
(* The instance ends: power loss and zdb_deinit() *)

LEMMA OneMore ==
  ASSUME NEW k \in Nat
  PROVE  /\ \A n \in 0..(k + 1) : n \in 0..k \/ n = k + 1
         /\ \A n \in 0..k : n \in 0..(k + 1)
         /\ k + 1 \in 0..(k + 1) /\ 0 \in 0..0 /\ \A n \in 0..0 : n = 0
  OBVIOUS

LEMMA JoinedRange ==
  ASSUME NEW T, NEW g \in [Nat -> Seq(T)], NEW m \in Nat
  PROVE  \A x : x \in Range(Joined(g)[m]) <=> \E n \in 0..m : x \in Range(g[n])
  <1> DEFINE In(x, k) == \E n \in 0..k : x \in Range(g[n])
             X == {k \in Nat : \A x : x \in Range(Joined(g)[k]) <=> In(x, k)}
  <1>1. 0 \in X
    <2>1. Joined(g)[0] = g[0]
      BY JoinedIs
    <2>2. 0 \in Nat /\ 0 \in 0..0 /\ \A n \in 0..0 : n = 0
      BY OneMore
    <2>3. \A x : x \in Range(Joined(g)[0]) <=> In(x, 0)
      BY <2>1, <2>2, Zenon
    <2> HIDE DEF In
    <2> QED BY <2>2, <2>3
  <1>2. ASSUME NEW k \in X PROVE k + 1 \in X
    <2>1. k \in Nat /\ k + 1 \in Nat /\ \A x : x \in Range(Joined(g)[k]) <=> In(x, k)
      OBVIOUS
    <2>2. PICK a \in Seq(T), b \in Seq(T), c \in Seq(T) :
             a = Joined(g)[k] /\ b = g[k + 1] /\ c = Joined(g)[k + 1]
      BY <2>1, JoinedType
    <2>3. c = Cat(a, b)
      BY <2>1, <2>2, JoinedIs DEF Cat
    <2>4. Range(c) = Range(a) \cup Range(b)
      BY <2>3, CatRange
    <2>5. \A x : In(x, k + 1) <=> In(x, k) \/ x \in Range(g[k + 1])
      <3>1. /\ \A n \in 0..(k + 1) : n \in 0..k \/ n = k + 1
            /\ \A n \in 0..k : n \in 0..(k + 1)
            /\ k + 1 \in 0..(k + 1)
        <4> HIDE DEF X
        <4> QED BY <2>1, OneMore
      <3> QED BY <3>1, Zenon
    <2> HIDE DEF In
    <2>6. \A x : x \in Range(c) <=> In(x, k + 1)
      BY <2>1, <2>2, <2>4, <2>5
    <2> QED BY <2>1, <2>2, <2>6
  <1> HIDE DEF X
  <1>3. X = Nat
    <2>1. X \in SUBSET Nat
      BY DEF X
    <2> QED BY <1>1, <1>2, <2>1, NumberInduction
  <1>4. m \in X
    BY <1>3
  <1> QED BY <1>4 DEF X

(* What is readable of the files is what they hold, but for the bad records. *)
Headed(fs) == \A n \in DOMAIN fs : fs[n].hdr \/ fs[n] = EmptyFile
LEMMA StoredRange ==
  ASSUME NEW fs, FileSet(fs), Headed(fs), NEW m \in Nat, UpTo(fs, m)
  PROVE  \A x : x \in Range(StoredIn(fs)) <=> x # Bad /\ \E n \in DOMAIN fs : x \in Range(fs[n].recs)
  <1>1. PICK g \in [Nat -> Seq(Samples)] : g = Shown(fs)
    BY ShownType
  <1>2. StoredIn(fs) = Joined(g)[m]
    BY <1>1, StoredIs
  <1>3. \A x : x \in Range(StoredIn(fs)) <=> \E n \in 0..m : x \in Range(g[n])
    BY <1>2, JoinedRange
  <1>4. \A n \in DOMAIN fs : n \in 0..m
    BY DEF FileSet, UpTo
  <1>5. \A n \in Nat : n \notin DOMAIN fs => Range(g[n]) = {}
    BY <1>1, RangeEmpty DEF Shown
  <1>6. \A n \in DOMAIN fs : Range(g[n]) = Range(fs[n].recs) \ {Bad}
    <2> SUFFICES ASSUME NEW n \in DOMAIN fs PROVE Range(g[n]) = Range(fs[n].recs) \ {Bad}
      OBVIOUS
    <2>1. fs[n] \in Segment /\ n \in Nat /\ (fs[n].hdr \/ fs[n] = EmptyFile)
      BY DEF FileSet, Headed
    <2>2. g[n] = Read(fs[n])
      BY <1>1, <2>1 DEF Shown
    <2> QED BY <2>1, <2>2, ReadRange
  <1>7. ASSUME NEW x
        PROVE  (\E n \in 0..m : x \in Range(g[n]))
                 <=> x # Bad /\ \E n \in DOMAIN fs : x \in Range(fs[n].recs)
    <2>1. ASSUME NEW n \in 0..m, x \in Range(g[n])
          PROVE  x # Bad /\ n \in DOMAIN fs /\ x \in Range(fs[n].recs)
      <3>1. n \in Nat
        OBVIOUS
      <3>2. CASE n \in DOMAIN fs
        BY <1>6, <2>1, <3>2
      <3>3. CASE n \notin DOMAIN fs
        BY <1>5, <2>1, <3>1, <3>3
      <3> QED BY <3>2, <3>3
    <2>2. ASSUME x # Bad, NEW n \in DOMAIN fs, x \in Range(fs[n].recs)
          PROVE  n \in 0..m /\ x \in Range(g[n])
      BY <1>4, <1>6, <2>2
    <2> QED BY <2>1, <2>2
  <1> QED BY <1>3, <1>7, Zenon

(* Stream u keeps e of what it has in RAM, and loses r. *)
Ends(u, e, r) ==
  /\ e \in Seq(Samples) /\ r \in Seq(Samples) /\ InRam(u) = Cat(e, r)
  /\ Readable(u)' = Cat(Readable(u), e)

LEMMA NothingSaved ==
  ASSUME TsInv, NEW u \in Streams, Readable(u)' = Readable(u)
  PROVE  \E e, r : Ends(u, e, r)
  <1>1. PICK e \in Seq(Samples), r \in Seq(Samples), c \in Seq(Samples) :
           e = <<>> /\ r = InRam(u) /\ c = Readable(u)
    BY RamType, EmptySeq
  <1>2. Cat(e, r) = r /\ Cat(c, e) = c
    BY <1>1, CatEmpty
  <1>3. InRam(u) = Cat(e, r) /\ Readable(u)' = Cat(Readable(u), e)
    BY <1>1, <1>2, Zenon
  <1>4. Ends(u, e, r)
    BY <1>3 DEF Ends
  <1> QED BY <1>4

LEMMA CutSamples ==
  ASSUME NEW b \in Seq(Samples), NEW n \in 0..Len(b)
  PROVE  \E e, r \in Seq(Samples) : e = SubSeq(b, 1, n) /\ b = Cat(e, r)
  <1>1. b \in Seq(Records)
    BY SubSamples
  <1>2. PICK e, r : e = SubSeq(b, 1, n) /\ CutAt(b, n, e, r)
    BY <1>1, SplitSeq
  <1>3. e \in Seq(Records) /\ r \in Seq(Records) /\ b = Cat(e, r)
    BY <1>2 DEF CutAt
  <1>4. Range(b) = Range(e) \cup Range(r) /\ Range(b) \subseteq Samples
    <2>1. Range(Cat(e, r)) = Range(e) \cup Range(r)
      BY <1>3, CatRange
    <2>2. Range(b) \subseteq Samples
      BY RangeIs
    <2> QED BY <1>3, <2>1, <2>2
  <1>5. e \in Seq(Samples) /\ r \in Seq(Samples)
    BY <1>3, <1>4, SeqIn
  <1> QED BY <1>2, <1>3, <1>5

LEMMA CrashView ==
  ASSUME LogAssumptions, TsInv, FileInv, disk' \in CrashImages
  PROVE  \A u \in Streams : \E e, r : Ends(u, e, r)
  <1>0. FilesOK(disk) /\ FilesHeaded(disk)
    BY FilesNow DEF TsInv, StoreInv, HeaderInv, LogAssumptions
  <1>1. CASE disk' = disk
    <2>1. \A u \in Streams : Readable(u)' = Readable(u)
      BY <1>1, ReadableIs
    <2> QED BY <2>1, NothingSaved
  <1>2. ASSUME NEW a \in Actors, pc[a] = "write", disk' \in PartWritten(slots[at[a]]), disk' # disk
        PROVE  \A u \in Streams : \E e, r : Ends(u, e, r)
    <2>0. PICK i, s, k, b : i = at[a] /\ s = slots[i].name /\ k = slots[i].cur /\ b = slots[i].buf
      OBVIOUS
    <2>1. Newest(i, s, k)
      BY <1>2, <2>0, NewestFile DEF FlushPlaces
    <2>2. /\ s \in Streams /\ k \in Nat /\ k \in DOMAIN disk[s]
          /\ FileAt(s, k) = disk[s][k] /\ disk[s][k] \in Segment /\ disk[s][k].hdr /\ ~disk[s][k].torn
          /\ \A n \in DOMAIN disk[s] : n <= k
          /\ InRam(s) = b /\ b \in Seq(Samples)
      BY <2>0, <2>1 DEF Newest
    <2>3. PICK n \in 0..Len(b), z \in BOOLEAN :
             disk' = Put(s, k, [FileAt(s, k) EXCEPT !.recs = FileAt(s, k).recs \o SubSeq(b, 1, n),
                                                    !.torn = z /\ n < Len(b)])
      <3>1. PICK c, f : c = slots[i] /\ f = FileAt(c.name, c.cur)
        OBVIOUS
      <3>2. PICK n \in 0..Len(c.buf), z \in BOOLEAN :
               disk' = Put(c.name, c.cur, IF f.torn THEN f
                                          ELSE [f EXCEPT !.recs = f.recs \o SubSeq(c.buf, 1, n),
                                                         !.torn = z /\ n < Len(c.buf)])
        BY <1>2, <2>0, <3>1 DEF PartWritten
      <3>3. c.name = s /\ c.cur = k /\ c.buf = b /\ f = FileAt(s, k) /\ ~f.torn
        BY <2>0, <2>2, <3>1
      <3>4. disk' = Put(s, k, [FileAt(s, k) EXCEPT !.recs = FileAt(s, k).recs \o SubSeq(b, 1, n),
                                                   !.torn = z /\ n < Len(b)])
        BY <3>2, <3>3, Zenon
      <3>5. n \in 0..Len(b)
        BY <3>3
      <3> QED BY <3>4, <3>5, Zenon
    <2>4. PICK f \in Segment, y \in BOOLEAN : f = disk[s][k] /\ y = (z /\ n < Len(b))
      BY <2>2
    <2>5. PICK e \in Seq(Samples), r \in Seq(Samples) : e = SubSeq(b, 1, n) /\ b = Cat(e, r)
      BY <2>2, CutSamples
    <2>6. PICK v \in Seq(Records) : v = f.recs \o e
      <3>1. f.recs \in Seq(Records) /\ e \in Seq(Records)
        BY SegmentType, SubSamples
      <3> QED BY <3>1, ConcatProperties
    <2>7. PICK g : g = [f EXCEPT !.recs = v, !.torn = y]
      OBVIOUS
    <2>8. disk' = Put(s, k, g)
      BY <2>2, <2>3, <2>4, <2>5, <2>6, <2>7
    <2>9. g \in Segment /\ g.hdr = f.hdr /\ g.recs = v
      BY <2>7 DEF Segment, Records
    <2>10. g.hdr /\ g.recs = Cat(disk[s][k].recs, e)
      BY <2>2, <2>4, <2>6, <2>9 DEF Cat
    <2>11. /\ StoredIn(disk'[s]) = Cat(StoredIn(disk[s]), e)
           /\ \A u \in Streams : u # s => disk'[u] = disk[u]
      <3>1. k \in DOMAIN disk[s] /\ k \in Nat /\ disk[s][k].hdr /\ s \in Streams
        BY <2>2
      <3>2. \A m \in DOMAIN disk[s] : m <= k
        BY <2>2
      <3>3. PICK d : d = disk'
        OBVIOUS
      <3>4. d = Put(s, k, g) /\ g \in Segment
        BY <2>8, <2>9, <3>3
      <3>5. StoredIn(d[s]) = Cat(StoredIn(disk[s]), e) /\ \A u \in Streams : u # s => d[u] = disk[u]
        BY <1>0, <2>10, <3>1, <3>2, <3>4, NewestGrows
      <3> QED BY <3>3, <3>5
    <2>12. Ends(s, e, r)
      BY <2>2, <2>5, <2>11, ReadableIs DEF Ends
    <2>13. \A u \in Streams : u # s => Readable(u)' = Readable(u)
      BY <2>11, ReadableIs
    <2> QED BY <2>12, <2>13, NothingSaved
  <1>3. ASSUME NEW a \in Actors, pc[a] = "roll",
               disk' = Put(slots[at[a]].name, slots[at[a]].cur + 1, EmptyFile)
        PROVE  \A u \in Streams : \E e, r : Ends(u, e, r)
    <2>0. PICK i, s, k : i = at[a] /\ s = slots[i].name /\ k = slots[i].cur
      OBVIOUS
    <2>1. Newest(i, s, k)
      BY <1>3, <2>0, NewestFile DEF FlushPlaces
    <2>2. s \in Streams /\ k \in Nat /\ \A n \in DOMAIN disk[s] : n <= k /\ n \in Nat
      BY <2>1 DEF Newest
    <2>3. PICK m \in Nat, f \in Segment : m = k + 1 /\ f = EmptyFile
      BY <2>2, NewFiles
    <2>4. Written(disk', s, m, f) /\ WrittenSplits(disk', s, m, f)
      BY <1>0, <1>3, <2>0, <2>2, <2>3, PutStored
    <2>5. Read(FileAt(s, m)) = <<>> /\ Read(f) = <<>>
      <3>1. m \notin DOMAIN disk[s]
        BY <2>2, <2>3
      <3> QED BY <2>3, <3>1 DEF FileAt, Read, EmptyFile
    <2>6. StoredIn(disk'[s]) = StoredIn(disk[s])
      BY <2>4, <2>5 DEF WrittenSplits
    <2>7. \A u \in Streams : Readable(u)' = Readable(u)
      BY <2>4, <2>6, ReadableIs DEF Written
    <2> QED BY <2>7, NothingSaved
  <1>4. \/ disk' = disk
        \/ \E a \in Actors : pc[a] = "write" /\ disk' \in PartWritten(slots[at[a]])
        \/ \E a \in Actors : pc[a] = "roll" /\
              disk' = Put(slots[at[a]].name, slots[at[a]].cur + 1, EmptyFile)
    BY Zenon DEF CrashImages
  <1> QED BY <1>1, <1>2, <1>3, <1>4

LEMMA BufferedIs ==
  ASSUME TsInv
  PROVE  \A x : x \in Buffered <=> \E u \in Streams : x \in Range(InRam(u))
  <1>1. ASSUME NEW x, x \in Buffered PROVE \E u \in Streams : x \in Range(InRam(u))
    <2>1. PICK i \in Slots : x \in Range(slots[i].buf)
      BY <1>1 DEF Buffered
    <2>2. slots[i].used
      <3> SUFFICES ASSUME ~slots[i].used PROVE FALSE
        OBVIOUS
      <3>1. slots[i].buf = <<>>
        BY DEF TsInv, StoreInv, SlotInv, FreeSlot
      <3> QED BY <2>1, <3>1, RangeEmpty
    <2>3. PICK u \in Streams : InRam(u) = slots[i].buf
      BY <2>2, SlotOf
    <2> QED BY <2>1, <2>3
  <1>2. ASSUME NEW x, NEW u \in Streams, x \in Range(InRam(u)) PROVE x \in Buffered
    <2>1. Open(u) # {}
      <3> SUFFICES ASSUME Open(u) = {} PROVE FALSE
        OBVIOUS
      <3>1. InRam(u) = <<>>
        BY InRamIs, RamInIs
      <3> QED BY <1>2, <3>1, RangeEmpty
    <2>2. PICK i \in Slots : slots[i].used /\ slots[i].name = u
      BY <2>1 DEF Open
    <2>3. InRam(u) = slots[i].buf
      BY <2>2, SlotOf
    <2> QED BY <1>2, <2>3 DEF Buffered
  <1> QED BY <1>1, <1>2, Zenon

LEMMA OnDiskIs ==
  ASSUME NEW d, FilesOK(d), FilesHeaded(d)
  PROVE  \A x : x # Bad => (x \in OnDisk(d) <=> \E u \in Streams : x \in Range(StoredIn(d[u])))
  <1>1. ASSUME NEW u \in Streams
        PROVE  \A x : x \in Range(StoredIn(d[u]))
                        <=> x # Bad /\ \E n \in DOMAIN d[u] : x \in Range(d[u][n].recs)
    <2>1. PICK fs : fs = d[u]
      OBVIOUS
    <2>2. FileSet(fs) /\ \E m \in Nat : UpTo(fs, m)
      BY <2>1, FilesOf
    <2>3. Headed(fs)
      BY <2>1 DEF FilesHeaded, Headed
    <2>4. \A x : x \in Range(StoredIn(fs)) <=> x # Bad /\ \E n \in DOMAIN fs : x \in Range(fs[n].recs)
      BY <2>2, <2>3, StoredRange
    <2> QED BY <2>1, <2>4
  <1>2. \A x : x \in OnDisk(d) <=> \E u \in Streams : \E n \in DOMAIN d[u] : x \in Range(d[u][n].recs)
    <2> DEFINE H(u) == UNION {Range(d[u][n].recs) : n \in DOMAIN d[u]}
    <2>1. OnDisk(d) = UNION {H(u) : u \in Streams}
      BY DEF OnDisk
    <2>2. \A x : \A u \in Streams : x \in H(u) <=> \E n \in DOMAIN d[u] : x \in Range(d[u][n].recs)
      OBVIOUS
    <2> HIDE DEF H
    <2>3. \A x : x \in OnDisk(d) <=> \E u \in Streams : x \in H(u)
      BY <2>1
    <2> QED BY <2>2, <2>3, Zenon
  <1> QED BY <1>1, <1>2, Zenon

(* The instance ends: what is readable of a stream grows by a part of what it   *)
(* has in RAM, and the rest is lost.                                            *)
Ended ==
  /\ \A u \in Streams : InRam(u)' = <<>> /\ Open(u)' = {} /\ \E e, r : Ends(u, e, r)
  /\ \A x : x \in gone' <=> \/ x \in gone
                            \/ /\ \E u \in Streams : x \in Range(InRam(u))
                               /\ ~\E u \in Streams : x \in Range(Readable(u)')

LEMMA EndView ==
  ASSUME LogAssumptions, TsInv, FileInv, PowerLoss \/ Deinit
  PROVE  Ended /\ FileInv' /\ UNCHANGED <<log, made, fails>>
  <1>1. RamLost
    BY DEF PowerLoss, Deinit
  <1>2. /\ UNCHANGED <<log, made, fails>> /\ slots' = [i \in Slots |-> FreeSlot]
        /\ gone' = gone \cup (Buffered \ OnDisk(disk'))
    BY <1>1 DEF RamLost
  <1>3. disk' \in CrashImages
    BY DEF PowerLoss, Deinit, CrashImages
  <1>4. \A u \in Streams : \E e, r : Ends(u, e, r)
    BY <1>3, CrashView
  <1>5. \A i \in Slots : ~slots'[i].used
    BY <1>2 DEF FreeSlot
  <1>6. FileInv'
    BY <1>5 DEF FileInv
  <1>7. \A u \in Streams : InRam(u)' = <<>> /\ Open(u)' = {}
    <2> SUFFICES ASSUME NEW u \in Streams PROVE InRam(u)' = <<>> /\ Open(u)' = {}
      OBVIOUS
    <2>1. OpenIn(slots', u) = {}
      BY <1>5 DEF OpenIn
    <2>2. RamIn(slots', u) = <<>>
      BY <2>1, RamInIs
    <2> QED BY <2>1, <2>2, InRamIs
  <1>8. FilesOK(disk') /\ FilesHeaded(disk')
    BY <1>3, CrashFiles DEF LogAssumptions
  <1>9. \A x : x # Bad => (x \in OnDisk(disk') <=> \E u \in Streams : x \in Range(Readable(u)'))
    <2>1. PICK d : d = disk'
      OBVIOUS
    <2>2. \A x : x # Bad => (x \in OnDisk(d) <=> \E u \in Streams : x \in Range(StoredIn(d[u])))
      BY <1>8, <2>1, OnDiskIs
    <2>3. \A u \in Streams : Readable(u)' = StoredIn(d[u])
      BY <2>1, ReadableIs
    <2> QED BY <2>1, <2>2, <2>3, Zenon
  <1>10. \A u \in Streams : \A x \in Range(InRam(u)) : x # Bad
    <2> SUFFICES ASSUME NEW u \in Streams PROVE Bad \notin Range(InRam(u))
      OBVIOUS
    <2>1. PICK b \in Seq(Samples) : b = InRam(u)
      BY RamType
    <2> QED BY <2>1, SubSamples
  <1>11. \A x : x \in gone' <=> \/ x \in gone
                                \/ /\ \E u \in Streams : x \in Range(InRam(u))
                                   /\ ~\E u \in Streams : x \in Range(Readable(u)')
    <2>1. \A x : x \in gone' <=> x \in gone \/ (x \in Buffered /\ x \notin OnDisk(disk'))
      BY <1>2
    <2>2. \A x : x \in Buffered <=> \E u \in Streams : x \in Range(InRam(u))
      BY BufferedIs
    <2> QED BY <1>9, <1>10, <2>1, <2>2, Zenon
  <1> QED BY <1>2, <1>4, <1>6, <1>7, <1>11 DEF Ended

LEMMA KeptRange ==
  ASSUME TsInv, LogInv, NEW u \in Streams, NEW e, NEW r, Ends(u, e, r)
  PROVE  \E c, k \in Seq(Samples) :
           /\ c = Readable(u)' /\ k = Cat(c, r) /\ k = Only(log[u], Samples \ gone)
           /\ Range(c) \cap Range(r) = {} /\ Range(c) \cup Range(r) = Range(k)
           /\ Range(k) \subseteq Range(log[u]) \cap Samples
  <1>1. e \in Seq(Samples) /\ r \in Seq(Samples) /\ InRam(u) = Cat(e, r)
        /\ Readable(u)' = Cat(Readable(u), e)
    BY DEF Ends
  <1>2. PICK a \in Seq(Samples) : a = Readable(u)
    BY RamType
  <1>3. PICK c \in Seq(Samples) : c = Cat(a, e)
    BY <1>1, CatType
  <1>4. c = Readable(u)'
    BY <1>1, <1>2, <1>3, Zenon
  <1>5. PICK k \in Seq(Samples) : k = Cat(c, r)
    BY <1>1, CatType
  <1>6. k = Only(log[u], Samples \ gone)
    <2>1. Cat(Cat(a, e), r) = Cat(a, Cat(e, r))
      BY <1>1, CatAssoc
    <2>2. Cat(Readable(u), InRam(u)) = Only(log[u], Samples \ gone)
      BY DEF LogInv, KeptInv
    <2> QED BY <1>1, <1>2, <1>3, <1>5, <2>1, <2>2, Zenon
  <1>7. Increasing(k) /\ Range(k) = Range(log[u]) \cap (Samples \ gone)
    BY <1>6, LogType, OnlyIncreasing, OnlyRange DEF LogInv, HistInv
  <1>8. Range(c) \cap Range(r) = {} /\ Range(c) \cup Range(r) = Range(k)
    BY <1>1, <1>5, <1>7, Disjoint, CatRange
  <1> QED BY <1>4, <1>5, <1>6, <1>7, <1>8

LEMMA EndKept ==
  ASSUME LogAssumptions, TsInv, LogInv, PowerLoss \/ Deinit
  PROVE  LogInv'
  <1>1. Ended /\ FileInv' /\ UNCHANGED <<log, made>>
    BY EndView DEF LogInv
  <1>2. \A v \in Streams : Range(Readable(v)') \subseteq Range(log[v])
                           /\ Range(InRam(v)) \subseteq Range(log[v])
    <2> SUFFICES ASSUME NEW v \in Streams
                 PROVE  Range(Readable(v)') \subseteq Range(log[v])
                        /\ Range(InRam(v)) \subseteq Range(log[v])
      OBVIOUS
    <2>1. PICK e, r : Ends(v, e, r)
      BY <1>1 DEF Ended
    <2>2. Range(Readable(v)') \subseteq Range(log[v])
      BY <2>1, KeptRange
    <2>3. PICK a \in Seq(Samples), b \in Seq(Samples) : a = Readable(v) /\ b = InRam(v)
      BY RamType
    <2>4. Range(Cat(a, b)) = Range(a) \cup Range(b)
      BY CatRange
    <2>5. Range(Only(log[v], Samples \ gone)) = Range(log[v]) \cap (Samples \ gone)
      BY LogType, OnlyRange
    <2>6. Cat(a, b) = Only(log[v], Samples \ gone)
      BY <2>3 DEF LogInv, KeptInv
    <2> QED BY <2>2, <2>3, <2>4, <2>5, <2>6
  <1>3. gone' \subseteq 1..made
    <2>1. \A v \in Streams : Range(log[v]) \subseteq 1..made
      BY DEF LogInv, HistInv
    <2>2. gone \subseteq 1..made
      BY DEF LogInv, HistInv
    <2> QED BY <1>1, <1>2, <2>1, <2>2 DEF Ended
  <1>4. HistInv'
    BY <1>1, <1>3, HistSame DEF LogInv
  <1>5. ASSUME NEW u \in Streams
        PROVE  Cat(Readable(u)', InRam(u)') = Only(log'[u], Samples \ gone')
    <2>1. PICK e, r : Ends(u, e, r)
      BY <1>1 DEF Ended
    <2>2. PICK c \in Seq(Samples), k \in Seq(Samples) :
             /\ c = Readable(u)' /\ k = Cat(c, r) /\ k = Only(log[u], Samples \ gone)
             /\ Range(c) \cap Range(r) = {} /\ Range(c) \cup Range(r) = Range(k)
             /\ Range(k) \subseteq Range(log[u]) \cap Samples
      BY <2>1, KeptRange
    <2>3. r \in Seq(Samples) /\ InRam(u) = Cat(e, r) /\ e \in Seq(Samples)
      BY <2>1 DEF Ends
    <2>4. PICK S : S = Samples \ gone'
      OBVIOUS
    <2>5. Range(c) \subseteq Samples /\ Range(r) \subseteq Samples
      BY <2>2
    <2>6. \A x \in Range(c) : x \notin gone /\ x \in Range(Readable(u)')
      <3>1. Range(k) = Range(log[u]) \cap (Samples \ gone)
        BY <2>2, LogType, OnlyRange
      <3> QED BY <2>2, <3>1
    <2>7. \A x \in Range(r) : x \in gone'
      <3> SUFFICES ASSUME NEW x \in Range(r) PROVE x \in gone'
        OBVIOUS
      <3>1. x \in Range(InRam(u))
        <4>1. Range(Cat(e, r)) = Range(e) \cup Range(r)
          BY <2>3, CatRange
        <4> QED BY <2>3, <4>1
      <3>2. ASSUME NEW v \in Streams, x \in Range(Readable(v)') PROVE FALSE
        <4>1. CASE v = u
          BY <2>2, <3>2, <4>1
        <4>2. CASE v # u
          <5>1. x \in Range(log[v]) /\ x \in Range(log[u])
            BY <1>2, <3>1, <3>2
          <5> QED BY <4>2, <5>1 DEF LogInv, HistInv
        <4> QED BY <4>1, <4>2
      <3> QED BY <1>1, <3>1, <3>2 DEF Ended
    <2>8. Range(c) \subseteq S /\ Range(r) \cap S = {}
      BY <1>1, <2>4, <2>5, <2>6, <2>7 DEF Ended
    <2>9. Only(c, S) = c /\ Only(r, S) = <<>>
      BY <2>3, <2>8, OnlyAll, OnlyNone
    <2>10. Only(k, S) = c
      <3>1. Only(Cat(c, r), S) = Cat(Only(c, S), Only(r, S))
        BY <2>3, CatOnly
      <3>2. Cat(c, <<>>) = c
        BY CatEmpty
      <3>3. k = Cat(c, r)
        BY <2>2
      <3> QED BY <2>9, <3>1, <3>2, <3>3, Zenon
    <2>11. Only(k, S) = Only(log[u], S)
      <3>1. PICK A : A = Samples \ gone
        OBVIOUS
      <3>2. A \cap S = S
        BY <1>1, <2>4, <3>1 DEF Ended
      <3>3. Only(Only(log[u], A), S) = Only(log[u], A \cap S)
        BY LogType, OnlyOnly
      <3>4. k = Only(log[u], A)
        BY <2>2, <3>1
      <3> QED BY <3>2, <3>3, <3>4, Zenon
    <2>12. InRam(u)' = <<>> /\ Cat(c, <<>>) = c
      BY <1>1, CatEmpty DEF Ended
    <2>13. c = Readable(u)' /\ log' = log
      BY <1>1, <2>2
    <2> QED BY <2>4, <2>10, <2>11, <2>12, <2>13, Zenon
  <1>6. KeptInv'
    BY <1>5 DEF KeptInv, Cat
  <1> QED BY <1>1, <1>4, <1>6 DEF LogInv

--------------------------------------------------------------------------------
(* The invariant holds *)

LEMMA LogInit ==
  ASSUME TsInv, Init
  PROVE  LogInv
  <1>1. /\ gone = {} /\ made = 0 /\ log = [s \in Streams |-> <<>>]
        /\ slots = [i \in Slots |-> FreeSlot] /\ disk = [s \in Streams |-> <<>>]
    BY DEF Init
  <1>2. \A s \in Streams : log[s] = <<>> /\ Range(log[s]) = {}
    BY <1>1, RangeEmpty
  <1>3. HistInv
    <2>1. \A s \in Streams : Increasing(log[s])
      BY <1>2 DEF Increasing
    <2> QED BY <1>1, <1>2, <2>1 DEF HistInv
  <1>4. \A i \in Slots : ~slots[i].used
    BY <1>1 DEF FreeSlot
  <1>5. FileInv
    BY <1>4 DEF FileInv
  <1>6. ASSUME NEW s \in Streams PROVE Cat(Readable(s), InRam(s)) = Only(log[s], Samples \ gone)
    <2>1. InRam(s) = <<>>
      <3>1. Open(s) = {}
        BY <1>4 DEF Open
      <3> QED BY <3>1, InRamIs, RamInIs
    <2>2. Readable(s) = <<>>
      <3>1. PICK fs : fs = disk[s]
        OBVIOUS
      <3>2. DOMAIN fs = {}
        BY <1>1, <3>1
      <3>3. FileSet(fs) /\ UpTo(fs, 0) /\ 0 \in Nat
        BY <3>2 DEF FileSet, UpTo
      <3>4. StoredIn(fs) = Joined(Shown(fs))[0]
        BY <3>3, StoredIs
      <3>5. Joined(Shown(fs))[0] = Shown(fs)[0] /\ Shown(fs)[0] = <<>>
        BY <3>2, JoinedIs DEF Shown
      <3> QED BY <3>1, <3>4, <3>5, ReadableIs
    <2>3. Only(log[s], Samples \ gone) = <<>>
      BY <1>2, OnlyEmpty
    <2>4. Cat(<<>>, <<>>) = <<>>
      BY EmptySeq, CatEmpty
    <2> QED BY <2>1, <2>2, <2>3, <2>4
  <1>7. KeptInv
    BY <1>6 DEF KeptInv
  <1> QED BY <1>3, <1>5, <1>7 DEF LogInv

LEMMA FlushStepKept ==
  ASSUME LogAssumptions, TsInv, TsInv', LogInv, NEW a \in Actors, FlushStep(a)
  PROVE  LogInv'
  BY FlushKept, StartKept, DiscardKept DEF FlushStep

LEMMA LogNext ==
  ASSUME LogAssumptions, TsInv, TsInv', LogInv, [Next]_vars
  PROVE  LogInv'
  <1>0. ASSUME UNCHANGED <<disk, slots, log, gone, made>> PROVE LogInv'
    BY <1>0, SameUntouched, UntouchedStep
  <1>1. ASSUME NEW t \in Threads, Call(t) PROVE LogInv'
    BY <1>0, <1>1, CallsTouchNothing DEF Call
  <1>2. ASSUME NEW t \in Threads, InCall(t) PROVE LogInv'
    <2>1. t \in Actors
      BY ActorsAre
    <2>2. CASE OpenJoin(t) \/ AppendFails(t)
      BY <2>2, OpenJoinUntouched, AppendFailsUntouched, UntouchedStep DEF LogAssumptions
    <2>3. CASE OpenClaim(t) \/ OpenRecover(t)
      BY <2>3, ClaimKept, RecoverKept
    <2>4. CASE FlushStep(t)
      BY <2>1, <2>4, FlushStepKept
    <2>5. CASE AppendBuffer(t) \/ CloseRelease(t)
      BY <2>5, AppendKept, ReleaseKept
    <2>6. CASE BatchFull(t)
      BY <1>0, <2>6, CallsTouchNothing
    <2>7. CASE FlushNotQueued(t) \/ SyncCheck(t) \/ SyncTake(t) \/ SyncWoken(t) \/ SyncReturn(t)
      BY <1>0, <2>7, FlushCallsTouchNothing
    <2> QED BY <1>2, <2>2, <2>3, <2>4, <2>5, <2>6, <2>7 DEF InCall
  <1>3. ASSUME NEW t \in Threads, WaitsForLock(t) \/ SyncTimeout(t) PROVE LogInv'
    BY <1>0, <1>3, CallsTouchNothing, FlushCallsTouchNothing DEF WaitsForLock
  <1>4. CASE WorkerStep \/ WorkerLock
    <2>1. CASE WorkerStart \/ WorkerLock \/ DrainNext
      BY <1>0, <2>1, WorkerTouchesNothing
    <2>2. CASE DrainDone \/ WorkerEnd
      BY <2>2, DrainDoneUntouched, WorkerEndUntouched, UntouchedStep
    <2>3. CASE FlushStep(Worker)
      BY <2>3, ActorsAre, FlushStepKept
    <2> QED BY <1>4, <2>1, <2>2, <2>3 DEF WorkerStep
  <1>5. ASSUME NEW s \in Streams, Rot(s) PROVE LogInv'
    BY <1>5, RotKept
  <1>6. CASE PowerLoss \/ Deinit
    BY <1>6, EndKept
  <1>7. CASE UNCHANGED vars
    BY <1>0, <1>7 DEF vars
  <1> QED
    BY <1>1, <1>2, <1>3, <1>4, <1>5, <1>6, <1>7 DEF Next, UpNext

LEMMA LogInvariant ==
  ASSUME LogAssumptions
  PROVE  Spec => [](TsInv /\ LogInv)
  <1>1. Init => TsInv /\ LogInv
    BY TsInit, LogInit DEF LogAssumptions
  <1>2. TsInv /\ LogInv /\ [Next]_vars => (TsInv /\ LogInv)'
    BY TsNext, LogNext DEF LogAssumptions
  <1> QED BY <1>1, <1>2, PTL DEF Spec

--------------------------------------------------------------------------------
(* Theorems *)

(* Every sample an append accepted is readable, from the segment files or from  *)
(* the ingest buffer, once and in the order of the appends, unless rollover,    *)
(* recovery, rot or the end of the instance took it; for every number of        *)
(* threads, streams, segments and samples, whoever flushes and wherever the     *)
(* power goes.  A failed write leaves records in the file and in the buffer,    *)
(* and a failed header a number no file stands behind: those two are left out.  *)
THEOREM SamplesAreKept ==
  ASSUME LogAssumptions
  PROVE  Spec => []SamplesKept
  <1>1. LogInv => SamplesKept
    BY DEF LogInv, KeptInv, SamplesKept, Cat
  <1> QED BY <1>1, LogInvariant, PTL

================================================================================
