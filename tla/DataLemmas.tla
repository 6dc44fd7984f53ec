----------------------------- MODULE DataLemmas -----------------------------
(***************************************************************************)
(* Lemmas about data that the proofs share: the least of a set of numbers, *)
(* from which induction follows, that a function defined by recursion over *)
(* 0 .. n is the function its definition describes, and what FlattenSeq    *)
(* holds.                                                                  *)
(***************************************************************************)
EXTENDS Integers, Sequences, SequencesExt, NaturalsInduction, WellFoundedInduction, TLAPS

LEMMA LeastOf ==
    ASSUME NEW T, T \subseteq Nat, T # {}
    PROVE  \E k \in T : \A j \in T : k <= j
<1> DEFINE R == OpToRel(<, Nat)
<1>1. IsWellFoundedOn(R, Nat)
  BY NatLessThanWellFounded
<1>2. \A x, y \in Nat : x < y => <<x, y>> \in R
  BY DEF OpToRel
<1> HIDE DEF R
<1>3. PICK k \in T : \A j \in T : <<j, k>> \notin R
  BY <1>1, WFMin
<1>4. ASSUME NEW j \in T PROVE k <= j
  <2>1. j \in Nat /\ k \in Nat
    OBVIOUS
  <2>2. ~(j < k)
    BY <1>2, <1>3, <2>1
  <2> QED BY <2>1, <2>2
<1> QED BY <1>4

\* Induction along 0 .. n: what holds of 0, and of each number if of the one before, holds of all.
LEMMA Along ==
    ASSUME NEW n \in Nat, NEW T, 0 \in T, \A i \in 1 .. n : i - 1 \in T => i \in T
    PROVE  \A i \in 0 .. n : i \in T
<1> DEFINE U == {i \in 0 .. n : i \notin T}
<1>1. SUFFICES ASSUME U # {} PROVE FALSE
  OBVIOUS
<1>2. PICK k \in U : \A j \in U : k <= j
  <2>1. U \subseteq Nat
    OBVIOUS
  <2> HIDE DEF U
  <2> QED BY <1>1, <2>1, LeastOf
<1>3. k \in 1 .. n /\ k - 1 \in 0 .. n /\ k \notin T
  <2>1. k \in 0 .. n /\ k \notin T /\ k # 0
    BY <1>2
  <2> QED BY <2>1
<1>4. k - 1 \in T
  <2>1. CASE k - 1 \notin T
    <3>1. k - 1 \in U
      BY <1>3, <2>1
    <3>2. k <= k - 1
      BY <1>2, <3>1
    <3> QED BY <1>3, <3>2
  <2> QED BY <2>1
<1> QED BY <1>3, <1>4

\* f starts with base and goes on by G.
Recurs(f, n, base, G) == f[0] = base /\ \A i \in 1 .. n : f[i] = G[<<i, f[i - 1]>>]

\* There is a function that does.
LEMMA Recursion ==
    ASSUME NEW n \in Nat, NEW S, NEW base \in S, NEW G \in [(1 .. n) \X S -> S]
    PROVE  \E f \in [0 .. n -> S] : Recurs(f, n, base, G)
<1> DEFINE Defined(m, f) == f[0] = base /\ \A i \in 1 .. m : f[i] = G[<<i, f[i - 1]>>]
           T == {m \in 0 .. n : \E f \in [0 .. m -> S] : Defined(m, f)}
<1>1. 0 \in T
  <2> DEFINE g == [i \in 0 .. 0 |-> base]
  <2>1. g \in [0 .. 0 -> S] /\ Defined(0, g)
    OBVIOUS
  <2> HIDE DEF g
  <2>2. 0 \in 0 .. n
    OBVIOUS
  <2> QED BY <2>1, <2>2
<1>2. ASSUME NEW m \in 1 .. n, m - 1 \in T PROVE m \in T
  <2>1. PICK f \in [0 .. m - 1 -> S] : Defined(m - 1, f)
    BY <1>2
  <2> DEFINE g == [i \in 0 .. m |-> IF i = m THEN G[<<m, f[m - 1]>>] ELSE f[i]]
  <2>2. m - 1 \in 0 .. (m - 1) /\ f[m - 1] \in S
    BY <2>1
  <2>3. G[<<m, f[m - 1]>>] \in S
    BY <2>2
  <2>4. g \in [0 .. m -> S]
    <3> SUFFICES ASSUME NEW i \in 0 .. m PROVE (IF i = m THEN G[<<m, f[m - 1]>>] ELSE f[i]) \in S
      OBVIOUS
    <3>1. i # m => i \in 0 .. (m - 1)
      OBVIOUS
    <3> QED BY <2>1, <2>3, <3>1
  <2>5. g[0] = base /\ g[m] = G[<<m, g[m - 1]>>]
    BY <2>1, <2>2
  <2>6. ASSUME NEW i \in 1 .. m PROVE g[i] = G[<<i, g[i - 1]>>]
    <3>1. CASE i = m
      BY <2>5, <3>1
    <3>2. CASE i # m
      <4>1. i \in 1 .. (m - 1) /\ i \in 0 .. m /\ i - 1 \in 0 .. m /\ i - 1 # m
        BY <3>2
      <4>2. g[i] = f[i] /\ g[i - 1] = f[i - 1]
        BY <3>2, <4>1
      <4>3. f[i] = G[<<i, f[i - 1]>>]
        BY <2>1, <4>1
      <4> QED BY <4>2, <4>3
    <3> QED BY <3>1, <3>2
  <2> HIDE DEF g
  <2> QED BY <2>4, <2>5, <2>6
<1> HIDE DEF T
<1>3. n \in T
  BY <1>1, <1>2, Along
<1> QED BY <1>3 DEF T, Recurs

-----------------------------------------------------------------------------
(* FlattenSeq.                                                             *)

\* f[i] is what the first i sequences of ss make when they are put together.
Flattens(f, ss) == f[0] = <<>> /\ \A i \in 1 .. Len(ss) : f[i] = f[i - 1] \o ss[i]

LEMMA FlattenIs ==
  ASSUME NEW S, NEW ss \in Seq(Seq(S))
  PROVE  \E f \in [0 .. Len(ss) -> Seq(S)] : Flattens(f, ss) /\ FlattenSeq(ss) = f[Len(ss)]
<1> DEFINE n == Len(ss)
           Q == Seq(S)
           base == <<>>
           G == [x \in (1 .. n) \X Q |-> x[2] \o ss[x[1]]]
<1>1. n \in Nat /\ base \in Q /\ \A i \in 1 .. n : ss[i] \in Q
  OBVIOUS
<1>2. G \in [(1 .. n) \X Q -> Q]
  <2> SUFFICES ASSUME NEW x \in (1 .. n) \X Q PROVE x[2] \o ss[x[1]] \in Q
    OBVIOUS
  <2> QED BY <1>1
<1>3. ASSUME NEW i \in 1 .. n, NEW x \in Q PROVE G[<<i, x>>] = x \o ss[i]
  OBVIOUS
<1> HIDE DEF G, n, base, Q
<1>4. PICK f \in [0 .. n -> Q] : f[0] = base /\ \A i \in 1 .. n : f[i] = G[<<i, f[i - 1]>>]
  <2>1. n \in Nat
    BY <1>1
  <2>2. base \in Q
    BY <1>1
  <2>3. \E f \in [0 .. n -> Q] : Recurs(f, n, base, G)
    BY <2>1, <2>2, <1>2, Recursion, Zenon
  <2> QED BY <2>3 DEF Recurs
<1>5. \A i \in 1 .. n : f[i] = f[i - 1] \o ss[i]
  <2> TAKE i \in 1 .. n
  <2>1. i - 1 \in 0 .. n
    BY <1>1
  <2> QED BY <1>3, <1>4, <2>1
<1>6. Flattens(f, ss)
  BY <1>4, <1>5 DEF Flattens, n, base
<1>7. CASE n = 0
  <2>1. ss = <<>> /\ FlattenSeq(ss) = ss
    BY <1>7 DEF FlattenSeq, n
  <2> QED BY <1>4, <1>6, <1>7, <2>1 DEF n, base, Q
<1>8. CASE n # 0
  <2> DEFINE D == 1 .. Len(ss)
             E(h, i) == IF i = 1 THEN ss[i] ELSE h[i - 1] \o ss[i]
             h == CHOOSE h : h = [i \in D |-> E(h, i)]
             g == [i \in D |-> f[i]]
  <2>1. FlattenSeq(ss) = h[n]
    BY <1>8 DEF FlattenSeq, n
  <2>2. g = [i \in D |-> E(g, i)]
    <3> SUFFICES ASSUME NEW i \in D PROVE f[i] = E(g, i)
      OBVIOUS
    <3>1. CASE i = 1
      <4>1. 1 \in 1 .. n /\ 1 - 1 = 0
        BY <3>1 DEF n
      <4>2. f[1] = f[1 - 1] \o ss[1] /\ ss[1] \in Q
        BY <1>1, <1>5, <4>1
      <4>3. f[1] = f[0] \o ss[1] /\ f[0] = base /\ ss[1] \in Seq(S)
        BY <1>4, <4>1, <4>2 DEF Q
      <4> QED BY <3>1, <4>3 DEF base
    <3>2. CASE i # 1
      <4>1. i - 1 \in D /\ i \in 1 .. n
        BY <1>1, <3>2 DEF n
      <4> QED BY <1>5, <3>2, <4>1
    <3> QED BY <3>1, <3>2
  <2> HIDE DEF g
  <2>3. h = [i \in D |-> E(h, i)]
    BY <2>2
  <2> HIDE DEF h
  <2>4. \A i \in D : h[i] = E(h, i)
    <3> HIDE DEF E, D
    <3> QED BY <2>3, Zenon
  <2>5. \A i \in 0 .. n : i # 0 => h[i] = f[i]
    <3> DEFINE T == {i \in 0 .. n : i # 0 => h[i] = f[i]}
    <3>1. 0 \in T
      BY <1>1
    <3>2. ASSUME NEW i \in 1 .. n, i - 1 \in T PROVE i \in T
      <4>1. i \in D /\ h[i] = E(h, i)
        BY <2>4 DEF n
      <4>2. CASE i = 1
        <5> DEFINE z == 1 - 1
        <5>3. 1 \in 1 .. n /\ z = 0
          BY <4>2
        <5>4. f[1] = f[z] \o ss[1] /\ ss[1] \in Q
          BY <1>1, <1>5, <5>3
        <5> HIDE DEF z
        <5>1. f[1] = f[0] \o ss[1] /\ f[0] = base /\ ss[1] \in Seq(S)
          BY <1>4, <5>3, <5>4 DEF Q
        <5>2. f[1] = ss[1]
          BY <5>1 DEF base
        <5> QED BY <4>1, <4>2, <5>2
      <4>3. CASE i # 1
        <5>1. i - 1 # 0 /\ i - 1 \in 0 .. n /\ i \in 0 .. n
          BY <1>1, <4>3
        <5>2. h[i - 1] = f[i - 1]
          BY <3>2, <5>1
        <5>3. h[i] = f[i]
          BY <1>5, <4>1, <4>3, <5>2
        <5> QED BY <5>1, <5>3
      <4> QED BY <4>2, <4>3
    <3> HIDE DEF T
    <3>3. \A i \in 0 .. n : i \in T
      BY <1>1, <3>1, <3>2, Along
    <3> QED BY <3>3 DEF T
  <2>6. h[n] = f[n]
    BY <1>1, <1>8, <2>5
  <2> QED BY <1>6, <2>1, <2>6 DEF n, Q
<1> QED BY <1>7, <1>8

Elements(s) == {s[k] : k \in 1 .. Len(s)}

LEMMA ElementsOfJoin ==
  ASSUME NEW S, NEW s \in Seq(S), NEW t \in Seq(S)
  PROVE  s \o t \in Seq(S) /\ Len(s \o t) = Len(s) + Len(t) /\ Elements(s \o t) = Elements(s) \cup Elements(t)
<1>1. ASSUME NEW k \in 1 .. Len(s \o t) PROVE (s \o t)[k] \in Elements(s) \cup Elements(t)
  <2>1. k \in 1 .. Len(s) \/ k - Len(s) \in 1 .. Len(t)
    OBVIOUS
  <2> QED BY <2>1 DEF Elements
<1>2. ASSUME NEW k \in 1 .. Len(s) PROVE s[k] \in Elements(s \o t)
  <2>1. k \in 1 .. Len(s \o t) /\ (s \o t)[k] = s[k]
    OBVIOUS
  <2> QED BY <2>1 DEF Elements
<1>3. ASSUME NEW k \in 1 .. Len(t) PROVE t[k] \in Elements(s \o t)
  <2>1. k + Len(s) \in 1 .. Len(s \o t) /\ (s \o t)[k + Len(s)] = t[k]
    OBVIOUS
  <2> QED BY <2>1 DEF Elements
<1>4. Elements(s \o t) = Elements(s) \cup Elements(t)
  BY <1>1, <1>2, <1>3 DEF Elements
<1> QED BY <1>4

\* It holds what the sequences hold.
LEMMA FlattenHolds ==
  ASSUME NEW S, NEW ss \in Seq(Seq(S))
  PROVE  /\ FlattenSeq(ss) \in Seq(S)
         /\ Elements(FlattenSeq(ss)) = UNION {Elements(ss[i]) : i \in 1 .. Len(ss)}
<1> DEFINE n == Len(ss)
<1>1. n \in Nat /\ \A i \in 1 .. n : ss[i] \in Seq(S)
  OBVIOUS
<1>3. PICK f \in [0 .. n -> Seq(S)] : Flattens(f, ss) /\ FlattenSeq(ss) = f[n]
  BY FlattenIs
<1>4. f[0] = <<>> /\ \A i \in 1 .. n : f[i] = f[i - 1] \o ss[i]
  BY <1>3 DEF Flattens
<1> DEFINE Has(m) == Elements(f[m]) = UNION {Elements(ss[i]) : i \in 1 .. m}
           T == {m \in 0 .. n : Has(m)}
<1>5. Has(0)
  <2>1. Elements(f[0]) = {} /\ 1 .. 0 = {}
    BY <1>4 DEF Elements
  <2> QED BY <2>1
<1> HIDE DEF n
<1>6. ASSUME NEW m \in 1 .. n, Has(m - 1) PROVE Has(m)
  <2>1. m - 1 \in 0 .. n /\ f[m - 1] \in Seq(S) /\ ss[m] \in Seq(S) /\ f[m] = f[m - 1] \o ss[m]
    <3>1. m - 1 \in 0 .. n
      BY <1>1
    <3>2. f[m - 1] \in Seq(S)
      BY <1>3, <3>1
    <3> QED BY <1>1, <1>4, <3>1, <3>2
  <2>2. Elements(f[m]) = Elements(f[m - 1]) \cup Elements(ss[m])
    BY <2>1, ElementsOfJoin
  <2>3. 1 .. m = (1 .. (m - 1)) \cup {m}
    BY <1>1
  <2> QED BY <1>6, <2>2, <2>3, Zenon
<1> HIDE DEF Has
<1>7. \A i \in 0 .. n : i \in T
  <2>1. n \in Nat
    BY <1>1
  <2>2. 0 \in T
    BY <1>1, <1>5
  <2>3. \A i \in 1 .. n : i - 1 \in T => i \in T
    BY <1>1, <1>6
  <2> HIDE DEF T
  <2> QED BY <2>1, <2>2, <2>3, Along, Zenon
<1>8. Has(n)
  BY <1>1, <1>7
<1>9. f[n] \in Seq(S)
  BY <1>1, <1>3
<1> QED BY <1>3, <1>8, <1>9 DEF Has, n

\* Of sequences no longer than w it makes one no longer than as many times w.
LEMMA FlattenLength ==
  ASSUME NEW S, NEW ss \in Seq(Seq(S)), NEW w \in Nat, \A i \in 1 .. Len(ss) : Len(ss[i]) <= w
  PROVE  Len(FlattenSeq(ss)) <= Len(ss) * w
<1> DEFINE n == Len(ss)
<1>1. n \in Nat /\ \A i \in 1 .. n : ss[i] \in Seq(S) /\ Len(ss[i]) \in Nat
  OBVIOUS
<1>2. PICK f \in [0 .. n -> Seq(S)] : Flattens(f, ss) /\ FlattenSeq(ss) = f[n]
  BY FlattenIs
<1>3. f[0] = <<>> /\ \A i \in 1 .. n : f[i] = f[i - 1] \o ss[i] /\ Len(ss[i]) <= w
  BY <1>2 DEF Flattens
<1> HIDE DEF n
<1> DEFINE Fits(m) == Len(f[m]) <= m * w
           T == {m \in 0 .. n : Fits(m)}
<1>4. Fits(0)
  BY <1>3
<1>5. ASSUME NEW m \in 1 .. n, Fits(m - 1) PROVE Fits(m)
  <2> DEFINE a == Len(f[m - 1])
             b == Len(ss[m])
             c == (m - 1) * w
             d == m * w
             e == Len(f[m])
  <2>1. m - 1 \in 0 .. n /\ f[m - 1] \in Seq(S) /\ ss[m] \in Seq(S) /\ f[m] = f[m - 1] \o ss[m]
    <3>1. m - 1 \in 0 .. n
      BY <1>1
    <3>2. f[m - 1] \in Seq(S)
      BY <1>2, <3>1
    <3> QED BY <1>1, <1>3, <3>1, <3>2
  <2>2. e = a + b /\ a \in Nat /\ b \in Nat
    BY <2>1
  <2>3. c + w = d /\ c \in Nat /\ d \in Nat
    BY <2>1
  <2>4. a <= c /\ b <= w
    BY <1>3, <1>5
  <2> HIDE DEF a, b, c, d, e
  <2>5. e <= d
    BY <2>2, <2>3, <2>4
  <2> QED BY <2>5 DEF d, e
<1> HIDE DEF Fits
<1>6. \A i \in 0 .. n : i \in T
  <2>1. n \in Nat
    BY <1>1
  <2>2. 0 \in T
    BY <1>1, <1>4
  <2>3. \A i \in 1 .. n : i - 1 \in T => i \in T
    BY <1>1, <1>5
  <2> HIDE DEF T
  <2> QED BY <2>1, <2>2, <2>3, Along, Zenon
<1>7. Fits(n)
  BY <1>1, <1>6
<1> QED BY <1>2, <1>7 DEF Fits, n

\* Of sequences of length w, but for the last, each stands where it should.
LEMMA FlattenEven ==
  ASSUME NEW S, NEW ss \in Seq(Seq(S)), Len(ss) # 0, NEW w \in Nat, \A i \in 1 .. (Len(ss) - 1) : Len(ss[i]) = w
  PROVE  /\ Len(FlattenSeq(ss)) = (Len(ss) - 1) * w + Len(ss[Len(ss)])
         /\ \A i \in 1 .. Len(ss) : \A j \in 1 .. Len(ss[i]) :
              (i - 1) * w + j \in 1 .. Len(FlattenSeq(ss)) /\ FlattenSeq(ss)[(i - 1) * w + j] = ss[i][j]
<1> DEFINE n == Len(ss)
<1>1. n \in Nat /\ n # 0 /\ \A i \in 1 .. n : ss[i] \in Seq(S) /\ Len(ss[i]) \in Nat
  OBVIOUS
<1>2. PICK f \in [0 .. n -> Seq(S)] : Flattens(f, ss) /\ FlattenSeq(ss) = f[n]
  BY FlattenIs
<1>3. f[0] = <<>> /\ \A i \in 1 .. n : f[i] = f[i - 1] \o ss[i]
  BY <1>2 DEF Flattens
<1>4. \A i \in 1 .. (n - 1) : Len(ss[i]) = w
  OBVIOUS
<1> HIDE DEF n
<1> DEFINE At(i, j) == (i - 1) * w + j
           Stands(i, j, s) == At(i, j) \in 1 .. Len(s) /\ s[At(i, j)] = ss[i][j]
           Stand(m, s) == \A i \in 1 .. m : \A j \in 1 .. Len(ss[i]) : Stands(i, j, s)
           Even(m) == /\ m < n => Len(f[m]) = m * w
                      /\ m = n => Len(f[m]) = (m - 1) * w + Len(ss[m])
                      /\ Stand(m, f[m])
           T == {m \in 0 .. n : Even(m)}
<1>5. Even(0)
  <2>1. Len(f[0]) = 0 * w /\ 1 .. 0 = {}
    BY <1>3
  <2> QED BY <1>1, <2>1
<1>6. ASSUME NEW m \in 1 .. n, Even(m - 1) PROVE Even(m)
  <2> DEFINE a == f[m - 1]
             b == ss[m]
             c == (m - 1) * w
  <2>1. m - 1 \in 0 .. n /\ a \in Seq(S) /\ b \in Seq(S) /\ f[m] = a \o b /\ m - 1 < n /\ m - 1 \in Nat
    <3>1. m - 1 \in 0 .. n /\ m - 1 < n /\ m - 1 \in Nat
      BY <1>1
    <3>2. f[m - 1] \in Seq(S)
      BY <1>2, <3>1
    <3> QED BY <1>1, <1>3, <3>1, <3>2
  <2>2. Len(a) = c /\ c \in Nat /\ c + w = m * w
    BY <1>6, <2>1
  <2>3. m < n => Len(b) = w
    <3>1. m < n => m \in 1 .. (n - 1)
      BY <1>1
    <3> QED BY <1>4, <3>1
  <2>4. Stand(m - 1, a)
    BY <1>6
  <2> HIDE DEF a, Stands
  <2>5. Len(f[m]) = c + Len(b)
    <3>1. Len(a) = c
      BY <2>2
    <3>2. a \in Seq(S) /\ b \in Seq(S) /\ f[m] = a \o b
      BY <2>1
    <3> HIDE DEF b, c
    <3>3. Len(f[m]) = Len(a) + Len(b)
      BY <3>2
    <3> QED BY <3>1, <3>3
  <2>6. ASSUME NEW i \in 1 .. m, NEW j \in 1 .. Len(ss[i]) PROVE Stands(i, j, a \o b)
    <3>1. CASE i = m
      <4>1. j \in 1 .. Len(b) /\ At(i, j) = Len(a) + j
        BY <2>2, <2>6, <3>1
      <4> HIDE DEF At, b, c
      <4>2. At(i, j) \in 1 .. Len(a \o b) /\ (a \o b)[At(i, j)] = b[j]
        BY <2>1, <4>1
      <4> QED BY <3>1, <4>2 DEF Stands, b
    <3>2. CASE i # m
      <4>1. i \in 1 .. (m - 1)
        BY <2>1, <3>2
      <4>2. Stands(i, j, a)
        BY <2>4, <4>1
      <4> HIDE DEF At, b, c
      <4>3. At(i, j) \in 1 .. Len(a) /\ a[At(i, j)] = ss[i][j]
        BY <4>2 DEF Stands
      <4>4. At(i, j) \in 1 .. Len(a \o b) /\ (a \o b)[At(i, j)] = a[At(i, j)]
        BY <2>1, <4>3
      <4> QED BY <4>3, <4>4 DEF Stands
    <3> QED BY <3>1, <3>2
  <2>7. Stand(m, f[m])
    BY <2>1, <2>6
  <2> HIDE DEF Stand
  <2>8. m < n => Len(f[m]) = m * w
    BY <2>2, <2>3, <2>5
  <2> QED BY <2>5, <2>7, <2>8
<1> HIDE DEF Even
<1>7. \A i \in 0 .. n : i \in T
  <2>1. n \in Nat
    BY <1>1
  <2>2. 0 \in T
    BY <1>1, <1>5
  <2>3. \A i \in 1 .. n : i - 1 \in T => i \in T
    BY <1>1, <1>6
  <2> HIDE DEF T
  <2> QED BY <2>1, <2>2, <2>3, Along, Zenon
<1>8. Even(n)
  BY <1>1, <1>7
<1> QED BY <1>2, <1>8 DEF Even, n
=============================================================================
