----------------------- MODULE VehiclesBySchedule_proofs -----------------------
(* Proofs about the vehicles the timetable puts on the map, for any feed, any   *)
(* day and any requests: the geometry, the scan over the connections, and that  *)
(* every answer follows from the last connection of each trip under way.        *)
EXTENDS VehiclesBySchedule, GtfsFeed_proofs

-------------------------------------------------------------------------------
(* Induction: a set of numbers has a least one, one with a bound a greatest.    *)
LEMMA LeastNat ==
    ASSUME NEW S \in SUBSET Nat, NEW n \in S
    PROVE  \E m \in S : \A k \in S : m <= k
<1>. DEFINE R == {p \in Nat \X Nat : p[1] < p[2]}
<1>1. IsWellFoundedOn(R, Nat)
  BY NatLessThanWellFounded DEF OpToRel
<1>2. PICK m \in S : \A k \in S : <<k, m>> \notin R
  <2>. HIDE DEF R
  <2>. QED
    BY <1>1, WFMin
<1>3. ASSUME NEW k \in S PROVE m <= k
  <2>1. ~(k < m)
    BY <1>2
  <2>. QED
    BY <2>1
<1>. QED
  BY <1>3

LEMMA GreatestNat ==
    ASSUME NEW S \in SUBSET Nat, NEW n \in S, NEW b \in Nat, \A k \in S : k <= b
    PROVE  \E m \in S : \A k \in S : k <= m
<1>. DEFINE D == {d \in Nat : b - d \in S}
<1>1. b - n \in D
  OBVIOUS
<1>2. PICK d \in D : \A e \in D : d <= e
  <2>1. D \in SUBSET Nat
    OBVIOUS
  <2>. HIDE DEF D
  <2>. QED
    BY <1>1, <2>1, LeastNat
<1>3. ASSUME NEW k \in S PROVE k <= b - d
  <2>1. b - k \in D /\ k \in Nat /\ d \in Nat
    OBVIOUS
  <2>2. d <= b - k
    BY <2>1, <1>2
  <2>. QED
    BY <2>1, <2>2
<1>. QED
  BY <1>2, <1>3

(* A definition of f[i] by f[i - 1] has a solution.                             *)
Recursive(lo, hi, a, g, f) ==
    f = [i \in lo .. hi |-> IF i = lo THEN a ELSE g[<<i, f[i - 1]>>]]
LEMMA RecursionExists ==
    ASSUME NEW lo \in Int, NEW hi \in Int, NEW T, NEW a \in T, NEW g \in [(lo .. hi) \X T -> T]
    PROVE  \E f \in [lo .. hi -> T] : Recursive(lo, hi, a, g, f)
<1>. DEFINE Solves(f, k) ==
                /\ f \in [lo .. lo + k -> T]
                /\ \A i \in lo .. lo + k : f[i] = IF i = lo THEN a ELSE g[<<i, f[i - 1]>>]
            Bad == {k \in Nat : lo + k <= hi /\ ~\E f : Solves(f, k)}
<1>1. Bad = {}
  <2>1. SUFFICES ASSUME NEW n \in Bad PROVE FALSE
    OBVIOUS
  <2>2. PICK m \in Bad : \A k \in Bad : m <= k
    <3>1. Bad \in SUBSET Nat
      OBVIOUS
    <3>. HIDE DEF Bad
    <3>. QED
      BY <2>1, <3>1, LeastNat
  <2>3. CASE m = 0
    <3>1. Solves([i \in lo .. lo |-> a], 0)
      OBVIOUS
    <3>. QED
      BY <2>2, <2>3, <3>1
  <2>4. CASE m # 0
    <3>1. m - 1 \in Nat /\ lo + (m - 1) <= hi /\ m - 1 \notin Bad
      BY <2>2, <2>4
    <3>2. PICK f : Solves(f, m - 1)
      BY <3>1
    <3>. DEFINE h == [i \in lo .. lo + m |-> IF i = lo + m THEN g[<<i, f[i - 1]>>] ELSE f[i]]
    <3>3. f \in [lo .. lo + (m - 1) -> T] /\ m \in Nat \ {0} /\ lo + m \in lo .. hi
      BY <3>1, <3>2, <2>2, <2>4
    <3>4. f[lo + m - 1] \in T /\ g[<<lo + m, f[lo + m - 1]>>] \in T
      <4>1. lo + m - 1 \in lo .. lo + (m - 1)
        BY <3>3
      <4>2. f[lo + m - 1] \in T
        BY <4>1, <3>3
      <4>3. <<lo + m, f[lo + m - 1]>> \in (lo .. hi) \X T
        BY <4>2, <3>3
      <4>. QED
        BY <4>2, <4>3
    <3>5. h \in [lo .. lo + m -> T]
      BY <3>3, <3>4
    <3>6. ASSUME NEW i \in lo .. lo + m PROVE h[i] = IF i = lo THEN a ELSE g[<<i, h[i - 1]>>]
      <4>1. CASE i = lo + m
        <5>1. h[i] = g[<<i, f[i - 1]>>] /\ h[i - 1] = f[i - 1] /\ i # lo
          BY <4>1, <3>3
        <5>. QED
          BY <5>1
      <4>2. CASE i # lo + m
        <5>1. i \in lo .. lo + (m - 1) /\ h[i] = f[i] /\ (i # lo => h[i - 1] = f[i - 1])
          BY <4>2, <3>3
        <5>. QED
          BY <5>1, <3>2
      <4>. QED
        BY <4>1, <4>2
    <3>7. Solves(h, m)
      <4>. HIDE DEF h
      <4>. QED
        BY <3>5, <3>6
    <3>. QED
      BY <3>7, <2>2
  <2>. QED
    BY <2>3, <2>4
<1>2. CASE lo <= hi
  <2>1. hi - lo \in Nat /\ hi - lo \notin Bad /\ lo + (hi - lo) = hi
    <3>. HIDE DEF Bad
    <3>. QED
      BY <1>1, <1>2
  <2>2. PICK f : Solves(f, hi - lo)
    BY <2>1
  <2>3. f \in [lo .. hi -> T] /\ \A i \in lo .. hi : f[i] = IF i = lo THEN a ELSE g[<<i, f[i - 1]>>]
    BY <2>1, <2>2
  <2>4. f = [i \in lo .. hi |-> IF i = lo THEN a ELSE g[<<i, f[i - 1]>>]]
    BY <2>3
  <2>. QED
    BY <2>3, <2>4 DEF Recursive
<1>3. CASE ~(lo <= hi)
  <2>1. lo .. hi = {}
    BY <1>3
  <2>. DEFINE f == [i \in lo .. hi |-> a]
  <2>2. f \in [lo .. hi -> T]
    OBVIOUS
  <2>3. f = [i \in lo .. hi |-> IF i = lo THEN a ELSE g[<<i, f[i - 1]>>]]
    BY <2>1
  <2>. HIDE DEF f
  <2>. QED
    BY <2>2, <2>3 DEF Recursive
<1>. QED
  BY <1>2, <1>3

-------------------------------------------------------------------------------
(* Products with a scale keep sums and order.                                   *)
LEMMA ScaleSum == ASSUME NEW a \in Int, NEW b \in Int, NEW c \in Int
                  PROVE  /\ (a + b) * c = a * c + b * c
                         /\ (a - b) * c = a * c - b * c
                         /\ a * c \in Int
OBVIOUS

LEMMA ScaleOrder == ASSUME NEW a \in Int, NEW b \in Int, NEW c \in Nat
                    PROVE  /\ a <= b => a * c <= b * c
                           /\ c # 0 /\ a < b => a * c < b * c
OBVIOUS

-------------------------------------------------------------------------------
(* Polylines: Dist, and what Cumulative adds up.                                *)
LEMMA DistFacts ==
    ASSUME NEW p \in Int, NEW q \in Int
    PROVE  /\ Dist(p, q) \in Nat
           /\ Dist(p, q) = 0 => p = q
           /\ \/ p <= q /\ q = p + Dist(p, q)
              \/ q < p /\ q = p - Dist(p, q)
BY DEF Dist

AddsUp(points, cum) ==
    /\ cum \in [1 .. Len(points) -> Nat]
    /\ cum[1] = 0
    /\ \A i \in 2 .. Len(points) : cum[i] = cum[i - 1] + Dist(points[i - 1], points[i])

LEMMA CumulativeFacts ==
    ASSUME NEW points \in Seq(Int), Len(points) >= 1
    PROVE  AddsUp(points, Cumulative(points))
<1>. DEFINE n == Len(points)
            Def(c) == c = [i \in 1 .. n |-> IF i = 1 THEN 0 ELSE c[i - 1] + Dist(points[i - 1], points[i])]
            g == [p \in (1 .. n) \X Nat |->
                     IF p[1] = 1 THEN 0 ELSE p[2] + Dist(points[p[1] - 1], points[p[1]])]
<1>1. n \in Nat /\ n >= 1 /\ \A i \in 1 .. n : points[i] \in Int
  BY LenProperties, ElementOfSeq
<1>2. ASSUME NEW i \in 2 .. n PROVE Dist(points[i - 1], points[i]) \in Nat
  <2>1. points[i - 1] \in Int /\ points[i] \in Int
    BY <1>1
  <2>. QED
    BY <2>1, DistFacts
<1>3. g \in [(1 .. n) \X Nat -> Nat]
  <2>1. ASSUME NEW p \in (1 .. n) \X Nat
        PROVE  (IF p[1] = 1 THEN 0 ELSE p[2] + Dist(points[p[1] - 1], points[p[1]])) \in Nat
    <3>1. p[1] \in 1 .. n /\ p[2] \in Nat
      OBVIOUS
    <3>2. p[1] # 1 => Dist(points[p[1] - 1], points[p[1]]) \in Nat
      BY <3>1, <1>1, <1>2
    <3>. QED
      BY <3>1, <3>2
  <2>. QED
    BY <2>1
<1>4. PICK f \in [1 .. n -> Nat] : Recursive(1, n, 0, g, f)
  <2>1. 1 \in Int /\ n \in Int /\ 0 \in Nat
    BY <1>1
  <2>. HIDE DEF g, n
  <2>. QED
    BY <2>1, <1>3, RecursionExists
<1>5. ASSUME NEW i \in 1 .. n
      PROVE  f[i] = IF i = 1 THEN 0 ELSE f[i - 1] + Dist(points[i - 1], points[i])
  <2>1. f[i] = IF i = 1 THEN 0 ELSE g[<<i, f[i - 1]>>]
    <3>. HIDE DEF g
    <3>. QED
      BY <1>4 DEF Recursive
  <2>2. i # 1 => <<i, f[i - 1]>> \in (1 .. n) \X Nat
    <3>1. i # 1 => i - 1 \in 1 .. n
      BY <1>1
    <3>2. i # 1 => f[i - 1] \in Nat
      BY <3>1
    <3>. QED
      BY <3>2
  <2>. QED
    BY <2>1, <2>2
<1>6. Def(f)
  BY <1>4, <1>5
<1>7. Cumulative(points) = CHOOSE c : Def(c)
  BY DEF Cumulative
<1>8. Def(Cumulative(points))
  <2>. HIDE DEF Def
  <2>. QED
    BY <1>6, <1>7
<1>. DEFINE cum == Cumulative(points)
<1>9. cum = [i \in 1 .. n |-> IF i = 1 THEN 0 ELSE cum[i - 1] + Dist(points[i - 1], points[i])]
  BY <1>8
<1>. HIDE DEF cum, g
<1>10. cum[1] = 0 /\ \A i \in 2 .. n : cum[i] = cum[i - 1] + Dist(points[i - 1], points[i])
  BY <1>1, <1>9
<1>11. \A i \in 1 .. n : cum[i] \in Nat
  <2>. DEFINE Bad == {i \in 1 .. n : cum[i] \notin Nat}
  <2>1. SUFFICES ASSUME NEW b \in Bad PROVE FALSE
    OBVIOUS
  <2>2. PICK m \in Bad : \A k \in Bad : m <= k
    <3>1. Bad \in SUBSET Nat
      BY <1>1
    <3>. HIDE DEF Bad
    <3>. QED
      BY <2>1, <3>1, LeastNat
  <2>3. m # 1 /\ m \in 1 .. n /\ m - 1 \notin Bad
    BY <1>1, <1>10, <2>2
  <2>4. cum[m - 1] \in Nat /\ cum[m] = cum[m - 1] + Dist(points[m - 1], points[m])
    BY <1>1, <1>10, <2>3
  <2>5. Dist(points[m - 1], points[m]) \in Nat
    BY <1>1, <1>2, <2>3
  <2>. QED
    BY <2>2, <2>4, <2>5
<1>12. cum \in [1 .. n -> Nat]
  BY <1>9, <1>11
<1>. QED
  BY <1>10, <1>12 DEF AddsUp, cum

LEMMA StepOn ==
    ASSUME NEW a \in Nat, NEW b \in Nat, NEW c \in Nat, NEW s \in Nat, a <= b, c = b + s
    PROVE  a <= c /\ (a = c => a = b /\ s = 0)
OBVIOUS

(* Distances along a shape do not decrease, and stay the same only at a place.  *)
LEMMA CumulativeGrows ==
    ASSUME NEW points \in Seq(Int), NEW cum, AddsUp(points, cum),
           NEW i \in 1 .. Len(points), NEW j \in 1 .. Len(points), i <= j
    PROVE  /\ cum[i] <= cum[j]
           /\ cum[i] = cum[j] => points[i] = points[j]
<1>. DEFINE n == Len(points)
            Good(k) == cum[i] <= cum[k] /\ (cum[i] = cum[k] => points[i] = points[k])
            Bad == {k \in i .. n : ~Good(k)}
<1>1. n \in Nat /\ (\A k \in 1 .. n : points[k] \in Int) /\ \A k \in 1 .. n : cum[k] \in Nat
  BY LenProperties, ElementOfSeq DEF AddsUp
<1>2. SUFFICES ASSUME Bad # {} PROVE FALSE
  <2>1. j \in i .. n
    BY <1>1
  <2>. QED
    BY <2>1
<1>3. PICK m \in Bad : \A k \in Bad : m <= k
  <2>1. Bad \in SUBSET Nat
    BY <1>1
  <2>. HIDE DEF Bad
  <2>. QED
    BY <1>2, <2>1, LeastNat
<1>4. Good(i)
  BY <1>1
<1>5. m \in i + 1 .. n /\ Good(m - 1)
  BY <1>1, <1>3, <1>4
<1>6. cum[m] = cum[m - 1] + Dist(points[m - 1], points[m])
  BY <1>5, <1>1 DEF AddsUp
<1>7. /\ m \in 1 .. n /\ m - 1 \in 1 .. n
      /\ cum[m] \in Nat /\ cum[m - 1] \in Nat /\ cum[i] \in Nat
      /\ points[m] \in Int /\ points[m - 1] \in Int /\ points[i] \in Int
  BY <1>1, <1>5
<1>8. /\ Dist(points[m - 1], points[m]) \in Nat
      /\ Dist(points[m - 1], points[m]) = 0 => points[m - 1] = points[m]
  BY <1>7, DistFacts
<1>9. Good(m)
  <2>. DEFINE step == Dist(points[m - 1], points[m])
  <2>1. cum[m] = cum[m - 1] + step /\ step \in Nat /\ (step = 0 => points[m - 1] = points[m])
    BY <1>6, <1>8
  <2>. HIDE DEF step
  <2>2. cum[i] <= cum[m - 1] /\ (cum[i] = cum[m - 1] => points[i] = points[m - 1])
    BY <1>5
  <2>3. cum[i] <= cum[m] /\ (cum[i] = cum[m] => cum[i] = cum[m - 1] /\ step = 0)
    <3>1. step \in Nat /\ cum[i] \in Nat /\ cum[m - 1] \in Nat /\ cum[m] \in Nat
      BY <2>1, <1>7
    <3>. QED
      BY ONLY <2>1, <2>2, <3>1, StepOn
  <2>. QED
    BY <2>1, <2>2, <2>3
<1>. QED
  BY <1>3, <1>9

(* There is a nearest vertex.                                                   *)
LEMMA NearestFacts ==
    ASSUME NEW points \in Seq(Int), Len(points) >= 1, NEW x \in Int
    PROVE  NearestIndex(points, x) \in 1 .. Len(points)
<1>. DEFINE n == Len(points)
            D == {Dist(points[i], x) : i \in 1 .. n}
<1>1. n \in Nat /\ 1 \in 1 .. n /\ \A i \in 1 .. n : points[i] \in Int
  BY LenProperties, ElementOfSeq
<1>2. \A i \in 1 .. n : Dist(points[i], x) \in Nat
  BY <1>1, DistFacts
<1>3. PICK m \in D : \A k \in D : m <= k
  <2>1. D \in SUBSET Nat /\ Dist(points[1], x) \in D
    BY <1>1, <1>2
  <2>. HIDE DEF D
  <2>. QED
    BY <2>1, LeastNat
<1>. DEFINE I == {i \in 1 .. n : Dist(points[i], x) = m}
<1>4. PICK i \in I : \A k \in I : i <= k
  <2>1. PICK k \in 1 .. n : Dist(points[k], x) = m
    BY <1>3
  <2>2. I \in SUBSET Nat /\ k \in I
    BY <2>1, <1>1
  <2>. HIDE DEF I
  <2>. QED
    BY <2>2, LeastNat
<1>5. ASSUME NEW j \in 1 .. n
      PROVE  /\ Dist(points[i], x) <= Dist(points[j], x)
             /\ j < i => Dist(points[i], x) < Dist(points[j], x)
  <2>1. Dist(points[j], x) \in Nat /\ Dist(points[j], x) \in D /\ Dist(points[i], x) = m
    BY <1>2, <1>4
  <2>2. m <= Dist(points[j], x)
    BY <2>1, <1>3
  <2>3. m \in Nat
    BY <1>2, <1>3
  <2>4. j < i => Dist(points[j], x) # m
    BY <1>4, <1>1
  <2>. QED
    BY <2>1, <2>2, <2>3, <2>4
<1>6. i \in 1 .. n
  BY <1>4
<1>. QED
  BY <1>5, <1>6 DEF NearestIndex

(* A shape in units of 1 / scale.                                               *)
ScaledTo(points, scale, C, P) ==
    /\ C = [k \in 1 .. Len(points) |-> Cumulative(points)[k] * scale]
    /\ P = [k \in 1 .. Len(points) |-> points[k] * scale]
Runs(points, C, P) ==
    /\ C \in [1 .. Len(points) -> Nat] /\ P \in [1 .. Len(points) -> Int] /\ C[1] = 0
    /\ \A k, l \in 1 .. Len(points) : k <= l => C[k] <= C[l]
    /\ \A k, l \in 1 .. Len(points) : C[k] = C[l] => P[k] = P[l]
    /\ \A k \in 2 .. Len(points) :
          IF points[k - 1] <= points[k]
          THEN P[k] = P[k - 1] + (C[k] - C[k - 1])
          ELSE P[k] = P[k - 1] - (C[k] - C[k - 1])

LEMMA ScaledFacts ==
    ASSUME NEW points \in Seq(Int), Len(points) >= 1, NEW scale \in Nat \ {0},
           NEW C, NEW P, ScaledTo(points, scale, C, P)
    PROVE  Runs(points, C, P)
<1>. DEFINE n == Len(points)
            cum == Cumulative(points)
<1>1. n \in Nat /\ n >= 1 /\ \A k \in 1 .. n : points[k] \in Int
  BY LenProperties, ElementOfSeq
<1>2. AddsUp(points, cum)
  BY CumulativeFacts
<1>3. /\ C = [k \in 1 .. n |-> cum[k] * scale]
      /\ P = [k \in 1 .. n |-> points[k] * scale]
  BY DEF ScaledTo
<1>. HIDE DEF cum
<1>4. /\ \A k \in 1 .. n : cum[k] \in Nat
      /\ cum[1] = 0
      /\ \A k \in 2 .. n : cum[k] = cum[k - 1] + Dist(points[k - 1], points[k])
  BY <1>2 DEF AddsUp
<1>5. \A k, l \in 1 .. n : k <= l =>
         cum[k] <= cum[l] /\ (cum[k] = cum[l] => points[k] = points[l])
  BY <1>2, CumulativeGrows
<1>6. ASSUME NEW a \in Nat PROVE a * scale \in Nat
  OBVIOUS
<1>7. C \in [1 .. n -> Nat] /\ P \in [1 .. n -> Int] /\ C[1] = 0
  <2>1. \A k \in 1 .. n : cum[k] * scale \in Nat
    BY <1>4, <1>6
  <2>2. \A k \in 1 .. n : points[k] * scale \in Int
    BY <1>1, ScaleSum
  <2>3. cum[1] * scale = 0
    BY <1>4
  <2>. QED
    BY <2>1, <2>2, <2>3, <1>3, <1>1
<1>8. ASSUME NEW k \in 1 .. n, NEW l \in 1 .. n, k <= l
      PROVE  C[k] <= C[l] /\ (C[k] = C[l] => P[k] = P[l])
  <2>1. cum[k] \in Int /\ cum[l] \in Int /\ cum[k] <= cum[l] /\ (cum[k] = cum[l] => points[k] = points[l])
    BY <1>8, <1>4, <1>5
  <2>2. scale \in Nat /\ scale # 0
    OBVIOUS
  <2>3. /\ cum[k] * scale <= cum[l] * scale
        /\ cum[k] < cum[l] => cum[k] * scale < cum[l] * scale
    BY <2>1, <2>2, ScaleOrder
  <2>4. C[k] = cum[k] * scale /\ C[l] = cum[l] * scale /\ C[k] \in Nat /\ C[l] \in Nat
    BY <1>3, <1>7
  <2>5. C[k] <= C[l] /\ (cum[k] < cum[l] => C[k] < C[l])
    BY <2>3, <2>4
  <2>6. C[k] = C[l] => cum[k] = cum[l]
    BY <2>1, <2>4, <2>5
  <2>7. points[k] = points[l] => P[k] = P[l]
    BY <1>3
  <2>. QED
    BY <2>1, <2>5, <2>6, <2>7
<1>11. \A k \in 1 .. n : C[k] \in Int
  BY <1>7
<1>9. ASSUME NEW k \in 2 .. n
      PROVE  IF points[k - 1] <= points[k]
             THEN P[k] = P[k - 1] + (C[k] - C[k - 1])
             ELSE P[k] = P[k - 1] - (C[k] - C[k - 1])
  <2>. DEFINE step == Dist(points[k - 1], points[k])
  <2>1. k \in 1 .. n /\ k - 1 \in 1 .. n /\ points[k] \in Int /\ points[k - 1] \in Int
    BY <1>1
  <2>2. step \in Int /\ cum[k] = cum[k - 1] + step /\ cum[k - 1] \in Int
    <3>1. step \in Nat
      BY <2>1, DistFacts
    <3>2. cum[k] = cum[k - 1] + step /\ cum[k - 1] \in Nat
      BY <2>1, <1>4
    <3>. HIDE DEF step
    <3>. QED
      BY <3>1, <3>2
  <2>3. \/ points[k - 1] <= points[k] /\ points[k] = points[k - 1] + step
        \/ ~(points[k - 1] <= points[k]) /\ points[k] = points[k - 1] - step
    <3>1. \/ points[k - 1] <= points[k] /\ points[k] = points[k - 1] + step
          \/ points[k] < points[k - 1] /\ points[k] = points[k - 1] - step
      BY <2>1, DistFacts
    <3>. HIDE DEF step
    <3>. QED
      BY <3>1, <2>1
  <2>. HIDE DEF step
  <2>4. scale \in Int
    OBVIOUS
  <2>5. (cum[k - 1] + step) * scale = cum[k - 1] * scale + step * scale
    BY <2>2, <2>4, ScaleSum
  <2>6. /\ (points[k - 1] + step) * scale = points[k - 1] * scale + step * scale
        /\ (points[k - 1] - step) * scale = points[k - 1] * scale - step * scale
        /\ step * scale \in Int
    BY <2>1, <2>2, <2>4, ScaleSum
  <2>7. PICK s \in Int : s = step * scale
    BY <2>6
  <2>8. C[k] = C[k - 1] + s /\ C[k - 1] \in Int
    <3>1. C[k - 1] \in Int
      BY <2>1, <1>11
    <3>3. C[k] = cum[k] * scale
      BY <2>1, <1>3
    <3>4. C[k - 1] = cum[k - 1] * scale
      BY <2>1, <1>3
    <3>2. cum[k] * scale = cum[k - 1] * scale + s
      BY <2>2, <2>5, <2>7
    <3>. QED
      BY <3>1, <3>2, <3>3, <3>4
  <2>9. s = C[k] - C[k - 1]
    BY <2>8
  <2>10. \/ points[k - 1] <= points[k] /\ P[k] = P[k - 1] + s
         \/ ~(points[k - 1] <= points[k]) /\ P[k] = P[k - 1] - s
    BY <2>1, <2>3, <2>6, <2>7, <1>3
  <2>. QED
    BY <2>9, <2>10
<1>10. \A k, l \in 1 .. n : C[k] = C[l] => P[k] = P[l]
  BY <1>8, <1>1
<1>. QED
  BY <1>7, <1>8, <1>9, <1>10 DEF Runs

(* Where Along puts a distance between those of vertices i and j: on a segment  *)
(* between the two vertices, and at the vertex if it is the vertex's.           *)
PutsBetween(C, P, i, j, d, at) ==
    /\ at \in Int
    /\ d = C[i] => at = P[i]
    /\ d = C[j] => at = P[j]
    /\ at = P[i] \/ \E k \in i .. j - 1 : Between(P[k], at, P[k + 1])

GoesAlong(a, b, c, f, d, at) ==
    /\ c <= d /\ d <= f
    /\ \/ at = a + (d - c) /\ b = a + (f - c)
       \/ at = a - (d - c) /\ b = a - (f - c)
OnTheSegment(a, b, c, f, d, at) ==
    at \in Int /\ Between(a, at, b) /\ (d = c => at = a) /\ (d = f => at = b)

LEMMA OnSegment ==
    ASSUME NEW a \in Int, NEW b \in Int, NEW c \in Int, NEW f \in Int, NEW d \in Int, NEW at,
           GoesAlong(a, b, c, f, d, at)
    PROVE  OnTheSegment(a, b, c, f, d, at)
BY DEF Between, GoesAlong, OnTheSegment

Climbs(n, C, P) ==
    /\ C \in [1 .. n -> Nat] /\ P \in [1 .. n -> Int] /\ C[1] = 0
    /\ \A k, l \in 1 .. n : k <= l => C[k] <= C[l]
    /\ \A k, l \in 1 .. n : C[k] = C[l] => P[k] = P[l]
FirstToReach(n, C, d, e) == e \in 2 .. n /\ C[e] >= d /\ \A l \in 2 .. e - 1 : C[l] < d
OnTheWay(C, P, d, e, at) ==
    \/ at = P[e - 1] + (d - C[e - 1]) /\ P[e] = P[e - 1] + (C[e] - C[e - 1])
    \/ at = P[e - 1] - (d - C[e - 1]) /\ P[e] = P[e - 1] - (C[e] - C[e - 1])

LEMMA SegmentFound ==
    ASSUME NEW n \in Nat, NEW C, NEW P, Climbs(n, C, P),
           NEW i \in 1 .. n, NEW j \in 1 .. n, i <= j,
           NEW d \in Int, C[i] <= d, d <= C[j],
           NEW e, FirstToReach(n, C, d, e), NEW at, OnTheWay(C, P, d, e, at)
    PROVE  PutsBetween(C, P, i, j, d, at)
<1>1. /\ e \in 1 .. n /\ e - 1 \in 1 .. n /\ 1 \in 1 .. n
      /\ C[e] \in Int /\ C[e - 1] \in Int /\ P[e] \in Int /\ P[e - 1] \in Int
      /\ C[i] \in Int /\ C[j] \in Int /\ P[i] \in Int /\ 0 <= C[i]
  BY DEF Climbs, FirstToReach
<1>0. /\ \A k, l \in 1 .. n : k <= l => C[k] <= C[l]
      /\ \A k, l \in 1 .. n : C[k] = C[l] => P[k] = P[l]
      /\ \A k \in 1 .. n : C[k] \in Nat
      /\ C[1] = 0
  BY DEF Climbs
<1>6. e \in 2 .. n /\ C[e] >= d /\ \A l \in 2 .. e - 1 : C[l] < d
  BY DEF FirstToReach
<1>2. C[e - 1] <= d /\ (e > 2 => C[e - 1] < d) /\ d <= C[e]
  <2>1. CASE e = 2
    BY <1>0, <1>1, <1>6, <2>1
  <2>2. CASE e > 2
    <3>1. e - 1 \in 2 .. e - 1
      BY <2>2, <1>6
    <3>. QED
      BY <3>1, <1>0, <1>1, <1>6
  <2>. QED
    BY <2>1, <2>2, <1>6
<1>3. at \in Int /\ Between(P[e - 1], at, P[e]) /\ (d = C[e - 1] => at = P[e - 1]) /\ (d = C[e] => at = P[e])
  <2>1. GoesAlong(P[e - 1], P[e], C[e - 1], C[e], d, at)
    BY <1>2 DEF GoesAlong, OnTheWay
  <2>2. OnTheSegment(P[e - 1], P[e], C[e - 1], C[e], d, at)
    BY <2>1, <1>1, OnSegment
  <2>. QED
    BY <2>2 DEF OnTheSegment
<1>4. ASSUME NEW k \in 1 .. n, d = C[k] PROVE at = P[k]
  <2>1. CASE e <= k
    <3>1. C[e] <= C[k]
      BY <2>1, <1>0, <1>1
    <3>2. d = C[e]
      BY <3>1, <1>4, <1>0, <1>1, <1>2
    <3>. QED
      BY <3>2, <1>4, <1>0, <1>1, <1>3
  <2>2. CASE k < e
    <3>1. k <= e - 1 /\ C[k] <= C[e - 1]
      BY <2>2, <1>0, <1>1, <1>6
    <3>2. d = C[e - 1]
      BY <3>1, <1>4, <1>0, <1>1, <1>2
    <3>. QED
      BY <3>2, <1>4, <1>0, <1>1, <1>3
  <2>. QED
    BY <2>1, <2>2, <1>6
<1>5. at = P[i] \/ \E k \in i .. j - 1 : Between(P[k], at, P[k + 1])
  <2>1. CASE e <= i
    <3>1. C[e] <= C[i]
      BY <2>1, <1>0, <1>1
    <3>2. d = C[i]
      BY <3>1, <1>1, <1>6
    <3>. QED
      BY <3>2, <1>4
  <2>2. CASE j < e
    <3>1. j <= e - 1 /\ C[j] <= C[e - 1]
      BY <2>2, <1>0, <1>1, <1>6
    <3>2. ~(C[e - 1] < d)
      BY <3>1, <1>0, <1>1, <1>6
    <3>3. i = 1
      BY <3>2, <2>2, <1>2, <1>6
    <3>4. j = 1
      BY <3>2, <2>2, <1>2, <1>6
    <3>5. d = C[i]
      BY <3>3, <3>4, <1>0, <1>1
    <3>. QED
      BY <3>5, <1>4
  <2>3. CASE i < e /\ e <= j
    <3>1. e - 1 \in i .. j - 1 /\ (e - 1) + 1 = e
      BY <2>3, <1>6
    <3>. QED
      BY <3>1, <1>3
  <2>. QED
    BY <2>1, <2>2, <2>3, <1>6
<1>. QED
  BY <1>3, <1>4, <1>5 DEF PutsBetween

LEMMA AlongFacts ==
    ASSUME NEW points \in Seq(Int), Len(points) >= 2, NEW scale \in Nat \ {0},
           NEW C, NEW P, ScaledTo(points, scale, C, P),
           NEW i \in 1 .. Len(points), NEW j \in 1 .. Len(points), i <= j,
           NEW d \in Int, C[i] <= d, d <= C[j]
    PROVE  PutsBetween(C, P, i, j, d, Along(points, d, scale))
<1>. DEFINE n == Len(points)
            at == Along(points, d, scale)
<1>1. n \in Nat /\ n >= 2
  BY LenProperties
<1>2. Runs(points, C, P)
  <2>1. Len(points) >= 1
    BY <1>1
  <2>. QED
    BY <2>1, ScaledFacts
<1>7. (\A k \in 1 .. n : C[k] \in Nat /\ P[k] \in Int) /\ C[1] = 0
  BY <1>1, <1>2 DEF Runs
<1>8. \A k, l \in 1 .. n : k <= l => C[k] <= C[l]
  BY <1>2 DEF Runs
<1>9. \A k, l \in 1 .. n : C[k] = C[l] => P[k] = P[l]
  BY <1>2 DEF Runs
<1>3. \A k \in 1 .. n : Cumulative(points)[k] * scale = C[k] /\ points[k] * scale = P[k]
  BY DEF ScaledTo
<1>4. 0 <= d /\ d <= C[n] /\ 1 \in 1 .. n /\ n \in 1 .. n
  <2>1. 1 \in 1 .. n /\ n \in 1 .. n /\ 1 <= i /\ j <= n
    BY <1>1
  <2>2. C[1] <= C[i] /\ C[j] <= C[n] /\ C[n] \in Nat /\ C[i] \in Nat /\ C[j] \in Nat
    BY <2>1, <1>7, <1>8
  <2>. QED
    BY <2>1, <2>2, <1>7
<1>5. CASE C[n] = 0
  <2>1. at = P[1]
    BY <1>3, <1>4, <1>5 DEF Along
  <2>2. \A k \in 1 .. n : C[k] = C[1]
    <3>1. ASSUME NEW k \in 1 .. n PROVE C[k] = 0
      <4>1. k <= n /\ C[k] \in Nat
        BY <1>1, <1>7
      <4>2. C[k] <= C[n]
        BY <4>1, <1>4, <1>8
      <4>. QED
        BY <4>1, <4>2, <1>5
    <3>. QED
      BY <3>1, <1>7
  <2>3. at = P[i] /\ at = P[j] /\ P[i] \in Int
    BY <2>1, <2>2, <1>4, <1>7, <1>9
  <2>. QED
    BY <2>3 DEF PutsBetween
<1>6. CASE C[n] # 0
  <2>. DEFINE Reaches(k) == C[k] >= d /\ \A l \in 2 .. k - 1 : C[l] < d
              e == CHOOSE k \in 2 .. n : Reaches(k)
              gone == d - C[e - 1]
  <2>1. e = CHOOSE k \in 2 .. n : /\ Cumulative(points)[k] * scale >= d
                                  /\ \A l \in 2 .. k - 1 : Cumulative(points)[l] * scale < d
    <3>. DEFINE S(k) == /\ Cumulative(points)[k] * scale >= d
                        /\ \A l \in 2 .. k - 1 : Cumulative(points)[l] * scale < d
    <3>1. ASSUME NEW k \in 2 .. n PROVE Reaches(k) <=> S(k)
      <4>1. \A l \in 2 .. k - 1 : l \in 1 .. n
        BY <1>1
      <4>2. k \in 1 .. n
        BY <1>1
      <4>3. C[k] = Cumulative(points)[k] * scale
        BY <4>2, <1>3
      <4>4. \A l \in 2 .. k - 1 : C[l] = Cumulative(points)[l] * scale
        BY <4>1, <1>3
      <4>. QED
        BY <4>3, <4>4
    <3>2. \A k \in 2 .. n : Reaches(k) <=> S(k)
      BY <3>1
    <3>. HIDE DEF Reaches, S
    <3>3. (CHOOSE k \in 2 .. n : Reaches(k)) = CHOOSE k \in 2 .. n : S(k)
      BY <3>2
    <3>. QED
      BY <3>3 DEF S
  <2>2. e \in 2 .. n /\ Reaches(e)
    <3>. DEFINE Far == {k \in 2 .. n : C[k] >= d}
    <3>1. n \in Far /\ Far \in SUBSET Nat
      BY <1>1, <1>7, <1>4
    <3>2. PICK k \in Far : \A l \in Far : k <= l
      <4>. HIDE DEF Far
      <4>. QED
        BY <3>1, LeastNat
    <3>3. k \in 2 .. n /\ C[k] >= d
      BY <3>2
    <3>4. ASSUME NEW l \in 2 .. k - 1 PROVE C[l] < d
      <4>1. l \in 2 .. n /\ l \notin Far
        BY <3>2, <3>3, <1>1
      <4>2. C[l] \in Nat
        <5>1. l \in 1 .. n
          BY <4>1, <1>1
        <5>. QED
          BY <5>1, <1>7
      <4>. QED
        BY <4>1, <4>2
    <3>. QED
      BY <3>3, <3>4
  <2>. HIDE DEF e
  <2>3. /\ e \in 1 .. n /\ e - 1 \in 1 .. n /\ e \in 2 .. n
        /\ C[e] \in Nat /\ C[e - 1] \in Nat /\ P[e] \in Int /\ P[e - 1] \in Int
    <3>1. e \in 1 .. n /\ e - 1 \in 1 .. n /\ e \in 2 .. n
      BY <2>2, <1>1
    <3>. QED
      BY <3>1, <1>7
  <2>4. at = P[e - 1] + (IF points[e - 1] <= points[e] THEN gone ELSE -gone)
    <3>1. (IF d < 0 THEN 0 ELSE IF d > C[n] THEN C[n] ELSE d) = d
      BY <1>4, <1>7
    <3>2. /\ Cumulative(points)[Len(points)] * scale = C[n]
          /\ Cumulative(points)[e - 1] * scale = C[e - 1] /\ points[e - 1] * scale = P[e - 1]
      BY <1>3, <1>4, <2>3
    <3>3. at = points[e - 1] * scale
               + (IF points[e - 1] <= points[e] THEN d - Cumulative(points)[e - 1] * scale
                  ELSE -(d - Cumulative(points)[e - 1] * scale))
      <4>. DEFINE x == IF d < 0 THEN 0 ELSE IF d > Cumulative(points)[n] * scale THEN Cumulative(points)[n] * scale ELSE d
                  W(y) == CHOOSE k \in 2 .. n : /\ Cumulative(points)[k] * scale >= y
                                                /\ \A l \in 2 .. k - 1 : Cumulative(points)[l] * scale < y
      <4>1. at = IF Cumulative(points)[n] * scale = 0 THEN points[1] * scale
                 ELSE points[W(x) - 1] * scale
                      + (IF points[W(x) - 1] <= points[W(x)] THEN x - Cumulative(points)[W(x) - 1] * scale
                         ELSE -(x - Cumulative(points)[W(x) - 1] * scale))
        BY DEF Along
      <4>2. x = d
        BY <3>1, <3>2
      <4>3. W(d) = e
        BY <2>1
      <4>. HIDE DEF x, W, at
      <4>. QED
        BY <4>1, <4>2, <4>3, <3>2, <1>6
    <3>. QED
      BY <3>2, <3>3
  <2>. HIDE DEF at
  <2>5. C[e] >= d /\ \A l \in 2 .. e - 1 : C[l] < d
    BY <2>2
  <2>6. IF points[e - 1] <= points[e]
        THEN P[e] = P[e - 1] + (C[e] - C[e - 1])
        ELSE P[e] = P[e - 1] - (C[e] - C[e - 1])
    BY <2>3, <1>2 DEF Runs
  <2>7. \/ at = P[e - 1] + (d - C[e - 1]) /\ P[e] = P[e - 1] + (C[e] - C[e - 1])
        \/ at = P[e - 1] - (d - C[e - 1]) /\ P[e] = P[e - 1] - (C[e] - C[e - 1])
    BY <2>4, <2>6, <2>3
  <2>8. C \in [1 .. n -> Nat] /\ P \in [1 .. n -> Int]
    BY <1>2 DEF Runs
  <2>9. Climbs(n, C, P)
    BY <2>8, <1>7, <1>8, <1>9 DEF Climbs
  <2>10. FirstToReach(n, C, d, e)
    BY <2>3, <2>5 DEF FirstToReach
  <2>11. OnTheWay(C, P, d, e, at)
    BY <2>7 DEF OnTheWay
  <2>12. PutsBetween(C, P, i, j, d, at)
    <3>1. n \in Nat /\ i \in 1 .. n /\ j \in 1 .. n
      BY <1>1
    <3>. HIDE DEF n
    <3>. QED
      BY <3>1, <2>9, <2>10, <2>11, SegmentFound
  <2>. QED
    BY <2>12 DEF at
<1>. QED
  BY <1>5, <1>6

-------------------------------------------------------------------------------
(* The scan keeps, of each trip, the last of its connections under way.         *)
Rides(n, t, lines, time) == connections[n].trip_id = t /\ UnderWay(connections[n], lines, time)
KeepsLast(kept, n, lines, time) ==
    \A t \in Ids :
        /\ kept[t] # 0 => Rides(kept[t], t, lines, time)
        /\ \A m \in 1 .. n : Rides(m, t, lines, time) => m <= kept[t]

ScanStep(n, kept, lines, time) ==
    IF /\ UnderWay(connections[n], lines, time)
       /\ \/ kept[connections[n].trip_id] = 0
          \/ connections[n].dep_time_s >= connections[kept[connections[n].trip_id]].dep_time_s
    THEN [kept EXCEPT ![connections[n].trip_id] = n]
    ELSE kept

LEMMA ConnectionFacts ==
    ASSUME FeedTypeOK, NEW n \in 1 .. Len(connections)
    PROVE  /\ Len(connections) \in Nat
           /\ connections[n].trip_id \in Ids
           /\ connections[n].dep_stop_id \in Ids /\ connections[n].arr_stop_id \in Ids
           /\ connections[n].dep_time_s \in Nat /\ connections[n].arr_time_s \in Nat
<1>1. connections[n] \in Connections /\ Len(connections) \in Nat
  BY SeqFacts DEF FeedTypeOK
<1>. QED
  BY <1>1 DEF Connections

LEMMA ScanStepKeeps ==
    ASSUME FeedTypeOK, phase = "loaded", NEW lines, NEW time, NEW n \in 1 .. Len(connections),
           NEW kept \in [Ids -> 0 .. n - 1], KeepsLast(kept, n - 1, lines, time)
    PROVE  /\ ScanStep(n, kept, lines, time) \in [Ids -> 0 .. n]
           /\ KeepsLast(ScanStep(n, kept, lines, time), n, lines, time)
<1>. DEFINE u == connections[n].trip_id
            next == ScanStep(n, kept, lines, time)
<1>1. /\ Len(connections) \in Nat /\ u \in Ids /\ connections[n].dep_time_s \in Nat
      /\ \A m \in 1 .. Len(connections) :
            m <= n => connections[m].dep_time_s <= connections[n].dep_time_s
      /\ \A m \in 1 .. Len(connections) : connections[m].dep_time_s \in Nat
  BY ConnectionFacts DEF FeedTypeOK
<1>2. \A t \in Ids : kept[t] \in 0 .. n - 1
  OBVIOUS
<1>3. kept[u] # 0 => connections[n].dep_time_s >= connections[kept[u]].dep_time_s
  <2>1. kept[u] # 0 => kept[u] \in 1 .. Len(connections) /\ kept[u] <= n
    BY <1>1, <1>2
  <2>. HIDE DEF u
  <2>. QED
    BY <2>1, <1>1
<1>4. next = IF UnderWay(connections[n], lines, time) THEN [kept EXCEPT ![u] = n] ELSE kept
  BY <1>3 DEF ScanStep
<1>5. next \in [Ids -> 0 .. n]
  <2>1. kept \in [Ids -> 0 .. n] /\ n \in 0 .. n
    OBVIOUS
  <2>. HIDE DEF next, u
  <2>. QED
    BY <2>1, <1>1, <1>4
<1>6. ASSUME NEW t \in Ids
      PROVE  /\ next[t] # 0 => Rides(next[t], t, lines, time)
             /\ \A m \in 1 .. n : Rides(m, t, lines, time) => m <= next[t]
  <2>1. Rides(n, t, lines, time) <=> t = u /\ UnderWay(connections[n], lines, time)
    BY DEF Rides
  <2>2. next[t] = IF Rides(n, t, lines, time) THEN n ELSE kept[t]
    <3>. HIDE DEF next, u
    <3>. QED
      BY <1>1, <1>4, <2>1
  <2>3. /\ kept[t] # 0 => Rides(kept[t], t, lines, time)
        /\ \A m \in 1 .. n - 1 : Rides(m, t, lines, time) => m <= kept[t]
    BY DEF KeepsLast
  <2>. HIDE DEF next
  <2>4. ASSUME NEW m \in 1 .. n, Rides(m, t, lines, time) PROVE m <= next[t]
    <3>1. CASE m = n
      BY <3>1, <2>2, <2>4
    <3>2. CASE m # n
      <4>1. m \in 1 .. n - 1
        BY <3>2
      <4>2. m <= kept[t]
        BY <4>1, <2>3, <2>4
      <4>. QED
        BY <4>1, <4>2, <2>2
    <3>. QED
      BY <3>1, <3>2
  <2>. QED
    BY <2>2, <2>3, <2>4
<1>. QED
  BY <1>5, <1>6 DEF KeepsLast

LEMMA ActiveFacts ==
    ASSUME FeedTypeOK, phase = "loaded", NEW lines, NEW time
    PROVE  /\ ActiveByTrip(lines, time) \in [Ids -> 0 .. Len(connections)]
           /\ KeepsLast(ActiveByTrip(lines, time), Len(connections), lines, time)
<1>. DEFINE L == Len(connections)
            T == [Ids -> 0 .. L]
            zero == [t \in Ids |-> 0]
            Def(k) == k = [n \in 0 .. L |-> IF n = 0 THEN zero ELSE ScanStep(n, k[n - 1], lines, time)]
            g == [p \in (0 .. L) \X T |-> IF p[1] = 0 THEN zero ELSE ScanStep(p[1], p[2], lines, time)]
<1>1. L \in Nat /\ zero \in T
  <2>1. L \in Nat
    BY SeqFacts DEF FeedTypeOK
  <2>. HIDE DEF L
  <2>. QED
    BY <2>1
<1>2. g \in [(0 .. L) \X T -> T]
  <2>1. ASSUME NEW p \in (0 .. L) \X T
        PROVE  (IF p[1] = 0 THEN zero ELSE ScanStep(p[1], p[2], lines, time)) \in T
    <3>1. p[1] \in 0 .. L /\ p[2] \in T
      OBVIOUS
    <3>2. p[1] \in 0 .. L => [p[2] EXCEPT ![connections[p[1]].trip_id] = p[1]] \in T
      BY <3>1
    <3>. HIDE DEF zero
    <3>. QED
      BY <1>1, <3>1, <3>2 DEF ScanStep
  <2>. QED
    BY <2>1
<1>3. PICK f \in [0 .. L -> T] : Recursive(0, L, zero, g, f)
  <2>1. 0 \in Int /\ L \in Int
    BY <1>1
  <2>. HIDE DEF g, L, T, zero
  <2>. QED
    BY <2>1, <1>1, <1>2, RecursionExists
<1>. HIDE DEF zero
<1>4. ASSUME NEW n \in 0 .. L
      PROVE  f[n] = IF n = 0 THEN zero ELSE ScanStep(n, f[n - 1], lines, time)
  <2>1. f[n] = IF n = 0 THEN zero ELSE g[<<n, f[n - 1]>>]
    <3>. HIDE DEF g
    <3>. QED
      BY <1>3 DEF Recursive
  <2>2. n # 0 => <<n, f[n - 1]>> \in (0 .. L) \X T
    <3>1. n # 0 => n - 1 \in 0 .. L
      BY <1>1
    <3>. HIDE DEF T
    <3>2. n # 0 => f[n - 1] \in T
      BY <3>1
    <3>. QED
      BY <3>2
  <2>. QED
    BY <2>1, <2>2
<1>5. Def(f)
  BY <1>3, <1>4
<1>6. ActiveByTrip(lines, time) = (CHOOSE k : Def(k))[L]
  BY DEF ActiveByTrip, ScanStep, zero
<1>7. PICK k : Def(k) /\ ActiveByTrip(lines, time) = k[L]
  <2>. HIDE DEF Def
  <2>. QED
    BY <1>5, <1>6
<1>8. \A n \in 0 .. L : k[n] = IF n = 0 THEN zero ELSE ScanStep(n, k[n - 1], lines, time)
  BY <1>7
<1>9. \A n \in 0 .. L : k[n] \in [Ids -> 0 .. n] /\ KeepsLast(k[n], n, lines, time)
  <2>. DEFINE Good(n) == k[n] \in [Ids -> 0 .. n] /\ KeepsLast(k[n], n, lines, time)
              Bad == {n \in 0 .. L : ~Good(n)}
  <2>1. SUFFICES ASSUME NEW b \in Bad PROVE FALSE
    OBVIOUS
  <2>2. PICK m \in Bad : \A n \in Bad : m <= n
    <3>1. Bad \in SUBSET Nat
      BY <1>1
    <3>. HIDE DEF Bad
    <3>. QED
      BY <2>1, <3>1, LeastNat
  <2>3. Good(0)
    <3>1. k[0] = zero
      BY <1>1, <1>8
    <3>. QED
      BY <3>1 DEF KeepsLast, zero
  <2>4. m \in 1 .. Len(connections) /\ m - 1 \in 0 .. L /\ m - 1 \notin Bad
    <3>1. m \in 0 .. L /\ ~Good(m)
      BY <2>2
    <3>2. m # 0
      BY <3>1, <2>3
    <3>3. m - 1 \in 0 .. L /\ m \in 1 .. Len(connections) /\ ~(m <= m - 1)
      BY <3>1, <3>2, <1>1
    <3>. HIDE DEF Bad
    <3>. QED
      BY <3>3, <2>2
  <2>5. k[m - 1] \in [Ids -> 0 .. m - 1] /\ KeepsLast(k[m - 1], m - 1, lines, time)
    BY <2>4
  <2>6. k[m] = ScanStep(m, k[m - 1], lines, time)
    BY <1>8, <2>4
  <2>7. Good(m)
    <3>. DEFINE kept == k[m - 1]
    <3>1. kept \in [Ids -> 0 .. m - 1] /\ KeepsLast(kept, m - 1, lines, time)
      BY <2>5
    <3>2. k[m] = ScanStep(m, kept, lines, time)
      BY <2>6
    <3>. HIDE DEF kept
    <3>3. m \in 1 .. Len(connections)
      BY <2>4
    <3>4. /\ ScanStep(m, kept, lines, time) \in [Ids -> 0 .. m]
          /\ KeepsLast(ScanStep(m, kept, lines, time), m, lines, time)
      BY ONLY <3>1, <3>3, ScanStepKeeps, FeedTypeOK, phase = "loaded"
    <3>. QED
      BY <3>2, <3>4
  <2>. QED
    BY <2>2, <2>7
<1>. QED
  BY <1>1, <1>7, <1>9

-------------------------------------------------------------------------------
(* Tables and shapes of a feed that loads.                                      *)
LEMMA FeedTyped ==
    ASSUME files \in Feeds
    PROVE  /\ files.trips \in Seq(Trips) /\ files.shapes \in Seq(Shapes) /\ files.stops \in Seq(Stops)
           /\ \A i \in 1 .. Len(files.trips) : files.trips[i] \in Trips
           /\ \A i \in 1 .. Len(files.shapes) : files.shapes[i] \in Shapes
           /\ \A i \in 1 .. Len(files.stops) : files.stops[i] \in Stops
           /\ Len(files.trips) \in Nat /\ Len(files.shapes) \in Nat /\ Len(files.stops) \in Nat
<1>1. files.trips \in Seq(Trips) /\ files.shapes \in Seq(Shapes) /\ files.stops \in Seq(Stops)
  BY FeedsAssumption
<1>. QED
  BY <1>1, SeqFacts

LEMMA LastOfId ==
    ASSUME NEW rows, Len(rows) \in Nat, NEW key, NEW id \in DOMAIN ById(rows, key)
    PROVE  /\ id # Blank
           /\ \E i \in 1 .. Len(rows) : rows[i][key] = id /\ ById(rows, key)[id] = rows[i]
<1>. DEFINE IsLast(i) == rows[i][key] = id /\ \A j \in i + 1 .. Len(rows) : rows[j][key] # id
            I == {i \in 1 .. Len(rows) : rows[i][key] = id}
<1>1. id \in {rows[i][key] : i \in 1 .. Len(rows)} \ {Blank}
  BY DEF ById
<1>2. PICK n \in 1 .. Len(rows) : rows[n][key] = id
  BY <1>1
<1>3. PICK m \in I : \A k \in I : k <= m
  <2>1. I \in SUBSET Nat /\ n \in I /\ \A k \in I : k <= Len(rows)
    BY <1>2
  <2>. HIDE DEF I
  <2>. QED
    BY <2>1, GreatestNat
<1>4. m \in 1 .. Len(rows) /\ IsLast(m)
  BY <1>3
<1>5. ById(rows, key)[id] = rows[CHOOSE i \in 1 .. Len(rows) : IsLast(i)]
  BY <1>1 DEF ById
<1>6. PICK i \in 1 .. Len(rows) : IsLast(i) /\ ById(rows, key)[id] = rows[i]
  <2>. HIDE DEF IsLast
  <2>. QED
    BY <1>4, <1>5
<1>. QED
  BY <1>1, <1>6

LEMMA PlaceTyped ==
    ASSUME files \in Feeds, FeedInv, phase = "loaded", NEW s \in DOMAIN stops_by_id
    PROVE  Place(s) \in Int
<1>1. PICK i \in 1 .. Len(files.stops) :
         files.stops[i].stop_id = s /\ stops_by_id[s] = files.stops[i] /\ s # Blank
  BY FeedTyped, LastOfId DEF stops_by_id
<1>2. files.stops[i].location # Unparsed
  BY <1>1 DEF FeedInv, ReadOK, StopsParse
<1>3. files.stops[i].location \in Places
  BY <1>2, FeedTyped DEF Stops
<1>. QED
  BY <1>1, <1>3, GtfsFeedAssumption DEF Place

LEMMA ShapeTyped ==
    ASSUME files \in Feeds, NEW s
    PROVE  /\ ShapePoints(s) \in Seq(Int)
           /\ Len(ShapePoints(s)) \in Nat
           /\ s = Blank => Len(ShapePoints(s)) = 0
<1>. DEFINE shapes == files.shapes
            mine == {i \in 1 .. Len(shapes) :
                       s # Blank /\ shapes[i].shape_id = s /\ shapes[i].point # Unparsed}
            keys == [i \in mine |-> <<shapes[i].shape_pt_sequence, 0>>]
            n == Cardinality(mine)
            sorted == Sorted(mine, keys)
<1>1. mine \in SUBSET Nat /\ IsFiniteSet(mine) /\ n \in Nat
  <2>1. IsFiniteSet(1 .. Len(shapes)) /\ mine \in SUBSET (1 .. Len(shapes))
    <3>1. 1 \in Int /\ Len(shapes) \in Int
      BY FeedTyped
    <3>. HIDE DEF shapes
    <3>2. IsFiniteSet(1 .. Len(shapes))
      BY <3>1, FS_Interval
    <3>. QED
      BY <3>2
  <2>2. IsFiniteSet(mine)
    BY <2>1, FS_Subset
  <2>3. n \in Nat
    BY <2>2, FS_CardinalityType
  <2>. QED
    BY <2>1, <2>2, <2>3, FeedTyped
<1>2. keys \in [mine -> Nat \X Nat]
  BY FeedTyped DEF Shapes
<1>3. sorted \in [1 .. n -> mine]
  <2>. HIDE DEF mine, keys
  <2>. QED
    BY <1>1, <1>2, SortedFacts DEF Lists
<1>4. ShapePoints(s) = [k \in 1 .. n |-> shapes[sorted[k]].point]
  BY DEF ShapePoints
<1>5. \A i \in mine : shapes[i].point \in Int
  BY FeedTyped, GtfsFeedAssumption DEF Shapes
<1>6. \A k \in 1 .. n : shapes[sorted[k]].point \in Int
  <2>. HIDE DEF mine, sorted, n
  <2>. QED
    BY <1>3, <1>5
<1>7. ShapePoints(s) \in Seq(Int) /\ Len(ShapePoints(s)) = n
  <2>. HIDE DEF n, sorted
  <2>1. [k \in 1 .. n |-> shapes[sorted[k]].point] \in [1 .. n -> Int]
    BY <1>6
  <2>2. ShapePoints(s) \in [1 .. n -> Int]
    BY <2>1, <1>4
  <2>. QED
    BY <1>1, <2>2, SeqDef, LenProperties
<1>8. s = Blank => n = 0
  <2>1. s = Blank => mine = {}
    OBVIOUS
  <2>. QED
    BY <2>1, FS_EmptySet
<1>. QED
  BY <1>1, <1>7, <1>8

(* A set read off the rows of a table is finite.                                *)
LEMMA ImageFinite ==
    ASSUME NEW S, IsFiniteSet(S), NEW T, NEW f \in [S -> T], \A y \in T : \E x \in S : f[x] = y
    PROVE  IsFiniteSet(T)
<1>1. f \in Surjection(S, T)
  BY DEF Surjection
<1>. QED
  BY <1>1, FS_Surjection

LEMMA TripsFinite ==
    ASSUME files \in Feeds, NEW line
    PROVE  /\ IsFiniteSet(DOMAIN trips_by_id) /\ IsFiniteSet(TripsOf(line))
           /\ \A t \in TripsOf(line) : t \in DOMAIN trips_by_id /\ Line(t) = line
           /\ \A t \in DOMAIN trips_by_id : t \in TripsOf(Line(t))
           /\ \A S : S \subseteq ShapesOf(line) => IsFiniteSet(S) /\ Cardinality(S) \in Nat
<1>1. IsFiniteSet(DOMAIN trips_by_id)
  <2>. DEFINE f == [i \in 1 .. Len(files.trips) |-> files.trips[i]["trip_id"]]
              S == {f[i] : i \in 1 .. Len(files.trips)}
  <2>1. IsFiniteSet(S)
    <3>1. f \in [1 .. Len(files.trips) -> S] /\ \A y \in S : \E i \in 1 .. Len(files.trips) : f[i] = y
      OBVIOUS
    <3>2. IsFiniteSet(1 .. Len(files.trips))
      <4>1. 1 \in Int /\ Len(files.trips) \in Int
        BY FeedTyped
      <4>. QED
        BY <4>1, FS_Interval
    <3>. HIDE DEF f, S
    <3>. QED
      BY <3>1, <3>2, ImageFinite
  <2>2. DOMAIN trips_by_id \in SUBSET S
    BY DEF trips_by_id, ById
  <2>. HIDE DEF S
  <2>. QED
    BY <2>1, <2>2, FS_Subset
<1>2. TripsOf(line) \in SUBSET DOMAIN trips_by_id
  BY DEF TripsOf
<1>3. IsFiniteSet(TripsOf(line))
  BY <1>1, <1>2, FS_Subset
<1>4. ASSUME NEW S, S \subseteq ShapesOf(line) PROVE IsFiniteSet(S) /\ Cardinality(S) \in Nat
  <2>. DEFINE f == [t \in TripsOf(line) |-> ShapeOf(t)]
              T == {f[t] : t \in TripsOf(line)}
  <2>1. IsFiniteSet(T)
    <3>1. f \in [TripsOf(line) -> T] /\ \A y \in T : \E t \in TripsOf(line) : f[t] = y
      OBVIOUS
    <3>. HIDE DEF f, T
    <3>. QED
      BY <3>1, <1>3, ImageFinite
  <2>2. S \in SUBSET T
    BY <1>4 DEF ShapesOf
  <2>. HIDE DEF T
  <2>3. IsFiniteSet(S)
    BY <2>1, <2>2, FS_Subset
  <2>. QED
    BY <2>3, FS_CardinalityType
<1>5. /\ \A t \in TripsOf(line) : t \in DOMAIN trips_by_id /\ Line(t) = line
      /\ \A t \in DOMAIN trips_by_id : t \in TripsOf(Line(t))
  BY DEF TripsOf, Line
<1>. QED
  BY <1>1, <1>3, <1>4, <1>5

-------------------------------------------------------------------------------
(* The answer to a request, whatever happened since: every vehicle comes from   *)
(* the last connection of its trip that was under way then, and every trip with *)
(* such a connection has one.                                                   *)
LastRide(n, t, lines, time) ==
    /\ n \in 1 .. Len(connections) /\ Rides(n, t, lines, time)
    /\ \A m \in 1 .. Len(connections) : Rides(m, t, lines, time) => m <= n
ShowsLastRides ==
    /\ DOMAIN vehicles \subseteq Ids
    /\ ~Answered => DOMAIN vehicles = {}
    /\ Answered =>
          /\ phase = "loaded"
          /\ \A t \in Ids, n \in 1 .. Len(connections) :
                Rides(n, t, selection, asked) => t \in DOMAIN vehicles
          /\ \A t \in DOMAIN vehicles : \E n \in 1 .. Len(connections) :
                LastRide(n, t, selection, asked) /\ vehicles[t] = Vehicle(connections[n], asked)
TimeOK == now \in 0 .. Day - 1 /\ asked \in 0 .. Day
ViewInv == FeedInv /\ files \in Feeds /\ TimeOK /\ ShowsLastRides

LEMMA AnswerShows ==
    ASSUME FeedTypeOK, phase = "loaded", NEW lines, NEW time
    PROVE  /\ DOMAIN Answer(lines, time) \subseteq Ids
           /\ \A t \in Ids, n \in 1 .. Len(connections) :
                 Rides(n, t, lines, time) => t \in DOMAIN Answer(lines, time)
           /\ \A t \in DOMAIN Answer(lines, time) : \E n \in 1 .. Len(connections) :
                 LastRide(n, t, lines, time) /\ Answer(lines, time)[t] = Vehicle(connections[n], time)
<1>. DEFINE active == ActiveByTrip(lines, time)
            L == Len(connections)
<1>1. active \in [Ids -> 0 .. L] /\ KeepsLast(active, L, lines, time) /\ L \in Nat
  BY ActiveFacts, SeqFacts DEF FeedTypeOK
<1>2. Answer(lines, time) =
         [t \in {t \in Ids : active[t] # 0} |-> Vehicle(connections[active[t]], time)]
  BY DEF Answer
<1>. HIDE DEF active
<1>3. ASSUME NEW t \in Ids, active[t] # 0
      PROVE  active[t] \in 1 .. L /\ LastRide(active[t], t, lines, time)
  <2>1. active[t] \in 1 .. L
    BY <1>1, <1>3
  <2>. QED
    BY <1>1, <1>3, <2>1 DEF KeepsLast, LastRide
<1>4. ASSUME NEW t \in Ids, NEW n \in 1 .. L, Rides(n, t, lines, time) PROVE active[t] # 0
  BY <1>1, <1>4 DEF KeepsLast
<1>. QED
  BY <1>2, <1>3, <1>4

-------------------------------------------------------------------------------
(* What the view reads of the files stays as it is.                             *)
LEMMA SameShape ==
    ASSUME files' = files, NEW s
    PROVE  ShapePoints(s)' = ShapePoints(s)
BY DEF ShapePoints

LEMMA SameLines ==
    ASSUME files' = files, NEW t, NEW s
    PROVE  Line(t)' = Line(t) /\ ShapeOf(t)' = ShapeOf(t) /\ Place(s)' = Place(s)
<1>1. trips_by_id' = trips_by_id /\ stops_by_id' = stops_by_id
  BY DEF trips_by_id, stops_by_id, ById
<1>. QED
  BY <1>1 DEF Line, ShapeOf, Place

LEMMA SameVehicle ==
    ASSUME files' = files, NEW c, NEW time
    PROVE  Vehicle(c, time)' = Vehicle(c, time)
<1>1. Place(c.dep_stop_id)' = Place(c.dep_stop_id) /\ Place(c.arr_stop_id)' = Place(c.arr_stop_id)
  BY SameLines
<1>2. ShapePoints(ShapeOf(c.trip_id))' = ShapePoints(ShapeOf(c.trip_id))
  BY SameLines, SameShape
<1>. QED
  BY Zenon, <1>1, <1>2 DEF Vehicle

LEMMA SameRides ==
    ASSUME files' = files, connections' = connections, NEW n, NEW t, NEW lines, NEW time
    PROVE  /\ Rides(n, t, lines, time)' <=> Rides(n, t, lines, time)
           /\ LastRide(n, t, lines, time)' <=> LastRide(n, t, lines, time)
<1>1. \A u : Line(u)' = Line(u)
  BY SameLines
<1>2. \A m : Rides(m, t, lines, time)' <=> Rides(m, t, lines, time)
  BY <1>1 DEF Rides, UnderWay
<1>. QED
  BY <1>2 DEF LastRide

-------------------------------------------------------------------------------
LEMMA ViewInvInit == ViewInit => ViewInv
<1>1. SUFFICES ASSUME ViewInit PROVE ViewInv
  OBVIOUS
<1>2. FeedInv /\ files \in Feeds
  BY <1>1, FeedInvInit DEF ViewInit, FeedInit
<1>3. TimeOK /\ ~Answered /\ DOMAIN vehicles = {}
  BY <1>1, VehiclesByScheduleAssumption DEF ViewInit, TimeOK, Answered
<1>. QED
  BY <1>2, <1>3 DEF ViewInv, ShowsLastRides

LEMMA FilesStay ==
    ASSUME [ViewNext]_allVars
    PROVE  /\ files' = files
           /\ phase = "loaded" => UNCHANGED feedVars
BY DEF ViewNext, Load, ListVehicles, Tick, allVars, feedVars, FeedNext, ReadStops, ReadStopTime, AllRead,
       SortEntries, JoinPair, TripJoined, SortConnections

LEMMA StaysShown ==
    ASSUME ViewInv, [ViewNext]_allVars, UNCHANGED <<asked, selection, vehicles>>
    PROVE  ShowsLastRides'
<1>1. files' = files /\ (Answered => phase' = phase /\ connections' = connections)
  BY FilesStay DEF ViewInv, ShowsLastRides, feedVars
<1>2. Answered' <=> Answered
  BY DEF Answered
<1>3. CASE ~Answered
  BY <1>2, <1>3 DEF ViewInv, ShowsLastRides
<1>4. CASE Answered
  <2>1. connections' = connections /\ phase' = "loaded" /\ selection' = selection /\ asked' = asked
    BY <1>1, <1>4 DEF ViewInv, ShowsLastRides
  <2>2. \A n, t : Rides(n, t, selection, asked)' <=> Rides(n, t, selection, asked)
    <3>1. \A n, t, lines, time : Rides(n, t, lines, time)' <=> Rides(n, t, lines, time)
      BY <1>1, <2>1, SameRides
    <3>. QED
      BY <2>1, <1>1, SameLines DEF Rides, UnderWay
  <2>3. \A n, t : LastRide(n, t, selection, asked)' <=> LastRide(n, t, selection, asked)
    BY <2>1, <2>2 DEF LastRide
  <2>4. \A c : Vehicle(c, asked)' = Vehicle(c, asked)
    <3>. DEFINE same(c, time) == Vehicle(c, time)' = Vehicle(c, time)
    <3>1. \A c, time : Vehicle(c, time)' = Vehicle(c, time)
      BY <1>1, SameVehicle
    <3>. QED
      BY <3>1, <2>1
  <2>. QED
    BY <1>2, <1>4, <2>1, <2>2, <2>3, <2>4 DEF ViewInv, ShowsLastRides
<1>. QED
  BY <1>3, <1>4

LEMMA ListShows == ASSUME ViewInv, ListVehicles PROVE ShowsLastRides'
<1>1. PICK lines \in Selections : selection' = lines /\ vehicles' = Answer(lines, now)
  BY DEF ListVehicles
<1>2. /\ files' = files /\ connections' = connections /\ phase = "loaded" /\ phase' = "loaded"
      /\ asked' = now /\ FeedTypeOK /\ now \in 0 .. Day - 1
  BY DEF ListVehicles, feedVars, ViewInv, FeedInv, TimeOK
<1>3. PICK time \in 0 .. Day - 1 : time = now
  BY <1>2
<1>. DEFINE answer == Answer(lines, time)
<1>4. /\ DOMAIN answer \subseteq Ids
      /\ \A t \in Ids, n \in 1 .. Len(connections) : Rides(n, t, lines, time) => t \in DOMAIN answer
      /\ \A t \in DOMAIN answer : \E n \in 1 .. Len(connections) :
            LastRide(n, t, lines, time) /\ answer[t] = Vehicle(connections[n], time)
  BY <1>2, AnswerShows
<1>5. vehicles' = answer /\ selection' = lines /\ asked' = time
  BY <1>1, <1>2, <1>3
<1>6. \A n, t : (Rides(n, t, lines, time)' <=> Rides(n, t, lines, time))
                /\ (LastRide(n, t, lines, time)' <=> LastRide(n, t, lines, time))
  BY <1>2, SameRides
<1>7. \A c : Vehicle(c, time)' = Vehicle(c, time)
  BY <1>2, SameVehicle
<1>8. Answered'
  BY <1>5, VehiclesByScheduleAssumption DEF Answered
<1>. HIDE DEF answer
<1>9. \A n, t : Rides(n, t, selection, asked)' <=> Rides(n, t, lines, time)
  BY <1>5, <1>6 DEF Rides, UnderWay
<1>10. \A n, t : LastRide(n, t, selection, asked)' <=> LastRide(n, t, lines, time)
  BY <1>2, <1>5, <1>9 DEF LastRide
<1>11. \A c : Vehicle(c, asked)' = Vehicle(c, time)
  BY <1>5, <1>7
<1>. QED
  BY <1>2, <1>4, <1>5, <1>8, <1>9, <1>10, <1>11 DEF ShowsLastRides

LEMMA ViewInvStep == ViewInv /\ [ViewNext]_allVars => ViewInv'
<1>. SUFFICES ASSUME ViewInv, [ViewNext]_allVars PROVE ViewInv'
  OBVIOUS
<1>1. files' \in Feeds
  BY FilesStay DEF ViewInv
<1>2. FeedInv'
  <2>1. [FeedNext]_feedVars
    BY DEF ViewNext, Load, ListVehicles, Tick, allVars, feedVars
  <2>. QED
    BY <2>1, FeedInvStep DEF ViewInv
<1>3. TimeOK'
  <2>1. now \in 0 .. Day - 1 /\ asked \in 0 .. Day /\ Day \in Nat \ {0}
    BY VehiclesByScheduleAssumption DEF ViewInv, TimeOK
  <2>2. CASE Tick
    <3>1. (now + 1) % Day \in 0 .. Day - 1
      BY <2>1
    <3>. QED
      BY <2>1, <2>2, <3>1 DEF Tick, TimeOK
  <2>3. CASE ListVehicles
    BY <2>1, <2>3 DEF ListVehicles, TimeOK
  <2>4. CASE Load
    BY <2>1, <2>4 DEF Load, viewVars, TimeOK
  <2>5. CASE UNCHANGED allVars
    BY <2>1, <2>5 DEF allVars, viewVars, TimeOK
  <2>. QED
    BY <2>2, <2>3, <2>4, <2>5 DEF ViewNext
<1>4. ShowsLastRides'
  <2>1. CASE ListVehicles
    BY <2>1, ListShows
  <2>2. CASE ~ListVehicles
    <3>1. UNCHANGED <<asked, selection, vehicles>>
      BY <2>2 DEF ViewNext, Load, Tick, allVars, viewVars
    <3>. QED
      BY <3>1, StaysShown
  <2>. QED
    BY <2>1, <2>2
<1>. QED
  BY <1>1, <1>2, <1>3, <1>4 DEF ViewInv

LEMMA ViewInvariance == ViewSpec => []ViewInv
BY ViewInvInit, ViewInvStep, PTL DEF ViewSpec

-------------------------------------------------------------------------------
(* A clock and requests of the map around it leave load_feed as it is.          *)
THEOREM ViewRunsLoad == ViewSpec => FeedSpec
<1>1. ViewInit => FeedInit
  BY DEF ViewInit
<1>2. [ViewNext]_allVars => [FeedNext]_feedVars
  BY DEF ViewNext, Load, ListVehicles, Tick, allVars, feedVars
<1>. QED
  BY <1>1, <1>2, PTL DEF ViewSpec, FeedSpec

(* So the realtime view reads the connections of the timetable, all of them, in *)
(* the order of departures, at every request.                                   *)
THEOREM ViewReadsTheTimetable == ViewSpec => [](FeedTypeOK /\ LoadsTheTimetable)
BY ViewRunsLoad, FeedTypeCorrect, LoadsTheTimetableHolds, PTL

-------------------------------------------------------------------------------
(* The rows of a trip are in a strict total order; a row's rank in it is the    *)
(* number of rows before it.                                                    *)
LEMMA TripRows ==
    ASSUME FeedInv, phase = "loaded", NEW t, NEW i \in Rows(t)
    PROVE  /\ i \in 1 .. N /\ Kept(i) /\ StopTime(i).trip_id = t /\ t \in Ids
           /\ StopTime(i).arrival_time \in Nat /\ StopTime(i).departure_time \in Nat
           /\ StopTime(i).stop_sequence \in Nat
<1>1. i \in 1 .. N /\ Kept(i) /\ StopTime(i).trip_id = t
  BY DEF Rows, N
<1>2. files.stop_times \in Seq(StopTimes) /\ row = N /\ Parses(i)
  BY <1>1 DEF FeedInv, FeedTypeOK, ReadOK
<1>. QED
  BY <1>1, <1>2, RowTypes

LEMMA RowsOrdered ==
    ASSUME FeedInv, phase = "loaded", NEW t, NEW i \in Rows(t), NEW j \in Rows(t), NEW k \in Rows(t)
    PROVE  /\ ~Precedes(i, i)
           /\ Precedes(i, j) /\ Precedes(j, k) => Precedes(i, k)
           /\ i # j => Precedes(i, j) \/ Precedes(j, i)
<1>1. \A r \in Rows(t) : r \in Nat /\ Kept(r) /\ StopTime(r).trip_id = t /\ StopTime(r).stop_sequence \in Nat
  BY TripRows, SeqFacts DEF FeedInv, FeedTypeOK, N
<1>. QED
  BY <1>1 DEF Precedes

Rank(t, i) == Cardinality({k \in Rows(t) : Precedes(k, i)})
LEMMA RankFacts ==
    ASSUME FeedInv, phase = "loaded", NEW t, NEW i \in Rows(t), NEW j \in Rows(t)
    PROVE  /\ Rank(t, i) \in Nat /\ Rank(t, i) <= N /\ N \in Nat
           /\ Precedes(i, j) => Rank(t, i) < Rank(t, j)
<1>. DEFINE earlier(r) == {k \in Rows(t) : Precedes(k, r)}
<1>1. N \in Nat /\ IsFiniteSet(1 .. N) /\ Cardinality(1 .. N) = N
  <2>1. N \in Nat
    BY SeqFacts DEF FeedInv, FeedTypeOK, N
  <2>. QED
    BY <2>1, FS_Interval
<1>2. ASSUME NEW r \in Rows(t)
      PROVE  IsFiniteSet(earlier(r)) /\ Cardinality(earlier(r)) \in Nat /\ Cardinality(earlier(r)) <= N
  <2>1. earlier(r) \in SUBSET (1 .. N)
    BY TripRows
  <2>2. IsFiniteSet(earlier(r)) /\ Cardinality(earlier(r)) <= N
    <3>. HIDE DEF earlier
    <3>. QED
      BY <2>1, <1>1, FS_Subset
  <2>3. Cardinality(earlier(r)) \in Nat
    <3>. HIDE DEF earlier
    <3>. QED
      BY <2>2, FS_CardinalityType
  <2>. QED
    BY <2>2, <2>3
<1>3. ASSUME Precedes(i, j) PROVE Cardinality(earlier(i)) < Cardinality(earlier(j))
  <2>1. earlier(i) \in SUBSET earlier(j)
    BY <1>3, RowsOrdered
  <2>2. i \in earlier(j) /\ i \notin earlier(i)
    BY <1>3, RowsOrdered
  <2>3. earlier(i) # earlier(j)
    BY <2>2
  <2>4. Cardinality(earlier(i)) <= Cardinality(earlier(j)) /\ Cardinality(earlier(j)) # Cardinality(earlier(i))
    <3>1. IsFiniteSet(earlier(j))
      BY <1>2
    <3>. HIDE DEF earlier
    <3>. QED
      BY <3>1, <2>1, <2>3, FS_Subset
  <2>5. Cardinality(earlier(i)) \in Nat /\ Cardinality(earlier(j)) \in Nat
    BY <1>2
  <2>. HIDE DEF earlier
  <2>. QED
    BY <2>4, <2>5
<1>. QED
  BY <1>1, <1>2, <1>3 DEF Rank

(* A row that is not the last of its trip is followed by another.               *)
LEMMA NextRow ==
    ASSUME FeedInv, phase = "loaded", NEW t, NEW i \in Rows(t), NEW j \in Rows(t), Precedes(i, j)
    PROVE  \E k \in Rows(t) : FollowedBy(i, k)
<1>. DEFINE ranks == {Rank(t, k) : k \in {k \in Rows(t) : Precedes(i, k)}}
<1>1. PICK m \in ranks : \A r \in ranks : m <= r
  <2>1. Rank(t, j) \in ranks /\ ranks \in SUBSET Nat
    BY RankFacts
  <2>. HIDE DEF ranks
  <2>. QED
    BY <2>1, LeastNat
<1>2. PICK k \in Rows(t) : Precedes(i, k) /\ m = Rank(t, k)
  BY <1>1
<1>3. ASSUME NEW l \in 1 .. N, Precedes(i, l), Precedes(l, k) PROVE FALSE
  <2>1. l \in Rows(t)
    BY <1>2, <1>3, TripRows DEF Precedes, Rows, N
  <2>2. Rank(t, l) \in ranks
    BY <2>1, <1>3
  <2>3. m <= Rank(t, l) /\ Rank(t, l) < Rank(t, k) /\ Rank(t, l) \in Nat /\ Rank(t, k) \in Nat
    <3>1. m <= Rank(t, l)
      BY <2>2, <1>1
    <3>. HIDE DEF ranks
    <3>. QED
      BY <3>1, <2>1, <1>2, <1>3, RankFacts
  <2>. QED
    BY <2>3, <1>2
<1>. QED
  BY <1>2, <1>3 DEF FollowedBy, N

(* Every hop between known stops has its connection, and every connection is    *)
(* such a hop.                                                                  *)
LEMMA HopShown ==
    ASSUME FeedInv, phase = "loaded", NEW t, NEW i \in Rows(t), NEW j \in Rows(t),
           FollowedBy(i, j), Known(i), Known(j)
    PROVE  \E n \in 1 .. Len(connections) : connections[n] = Connection(t, i, j)
<1>. DEFINE hops == {p \in (1 .. N) \X (1 .. N) : FollowedBy(p[1], p[2]) /\ Known(p[1]) /\ Known(p[2])}
<1>1. i \in 1 .. N /\ j \in 1 .. N /\ StopTime(i).trip_id = t
  BY TripRows
<1>2. {connections[n] : n \in 1 .. Len(connections)} =
         {Connection(StopTime(p[1]).trip_id, p[1], p[2]) : p \in hops}
  BY InvLoads DEF LoadsTheTimetable, N
<1>3. <<i, j>> \in hops
  BY <1>1
<1>4. Connection(t, i, j) \in {Connection(StopTime(p[1]).trip_id, p[1], p[2]) : p \in hops}
  <2>1. <<i, j>>[1] = i /\ <<i, j>>[2] = j
    OBVIOUS
  <2>. HIDE DEF hops
  <2>. QED
    BY <1>1, <1>3, <2>1
<1>. QED
  BY <1>2, <1>4

LEMMA ConnectionIsHop ==
    ASSUME FeedInv, phase = "loaded", NEW n \in 1 .. Len(connections)
    PROVE  \E i, j \in Rows(connections[n].trip_id) :
              /\ FollowedBy(i, j) /\ Known(i) /\ Known(j)
              /\ connections[n] = Connection(connections[n].trip_id, i, j)
<1>1. PICK i \in 1 .. N, j \in 1 .. N :
         /\ FollowedBy(i, j) /\ Known(i) /\ Known(j)
         /\ connections[n] = Connection(StopTime(i).trip_id, i, j)
  BY DEF FeedInv, JoinOK
<1>2. connections[n].trip_id = StopTime(i).trip_id
  BY <1>1 DEF Connection
<1>3. i \in Rows(connections[n].trip_id) /\ j \in Rows(connections[n].trip_id)
  BY <1>1, <1>2 DEF FollowedBy, Precedes, Rows, N
<1>. QED
  BY <1>1, <1>2, <1>3

-------------------------------------------------------------------------------
LEMMA LastBegun ==
    ASSUME FeedInv, phase = "loaded", NEW t, NEW D, D \subseteq Rows(t), D # {}
    PROVE  \E a \in D : \A k \in D : ~Precedes(a, k)
<1>. DEFINE ranks == {Rank(t, k) : k \in D}
<1>1. PICK i \in D : TRUE
  OBVIOUS
<1>2. PICK m \in ranks : \A r \in ranks : r <= m
  <2>1. Rank(t, i) \in ranks /\ ranks \in SUBSET Nat /\ N \in Nat /\ \A r \in ranks : r <= N
    BY RankFacts
  <2>. HIDE DEF ranks
  <2>. QED
    BY <2>1, GreatestNat
<1>3. PICK a \in D : m = Rank(t, a)
  BY <1>2
<1>4. ASSUME NEW k \in D, Precedes(a, k) PROVE FALSE
  <2>1. Rank(t, k) <= m
    BY <1>2
  <2>2. Rank(t, a) < Rank(t, k) /\ Rank(t, a) \in Nat /\ Rank(t, k) \in Nat
    BY <1>4, RankFacts
  <2>. QED
    BY <2>1, <2>2, <1>3
<1>. QED
  BY <1>4

(* A trip on its way has a hop under way or waits.                              *)
LEMMA OnAHop ==
    ASSUME FeedInv, phase = "loaded", NEW t, NEW time \in Int, OnItsWay(t, time), ~Dwells(t, time)
    PROVE  \E a, b \in Rows(t) :
              /\ FollowedBy(a, b)
              /\ StopTime(a).departure_time <= time /\ time <= StopTime(b).arrival_time
<1>1. PICK i \in Rows(t), j \in Rows(t) :
         /\ Precedes(i, j) /\ \A k \in Rows(t) : ~Precedes(k, i) /\ ~Precedes(j, k)
         /\ StopTime(i).departure_time <= time /\ time <= StopTime(j).arrival_time
  BY DEF OnItsWay
<1>. DEFINE D == {k \in Rows(t) : k # j /\ StopTime(k).departure_time <= time}
<1>2. i \in D
  BY <1>1, RowsOrdered
<1>3. PICK a \in D : \A k \in D : ~Precedes(a, k)
  <2>1. D \subseteq Rows(t) /\ D # {}
    BY <1>2
  <2>. HIDE DEF D
  <2>. QED
    BY <2>1, LastBegun
<1>4. a \in Rows(t) /\ Precedes(a, j) /\ StopTime(a).departure_time <= time
  BY <1>1, <1>3, RowsOrdered
<1>5. PICK b \in Rows(t) : FollowedBy(a, b)
  BY <1>4, NextRow
<1>6. StopTime(b).arrival_time \in Nat /\ StopTime(b).departure_time \in Nat
  BY TripRows
<1>7. time <= StopTime(b).arrival_time
  <2>1. CASE b = j
    BY <2>1, <1>1
  <2>2. CASE b # j
    <3>1. Precedes(a, b)
      BY <1>5 DEF FollowedBy
    <3>2. b \notin D
      BY <3>1, <1>3
    <3>3. ~(StopTime(b).departure_time <= time)
      BY <3>2, <2>2
    <3>4. ~(StopTime(b).arrival_time < time)
      BY <3>3, <1>6 DEF Dwells
    <3>. QED
      BY <3>4, <1>6
  <2>. QED
    BY <2>1, <2>2
<1>. QED
  BY <1>4, <1>5, <1>7

LEMMA InvMissing == ViewInv => MissingForAReason
<1>. SUFFICES ASSUME ViewInv PROVE MissingForAReason
  OBVIOUS
<1>. SUFFICES ASSUME Answered, NEW t \in Ids, NEW time \in {asked, asked + Day},
                     OnItsWay(t, time), Selected(t), t \notin DOMAIN vehicles,
                     ~Dwells(t, time), time < Day
              PROVE  NearUnknownStop(t, time)
  <2>1. \A time \in {asked, asked + Day} : time \in Int
    BY VehiclesByScheduleAssumption DEF ViewInv, TimeOK
  <2>2. \A time \in {asked, asked + Day} : time < Day \/ time >= Day
    BY <2>1, VehiclesByScheduleAssumption
  <2>. QED
    BY <2>2 DEF MissingForAReason
<1>1. FeedInv /\ phase = "loaded" /\ asked \in Nat /\ Day \in Nat
  BY VehiclesByScheduleAssumption DEF ViewInv, ShowsLastRides, TimeOK
<1>2. time = asked /\ time \in Int
  BY <1>1
<1>3. PICK a \in Rows(t), b \in Rows(t) :
         /\ FollowedBy(a, b)
         /\ StopTime(a).departure_time <= time /\ time <= StopTime(b).arrival_time
  BY <1>1, <1>2, OnAHop
<1>4. <<a, b>> \in Hops(t) /\ <<a, b>>[1] = a /\ <<a, b>>[2] = b
  BY <1>3 DEF Hops
<1>5. ~(Known(a) /\ Known(b))
  <2>1. SUFFICES ASSUME Known(a), Known(b) PROVE FALSE
    OBVIOUS
  <2>2. PICK n \in 1 .. Len(connections) : connections[n] = Connection(t, a, b)
    BY <2>1, <1>1, <1>3, HopShown
  <2>3. Rides(n, t, selection, asked)
    BY <2>2, <1>2, <1>3 DEF Rides, UnderWay, Connection, Selected
  <2>. QED
    BY <2>3 DEF ViewInv, ShowsLastRides
<1>. QED
  BY <1>3, <1>4, <1>5 DEF NearUnknownStop

(* A trip that is on its way is on the map unless it waits, is next to a stop   *)
(* that is not in stops.txt or runs past midnight: the scan over connections    *)
(* sorted by departure, with one connection kept of each trip, misses nothing.  *)
THEOREM MissingOnlyForAReason == ViewSpec => []MissingForAReason
BY InvMissing, ViewInvariance, PTL
-------------------------------------------------------------------------------
(* The part of a shape drawn for a ride.                                        *)
LEMMA MaxFacts ==
    ASSUME NEW a \in Int, NEW b \in Int
    PROVE  /\ Max({a, b}) \in {a, b}
           /\ a <= Max({a, b}) /\ b <= Max({a, b})
<1>1. \E x \in {a, b} : \A y \in {a, b} : x >= y
  <2>1. CASE a <= b
    BY <2>1
  <2>2. CASE ~(a <= b)
    BY <2>2
  <2>. QED
    BY <2>1, <2>2
<1>2. /\ Max({a, b}) \in {a, b}
      /\ \A y \in {a, b} : Max({a, b}) >= y
  BY <1>1 DEF Max
<1>. QED
  BY <1>2

Cuts(points, i, j, from, to, ride) ==
    /\ Len(ride) = j - i + 1
    /\ \A n \in 1 .. j - i + 1 :
          ride[n] = IF n = j - i + 1 THEN to ELSE IF n = 1 THEN from ELSE points[i + n - 1]

LEMMA SliceFacts ==
    ASSUME NEW points \in Seq(Int), NEW from \in Int, NEW to \in Int,
           NEW i \in 1 .. Len(points), NEW j \in 1 .. Len(points), i < j,
           i = NearestIndex(points, from), j = NearestIndex(points, to)
    PROVE  Cuts(points, i, j, from, to, Slice(points, from, to))
<1>. DEFINE n == Len(points)
            part == SubSeq(points, i, j)
            first == [part EXCEPT ![1] = from]
            both == [first EXCEPT ![Len(part)] = to]
            L == j - i + 1
<1>1. /\ n \in Nat /\ L \in Nat /\ 1 \in 1 .. L /\ L \in 1 .. L /\ L # 1
      /\ i <= j /\ i # j /\ ~(n < 2)
  BY LenProperties
<1>2. Slice(points, from, to) = both
  <2>. DEFINE a == NearestIndex(points, from)
              b == NearestIndex(points, to)
              cut == SubSeq(points, a, b)
  <2>1. a = i /\ b = j /\ cut = part
    OBVIOUS
  <2>2. ~(Len(points) < 2 \/ a = b) /\ a <= b
    <3>. HIDE DEF a, b
    <3>. QED
      BY <1>1, <2>1
  <2>3. Slice(points, from, to) =
           IF Len(points) < 2 \/ a = b THEN <<from, to>>
           ELSE [(IF a <= b THEN cut ELSE Reverse(SubSeq(points, b, a))) EXCEPT
                    ![1] = from,
                    ![Len(IF a <= b THEN cut ELSE Reverse(SubSeq(points, b, a)))] = to]
    BY DEF Slice
  <2>. HIDE DEF a, b, cut, part
  <2>4. Slice(points, from, to) = [cut EXCEPT ![1] = from, ![Len(cut)] = to]
    BY <2>2, <2>3
  <2>. QED
    BY <2>1, <2>4
<1>3. part \in Seq(Int) /\ Len(part) = L /\ \A k \in 1 .. L : part[k] = points[i + k - 1]
  <2>1. \A k \in i .. j : points[k] \in Int
    BY <1>1, ElementOfSeq
  <2>2. i \in Int /\ j \in Int
    OBVIOUS
  <2>3. /\ part \in Seq(Int)
        /\ Len(part) = IF i <= j THEN j - i + 1 ELSE 0
        /\ \A k \in 1 .. j - i + 1 : part[k] = points[i + k - 1]
    BY ONLY <2>1, <2>2, SubSeqProperties DEF part
  <2>. HIDE DEF part
  <2>. QED
    BY <2>3, <1>1
<1>. HIDE DEF part
<1>4. first \in Seq(Int) /\ Len(first) = L /\ \A k \in 1 .. L : first[k] = IF k = 1 THEN from ELSE part[k]
  BY <1>1, <1>3, ExceptSeq
<1>. HIDE DEF first
<1>5. Len(both) = L /\ \A k \in 1 .. L : both[k] = IF k = L THEN to ELSE first[k]
  BY <1>1, <1>3, <1>4, ExceptSeq
<1>. HIDE DEF both
<1>6. \A k \in 1 .. L : both[k] = IF k = L THEN to ELSE IF k = 1 THEN from ELSE points[i + k - 1]
  BY <1>3, <1>4, <1>5
<1>. QED
  BY <1>2, <1>5, <1>6 DEF Cuts

(* What lies between two places lies, give or take s, between two places that   *)
(* are no further than s from those.                                            *)
Near(a, b, s) == a <= b + s /\ b <= a + s
LEMMA BetweenNearby ==
    ASSUME NEW a \in Int, NEW b \in Int, NEW c \in Int, NEW f \in Int, NEW s \in Nat, NEW x \in Int,
           Between(a, x, b), Near(a, c, s), Near(b, f, s)
    PROVE  \E off \in -s .. s : Between(c, x + off, f)
<1>1. \E y \in Int : Between(c, y, f) /\ x - s <= y /\ y <= x + s
  <2>1. CASE c <= x /\ x <= f
    BY <2>1 DEF Between
  <2>2. CASE f <= x /\ x <= c
    BY <2>2 DEF Between
  <2>3. CASE x < c /\ x < f
    <3>1. CASE c <= f
      BY <3>1, <2>3 DEF Between, Near
    <3>2. CASE f <= c
      BY <3>2, <2>3 DEF Between, Near
    <3>. QED
      BY <3>1, <3>2
  <2>4. CASE c < x /\ f < x
    <3>1. CASE c <= f
      BY <3>1, <2>4 DEF Between, Near
    <3>2. CASE f <= c
      BY <3>2, <2>4 DEF Between, Near
    <3>. QED
      BY <3>1, <3>2
  <2>. QED
    BY <2>1, <2>2, <2>3, <2>4
<1>2. PICK y \in Int : Between(c, y, f) /\ x - s <= y /\ y <= x + s
  BY <1>1
<1>3. y - x \in -s .. s /\ x + (y - x) = y
  BY <1>2
<1>. QED
  BY <1>2, <1>3

LEMMA ScaledNear ==
    ASSUME NEW p \in Int, NEW q \in Int, NEW scale \in Nat, NEW m \in Int, Dist(p, q) <= m
    PROVE  Near(p * scale, q * scale, scale * m)
<1>1. PICK e \in Nat : e = Dist(p, q) /\ (q = p + e \/ q = p - e)
  BY DistFacts
<1>2. e * scale <= m * scale /\ e * scale \in Int /\ m * scale \in Int /\ p * scale \in Int
  BY <1>1, ScaleOrder, ScaleSum
<1>3. /\ (p + e) * scale = p * scale + e * scale
      /\ (p - e) * scale = p * scale - e * scale
  BY <1>1, ScaleSum
<1>4. PICK x \in Int, y \in Int, z \in Int : x = p * scale /\ y = e * scale /\ z = m * scale
  BY <1>2
<1>5. q * scale = x + y \/ q * scale = x - y
  BY <1>1, <1>3, <1>4
<1>6. scale * m = z /\ 0 <= y /\ y <= z
  <2>1. scale * m = m * scale
    OBVIOUS
  <2>2. 0 * scale <= e * scale /\ 0 * scale = 0
    BY <1>1, ScaleOrder
  <2>. QED
    BY <2>1, <2>2, <1>2, <1>4
<1>. QED
  BY <1>4, <1>5, <1>6 DEF Near

-------------------------------------------------------------------------------
(* A share gone / denom of the way from a to b: from x to y in units 1 / denom. *)
Share(a, b, gone, denom, x, y, d) ==
    x = a * denom /\ y = b * denom /\ d = a * denom + (b - a) * gone
LiesBetween(a, b, gone, denom, x, y, d) ==
    /\ d \in Int /\ x \in Int /\ y \in Int
    /\ gone = 0 => d = x
    /\ gone = denom => d = y
    /\ a <= b => x <= d /\ d <= y

LEMMA ShareOfTheWay ==
    ASSUME NEW a \in Int, NEW b \in Int, NEW gone \in Nat, NEW denom \in Nat, gone <= denom,
           NEW u, NEW v, NEW d, Share(a, b, gone, denom, u, v, d)
    PROVE  LiesBetween(a, b, gone, denom, u, v, d)
<1>1. PICK x \in Int, y \in Int, z \in Int :
         x = a * denom /\ y = (b - a) * gone /\ z = (b - a) * denom
  BY ScaleSum
<1>2. b * denom = x + z
  <2>1. b * denom - a * denom = (b - a) * denom /\ b * denom \in Int
    BY ScaleSum
  <2>. QED
    BY <2>1, <1>1
<1>3. gone = 0 => y = 0
  BY <1>1
<1>4. gone = denom => y = z
  BY <1>1
<1>5. a <= b => 0 <= y /\ y <= z
  <2>1. ASSUME NEW c \in Nat PROVE 0 * gone <= c * gone /\ gone * c <= denom * c
    BY ScaleOrder
  <2>2. ASSUME NEW c \in Nat PROVE 0 <= c * gone /\ c * gone <= c * denom
    <3>1. 0 * gone = 0 /\ gone * c = c * gone /\ denom * c = c * denom
      OBVIOUS
    <3>. QED
      BY <3>1, <2>1
  <2>3. a <= b => b - a \in Nat
    OBVIOUS
  <2>. QED
    BY <2>2, <2>3, <1>1
<1>6. d = x + y /\ u = x /\ v = x + z
  BY <1>1, <1>2 DEF Share
<1>. QED
  BY <1>3, <1>4, <1>5, <1>6 DEF LiesBetween

LEMMA ScaleInt == ASSUME NEW a \in Int, NEW c \in Int PROVE a * c \in Int
OBVIOUS

OnTheShape(points, i, j, C, P, d, gone, denom) ==
    /\ i \in 1 .. Len(points) /\ j \in 1 .. Len(points) /\ i < j
    /\ d \in Int /\ C[i] <= d /\ d <= C[j]
    /\ gone = 0 => d = C[i]
    /\ gone = denom => d = C[j]
    /\ PutsBetween(C, P, i, j, d, Along(points, d, denom))

LEMMA ShapeFollowed ==
    ASSUME NEW points \in Seq(Int), NEW from \in Int, NEW to \in Int, Follows(points, from, to),
           NEW i, i = NearestIndex(points, from), NEW j, j = NearestIndex(points, to),
           NEW gone \in Nat, NEW denom \in Nat \ {0}, gone <= denom,
           NEW C, NEW P, ScaledTo(points, denom, C, P),
           NEW d, d = ShapeDistance(Cumulative(points)[i], Cumulative(points)[j], gone, denom)
    PROVE  OnTheShape(points, i, j, C, P, d, gone, denom)
<1>1. Len(points) \in Nat /\ Len(points) >= 2 /\ i < j
  BY LenProperties DEF Follows
<1>2. i \in 1 .. Len(points) /\ j \in 1 .. Len(points)
  BY <1>1, NearestFacts
<1>. DEFINE cum == Cumulative(points)
<1>3. AddsUp(points, cum)
  BY <1>1, CumulativeFacts
<1>4. cum[i] \in Nat /\ cum[j] \in Nat
  BY <1>2, <1>3 DEF AddsUp
<1>5. cum[i] <= cum[j]
  <2>1. i <= j
    BY <1>1, <1>2
  <2>. HIDE DEF cum
  <2>. QED
    BY <1>2, <1>3, <2>1, CumulativeGrows
<1>6. C[i] = cum[i] * denom /\ C[j] = cum[j] * denom
  BY <1>2 DEF ScaledTo
<1>. HIDE DEF cum
<1>7. d = cum[i] * denom + (cum[j] - cum[i]) * gone
  BY DEF ShapeDistance, cum
<1>8. /\ d \in Int /\ C[i] <= d /\ d <= C[j]
      /\ gone = 0 => d = C[i]
      /\ gone = denom => d = C[j]
  <2>1. PICK a \in Int, b \in Int : a = cum[i] /\ b = cum[j] /\ a <= b
    BY <1>4, <1>5
  <2>2. Share(a, b, gone, denom, C[i], C[j], d)
    BY <2>1, <1>6, <1>7 DEF Share
  <2>3. LiesBetween(a, b, gone, denom, C[i], C[j], d)
    BY <2>1, <2>2, ShareOfTheWay
  <2>. QED
    BY <2>1, <2>3 DEF LiesBetween
<1>9. PutsBetween(C, P, i, j, d, Along(points, d, denom))
  <2>1. i <= j
    BY <1>1, <1>2
  <2>. QED
    BY <1>1, <1>2, <1>8, <2>1, AlongFacts
<1>. QED
  BY <1>1, <1>2, <1>8, <1>9 DEF OnTheShape

(* It is on the ride drawn, give or take how far the stops are from the shape.  *)
LEMMA OnTheRide ==
    ASSUME NEW points \in Seq(Int), NEW from \in Int, NEW to \in Int,
           NEW i \in 1 .. Len(points), NEW j \in 1 .. Len(points), i < j,
           NEW denom \in Nat \ {0}, NEW C, NEW P, ScaledTo(points, denom, C, P),
           NEW d, NEW at, PutsBetween(C, P, i, j, d, at),
           NEW ride, Cuts(points, i, j, from, to, ride),
           NEW slack, slack = denom * Max({Dist(from, points[i]), Dist(to, points[j])})
    PROVE  \E n \in 1 .. Len(ride) - 1, off \in -slack .. slack :
              Between(ride[n] * denom, at + off, ride[n + 1] * denom)
<1>1. Len(points) \in Nat /\ \A k \in 1 .. Len(points) : points[k] \in Int /\ P[k] = points[k] * denom
  BY LenProperties, ElementOfSeq DEF ScaledTo
<1>0. \A k \in 1 .. Len(points) : P[k] \in Int
  <2>1. ASSUME NEW p \in Int PROVE p * denom \in Int
    BY ScaleInt
  <2>. QED
    BY <2>1, <1>1
<1>2. PICK m \in Nat : /\ m = Max({Dist(from, points[i]), Dist(to, points[j])})
                       /\ Dist(from, points[i]) <= m /\ Dist(to, points[j]) <= m
  <2>1. points[i] \in Int /\ points[j] \in Int
    BY <1>1
  <2>2. Dist(from, points[i]) \in Nat /\ Dist(to, points[j]) \in Nat
    BY <2>1, DistFacts
  <2>3. PICK a \in Nat, b \in Nat : a = Dist(from, points[i]) /\ b = Dist(to, points[j])
    BY <2>2
  <2>4. Max({a, b}) \in {a, b} /\ a <= Max({a, b}) /\ b <= Max({a, b})
    <3>1. a \in Int /\ b \in Int
      OBVIOUS
    <3>. QED
      BY ONLY <3>1, MaxFacts
  <2>5. Max({a, b}) \in Nat
    BY <2>4
  <2>. QED
    BY <2>3, <2>4, <2>5
<1>3. PICK s \in Nat : s = denom * m /\ slack = s
  BY <1>2
<1>4. at \in Int
  BY DEF PutsBetween
<1>5. PICK k \in i .. j - 1 : Between(P[k], at, P[k + 1])
  <2>1. CASE at = P[i]
    <3>1. i \in i .. j - 1 /\ i + 1 \in 1 .. Len(points)
      OBVIOUS
    <3>2. P[i] \in Int /\ P[i + 1] \in Int
      BY <1>0, <3>1
    <3>3. Between(P[i], at, P[i + 1])
      BY <2>1, <3>2 DEF Between
    <3>. QED
      BY <3>1, <3>3
  <2>2. CASE at # P[i]
    BY <2>2 DEF PutsBetween
  <2>. QED
    BY <2>1, <2>2
<1>. DEFINE n == k - i + 1
<1>6. n \in 1 .. j - i /\ Len(ride) = j - i + 1 /\ k \in 1 .. Len(points) /\ k + 1 \in 1 .. Len(points)
  BY DEF Cuts
<1>7. /\ ride[n] = IF k = i THEN from ELSE points[k]
      /\ ride[n + 1] = IF k + 1 = j THEN to ELSE points[k + 1]
  <2>1. /\ n \in 1 .. j - i + 1 /\ n + 1 \in 1 .. j - i + 1
        /\ n # j - i + 1 /\ (n = 1 <=> k = i) /\ i + n - 1 = k
        /\ (n + 1 = j - i + 1 <=> k + 1 = j) /\ n + 1 # 1 /\ i + (n + 1) - 1 = k + 1
    BY <1>6
  <2>. HIDE DEF n
  <2>2. \A l \in 1 .. j - i + 1 :
           ride[l] = IF l = j - i + 1 THEN to ELSE IF l = 1 THEN from ELSE points[i + l - 1]
    BY DEF Cuts
  <2>. QED
    BY <2>1, <2>2
<1>8. ASSUME NEW p \in Int PROVE Near(p * denom, p * denom, s)
  BY ScaleInt DEF Near
<1>9. ride[n] \in Int /\ Near(P[k], ride[n] * denom, s)
  <2>1. CASE k = i
    <3>1. PICK p \in Int : p = points[i]
      BY <1>1
    <3>2. Near(from * denom, p * denom, denom * m)
      <4>1. Dist(from, p) <= m /\ m \in Int /\ denom \in Nat
        BY <3>1, <1>2
      <4>. QED
        BY <4>1, ScaledNear
    <3>3. Near(from * denom, points[i] * denom, s)
      BY <3>1, <3>2, <1>3
    <3>. QED
      BY <3>3, <2>1, <1>1, <1>7 DEF Near
  <2>2. CASE k # i
    BY <2>2, <1>1, <1>6, <1>7, <1>8
  <2>. QED
    BY <2>1, <2>2
<1>10. ride[n + 1] \in Int /\ Near(P[k + 1], ride[n + 1] * denom, s)
  <2>1. CASE k + 1 = j
    <3>1. PICK p \in Int : p = points[j]
      BY <1>1
    <3>2. Near(to * denom, p * denom, denom * m)
      <4>1. Dist(to, p) <= m /\ m \in Int /\ denom \in Nat
        BY <3>1, <1>2
      <4>. QED
        BY <4>1, ScaledNear
    <3>3. Near(to * denom, points[j] * denom, s)
      BY <3>1, <3>2, <1>3
    <3>. QED
      BY <3>3, <2>1, <1>1, <1>7 DEF Near
  <2>2. CASE k + 1 # j
    BY <2>2, <1>1, <1>6, <1>7, <1>8
  <2>. QED
    BY <2>1, <2>2
<1>. HIDE DEF n
<1>11. \E off \in -s .. s : Between(ride[n] * denom, at + off, ride[n + 1] * denom)
  <2>1. PICK a \in Int, b \in Int, c \in Int, f \in Int :
           a = P[k] /\ b = P[k + 1] /\ c = ride[n] * denom /\ f = ride[n + 1] * denom
    <3>1. ASSUME NEW p \in Int PROVE p * denom \in Int
      BY ScaleInt
    <3>. QED
      BY <3>1, <1>0, <1>6, <1>9, <1>10
  <2>2. Between(a, at, b) /\ Near(a, c, s) /\ Near(b, f, s)
    BY <2>1, <1>5, <1>9, <1>10
  <2>3. \E off \in -s .. s : Between(c, at + off, f)
    BY <2>2, <1>4, BetweenNearby
  <2>. QED
    BY <2>1, <2>3
<1>12. n \in 1 .. Len(ride) - 1
  BY <1>6
<1>. QED
  BY <1>3, <1>11, <1>12

-------------------------------------------------------------------------------
(* Where a vehicle comes from: the hop from row i to row j of its trip, and how *)
(* far it is gone on it.                                                        *)
ComesFrom(v, t, lines, time, i, j) ==
    /\ i \in Rows(t) /\ j \in Rows(t) /\ FollowedBy(i, j) /\ Known(i) /\ Known(j)
    /\ v = Vehicle(Connection(t, i, j), time)
    /\ StopTime(i).departure_time <= time /\ time <= StopTime(j).arrival_time
    /\ lines # {} => Line(t) \in lines

LEMMA VehicleHop ==
    ASSUME FeedInv, phase = "loaded", NEW t, NEW lines, NEW time, NEW n, LastRide(n, t, lines, time),
           NEW v, v = Vehicle(connections[n], time)
    PROVE  \E i, j \in Rows(t) :
              ComesFrom(v, t, lines, time, i, j) /\ connections[n] = Connection(t, i, j)
<1>1. n \in 1 .. Len(connections) /\ connections[n].trip_id = t /\ UnderWay(connections[n], lines, time)
  BY DEF LastRide, Rides
<1>2. PICK i \in Rows(t), j \in Rows(t) :
         FollowedBy(i, j) /\ Known(i) /\ Known(j) /\ connections[n] = Connection(t, i, j)
  BY <1>1, ConnectionIsHop
<1>3. /\ connections[n].dep_time_s = StopTime(i).departure_time
      /\ connections[n].arr_time_s = StopTime(j).arrival_time
  BY <1>2 DEF Connection
<1>. QED
  BY <1>1, <1>2, <1>3 DEF ComesFrom, UnderWay

Positioned(v, points, from, to, gone) ==
    /\ points \in Seq(Int) /\ from \in Int /\ to \in Int
    /\ v.denom \in Nat \ {0} /\ gone \in Nat /\ gone <= v.denom
    /\ v.on_shape <=> Follows(points, from, to)
    /\ v.at = IF v.on_shape
              THEN Along(points, ShapeDistance(Cumulative(points)[NearestIndex(points, from)],
                                               Cumulative(points)[NearestIndex(points, to)],
                                               gone, v.denom), v.denom)
              ELSE from * v.denom + (to - from) * gone
Timed(v, t, i, j, time) ==
    /\ v.connection = Connection(t, i, j)
    /\ Positioned(v, ShapePoints(ShapeOf(t)), Place(StopTime(i).stop_id), Place(StopTime(j).stop_id),
                  time - StopTime(i).departure_time)
    /\ v.denom = IF StopTime(i).departure_time < StopTime(j).arrival_time
                 THEN StopTime(j).arrival_time - StopTime(i).departure_time ELSE 1

LEMMA VehicleFields ==
    ASSUME FeedInv, phase = "loaded", files \in Feeds, NEW t, NEW lines, NEW time \in Int,
           NEW i, NEW j, NEW v, ComesFrom(v, t, lines, time, i, j)
    PROVE  Timed(v, t, i, j, time)
<1>1. PICK dep \in Nat, arr \in Nat :
         dep = StopTime(i).departure_time /\ arr = StopTime(j).arrival_time
  BY TripRows DEF ComesFrom
<1>2. PICK from \in Int, to \in Int :
         from = Place(StopTime(i).stop_id) /\ to = Place(StopTime(j).stop_id)
  BY PlaceTyped DEF ComesFrom, Known
<1>3. PICK points \in Seq(Int) : points = ShapePoints(ShapeOf(t))
  BY ShapeTyped
<1>4. PICK c : c = Connection(t, i, j)
  OBVIOUS
<1>5. /\ c.dep_time_s = dep /\ c.arr_time_s = arr /\ c.trip_id = t
      /\ Place(c.dep_stop_id) = from /\ Place(c.arr_stop_id) = to
  BY <1>1, <1>2, <1>4 DEF Connection
<1>6. PICK denom \in Nat \ {0} :
         denom = Max({1, arr - dep}) /\ denom = IF dep < arr THEN arr - dep ELSE 1
  <2>1. 1 \in Int /\ arr - dep \in Int
    OBVIOUS
  <2>2. Max({1, arr - dep}) \in {1, arr - dep} /\ 1 <= Max({1, arr - dep}) /\ arr - dep <= Max({1, arr - dep})
    BY ONLY <2>1, MaxFacts
  <2>. QED
    BY <2>1, <2>2
<1>7. PICK gone \in Int : gone = time - dep
  OBVIOUS
<1>8. v = [connection |-> c, denom |-> denom, on_shape |-> Follows(points, from, to),
           at |-> IF Follows(points, from, to)
                  THEN Along(points, ShapeDistance(Cumulative(points)[NearestIndex(points, from)],
                                                   Cumulative(points)[NearestIndex(points, to)],
                                                   gone, denom), denom)
                  ELSE from * denom + (to - from) * gone]
  <2>1. v = Vehicle(c, time)
    BY <1>4 DEF ComesFrom
  <2>. QED
    BY <2>1, <1>3, <1>5, <1>6, <1>7 DEF Vehicle, Elapsed
<1>9. gone \in Nat /\ gone <= denom
  BY <1>1, <1>6, <1>7 DEF ComesFrom
<1>10. v.connection = c /\ v.denom = denom
  BY <1>8
<1>11. Positioned(v, points, from, to, gone)
  <2>1. v.on_shape <=> Follows(points, from, to)
    BY <1>8
  <2>2. v.at = IF Follows(points, from, to)
               THEN Along(points, ShapeDistance(Cumulative(points)[NearestIndex(points, from)],
                                                Cumulative(points)[NearestIndex(points, to)],
                                                gone, denom), denom)
               ELSE from * denom + (to - from) * gone
    BY <1>8
  <2>. QED
    BY <1>9, <1>10, <2>1, <2>2 DEF Positioned
<1>. QED
  BY <1>1, <1>2, <1>3, <1>4, <1>6, <1>7, <1>10, <1>11 DEF Timed

-------------------------------------------------------------------------------
LEMMA OnShape ==
    ASSUME NEW v, NEW points, NEW from, NEW to, NEW gone, Positioned(v, points, from, to, gone), v.on_shape
    PROVE  \E C, P, d :
              /\ ScaledTo(points, v.denom, C, P)
              /\ v.at = Along(points, d, v.denom)
              /\ d = ShapeDistance(Cumulative(points)[NearestIndex(points, from)],
                                   Cumulative(points)[NearestIndex(points, to)], gone, v.denom)
              /\ OnTheShape(points, NearestIndex(points, from), NearestIndex(points, to), C, P, d, gone, v.denom)
<1>1. PICK C, P : ScaledTo(points, v.denom, C, P)
  BY DEF ScaledTo
<1>2. PICK denom \in Nat \ {0} : denom = v.denom
  BY DEF Positioned
<1>3. PICK i, j : i = NearestIndex(points, from) /\ j = NearestIndex(points, to)
  OBVIOUS
<1>4. PICK d : d = ShapeDistance(Cumulative(points)[i], Cumulative(points)[j], gone, denom)
  OBVIOUS
<1>5. OnTheShape(points, i, j, C, P, d, gone, denom)
  BY <1>1, <1>2, <1>3, <1>4, ShapeFollowed DEF Positioned
<1>6. v.at = Along(points, d, denom)
  BY <1>2, <1>3, <1>4 DEF Positioned
<1>. QED
  BY <1>1, <1>2, <1>3, <1>4, <1>5, <1>6

(* At a stop at the very second: at its place or at the nearest vertex.         *)
LEMMA AtItsStops ==
    ASSUME NEW v, NEW points, NEW from, NEW to, NEW gone, Positioned(v, points, from, to, gone)
    PROVE  /\ gone = 0 => \/ v.at = from * v.denom
                          \/ Len(points) >= 2 /\ v.at = points[NearestIndex(points, from)] * v.denom
           /\ gone = v.denom => \/ v.at = to * v.denom
                                \/ Len(points) >= 2 /\ v.at = points[NearestIndex(points, to)] * v.denom
<1>1. CASE v.on_shape
  <2>1. PICK i, j : i = NearestIndex(points, from) /\ j = NearestIndex(points, to)
    OBVIOUS
  <2>2. PICK C, P, d :
           /\ ScaledTo(points, v.denom, C, P) /\ v.at = Along(points, d, v.denom)
           /\ OnTheShape(points, i, j, C, P, d, gone, v.denom)
    BY <1>1, <2>1, OnShape
  <2>3. Len(points) >= 2
    BY <1>1 DEF Positioned, Follows
  <2>4. /\ gone = 0 => v.at = P[i]
        /\ gone = v.denom => v.at = P[j]
    BY <2>2 DEF OnTheShape, PutsBetween
  <2>5. P[i] = points[i] * v.denom /\ P[j] = points[j] * v.denom
    BY <2>2 DEF OnTheShape, ScaledTo
  <2>. QED
    BY <2>1, <2>3, <2>4, <2>5
<1>2. CASE ~v.on_shape
  <2>1. PICK denom \in Nat \ {0} : denom = v.denom
    BY DEF Positioned
  <2>2. v.at = from * denom + (to - from) * gone
    BY <1>2, <2>1 DEF Positioned
  <2>3. PICK a, b, d : Share(from, to, gone, denom, a, b, d)
    BY DEF Share
  <2>4. LiesBetween(from, to, gone, denom, a, b, d)
    BY <2>1, <2>3, ShareOfTheWay DEF Positioned
  <2>5. a = from * denom /\ b = to * denom /\ v.at = d
    BY <2>2, <2>3 DEF Share
  <2>. QED
    BY <2>1, <2>4, <2>5 DEF LiesBetween
<1>. QED
  BY <1>1, <1>2

LEMMA VehicleOnTheMap ==
    ASSUME ViewInv, NEW t \in DOMAIN vehicles
    PROVE  /\ Answered /\ asked \in Nat /\ phase = "loaded" /\ FeedInv /\ files \in Feeds
           /\ \E i, j \in Rows(t), n \in 1 .. Len(connections) :
                 /\ ComesFrom(vehicles[t], t, selection, asked, i, j)
                 /\ connections[n] = Connection(t, i, j)
                 /\ Timed(vehicles[t], t, i, j, asked)
<1>1. Answered /\ asked \in Nat /\ phase = "loaded" /\ FeedInv /\ files \in Feeds
  BY VehiclesByScheduleAssumption DEF ViewInv, ShowsLastRides, TimeOK
<1>2. PICK n \in 1 .. Len(connections) :
         LastRide(n, t, selection, asked) /\ vehicles[t] = Vehicle(connections[n], asked)
  BY <1>1 DEF ViewInv, ShowsLastRides
<1>3. PICK i \in Rows(t), j \in Rows(t) :
         ComesFrom(vehicles[t], t, selection, asked, i, j) /\ connections[n] = Connection(t, i, j)
  BY <1>1, <1>2, VehicleHop
<1>4. Timed(vehicles[t], t, i, j, asked)
  BY <1>1, <1>3, VehicleFields
<1>. QED
  BY <1>1, <1>3, <1>4

LEMMA InvKeepsTime == ASSUME ViewInv, NEW t \in DOMAIN vehicles PROVE KeepsTime(t)
<1>1. Answered /\ asked \in Nat /\ phase = "loaded" /\ FeedInv /\ files \in Feeds
  BY VehicleOnTheMap
<1>2. PICK i \in Rows(t), j \in Rows(t) :
         ComesFrom(vehicles[t], t, selection, asked, i, j) /\ Timed(vehicles[t], t, i, j, asked)
  BY VehicleOnTheMap
<1>3. PICK v : v = vehicles[t]
  OBVIOUS
<1>4. PICK points \in Seq(Int) : points = ShapePoints(ShapeOf(t))
  BY <1>1, ShapeTyped
<1>5. PICK from, to : from = Place(StopTime(i).stop_id) /\ to = Place(StopTime(j).stop_id)
  OBVIOUS
<1>6. PICK dep \in Nat, arr \in Nat : dep = StopTime(i).departure_time /\ arr = StopTime(j).arrival_time
  BY <1>1, TripRows
<1>7. Positioned(v, points, from, to, asked - dep) /\ dep <= asked /\ asked <= arr
  BY <1>2, <1>3, <1>4, <1>5, <1>6 DEF Timed, ComesFrom
<1>8. v.denom = IF dep < arr THEN arr - dep ELSE 1
  BY <1>2, <1>3, <1>6 DEF Timed
<1>9. /\ asked = dep => asked - dep = 0
      /\ asked = arr /\ dep < arr => asked - dep = v.denom
  BY <1>1, <1>8
<1>10. Len(points) >= 2 => points # << >>
  BY EmptySeq
<1>11. /\ asked = dep => v.at \in {x * v.denom : x \in AtStop(t, StopTime(i).stop_id)}
       /\ asked = arr /\ dep < arr => v.at \in {x * v.denom : x \in AtStop(t, StopTime(j).stop_id)}
  <2>1. /\ from \in AtStop(t, StopTime(i).stop_id)
        /\ to \in AtStop(t, StopTime(j).stop_id)
        /\ Len(points) >= 2 => /\ points[NearestIndex(points, from)] \in AtStop(t, StopTime(i).stop_id)
                               /\ points[NearestIndex(points, to)] \in AtStop(t, StopTime(j).stop_id)
    BY <1>4, <1>5, <1>10 DEF AtStop
  <2>2. /\ asked = dep => \/ v.at = from * v.denom
                          \/ Len(points) >= 2 /\ v.at = points[NearestIndex(points, from)] * v.denom
        /\ asked = arr /\ dep < arr =>
              \/ v.at = to * v.denom
              \/ Len(points) >= 2 /\ v.at = points[NearestIndex(points, to)] * v.denom
    BY <1>7, <1>9, AtItsStops
  <2>. QED
    BY <2>1, <2>2
<1>12. <<i, j>> \in Hops(t) /\ <<i, j>>[1] = i /\ <<i, j>>[2] = j
  BY <1>2 DEF ComesFrom, Hops
<1>13. v.connection = Connection(t, i, j)
  BY <1>2, <1>3 DEF Timed
<1>14. \E p \in Hops(t) :
          /\ v.connection = Connection(t, p[1], p[2])
          /\ StopTime(p[1]).departure_time <= asked /\ asked <= StopTime(p[2]).arrival_time
          /\ asked = StopTime(p[1]).departure_time =>
                v.at \in {x * v.denom : x \in AtStop(t, StopTime(p[1]).stop_id)}
          /\ (asked = StopTime(p[2]).arrival_time
                 /\ StopTime(p[1]).departure_time < StopTime(p[2]).arrival_time) =>
                v.at \in {x * v.denom : x \in AtStop(t, StopTime(p[2]).stop_id)}
  BY <1>6, <1>7, <1>11, <1>12, <1>13
<1>. QED
  BY <1>3, <1>14 DEF KeepsTime

LEMMA InvOnTheRide == ASSUME ViewInv, NEW t \in DOMAIN vehicles PROVE OnTheRideDrawn(t)
<1>. SUFFICES ASSUME vehicles[t].on_shape PROVE OnTheRideDrawn(t)
  BY DEF OnTheRideDrawn
<1>1. files \in Feeds /\ FeedInv /\ asked \in Nat
  BY VehicleOnTheMap
<1>2. PICK i \in Rows(t), j \in Rows(t) : Timed(vehicles[t], t, i, j, asked)
  BY VehicleOnTheMap
<1>3. PICK v : v = vehicles[t] /\ v.on_shape
  OBVIOUS
<1>4. PICK points \in Seq(Int) : points = ShapePoints(ShapeOf(t))
  BY <1>1, ShapeTyped
<1>5. PICK from, to : from = Place(StopTime(i).stop_id) /\ to = Place(StopTime(j).stop_id)
  OBVIOUS
<1>6. PICK gone : Positioned(v, points, from, to, gone)
  BY <1>2, <1>3, <1>4, <1>5 DEF Timed
<1>7. from = Place(v.connection.dep_stop_id) /\ to = Place(v.connection.arr_stop_id)
  BY <1>2, <1>3, <1>5 DEF Timed, Connection
<1>8. PICK a, b : a = NearestIndex(points, from) /\ b = NearestIndex(points, to)
  OBVIOUS
<1>9. PICK C, P, d :
         /\ ScaledTo(points, v.denom, C, P) /\ v.at = Along(points, d, v.denom)
         /\ OnTheShape(points, a, b, C, P, d, gone, v.denom)
  BY <1>3, <1>6, <1>8, OnShape
<1>10. /\ from \in Int /\ to \in Int /\ v.denom \in Nat \ {0}
       /\ a \in 1 .. Len(points) /\ b \in 1 .. Len(points) /\ a < b
       /\ PutsBetween(C, P, a, b, d, v.at)
  BY <1>6, <1>9 DEF Positioned, OnTheShape
<1>11. PICK ride : ride = Slice(points, from, to)
  OBVIOUS
<1>12. Cuts(points, a, b, from, to, ride)
  BY <1>8, <1>10, <1>11, SliceFacts
<1>13. PICK slack : slack = v.denom * Max({Dist(from, points[a]), Dist(to, points[b])})
  OBVIOUS
<1>14. \E n \in 1 .. Len(ride) - 1, off \in -slack .. slack :
          Between(ride[n] * v.denom, v.at + off, ride[n + 1] * v.denom)
  <2>1. PICK denom, at : denom = v.denom /\ at = v.at
    OBVIOUS
  <2>2. /\ points \in Seq(Int) /\ from \in Int /\ to \in Int
        /\ a \in 1 .. Len(points) /\ b \in 1 .. Len(points) /\ a < b
        /\ denom \in Nat \ {0} /\ ScaledTo(points, denom, C, P)
        /\ PutsBetween(C, P, a, b, d, at) /\ Cuts(points, a, b, from, to, ride)
        /\ slack = denom * Max({Dist(from, points[a]), Dist(to, points[b])})
    BY <2>1, <1>9, <1>10, <1>12, <1>13
  <2>3. \E n \in 1 .. Len(ride) - 1, off \in -slack .. slack :
           Between(ride[n] * denom, at + off, ride[n + 1] * denom)
    BY ONLY <2>2, OnTheRide
  <2>. QED
    BY <2>1, <2>3
<1>. QED
  BY <1>3, <1>4, <1>7, <1>8, <1>11, <1>13, <1>14 DEF OnTheRideDrawn

LEMMA InvOnItsLine == ASSUME ViewInv, NEW t \in DOMAIN vehicles PROVE DrawnOnItsLine(t)
<1>1. files \in Feeds /\ FeedInv /\ asked \in Nat
  BY VehicleOnTheMap
<1>2. PICK i \in Rows(t), j \in Rows(t), n \in 1 .. Len(connections) :
         /\ ComesFrom(vehicles[t], t, selection, asked, i, j)
         /\ connections[n] = Connection(t, i, j)
         /\ Timed(vehicles[t], t, i, j, asked)
  BY VehicleOnTheMap
<1>3. Selected(t)
  BY <1>2 DEF ComesFrom, Selected
<1>4. ASSUME Line(t) # Blank PROVE t \in TripsOf(Line(t))
  BY <1>4 DEF Line, TripsOf
<1>5. vehicles[t].connection = connections[n] /\ connections[n].trip_id = t
  BY <1>2 DEF Timed, Connection
<1>6. ASSUME Line(t) # Blank
      PROVE  {vehicles[t].connection.dep_stop_id, vehicles[t].connection.arr_stop_id} \subseteq RouteStops(Line(t))
  BY <1>4, <1>5, <1>6 DEF RouteStops
<1>7. ASSUME vehicles[t].on_shape, Line(t) # Blank,
             ~(Cardinality({s \in ShapesOf(Line(t)) : Commoner(Line(t), s, ShapeOf(t))}) >= MaxShapes)
      PROVE  ShapeOf(t) \in RouteShapes(Line(t))
  <2>1. PICK points \in Seq(Int) : points = ShapePoints(ShapeOf(t)) /\ Len(points) >= 2
    <3>1. Len(ShapePoints(ShapeOf(t))) >= 2
      BY <1>2, <1>7 DEF Timed, Positioned, Follows
    <3>. QED
      BY <3>1, <1>1, ShapeTyped
  <2>2. points # << >> /\ ShapeOf(t) # Blank
    <3>1. points # << >>
      BY <2>1, EmptySeq
    <3>2. ShapeOf(t) # Blank
      BY <1>1, <2>1, ShapeTyped
    <3>. QED
      BY <3>1, <3>2
  <2>3. ShapeOf(t) \in ShapesOf(Line(t))
    BY <1>4, <1>7, <2>1, <2>2 DEF ShapesOf
  <2>. DEFINE S == {s \in ShapesOf(Line(t)) : Commoner(Line(t), s, ShapeOf(t))}
  <2>4. Cardinality(S) \in Nat
    <3>1. S \subseteq ShapesOf(Line(t))
      OBVIOUS
    <3>. HIDE DEF S
    <3>. QED
      BY <3>1, <1>1, TripsFinite
  <2>5. ~(Cardinality(S) >= MaxShapes)
    BY <1>7
  <2>6. Cardinality(S) < MaxShapes
    <3>. HIDE DEF S
    <3>. QED
      BY <2>4, <2>5 DEF MaxShapes
  <2>. QED
    BY <2>1, <2>3, <2>6 DEF RouteShapes
<1>. QED
  BY <1>3, <1>6, <1>7 DEF DrawnOnItsLine

(* Whatever stops, shapes and times a feed has, a vehicle on the map is of a    *)
(* selected line, on a hop of its timetable, at its stops at the very second,   *)
(* and on the ride, the line and the shape the same service draws.              *)
THEOREM KeepToTheTimetable == ViewSpec => []VehiclesKeepToTheTimetable
<1>1. ViewInv => VehiclesKeepToTheTimetable
  BY InvKeepsTime, InvOnTheRide, InvOnItsLine DEF VehiclesKeepToTheTimetable
<1>. QED
  BY <1>1, ViewInvariance, PTL

-------------------------------------------------------------------------------
(* More of the time gone, no less of the way.                                   *)
LEMMA FurtherOnShape ==
    ASSUME NEW a \in Int, NEW b \in Int, a <= b, NEW g \in Nat, NEW h \in Nat, g <= h, NEW denom \in Nat
    PROVE  ShapeDistance(a, b, g, denom) <= ShapeDistance(a, b, h, denom)
<1>1. PICK c \in Nat : c = b - a
  OBVIOUS
<1>2. g * c <= h * c
  BY ScaleOrder
<1>3. PICK x \in Int, y \in Int, z \in Int : x = a * denom /\ y = g * c /\ z = h * c
  BY ScaleInt
<1>4. c * g = y /\ c * h = z
  BY <1>3
<1>5. ShapeDistance(a, b, g, denom) = x + y /\ ShapeDistance(a, b, h, denom) = x + z
  BY <1>1, <1>3, <1>4 DEF ShapeDistance
<1>. QED
  BY <1>2, <1>3, <1>5

LEMMA FurtherStraight ==
    ASSUME NEW from \in Int, NEW to \in Int, NEW g \in Nat, NEW h \in Nat, g <= h, NEW denom \in Nat
    PROVE  Dist(from * denom + (to - from) * g, from * denom) <= Dist(from * denom + (to - from) * h, from * denom)
<1>1. PICK x \in Int, y \in Int, z \in Int :
         x = from * denom /\ y = (to - from) * g /\ z = (to - from) * h
  BY ScaleInt
<1>2. (0 <= y /\ y <= z) \/ (y <= 0 /\ z <= y)
  <2>1. ASSUME NEW c \in Nat PROVE 0 <= c * g /\ c * g <= c * h
    <3>1. 0 * c <= g * c /\ g * c <= h * c
      BY ScaleOrder
    <3>2. 0 * c = 0 /\ g * c = c * g /\ h * c = c * h
      OBVIOUS
    <3>. QED
      BY <3>1, <3>2
  <2>2. CASE from <= to
    <3>1. to - from \in Nat
      BY <2>2
    <3>. QED
      BY <3>1, <2>1, <1>1
  <2>3. CASE to < from
    <3>1. from - to \in Nat
      BY <2>3
    <3>2. 0 <= (from - to) * g /\ (from - to) * g <= (from - to) * h
      BY <3>1, <2>1
    <3>3. (from - to) * g = -y /\ (from - to) * h = -z
      BY <1>1
    <3>. QED
      BY <3>2, <3>3
  <2>. QED
    BY <2>2, <2>3
<1>3. Dist(x + y, x) <= Dist(x + z, x)
  BY <1>2 DEF Dist
<1>. QED
  BY <1>1, <1>3

(* How far a vehicle is on its hop.                                             *)
WayBehind(v, points, from, to, gone) ==
    IF v.on_shape
    THEN ShapeDistance(Cumulative(points)[NearestIndex(points, from)],
                       Cumulative(points)[NearestIndex(points, to)], gone, v.denom)
    ELSE Dist(from * v.denom + (to - from) * gone, from * v.denom)

LEMMA WayIsTravelled ==
    ASSUME NEW v, NEW points, NEW from, NEW to, NEW gone, Positioned(v, points, from, to, gone),
           from = Place(v.connection.dep_stop_id)
    PROVE  WayBehind(v, points, from, to, gone) \in Travelled(points, v)
<1>1. CASE ~v.on_shape
  BY <1>1 DEF Positioned, WayBehind, Travelled
<1>2. CASE v.on_shape
  <2>1. PICK i, j : i = NearestIndex(points, from) /\ j = NearestIndex(points, to)
    OBVIOUS
  <2>2. PICK C, P, d :
           /\ ScaledTo(points, v.denom, C, P) /\ v.at = Along(points, d, v.denom)
           /\ d = ShapeDistance(Cumulative(points)[i], Cumulative(points)[j], gone, v.denom)
           /\ OnTheShape(points, i, j, C, P, d, gone, v.denom)
    BY <1>2, <2>1, OnShape
  <2>3. points \in Seq(Int) /\ v.denom \in Nat \ {0}
    BY DEF Positioned
  <2>4. Len(points) \in Nat /\ i \in 1 .. Len(points) /\ j \in 1 .. Len(points)
    BY <2>2, <2>3, LenProperties DEF OnTheShape
  <2>5. Len(points) >= 1 /\ 1 \in 1 .. Len(points) /\ Len(points) \in 1 .. Len(points)
    BY <2>4
  <2>6. Runs(points, C, P)
    BY <2>2, <2>3, <2>5, ScaledFacts
  <2>7. 0 <= C[i] /\ C[j] <= C[Len(points)] /\ C[i] \in Nat /\ C[j] \in Nat /\ C[Len(points)] \in Nat
    <3>1. (\A k \in 1 .. Len(points) : C[k] \in Nat)
          /\ \A k, l \in 1 .. Len(points) : k <= l => C[k] <= C[l]
      BY <2>6 DEF Runs
    <3>2. C[i] \in Nat /\ C[j] \in Nat /\ C[Len(points)] \in Nat /\ j <= Len(points)
      BY <3>1, <2>4, <2>5
    <3>3. C[j] <= C[Len(points)]
      BY <3>1, <3>2, <2>4, <2>5
    <3>. QED
      BY <3>2, <3>3
  <2>8. C[Len(points)] = Cumulative(points)[Len(points)] * v.denom
    BY <2>2, <2>5 DEF ScaledTo
  <2>9. d \in Int /\ C[i] <= d /\ d <= C[j]
    BY <2>2 DEF OnTheShape
  <2>10. d \in 0 .. C[Len(points)]
    BY <2>7, <2>9
  <2>11. d \in Travelled(points, v)
    BY <1>2, <2>2, <2>8, <2>10 DEF Travelled
  <2>. QED
    BY <1>2, <2>1, <2>2, <2>11 DEF WayBehind
<1>. QED
  BY <1>1, <1>2

LEMMA WayGrows ==
    ASSUME NEW v, NEW w, NEW points, NEW from, NEW to, NEW g, NEW h,
           Positioned(v, points, from, to, g), Positioned(w, points, from, to, h),
           v.denom = w.denom, g <= h
    PROVE  WayBehind(v, points, from, to, g) <= WayBehind(w, points, from, to, h)
<1>1. /\ points \in Seq(Int) /\ from \in Int /\ to \in Int /\ g \in Nat /\ h \in Nat
      /\ v.on_shape <=> Follows(points, from, to)
      /\ w.on_shape <=> Follows(points, from, to)
  BY DEF Positioned
<1>2. PICK denom \in Nat : denom = v.denom /\ denom = w.denom
  BY DEF Positioned
<1>3. CASE Follows(points, from, to)
  <2>1. PICK i, j : i = NearestIndex(points, from) /\ j = NearestIndex(points, to)
    OBVIOUS
  <2>2. Len(points) \in Nat /\ Len(points) >= 1
    BY <1>1, <1>3, LenProperties DEF Follows
  <2>3. i \in 1 .. Len(points) /\ j \in 1 .. Len(points)
    BY <1>1, <2>1, <2>2, NearestFacts
  <2>4. i <= j
    BY <1>3, <2>1, <2>3 DEF Follows
  <2>5. PICK cum : cum = Cumulative(points)
    OBVIOUS
  <2>6. AddsUp(points, cum)
    BY <1>1, <2>2, <2>5, CumulativeFacts
  <2>7. cum[i] <= cum[j]
    BY <1>1, <2>3, <2>4, <2>6, CumulativeGrows
  <2>8. cum[i] \in Int /\ cum[j] \in Int
    BY <2>3, <2>6 DEF AddsUp
  <2>9. ShapeDistance(cum[i], cum[j], g, denom) <= ShapeDistance(cum[i], cum[j], h, denom)
    BY <1>1, <1>2, <2>7, <2>8, FurtherOnShape
  <2>. QED
    BY <1>1, <1>2, <1>3, <2>1, <2>5, <2>9 DEF WayBehind
<1>4. CASE ~Follows(points, from, to)
  BY <1>1, <1>2, <1>4, FurtherStraight DEF WayBehind
<1>. QED
  BY <1>3, <1>4

-------------------------------------------------------------------------------
(* On one hop the later vehicle is not behind.                                  *)
LEMMA SameHop ==
    ASSUME FeedInv, phase = "loaded", files \in Feeds, NEW t, NEW i \in Rows(t), NEW j \in Rows(t),
           FollowedBy(i, j), NEW v, NEW w, NEW then \in Int, NEW time \in Int, then <= time,
           Timed(v, t, i, j, then), Timed(w, t, i, j, time)
    PROVE  NotBehind(t, v, w)
<1>1. PICK points : points = ShapePoints(ShapeOf(t))
  OBVIOUS
<1>2. PICK from, to : from = Place(StopTime(i).stop_id) /\ to = Place(StopTime(j).stop_id)
  OBVIOUS
<1>3. PICK dep \in Nat : dep = StopTime(i).departure_time
  BY TripRows
<1>4. PICK g \in Int, h \in Int : g = then - dep /\ h = time - dep /\ g <= h
  OBVIOUS
<1>5. Positioned(v, points, from, to, g) /\ Positioned(w, points, from, to, h) /\ v.denom = w.denom
  BY <1>1, <1>2, <1>3, <1>4 DEF Timed
<1>6. v.connection = Connection(t, i, j) /\ w.connection = Connection(t, i, j)
  BY DEF Timed
<1>7. from = Place(v.connection.dep_stop_id) /\ from = Place(w.connection.dep_stop_id)
  BY <1>2, <1>6 DEF Connection
<1>8. /\ WayBehind(v, points, from, to, g) \in Travelled(points, v)
      /\ WayBehind(w, points, from, to, h) \in Travelled(points, w)
      /\ WayBehind(v, points, from, to, g) <= WayBehind(w, points, from, to, h)
  BY <1>4, <1>5, <1>7, WayIsTravelled, WayGrows
<1>9. Rank(t, i) \in StopsBehind(t, v) /\ Rank(t, i) \in StopsBehind(t, w)
  <2>1. <<i, j>> \in Hops(t) /\ <<i, j>>[1] = i /\ <<i, j>>[2] = j
    BY DEF Hops
  <2>. QED
    BY <1>6, <2>1 DEF StopsBehind, Rank
<1>. QED
  BY <1>1, <1>8, <1>9 DEF NotBehind

-------------------------------------------------------------------------------
(* From one answer to the next: the hop stays, or a later one takes its place.  *)
LEMMA ListNeverGoesBack ==
    ASSUME ViewInv, ListVehicles, Answered, asked <= asked',
           NEW t \in DOMAIN vehicles, t \in DOMAIN vehicles', TimesAdvance(t)
    PROVE  NotBehind(t, vehicles[t], (vehicles')[t])
<1>1. /\ FeedInv /\ files \in Feeds /\ phase = "loaded" /\ FeedTypeOK
      /\ asked \in Int /\ now \in Int /\ asked <= now
  BY VehiclesByScheduleAssumption DEF ViewInv, FeedInv, ListVehicles, TimeOK
<1>2. PICK m \in 1 .. Len(connections) :
         LastRide(m, t, selection, asked) /\ vehicles[t] = Vehicle(connections[m], asked)
  BY DEF ViewInv, ShowsLastRides
<1>3. PICK lines : vehicles' = Answer(lines, now)
  BY DEF ListVehicles
<1>4. PICK n \in 1 .. Len(connections) :
         LastRide(n, t, lines, now) /\ (vehicles')[t] = Vehicle(connections[n], now)
  <2>1. \A u \in DOMAIN Answer(lines, now) : \E n \in 1 .. Len(connections) :
           LastRide(n, u, lines, now) /\ Answer(lines, now)[u] = Vehicle(connections[n], now)
    BY <1>1, AnswerShows
  <2>. QED
    BY <1>3, <2>1
<1>5. PICK v, w : v = vehicles[t] /\ w = (vehicles')[t]
  OBVIOUS
<1>6. PICK i \in Rows(t), j \in Rows(t) :
         ComesFrom(v, t, selection, asked, i, j) /\ connections[m] = Connection(t, i, j)
  BY <1>1, <1>2, <1>5, VehicleHop
<1>7. PICK k \in Rows(t), l \in Rows(t) :
         ComesFrom(w, t, lines, now, k, l) /\ connections[n] = Connection(t, k, l)
  BY <1>1, <1>4, <1>5, VehicleHop
<1>8. Timed(v, t, i, j, asked) /\ Timed(w, t, k, l, now)
  BY <1>1, <1>6, <1>7, VehicleFields
<1>9. FollowedBy(i, j) /\ FollowedBy(k, l)
  BY <1>6, <1>7 DEF ComesFrom
<1>10. CASE i = k
  <2>1. j = l
    <3>1. Precedes(i, j) /\ Precedes(i, l) /\ j \in 1 .. N /\ l \in 1 .. N
      BY <1>1, <1>9, <1>10, TripRows DEF FollowedBy
    <3>2. ~Precedes(j, l) /\ ~Precedes(l, j)
      BY <3>1, <1>9, <1>10 DEF FollowedBy, N
    <3>. QED
      BY <3>2, <1>1, RowsOrdered
  <2>. QED
    BY <2>1, <1>1, <1>5, <1>8, <1>9, <1>10, SameHop
<1>11. CASE Precedes(i, k)
  <2>1. Rank(t, i) < Rank(t, k)
    BY <1>1, <1>11, RankFacts
  <2>2. Rank(t, i) \in StopsBehind(t, v) /\ Rank(t, k) \in StopsBehind(t, w)
    <3>1. /\ <<i, j>> \in Hops(t) /\ <<i, j>>[1] = i /\ <<i, j>>[2] = j
          /\ <<k, l>> \in Hops(t) /\ <<k, l>>[1] = k /\ <<k, l>>[2] = l
      BY <1>9 DEF Hops
    <3>2. v.connection = Connection(t, i, j) /\ w.connection = Connection(t, k, l)
      BY <1>8 DEF Timed
    <3>. QED
      BY <3>1, <3>2 DEF StopsBehind, Rank
  <2>. QED
    BY <2>1, <2>2, <1>5 DEF NotBehind
<1>12. CASE Precedes(k, i)
  <2>1. l = i \/ Precedes(l, i)
    <3>1. i \in 1 .. N /\ ~Precedes(i, l)
      BY <1>1, <1>9, <1>12, TripRows DEF FollowedBy, N
    <3>. QED
      BY <3>1, <1>1, RowsOrdered
  <2>2. StopTime(l).arrival_time <= StopTime(i).departure_time
    BY <2>1 DEF TimesAdvance
  <2>3. /\ StopTime(i).departure_time <= asked /\ asked <= StopTime(j).arrival_time
        /\ StopTime(k).departure_time <= now /\ now <= StopTime(l).arrival_time
    BY <1>6, <1>7 DEF ComesFrom
  <2>4. asked = now
    <3>1. StopTime(l).arrival_time \in Int /\ StopTime(i).departure_time \in Int
      BY <1>1, TripRows
    <3>. QED
      BY <3>1, <2>2, <2>3, <1>1
  <2>5. Rides(m, t, lines, now) /\ Rides(n, t, selection, asked)
    <3>1. /\ Rides(m, t, selection, asked) /\ Rides(n, t, lines, now)
      BY <1>2, <1>4 DEF LastRide
    <3>. QED
      BY <3>1, <2>4 DEF Rides, UnderWay
  <2>6. m = n
    <3>1. m <= n /\ n <= m
      BY <2>5, <1>2, <1>4 DEF LastRide
    <3>2. m \in Nat /\ n \in Nat
      BY <1>1, SeqFacts DEF FeedTypeOK
    <3>. QED
      BY <3>1, <3>2
  <2>7. w = v
    BY <2>4, <2>6, <1>2, <1>4, <1>5
  <2>. QED
    BY <2>7, <1>1, <1>5, <1>8, <1>9, SameHop
<1>13. i = k \/ Precedes(i, k) \/ Precedes(k, i)
  BY <1>1, RowsOrdered
<1>. QED
  BY <1>10, <1>11, <1>12, <1>13

(* Between two answers of a day no vehicle goes back along its trip, whatever   *)
(* lines were asked for, as long as the times of the trip go forward.           *)
THEOREM NeverGoBack == ViewSpec => VehiclesNeverGoBack
<1>1. ViewInv /\ [ViewNext]_allVars =>
         [asked <= asked' /\ Answered =>
            \A t \in DOMAIN vehicles \cap DOMAIN vehicles' :
               TimesAdvance(t) => NotBehind(t, vehicles[t], vehicles'[t])]_<<asked, vehicles>>
  <2>. SUFFICES ASSUME ViewInv, [ViewNext]_allVars, ~UNCHANGED <<asked, vehicles>>,
                       asked <= asked', Answered, NEW t \in DOMAIN vehicles \cap DOMAIN vehicles',
                       TimesAdvance(t)
                PROVE  NotBehind(t, vehicles[t], vehicles'[t])
    OBVIOUS
  <2>1. ListVehicles
    BY DEF ViewNext, Load, Tick, allVars, viewVars
  <2>. QED
    BY <2>1, ListNeverGoesBack
<1>. QED
  BY <1>1, ViewInvariance, PTL DEF ViewSpec, VehiclesNeverGoBack
================================================================================
