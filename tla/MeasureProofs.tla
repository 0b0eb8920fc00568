----------------------------- MODULE MeasureProofs -----------------------------
(***************************************************************************)
(* Facts about measures, for any durations and any meter: what sequences   *)
(* of events add up to, when their triplets are whole, what merging rests, *)
(* writing a stretch of time and making room keep, and that every balanced *)
(* edit of a voice keeps its measures in time.                             *)
(***************************************************************************)
EXTENDS Scores, SequenceTheorems, WellFoundedInduction, TLAPS

-----------------------------------------------------------------------------
(* Induction *)

\* A set that holds zero and with each number the next one holds them all.
LEMMA NumbersInduction ==
  ASSUME NEW S, 0 \in S, \A n \in Nat : n \in S => n + 1 \in S
  PROVE  Nat \subseteq S
<1> DEFINE T == Nat \ S
<1> DEFINE R == OpToRel(<, Nat)
<1>1. SUFFICES ASSUME T # {} PROVE FALSE
  OBVIOUS
<1>2. T \subseteq Nat
  OBVIOUS
<1>3. IsWellFoundedOn(R, Nat)
  BY NatLessThanWellFounded
<1>4. \A x, y \in Nat : y < x => <<y, x>> \in R
  BY DEF OpToRel
<1> HIDE DEF R
<1>5. PICK x \in T : \A y \in T : ~(<<y, x>> \in R)
  BY <1>1, <1>2, <1>3, WFMin
<1>6. x # 0 /\ x \in Nat
  OBVIOUS
<1>7. x - 1 \in Nat /\ x - 1 < x /\ (x - 1) + 1 = x
  BY <1>6
<1>8. x - 1 \in S
  BY <1>4, <1>5, <1>6, <1>7
<1>9. QED
  BY <1>7, <1>8

\* A set of numbers that is not empty has a smallest one.
LEMMA Smallest ==
  ASSUME NEW S, S \subseteq Nat, S # {}
  PROVE  \E x \in S : \A y \in S : x <= y
<1> DEFINE R == OpToRel(<, Nat)
<1>1. IsWellFoundedOn(R, Nat)
  BY NatLessThanWellFounded
<1>2. \A x, y \in Nat : y < x => <<y, x>> \in R
  BY DEF OpToRel
<1> HIDE DEF R
<1>3. PICK x \in S : \A y \in S : ~(<<y, x>> \in R)
  BY <1>1, WFMin
<1>4. ASSUME NEW y \in S
      PROVE  x <= y
  <2>1. ~(y < x)
    BY <1>2, <1>3
  <2>2. QED
    BY <2>1
<1>5. QED
  BY <1>4

\* What is stepped through n times from a base.
Steps(f, base, step, n) == f[0] = base /\ \A k \in 1 .. n : f[k] = step[<<f[k - 1], k>>]

LEMMA Stepping ==
  ASSUME NEW X, NEW base \in X, NEW n \in Nat, NEW step \in [X \X (1 .. n) -> X]
  PROVE  \E f \in [0 .. n -> X] : Steps(f, base, step, n)
<1> DEFINE S == {m \in Nat : m <= n => \E f \in [0 .. m -> X] : Steps(f, base, step, m)}
<1>1. 0 \in S
  <2>1. [k \in 0 .. 0 |-> base] \in [0 .. 0 -> X] /\ Steps([k \in 0 .. 0 |-> base], base, step, 0)
    BY DEF Steps
  <2>2. QED
    BY <2>1
<1>2. ASSUME NEW m \in Nat, m \in S
      PROVE  m + 1 \in S
  <2>1. SUFFICES ASSUME m + 1 <= n
                 PROVE  \E f \in [0 .. m + 1 -> X] : Steps(f, base, step, m + 1)
    OBVIOUS
  <2>2. m <= n /\ m + 1 \in 1 .. n
    BY <2>1
  <2>3. PICK f \in [0 .. m -> X] : Steps(f, base, step, m)
    BY <1>2, <2>2
  <2> DEFINE g == [k \in 0 .. m + 1 |-> IF k <= m THEN f[k] ELSE step[<<f[m], m + 1>>]]
  <2>4. \A k \in 0 .. m : g[k] = f[k]
    OBVIOUS
  <2>5. g[m + 1] = step[<<f[m], m + 1>>]
    OBVIOUS
  <2>6. f[m] \in X /\ step[<<f[m], m + 1>>] \in X
    BY <2>2
  <2>7. g \in [0 .. m + 1 -> X]
    BY <2>6
  <2> HIDE DEF g
  <2>8. ASSUME NEW k \in 1 .. m + 1
        PROVE  g[k] = step[<<g[k - 1], k>>]
    <3>1. CASE k = m + 1
      <4>1. k - 1 = m /\ m \in 0 .. m
        BY <3>1
      <4>2. QED
        BY <2>4, <2>5, <3>1, <4>1
    <3>2. CASE k # m + 1
      <4>1. k \in 1 .. m /\ k \in 0 .. m /\ k - 1 \in 0 .. m
        BY <3>2
      <4>2. QED
        BY <2>3, <2>4, <4>1 DEF Steps
    <3>3. QED
      BY <3>1, <3>2
  <2>9. g[0] = base
    BY <2>3, <2>4 DEF Steps
  <2>10. QED
    BY <2>7, <2>8, <2>9 DEF Steps
<1> HIDE DEF S
<1>3. n \in S
  BY <1>1, <1>2, NumbersInduction
<1>4. QED
  BY <1>3 DEF S

-----------------------------------------------------------------------------
(* Sums *)

\* up adds the first n of the numbers one by one.
Adds(up, a, n) == up[0] = 0 /\ \A k \in 1 .. n : up[k] = up[k - 1] + a[k]

LEMMA TotalAdds ==
  ASSUME NEW n \in Nat, NEW a \in [1 .. n -> Nat]
  PROVE  \E up \in [0 .. n -> Nat] : Adds(up, a, n) /\ Total(a) = up[n]
<1> DEFINE step == [x \in Nat \X (1 .. n) |-> x[1] + a[x[2]]]
<1>1. step \in [Nat \X (1 .. n) -> Nat]
  OBVIOUS
<1>2. \A s \in Nat, k \in 1 .. n : step[<<s, k>>] = s + a[k]
  OBVIOUS
<1> HIDE DEF step
<1>3. PICK f \in [0 .. n -> Nat] : Steps(f, 0, step, n)
  BY <1>1, Stepping
<1>4. f[0] = 0 /\ \A k \in 1 .. n : f[k] = f[k - 1] + a[k]
  <2>1. \A k \in 1 .. n : k - 1 \in 0 .. n
    OBVIOUS
  <2>2. QED
    BY <1>2, <1>3, <2>1 DEF Steps
<1>5. Len(a) = n
  OBVIOUS
<1> DEFINE F(h) == [k \in 0 .. n |-> IF k = 0 THEN 0 ELSE h[k - 1] + a[k]]
           up == CHOOSE h : h = F(h)
<1>6. f = F(f)
  <2>1. \A k \in 0 .. n : f[k] = IF k = 0 THEN 0 ELSE f[k - 1] + a[k]
    BY <1>4
  <2>2. QED
    BY <2>1
<1>7. up = F(up)
  BY <1>6
<1>8. Total(a) = up[n]
  BY <1>5 DEF Total
<1> HIDE DEF up
<1>9. \A k \in 0 .. n : up[k] = IF k = 0 THEN 0 ELSE up[k - 1] + a[k]
  BY <1>7
<1>10. Adds(up, a, n)
  BY <1>9 DEF Adds
<1>11. \A k \in 0 .. n : up[k] = f[k]
  <2> DEFINE S == {k \in Nat : k <= n => up[k] = f[k]}
  <2>1. 0 \in S
    BY <1>4, <1>9
  <2>2. ASSUME NEW k \in Nat, k \in S
        PROVE  k + 1 \in S
    <3>1. k + 1 <= n => k + 1 \in 1 .. n /\ k <= n /\ (k + 1) - 1 = k
      OBVIOUS
    <3>2. QED
      BY <1>4, <1>10, <2>2, <3>1 DEF Adds
  <2> HIDE DEF S
  <2>3. Nat \subseteq S
    BY <2>1, <2>2, NumbersInduction
  <2>4. QED
    BY <2>3 DEF S
<1>12. up \in [0 .. n -> Nat]
  <2>1. DOMAIN up = 0 .. n /\ up = [k \in 0 .. n |-> up[k]]
    BY <1>7
  <2>2. QED
    BY <1>11, <2>1
<1>13. QED
  BY <1>8, <1>10, <1>12

LEMMA AddsOnce ==
  ASSUME NEW n \in Nat, NEW a \in [1 .. n -> Nat], NEW f, NEW g, Adds(f, a, n), Adds(g, a, n)
  PROVE  f[n] = g[n]
<1> DEFINE S == {k \in Nat : k <= n => f[k] = g[k]}
<1>1. 0 \in S
  BY DEF Adds
<1>2. ASSUME NEW k \in Nat, k \in S
      PROVE  k + 1 \in S
  <2>1. k + 1 <= n => k + 1 \in 1 .. n /\ k <= n /\ (k + 1) - 1 = k
    OBVIOUS
  <2>2. QED
    BY <1>2, <2>1 DEF Adds
<1> HIDE DEF S
<1>3. n \in S
  BY <1>1, <1>2, NumbersInduction
<1>4. QED
  BY <1>3 DEF S

\* A total is what the numbers add up to, one by one.
LEMMA TotalIs ==
  ASSUME NEW n \in Nat, NEW a \in [1 .. n -> Nat], NEW f, Adds(f, a, n)
  PROVE  Total(a) = f[n] /\ Total(a) \in Nat
BY TotalAdds, AddsOnce

LEMMA TotalEmpty == Total(<<>>) = 0
<1> DEFINE a == <<>>
           f == [k \in 0 .. 0 |-> 0]
<1>1. a \in [1 .. 0 -> Nat] /\ f[0] = 0 /\ Adds(f, a, 0)
  BY DEF Adds
<1>2. QED
  BY <1>1, TotalIs

LEMMA TotalOne ==
  ASSUME NEW x \in Nat
  PROVE  Total(<<x>>) = x
<1> DEFINE a == <<x>>
           f == [k \in 0 .. 1 |-> IF k = 0 THEN 0 ELSE x]
<1>1. a \in [1 .. 1 -> Nat] /\ f[1] = x /\ Adds(f, a, 1)
  BY DEF Adds
<1>2. QED
  BY <1>1, TotalIs

LEMMA TotalConcat ==
  ASSUME NEW a \in Seq(Nat), NEW b \in Seq(Nat)
  PROVE  Total(a \o b) = Total(a) + Total(b)
<1> DEFINE n == Len(a)
           m == Len(b)
           z == a \o b
<1>1. n \in Nat /\ m \in Nat /\ a \in [1 .. n -> Nat] /\ b \in [1 .. m -> Nat]
  BY LenProperties
<1>2. z \in [1 .. n + m -> Nat] /\ \A k \in 1 .. n + m : z[k] = IF k <= n THEN a[k] ELSE b[k - n]
  <2>1. /\ z \in Seq(Nat) /\ Len(z) = n + m
        /\ \A k \in 1 .. n + m : z[k] = IF k <= n THEN a[k] ELSE b[k - n]
    BY ConcatProperties
  <2> HIDE DEF z, n, m
  <2>2. z \in [1 .. Len(z) -> Nat]
    BY <2>1, LenProperties
  <2>3. QED
    BY <2>1, <2>2
<1> HIDE DEF n, m, z
<1>3. PICK f \in [0 .. n -> Nat] : Adds(f, a, n) /\ Total(a) = f[n]
  BY <1>1, TotalAdds
<1>4. PICK g \in [0 .. m -> Nat] : Adds(g, b, m) /\ Total(b) = g[m]
  BY <1>1, TotalAdds
<1> DEFINE h == [k \in 0 .. n + m |-> IF k <= n THEN f[k] ELSE f[n] + g[k - n]]
<1>5. h[0] = 0
  BY <1>1, <1>3 DEF Adds
<1>6. ASSUME NEW k \in 1 .. n + m
      PROVE  h[k] = h[k - 1] + z[k]
  <2>1. CASE k <= n
    <3>1. k \in 1 .. n /\ k - 1 \in 0 .. n /\ k \in 0 .. n + m /\ k - 1 \in 0 .. n + m
      BY <1>1, <2>1
    <3>2. h[k] = f[k] /\ h[k - 1] = f[k - 1]
      BY <3>1, <2>1
    <3> HIDE DEF h
    <3>3. z[k] = a[k] /\ f[k] = f[k - 1] + a[k]
      BY <1>2, <1>3, <2>1, <3>1 DEF Adds
    <3>4. QED
      BY <3>2, <3>3
  <2>2. CASE k > n
    <3>1. k - n \in 1 .. m /\ k - n \in 0 .. m /\ (k - n) - 1 \in 0 .. m
      BY <1>1, <2>2
    <3>2. k \in 0 .. n + m /\ k - 1 \in 0 .. n + m /\ ~(k <= n)
      BY <1>1, <2>2
    <3>3. h[k] = f[n] + g[k - n]
      BY <3>2
    <3>4. h[k - 1] = f[n] + g[(k - n) - 1]
      <4>1. CASE k - 1 = n
        <5>1. (k - n) - 1 = 0 /\ g[0] = 0 /\ f[n] \in Nat
          BY <1>1, <1>4, <4>1 DEF Adds
        <5>2. h[k - 1] = f[n]
          BY <1>1, <3>2, <4>1
        <5> HIDE DEF h
        <5>3. QED
          BY <5>1, <5>2
      <4>2. CASE k - 1 # n
        <5>1. ~(k - 1 <= n) /\ (k - 1) - n = (k - n) - 1
          BY <1>1, <2>2, <4>2
        <5>2. QED
          BY <3>2, <5>1
      <4>3. QED
        BY <4>1, <4>2
    <3> HIDE DEF h
    <3>5. z[k] = b[k - n]
      BY <1>2, <3>2
    <3>6. g[k - n] = g[(k - n) - 1] + b[k - n]
      BY <1>4, <3>1 DEF Adds
    <3>7. f[n] \in Nat /\ g[k - n] \in Nat /\ g[(k - n) - 1] \in Nat /\ b[k - n] \in Nat
      BY <1>1, <3>1
    <3>8. QED
      BY <3>3, <3>4, <3>5, <3>6, <3>7
  <2>3. QED
    BY <1>1, <2>1, <2>2
<1>7. h[n + m] = f[n] + g[m]
  <2>1. CASE m = 0
    <3>1. n + m = n /\ n \in 0 .. n + m /\ g[m] = 0 /\ f[n] \in Nat
      BY <1>1, <1>4, <2>1 DEF Adds
    <3>2. h[n + m] = f[n]
      BY <1>1, <3>1
    <3> HIDE DEF h
    <3>3. QED
      BY <3>1, <3>2
  <2>2. CASE m # 0
    <3>1. n + m \in 0 .. n + m /\ ~(n + m <= n) /\ (n + m) - n = m
      BY <1>1, <2>2
    <3>2. QED
      BY <3>1
  <2>3. QED
    BY <2>1, <2>2
<1> HIDE DEF h
<1>8. Adds(h, z, n + m)
  BY <1>5, <1>6 DEF Adds
<1>9. Total(z) = h[n + m]
  <2>1. n + m \in Nat
    BY <1>1
  <2>2. QED
    BY <1>2, <1>8, <2>1, TotalIs
<1>10. QED
  BY <1>3, <1>4, <1>7, <1>9 DEF z

\* Numbers that are at most c times others add up to at most c times what these do.
LEMMA TotalAtMost ==
  ASSUME NEW n \in Nat, NEW a \in [1 .. n -> Nat], NEW b \in [1 .. n -> Nat],
         \A k \in 1 .. n : a[k] <= 3 * b[k]
  PROVE  Total(a) <= 3 * Total(b)
<1>1. PICK f \in [0 .. n -> Nat] : Adds(f, a, n) /\ Total(a) = f[n]
  BY TotalAdds
<1>2. PICK g \in [0 .. n -> Nat] : Adds(g, b, n) /\ Total(b) = g[n]
  BY TotalAdds
<1> DEFINE S == {k \in Nat : k <= n => f[k] <= 3 * g[k]}
<1>3. 0 \in S
  BY <1>1, <1>2 DEF Adds
<1>4. ASSUME NEW k \in Nat, k \in S
      PROVE  k + 1 \in S
  <2>1. SUFFICES ASSUME k + 1 <= n PROVE f[k + 1] <= 3 * g[k + 1]
    OBVIOUS
  <2>2. k + 1 \in 1 .. n /\ k <= n /\ (k + 1) - 1 = k /\ k \in 0 .. n /\ k + 1 \in 0 .. n
    BY <2>1
  <2>3. f[k + 1] = f[k] + a[k + 1] /\ g[k + 1] = g[k] + b[k + 1]
    BY <1>1, <1>2, <2>2 DEF Adds
  <2>4. f[k] <= 3 * g[k] /\ a[k + 1] <= 3 * b[k + 1]
    BY <1>4, <2>2
  <2>5. /\ f[k] \in Nat /\ g[k] \in Nat /\ a[k + 1] \in Nat /\ b[k + 1] \in Nat
        /\ f[k + 1] \in Nat /\ g[k + 1] \in Nat
    BY <2>2
  <2>6. \A p, q, x, y \in Nat : p <= 3 * q /\ x <= 3 * y => p + x <= 3 * (q + y)
    OBVIOUS
  <2>7. f[k] + a[k + 1] <= 3 * (g[k] + b[k + 1])
    BY <2>4, <2>5, <2>6
  <2>8. QED
    BY <2>3, <2>7
<1> HIDE DEF S
<1>5. n \in S
  BY <1>3, <1>4, NumbersInduction
<1>6. QED
  BY <1>1, <1>2, <1>5 DEF S

LEMMA TotalThrice ==
  ASSUME NEW n \in Nat, NEW a \in [1 .. n -> Nat], NEW b \in [1 .. n -> Nat],
         \A k \in 1 .. n : a[k] = 3 * b[k]
  PROVE  Total(a) = 3 * Total(b)
<1>1. PICK f \in [0 .. n -> Nat] : Adds(f, a, n) /\ Total(a) = f[n]
  BY TotalAdds
<1>2. PICK g \in [0 .. n -> Nat] : Adds(g, b, n) /\ Total(b) = g[n]
  BY TotalAdds
<1> DEFINE S == {k \in Nat : k <= n => f[k] = 3 * g[k]}
<1>3. 0 \in S
  BY <1>1, <1>2 DEF Adds
<1>4. ASSUME NEW k \in Nat, k \in S
      PROVE  k + 1 \in S
  <2>1. SUFFICES ASSUME k + 1 <= n PROVE f[k + 1] = 3 * g[k + 1]
    OBVIOUS
  <2>2. k + 1 \in 1 .. n /\ k <= n /\ (k + 1) - 1 = k /\ k \in 0 .. n /\ k + 1 \in 0 .. n
    BY <2>1
  <2>3. f[k + 1] = f[k] + a[k + 1] /\ g[k + 1] = g[k] + b[k + 1]
    BY <1>1, <1>2, <2>2 DEF Adds
  <2>4. f[k] = 3 * g[k] /\ a[k + 1] = 3 * b[k + 1]
    BY <1>4, <2>2
  <2>5. g[k] \in Nat /\ b[k + 1] \in Nat
    BY <2>2
  <2>6. 3 * g[k] + 3 * b[k + 1] = 3 * (g[k] + b[k + 1])
    BY <2>5
  <2>7. f[k + 1] = 3 * g[k] + 3 * b[k + 1]
    BY <2>3, <2>4
  <2>8. QED
    BY <2>3, <2>6, <2>7
<1> HIDE DEF S
<1>5. n \in S
  BY <1>3, <1>4, NumbersInduction
<1>6. QED
  BY <1>1, <1>2, <1>5 DEF S

\* The order they come in does not matter to numbers that are turned around.
LEMMA TotalReversed ==
  ASSUME NEW n \in Nat, NEW a \in [1 .. n -> Nat], NEW b \in [1 .. n -> Nat],
         \A k \in 1 .. n : b[k] = a[n - k + 1]
  PROVE  Total(b) = Total(a)
<1>1. PICK f \in [0 .. n -> Nat] : Adds(f, a, n) /\ Total(a) = f[n]
  BY TotalAdds
<1>2. PICK g \in [0 .. n -> Nat] : Adds(g, b, n) /\ Total(b) = g[n]
  BY TotalAdds
<1> DEFINE S == {k \in Nat : k <= n => g[k] + f[n - k] = f[n]}
<1>3. 0 \in S
  <2>1. n - 0 = n /\ g[0] = 0 /\ f[n] \in Nat
    BY <1>2 DEF Adds
  <2>2. QED
    BY <2>1
<1>4. ASSUME NEW k \in Nat, k \in S
      PROVE  k + 1 \in S
  <2>1. SUFFICES ASSUME k + 1 <= n PROVE g[k + 1] + f[n - (k + 1)] = f[n]
    OBVIOUS
  <2> DEFINE j == n - k
  <2>2. k + 1 \in 1 .. n /\ k <= n /\ (k + 1) - 1 = k /\ k \in 0 .. n
    BY <2>1
  <2>3. j \in 1 .. n /\ j - 1 = n - (k + 1) /\ j = n - (k + 1) + 1 /\ j \in 0 .. n /\ j - 1 \in 0 .. n
    BY <2>1
  <2>4. g[k] + f[j] = f[n]
    BY <1>4, <2>2
  <2> HIDE DEF j
  <2>5. g[k + 1] = g[k] + b[k + 1] /\ f[j] = f[j - 1] + a[j]
    BY <1>1, <1>2, <2>2, <2>3 DEF Adds
  <2>6. b[k + 1] = a[j]
    BY <2>2, <2>3
  <2>7. g[k] \in Nat /\ f[j] \in Nat /\ f[j - 1] \in Nat /\ a[j] \in Nat /\ f[n] \in Nat
    BY <2>2, <2>3
  <2>9. g[k] + (f[j - 1] + a[j]) = f[n] /\ g[k + 1] = g[k] + a[j]
    BY <2>4, <2>5, <2>6
  <2>10. g[k + 1] + f[j - 1] = f[n]
    <3> DEFINE p == g[k]
               q == f[j - 1]
               w == a[j]
               t == f[n]
               r == g[k + 1]
    <3>1. p \in Nat /\ q \in Nat /\ w \in Nat /\ p + (q + w) = t /\ r = p + w
      BY <2>7, <2>9
    <3> HIDE DEF p, q, w, t, r
    <3>2. r + q = t
      BY <3>1
    <3>3. QED
      BY <3>2 DEF q, r, t
  <2>11. QED
    BY <2>3, <2>10
<1> HIDE DEF S
<1>5. n \in S
  BY <1>3, <1>4, NumbersInduction
<1>6. g[n] + f[n - n] = f[n]
  BY <1>5 DEF S
<1>7. n - n = 0 /\ f[0] = 0 /\ g[n] \in Nat
  BY <1>1 DEF Adds
<1>8. QED
  BY <1>1, <1>2, <1>6, <1>7

-----------------------------------------------------------------------------
(* Sequences of events *)

LEMMA MusicIs ==
  ASSUME NEW x, IsMusic(x)
  PROVE  /\ Len(x) \in Nat /\ DOMAIN x = 1 .. Len(x)
         /\ x \in Seq({x[i] : i \in DOMAIN x})
         /\ \A e \in {x[i] : i \in DOMAIN x} : IsEvent(e)
<1> DEFINE S == {x[i] : i \in DOMAIN x}
<1>1. x \in Seq(S)
  BY DEF IsMusic, IsSequence
<1>2. \A e \in S : IsEvent(e)
  BY DEF IsMusic
<1> HIDE DEF S
<1>3. Len(x) \in Nat /\ DOMAIN x = 1 .. Len(x)
  BY <1>1, LenProperties
<1>4. QED
  BY <1>1, <1>2, <1>3 DEF S

LEMMA MusicOf ==
  ASSUME NEW S, \A e \in S : IsEvent(e), NEW x \in Seq(S)
  PROVE  IsMusic(x)
<1>1. x \in [1 .. Len(x) -> S] /\ Len(x) \in Nat /\ DOMAIN x = 1 .. Len(x)
  BY LenProperties
<1>2. x \in [1 .. Len(x) -> {x[i] : i \in DOMAIN x}]
  BY <1>1
<1>3. x \in Seq({x[i] : i \in DOMAIN x})
  BY <1>1, <1>2, SeqDef
<1>4. QED
  BY <1>1, <1>3 DEF IsMusic, IsSequence

LEMMA MusicTogether ==
  ASSUME NEW x, NEW y, IsMusic(x), IsMusic(y)
  PROVE  \E S : x \in Seq(S) /\ y \in Seq(S) /\ \A e \in S : IsEvent(e)
<1> DEFINE S == {x[i] : i \in DOMAIN x}
           T == {y[i] : i \in DOMAIN y}
<1>1. x \in Seq(S) /\ y \in Seq(T) /\ (\A e \in S : IsEvent(e)) /\ (\A e \in T : IsEvent(e))
  BY MusicIs
<1> HIDE DEF S, T
<1>2. x \in Seq(S \cup T) /\ y \in Seq(S \cup T)
  BY <1>1, SeqMonotonic
<1>3. \A e \in S \cup T : IsEvent(e)
  BY <1>1
<1>4. QED
  BY <1>2, <1>3

LEMMA EventIs ==
  ASSUME NEW e, IsEvent(e)
  PROVE  /\ e.u \in Nat /\ e.u # 0 /\ e.u \in Durations /\ e.rest \in BOOLEAN /\ e.tup \in BOOLEAN
         /\ Sounding(e) \in Nat /\ Sounding(e) <= 3 * e.u
         /\ ~e.tup => Sounding(e) = 3 * e.u
<1>1. e.u \in Nat /\ e.u # 0
  BY MeasuresAssumption DEF IsEvent
<1>2. CASE e.tup
  <2>1. Sounding(e) = 2 * e.u
    BY <1>2 DEF Sounding
  <2>2. QED
    BY <1>1, <1>2, <2>1 DEF IsEvent
<1>3. CASE ~e.tup
  <2>1. Sounding(e) = 3 * e.u
    BY <1>3 DEF Sounding
  <2>2. QED
    BY <1>1, <1>3, <2>1 DEF IsEvent
<1>4. QED
  BY <1>2, <1>3

Weights(x) == [i \in DOMAIN x |-> Sounding(x[i])]
Written32nds(x) == [i \in DOMAIN x |-> x[i].u]

LEMMA WeightsAre ==
  ASSUME NEW x, IsMusic(x)
  PROVE  /\ Weights(x) \in [1 .. Len(x) -> Nat] /\ Written32nds(x) \in [1 .. Len(x) -> Nat]
         /\ Weights(x) \in Seq(Nat) /\ Written32nds(x) \in Seq(Nat)
         /\ Sounds(x) = Total(Weights(x)) /\ Units(x) = Total(Written32nds(x))
         /\ Sounds(x) \in Nat /\ Units(x) \in Nat
<1>1. Len(x) \in Nat /\ DOMAIN x = 1 .. Len(x) /\ \A i \in DOMAIN x : IsEvent(x[i])
  BY MusicIs DEF IsMusic
<1>2. \A i \in DOMAIN x : Sounding(x[i]) \in Nat /\ x[i].u \in Nat
  BY <1>1, EventIs
<1>3. Weights(x) \in [1 .. Len(x) -> Nat] /\ Written32nds(x) \in [1 .. Len(x) -> Nat]
  BY <1>1, <1>2 DEF Weights, Written32nds
<1>4. Weights(x) \in Seq(Nat) /\ Written32nds(x) \in Seq(Nat)
  BY <1>1, <1>3, SeqDef
<1>5. Sounds(x) = Total(Weights(x)) /\ Units(x) = Total(Written32nds(x))
  BY DEF Sounds, Units, Weights, Written32nds
<1>6. Total(Weights(x)) \in Nat /\ Total(Written32nds(x)) \in Nat
  BY <1>1, <1>3, TotalAdds, TotalIs
<1>7. QED
  BY <1>3, <1>4, <1>5, <1>6

\* Plain events sound three thirds of what is written, triplet members less.
Clean(x) == \A i \in DOMAIN x : ~x[i].tup

LEMMA SoundsWritten ==
  ASSUME NEW x, IsMusic(x)
  PROVE  Sounds(x) <= 3 * Units(x) /\ (Clean(x) => Sounds(x) = 3 * Units(x))
<1> DEFINE a == Weights(x)
           b == Written32nds(x)
           n == Len(x)
<1>1. n \in Nat /\ DOMAIN x = 1 .. n /\ \A i \in 1 .. n : IsEvent(x[i])
  BY MusicIs DEF IsMusic
<1>2. \A i \in 1 .. n : a[i] = Sounding(x[i]) /\ b[i] = x[i].u
  BY <1>1 DEF Weights, Written32nds
<1>3. a \in [1 .. n -> Nat] /\ b \in [1 .. n -> Nat] /\ Sounds(x) = Total(a) /\ Units(x) = Total(b)
  BY WeightsAre
<1> HIDE DEF a, b, n
<1>4. \A i \in 1 .. n : a[i] <= 3 * b[i]
  BY <1>1, <1>2, EventIs
<1>5. ASSUME Clean(x)
      PROVE  \A i \in 1 .. n : a[i] = 3 * b[i]
  BY <1>1, <1>2, <1>5, EventIs DEF Clean
<1>6. Total(a) <= 3 * Total(b)
  BY <1>1, <1>3, <1>4, TotalAtMost
<1>7. Clean(x) => Total(a) = 3 * Total(b)
  BY <1>1, <1>3, <1>5, TotalThrice
<1>8. QED
  BY <1>3, <1>6, <1>7

LEMMA EmptyMusic == IsMusic(<<>>) /\ Sounds(<<>>) = 0 /\ Units(<<>>) = 0 /\ Clean(<<>>)
<1>1. IsMusic(<<>>)
  <2>1. <<>> \in Seq({})
    BY EmptySeq
  <2>2. QED
    BY <2>1, MusicOf
<1>2. Weights(<<>>) = <<>> /\ Written32nds(<<>>) = <<>>
  BY DEF Weights, Written32nds
<1>3. Clean(<<>>)
  BY DEF Clean
<1>4. QED
  BY <1>1, <1>2, <1>3, WeightsAre, TotalEmpty

LEMMA OneEvent ==
  ASSUME NEW e, IsEvent(e)
  PROVE  /\ IsMusic(<<e>>) /\ Sounds(<<e>>) = Sounding(e) /\ Units(<<e>>) = e.u
         /\ (Clean(<<e>>) <=> ~e.tup)
<1> DEFINE x == <<e>>
<1>1. IsMusic(x)
  <2>1. x \in Seq({e})
    OBVIOUS
  <2>2. QED
    BY <2>1, MusicOf
<1>2. Weights(x) = <<Sounding(e)>> /\ Written32nds(x) = <<e.u>>
  BY DEF Weights, Written32nds
<1>3. Sounding(e) \in Nat /\ e.u \in Nat
  BY EventIs
<1>4. Total(<<Sounding(e)>>) = Sounding(e) /\ Total(<<e.u>>) = e.u
  BY <1>3, TotalOne
<1>5. Clean(x) <=> ~e.tup
  BY DEF Clean
<1>6. QED
  BY <1>1, <1>2, <1>4, <1>5, WeightsAre

\* One sequence of events after the other.
IsJoined(x, y, z) ==
  /\ IsMusic(z) /\ Len(z) = Len(x) + Len(y)
  /\ \A i \in 1 .. Len(x) + Len(y) : z[i] = IF i <= Len(x) THEN x[i] ELSE y[i - Len(x)]
  /\ Sounds(z) = Sounds(x) + Sounds(y)
  /\ Clean(z) <=> Clean(x) /\ Clean(y)

LEMMA Joining ==
  ASSUME NEW x, NEW y, IsMusic(x), IsMusic(y), NEW z, z = x \o y
  PROVE  IsJoined(x, y, z)
<1>1. PICK S : x \in Seq(S) /\ y \in Seq(S) /\ \A e \in S : IsEvent(e)
  BY MusicTogether
<1> DEFINE n == Len(x)
           m == Len(y)
<1>2. /\ z \in Seq(S) /\ Len(z) = n + m
      /\ \A i \in 1 .. n + m : z[i] = IF i <= n THEN x[i] ELSE y[i - n]
  BY <1>1, ConcatProperties
<1>3. n \in Nat /\ m \in Nat /\ DOMAIN x = 1 .. n /\ DOMAIN y = 1 .. m
  BY MusicIs
<1>4. IsMusic(z)
  BY <1>1, <1>2, MusicOf
<1>5. DOMAIN z = 1 .. n + m
  BY <1>2, <1>4, MusicIs
<1> HIDE DEF n, m
<1>6. \A i \in 1 .. n + m : (i <= n => i \in 1 .. n) /\ (~(i <= n) => i - n \in 1 .. m)
  BY <1>3
<1>7. Weights(z) = Weights(x) \o Weights(y)
  <2> DEFINE a == Weights(x)
             b == Weights(y)
             c == Weights(z)
  <2>1. /\ a \in Seq(Nat) /\ b \in Seq(Nat) /\ c \in Seq(Nat)
        /\ Len(a) = n /\ Len(b) = m /\ Len(c) = n + m
    <3>1. a \in Seq(Nat) /\ b \in Seq(Nat) /\ c \in Seq(Nat)
      BY <1>4, WeightsAre
    <3>2. DOMAIN a = 1 .. n /\ DOMAIN b = 1 .. m /\ DOMAIN c = 1 .. n + m
      BY <1>3, <1>5 DEF Weights
    <3> HIDE DEF a, b, c
    <3>3. n + m \in Nat
      BY <1>3
    <3>4. QED
      BY <1>3, <3>1, <3>2, <3>3
  <2>2. /\ a \o b \in Seq(Nat) /\ Len(a \o b) = n + m
        /\ \A i \in 1 .. n + m : (a \o b)[i] = IF i <= n THEN a[i] ELSE b[i - n]
    <3> HIDE DEF a, b, c
    <3>1. QED
      BY <2>1, ConcatProperties
  <2>3. \A i \in 1 .. n : a[i] = Sounding(x[i])
    BY <1>3 DEF Weights
  <2>4. \A i \in 1 .. m : b[i] = Sounding(y[i])
    BY <1>3 DEF Weights
  <2>5. \A i \in 1 .. n + m : c[i] = Sounding(z[i])
    BY <1>5 DEF Weights
  <2> HIDE DEF a, b, c
  <2>6. \A i \in 1 .. n + m : c[i] = (a \o b)[i]
    BY <1>2, <1>6, <2>2, <2>3, <2>4, <2>5 DEF n, m
  <2>7. c = a \o b
    BY <2>1, <2>2, <2>6, SeqEqual
  <2>8. QED
    BY <2>7 DEF a, b, c
<1>8. Sounds(z) = Sounds(x) + Sounds(y)
  <2>1. Weights(x) \in Seq(Nat) /\ Weights(y) \in Seq(Nat)
    BY WeightsAre
  <2>2. Total(Weights(x) \o Weights(y)) = Total(Weights(x)) + Total(Weights(y))
    BY <2>1, TotalConcat
  <2>3. Sounds(x) = Total(Weights(x)) /\ Sounds(y) = Total(Weights(y)) /\ Sounds(z) = Total(Weights(z))
    BY <1>4, WeightsAre
  <2>4. QED
    BY <1>7, <2>2, <2>3
<1>9. Clean(z) <=> Clean(x) /\ Clean(y)
  <2>1. ASSUME Clean(x), Clean(y)
        PROVE  Clean(z)
    BY <1>2, <1>3, <1>5, <1>6, <2>1 DEF Clean, n, m
  <2>2. ASSUME Clean(z)
        PROVE  Clean(x) /\ Clean(y)
    <3>1. \A i \in 1 .. n : i \in 1 .. n + m /\ i <= n
      BY <1>3
    <3>2. \A i \in 1 .. m : i + n \in 1 .. n + m /\ ~(i + n <= n) /\ (i + n) - n = i
      BY <1>3
    <3>3. \A i \in 1 .. n : ~x[i].tup
      BY <1>2, <1>5, <2>2, <3>1 DEF Clean, n, m
    <3>4. \A i \in 1 .. m : ~y[i].tup
      BY <1>2, <1>5, <2>2, <3>2 DEF Clean, n, m
    <3>5. QED
      BY <1>3, <3>3, <3>4 DEF Clean
  <2>3. QED
    BY <2>1, <2>2
<1>10. QED
  BY <1>2, <1>4, <1>8, <1>9 DEF IsJoined, n, m

\* The events of x from the a-th to the b-th.
IsStretch(x, a, b, w) ==
  /\ IsMusic(w) /\ Len(w) = b - a + 1
  /\ \A i \in 1 .. b - a + 1 : w[i] = x[a + i - 1]
  /\ Clean(x) => Clean(w)

LEMMA Stretching ==
  ASSUME NEW x, IsMusic(x), NEW a \in Nat, NEW b \in Nat, a # 0, a <= b + 1, b <= Len(x),
         NEW w, w = SubSeq(x, a, b)
  PROVE  IsStretch(x, a, b, w)
<1> DEFINE S == {x[i] : i \in DOMAIN x}
           n == Len(x)
<1>1. n \in Nat /\ DOMAIN x = 1 .. n /\ \A e \in S : IsEvent(e)
  BY MusicIs
<1>2. b <= n
  OBVIOUS
<1> HIDE DEF n
<1>3. \A i \in a .. b : i \in 1 .. n
  BY <1>1, <1>2
<1>4. \A i \in a .. b : x[i] \in S
  BY <1>1, <1>3
<1> HIDE DEF S
<1>5. /\ w \in Seq(S) /\ Len(w) = (IF a <= b THEN b - a + 1 ELSE 0)
      /\ \A i \in 1 .. b - a + 1 : w[i] = x[a + i - 1]
  BY <1>4, SubSeqProperties
<1>6. Len(w) = b - a + 1
  <2>1. ~(a <= b) => b - a + 1 = 0
    OBVIOUS
  <2>2. QED
    BY <1>5, <2>1
<1>7. IsMusic(w)
  BY <1>1, <1>5, MusicOf
<1>8. DOMAIN w = 1 .. b - a + 1
  BY <1>6, <1>7, MusicIs
<1>9. ASSUME Clean(x), NEW i \in DOMAIN w
      PROVE  ~w[i].tup
  <2>1. i \in 1 .. b - a + 1
    BY <1>8
  <2>2. a + i - 1 \in 1 .. n
    BY <1>1, <1>2, <2>1
  <2>3. QED
    BY <1>1, <1>5, <1>9, <2>1, <2>2 DEF Clean
<1>10. QED
  BY <1>5, <1>6, <1>7, <1>9 DEF IsStretch, Clean

Opening(x, k) == SubSeq(x, 1, k)
Ending(x, k) == SubSeq(x, k + 1, Len(x))

\* A sequence of events cut after the k-th.
IsCut(x, k, f, r) ==
  /\ IsMusic(f) /\ Len(f) = k /\ \A i \in 1 .. k : f[i] = x[i]
  /\ IsMusic(r) /\ Len(r) = Len(x) - k /\ \A i \in 1 .. Len(x) - k : r[i] = x[i + k]
  /\ x = f \o r /\ Sounds(x) = Sounds(f) + Sounds(r)
  /\ Clean(x) <=> Clean(f) /\ Clean(r)

LEMMA Cutting ==
  ASSUME NEW x, IsMusic(x), NEW k \in Nat, k <= Len(x), NEW f, NEW r, f = Opening(x, k), r = Ending(x, k)
  PROVE  IsCut(x, k, f, r)
<1> DEFINE n == Len(x)
<1>1. n \in Nat /\ k <= n
  BY MusicIs
<1>2. k + 1 \in Nat /\ 1 <= k + 1 /\ k + 1 # 0 /\ k + 1 <= n + 1 /\ n <= n /\ 1 \in Nat /\ 1 # 0
  BY <1>1
<1>3. IsStretch(x, 1, k, f)
  BY <1>2, Stretching DEF Opening
<1>4. IsStretch(x, k + 1, n, r)
  <2> HIDE DEF n
  <2>1. n <= Len(x) /\ r = SubSeq(x, k + 1, n)
    BY <1>2 DEF n, Ending
  <2>2. QED
    BY <1>1, <1>2, <2>1, Stretching
<1>5. /\ IsMusic(f) /\ IsMusic(r) /\ Len(f) = k - 1 + 1 /\ Len(r) = n - (k + 1) + 1
      /\ \A i \in 1 .. k - 1 + 1 : f[i] = x[1 + i - 1]
      /\ \A i \in 1 .. n - (k + 1) + 1 : r[i] = x[(k + 1) + i - 1]
  BY <1>3, <1>4 DEF IsStretch
<1> HIDE DEF n
<1>6. Len(f) = k /\ \A i \in 1 .. k : f[i] = x[i]
  <2>1. \A i \in 1 .. k : i \in 1 .. k - 1 + 1 /\ 1 + i - 1 = i
    OBVIOUS
  <2>2. QED
    BY <1>5, <2>1
<1>7. Len(r) = n - k /\ \A i \in 1 .. n - k : r[i] = x[i + k]
  <2>1. \A i \in 1 .. n - k : i \in 1 .. n - (k + 1) + 1 /\ (k + 1) + i - 1 = i + k
    BY <1>1
  <2>2. n - (k + 1) + 1 = n - k
    BY <1>1
  <2>3. QED
    BY <1>5, <2>1, <2>2
<1>8. x = f \o r
  <2> DEFINE S == {x[i] : i \in DOMAIN x}
  <2>1. x \in Seq(S)
    BY MusicIs
  <2> HIDE DEF S
  <2>2. 1 \in 1 .. n + 1 /\ k \in 1 - 1 .. n /\ n \in k .. n
    BY <1>1
  <2>3. SubSeq(x, 1, k) \o SubSeq(x, k + 1, n) = SubSeq(x, 1, n)
    BY <2>1, <2>2, ConcatAdjacentSubSeq DEF n
  <2>4. SubSeq(x, 1, n) = x
    BY <2>1, SubSeqFull DEF n
  <2>5. QED
    BY <2>3, <2>4 DEF Opening, Ending, n
<1>9. IsJoined(f, r, x)
  BY <1>5, <1>8, Joining
<1>10. QED
  BY <1>5, <1>6, <1>7, <1>8, <1>9 DEF IsCut, IsJoined, n

\* A sequence of events from back to front.
IsTurned(x, w) ==
  /\ IsMusic(w) /\ Len(w) = Len(x) /\ \A i \in 1 .. Len(x) : w[i] = x[Len(x) - i + 1]
  /\ Sounds(w) = Sounds(x) /\ (Clean(w) <=> Clean(x))

LEMMA Turning ==
  ASSUME NEW x, IsMusic(x), NEW w, w = Reverse(x)
  PROVE  IsTurned(x, w)
<1> DEFINE S == {x[i] : i \in DOMAIN x}
           n == Len(x)
<1>1. n \in Nat /\ DOMAIN x = 1 .. n /\ x \in Seq(S) /\ \A e \in S : IsEvent(e)
  BY MusicIs
<1>2. \A i \in 1 .. n : x[i] \in S
  BY <1>1
<1>3. w = [i \in 1 .. n |-> x[(n - i) + 1]]
  BY DEF Reverse
<1> HIDE DEF S, n
<1>4. \A i \in 1 .. n : (n - i) + 1 \in 1 .. n
  BY <1>1
<1>5. w \in [1 .. n -> S]
  BY <1>2, <1>3, <1>4
<1>6. w \in Seq(S) /\ Len(w) = n /\ DOMAIN w = 1 .. n
  <2>1. w \in Seq(S)
    BY <1>1, <1>5, SeqDef
  <2>2. QED
    BY <1>1, <1>5, <2>1
<1>7. IsMusic(w)
  BY <1>1, <1>6, MusicOf
<1>8. \A i \in 1 .. n : w[i] = x[n - i + 1]
  BY <1>3
<1>9. Total(Weights(w)) = Total(Weights(x))
  <2> DEFINE a == Weights(x)
             b == Weights(w)
  <2>1. a \in [1 .. n -> Nat] /\ b \in [1 .. n -> Nat]
    BY <1>6, <1>7, WeightsAre DEF n
  <2>2. \A i \in 1 .. n : a[i] = Sounding(x[i]) /\ b[i] = Sounding(w[i])
    BY <1>1, <1>6 DEF Weights
  <2> HIDE DEF a, b
  <2>3. \A i \in 1 .. n : b[i] = a[n - i + 1]
    BY <1>4, <1>8, <2>2
  <2>4. Total(b) = Total(a)
    BY <1>1, <2>1, <2>3, TotalReversed
  <2>5. QED
    BY <2>4 DEF a, b
<1>10. Sounds(w) = Sounds(x)
  BY <1>7, <1>9, WeightsAre
<1>11. Clean(w) <=> Clean(x)
  <2>1. ASSUME Clean(x)
        PROVE  Clean(w)
    BY <1>1, <1>4, <1>6, <1>8, <2>1 DEF Clean
  <2>2. ASSUME Clean(w), NEW i \in 1 .. n
        PROVE  ~x[i].tup
    <3>1. (n - i) + 1 \in 1 .. n /\ n - ((n - i) + 1) + 1 = i
      BY <1>1
    <3>2. w[(n - i) + 1] = x[i]
      BY <1>8, <3>1
    <3>3. QED
      BY <1>6, <2>2, <3>1, <3>2 DEF Clean
  <2>3. QED
    BY <1>1, <2>1, <2>2 DEF Clean
<1>12. QED
  BY <1>6, <1>7, <1>8, <1>10, <1>11 DEF IsTurned, n

-----------------------------------------------------------------------------
(* Triplets in threes *)

\* An event takes the members of an unfinished triplet from o to p.
Third(e, o, p) == IF e.tup THEN p = (IF o = 2 THEN 0 ELSE o + 1) ELSE o = 0 /\ p = 0

\* c counts the members of the triplet that is open after each event of x.
Counts(c, x) ==
  /\ c \in [0 .. Len(x) -> 0 .. 2]
  /\ \A i \in 1 .. Len(x) : Third(x[i], c[i - 1], c[i])

\* x takes an open triplet from o to p members.
Threes(x, o, p) == \E c : Counts(c, x) /\ c[0] = o /\ c[Len(x)] = p

LEMMA ThreesEmpty ==
  ASSUME NEW o \in 0 .. 2
  PROVE  Threes(<<>>, o, o)
<1> DEFINE c == [i \in 0 .. 0 |-> o]
<1>1. Counts(c, <<>>) /\ c[0] = o
  BY DEF Counts
<1>2. Len(<<>>) = 0
  OBVIOUS
<1> HIDE DEF c
<1>3. QED
  BY <1>1, <1>2 DEF Threes

LEMMA ThreesOne ==
  ASSUME NEW e, NEW o \in 0 .. 2, NEW p \in 0 .. 2, Third(e, o, p)
  PROVE  Threes(<<e>>, o, p)
<1> DEFINE c == [i \in 0 .. 1 |-> IF i = 0 THEN o ELSE p]
           x == <<e>>
<1>1. Len(x) = 1 /\ x[1] = e
  OBVIOUS
<1>2. c \in [0 .. 1 -> 0 .. 2] /\ c[0] = o /\ c[1] = p
  OBVIOUS
<1> HIDE DEF c, x
<1>3. \A i \in 1 .. 1 : i = 1 /\ i - 1 = 0
  OBVIOUS
<1>4. Counts(c, x)
  BY <1>1, <1>2, <1>3 DEF Counts
<1>5. QED
  BY <1>1, <1>2, <1>4 DEF Threes, x

LEMMA ThreesJoined ==
  ASSUME NEW x, NEW y, NEW z, IsMusic(x), IsMusic(y), IsJoined(x, y, z),
         NEW o, NEW p, NEW q, Threes(x, o, p), Threes(y, p, q)
  PROVE  Threes(z, o, q)
<1> DEFINE n == Len(x)
           m == Len(y)
<1>1. n \in Nat /\ m \in Nat
  BY MusicIs
<1>2. PICK c : Counts(c, x) /\ c[0] = o /\ c[n] = p
  BY DEF Threes
<1>3. PICK d : Counts(d, y) /\ d[0] = p /\ d[m] = q
  BY DEF Threes
<1> DEFINE b == [i \in 0 .. n + m |-> IF i <= n THEN c[i] ELSE d[i - n]]
<1>4. Len(z) = n + m /\ \A i \in 1 .. n + m : z[i] = IF i <= n THEN x[i] ELSE y[i - n]
  BY DEF IsJoined
<1>5. /\ c \in [0 .. n -> 0 .. 2] /\ \A i \in 1 .. n : Third(x[i], c[i - 1], c[i])
      /\ d \in [0 .. m -> 0 .. 2] /\ \A i \in 1 .. m : Third(y[i], d[i - 1], d[i])
  BY <1>2, <1>3 DEF Counts
<1> HIDE DEF n, m
<1>6. \A i \in 0 .. n : b[i] = c[i]
  BY <1>1
<1>7. \A i \in 0 .. m : b[n + i] = d[i]
  <2>1. ASSUME NEW i \in 0 .. m
        PROVE  b[n + i] = d[i]
    <3>1. CASE i = 0
      <4>1. n + i = n /\ n \in 0 .. n
        BY <1>1, <3>1
      <4>2. b[n + i] = c[n]
        BY <1>6, <4>1
      <4>3. QED
        BY <1>2, <1>3, <3>1, <4>2 DEF n
    <3>2. CASE i # 0
      <4>1. n + i \in 0 .. n + m /\ ~(n + i <= n) /\ (n + i) - n = i
        BY <1>1, <3>2
      <4>2. QED
        BY <4>1
    <3>3. QED
      BY <3>1, <3>2
  <2>2. QED
    BY <2>1
<1>8. b \in [0 .. n + m -> 0 .. 2]
  <2>1. \A i \in 0 .. n + m : (i <= n => i \in 0 .. n) /\ (~(i <= n) => i - n \in 0 .. m)
    BY <1>1
  <2>2. QED
    BY <1>5, <2>1
<1> HIDE DEF b
<1>9. ASSUME NEW i \in 1 .. n + m
      PROVE  Third(z[i], b[i - 1], b[i])
  <2>1. CASE i <= n
    <3>1. i \in 1 .. n /\ i \in 0 .. n /\ i - 1 \in 0 .. n
      BY <1>1, <2>1
    <3>2. z[i] = x[i] /\ b[i] = c[i] /\ b[i - 1] = c[i - 1]
      BY <1>4, <1>6, <2>1, <3>1
    <3>3. QED
      BY <1>5, <3>1, <3>2
  <2>2. CASE ~(i <= n)
    <3> DEFINE j == i - n
    <3>1. j \in 1 .. m /\ j \in 0 .. m /\ j - 1 \in 0 .. m /\ n + j = i /\ n + (j - 1) = i - 1
      BY <1>1, <2>2
    <3>2. z[i] = y[j]
      BY <1>4, <2>2
    <3> HIDE DEF j
    <3>3. b[i] = d[j] /\ b[i - 1] = d[j - 1]
      BY <1>7, <3>1
    <3>4. QED
      BY <1>5, <3>1, <3>2, <3>3
  <2>3. QED
    BY <2>1, <2>2
<1>10. b[0] = o /\ b[n + m] = q
  <2>1. 0 \in 0 .. n /\ m \in 0 .. m
    BY <1>1
  <2>2. QED
    BY <1>2, <1>3, <1>6, <1>7, <2>1 DEF m
<1>11. Counts(b, z)
  BY <1>4, <1>8, <1>9 DEF Counts
<1>12. QED
  BY <1>4, <1>10, <1>11 DEF Threes

\* Where x is cut no triplet is open if the event on one side is no member.
ClosedAt(x, k, p) ==
  /\ p \in 0 .. 2
  /\ k \in 1 .. Len(x) /\ ~x[k].tup => p = 0
  /\ k + 1 \in 1 .. Len(x) /\ ~x[k + 1].tup => p = 0

CutInThrees(x, k, f, r, o, p, q) == Threes(f, o, p) /\ Threes(r, p, q) /\ ClosedAt(x, k, p)

LEMMA ThreesCut ==
  ASSUME NEW x, IsMusic(x), NEW k \in Nat, k <= Len(x), NEW f, NEW r, IsCut(x, k, f, r),
         NEW o, NEW q, Threes(x, o, q)
  PROVE  \E p : /\ CutInThrees(x, k, f, r, o, p, q)
                /\ k = 0 => p = o
                /\ k = Len(x) => p = q
<1> DEFINE n == Len(x)
<1>1. n \in Nat /\ k <= n
  BY MusicIs
<1>2. PICK c : Counts(c, x) /\ c[0] = o /\ c[n] = q
  BY DEF Threes
<1>3. /\ Len(f) = k /\ \A i \in 1 .. k : f[i] = x[i]
      /\ Len(r) = n - k /\ \A i \in 1 .. n - k : r[i] = x[i + k]
  BY DEF IsCut
<1>4. c \in [0 .. n -> 0 .. 2] /\ \A i \in 1 .. n : Third(x[i], c[i - 1], c[i])
  BY <1>2 DEF Counts
<1> HIDE DEF n
<1> DEFINE a == [i \in 0 .. k |-> c[i]]
           b == [i \in 0 .. n - k |-> c[i + k]]
<1>5. \A i \in 0 .. k : i \in 0 .. n
  BY <1>1
<1>6. \A i \in 0 .. n - k : i + k \in 0 .. n
  BY <1>1
<1>7. /\ a \in [0 .. k -> 0 .. 2] /\ \A i \in 0 .. k : a[i] = c[i]
      /\ b \in [0 .. n - k -> 0 .. 2] /\ \A i \in 0 .. n - k : b[i] = c[i + k]
  BY <1>4, <1>5, <1>6
<1> HIDE DEF a, b
<1>8. ASSUME NEW i \in 1 .. k
      PROVE  Third(f[i], a[i - 1], a[i])
  <2>1. i \in 1 .. n /\ i \in 0 .. k /\ i - 1 \in 0 .. k
    BY <1>1
  <2>2. QED
    BY <1>3, <1>4, <1>7, <2>1
<1>9. ASSUME NEW i \in 1 .. n - k
      PROVE  Third(r[i], b[i - 1], b[i])
  <2>1. i + k \in 1 .. n /\ i \in 0 .. n - k /\ i - 1 \in 0 .. n - k /\ (i - 1) + k = (i + k) - 1
    BY <1>1
  <2>2. b[i] = c[i + k] /\ b[i - 1] = c[(i + k) - 1] /\ r[i] = x[i + k]
    BY <1>3, <1>7, <2>1
  <2>3. QED
    BY <1>4, <2>1, <2>2
<1>10. Counts(a, f) /\ Counts(b, r)
  BY <1>3, <1>7, <1>8, <1>9 DEF Counts
<1>11. a[0] = o /\ a[k] = c[k] /\ b[0] = c[k] /\ b[n - k] = q
  <2>1. 0 \in 0 .. k /\ k \in 0 .. k /\ 0 \in 0 .. n - k /\ 0 + k = k /\ n - k \in 0 .. n - k
        /\ (n - k) + k = n
    BY <1>1
  <2>2. QED
    BY <1>2, <1>7, <2>1 DEF n
<1>12. Threes(f, o, c[k]) /\ Threes(r, c[k], q)
  BY <1>3, <1>10, <1>11 DEF Threes
<1>13. ClosedAt(x, k, c[k])
  <2>1. c[k] \in 0 .. 2
    BY <1>1, <1>4
  <2>2. k \in 1 .. n /\ ~x[k].tup => c[k] = 0
    BY <1>4 DEF Third
  <2>3. k + 1 \in 1 .. n /\ ~x[k + 1].tup => c[k] = 0
    <3>1. (k + 1) - 1 = k
      OBVIOUS
    <3>2. k + 1 \in 1 .. n => Third(x[k + 1], c[k], c[k + 1])
      BY <1>4, <3>1
    <3>3. QED
      BY <3>2 DEF Third
  <2>4. QED
    BY <2>1, <2>2, <2>3 DEF ClosedAt, n
<1>14. (k = 0 => c[k] = o) /\ (k = n => c[k] = q)
  BY <1>2 DEF n
<1>15. QED
  BY <1>12, <1>13, <1>14 DEF CutInThrees, n

LEMMA ThreesTurned ==
  ASSUME NEW x, IsMusic(x), NEW w, IsTurned(x, w), Threes(x, 0, 0)
  PROVE  Threes(w, 0, 0)
<1> DEFINE n == Len(x)
<1>1. n \in Nat
  BY MusicIs
<1>2. PICK c : Counts(c, x) /\ c[0] = 0 /\ c[n] = 0
  BY DEF Threes
<1>3. c \in [0 .. n -> 0 .. 2] /\ \A i \in 1 .. n : Third(x[i], c[i - 1], c[i])
  BY <1>2 DEF Counts
<1>4. Len(w) = n /\ \A i \in 1 .. n : w[i] = x[n - i + 1]
  BY DEF IsTurned
<1> DEFINE d == [i \in 0 .. n |-> IF c[n - i] = 0 THEN 0 ELSE 3 - c[n - i]]
<1> HIDE DEF n
<1>5. \A i \in 0 .. n : n - i \in 0 .. n
  BY <1>1
<1>6. d \in [0 .. n -> 0 .. 2] /\ \A i \in 0 .. n : d[i] = IF c[n - i] = 0 THEN 0 ELSE 3 - c[n - i]
  <2>1. \A i \in 0 .. n : c[n - i] \in 0 .. 2
    BY <1>3, <1>5
  <2>2. \A v \in 0 .. 2 : (IF v = 0 THEN 0 ELSE 3 - v) \in 0 .. 2
    OBVIOUS
  <2>3. QED
    BY <2>1, <2>2
<1> HIDE DEF d
<1>7. ASSUME NEW i \in 1 .. n
      PROVE  Third(w[i], d[i - 1], d[i])
  <2> DEFINE j == n - i + 1
             v == c[j]
             u == c[j - 1]
  <2>1. /\ j \in 1 .. n /\ j \in 0 .. n /\ j - 1 \in 0 .. n /\ n - i = j - 1 /\ n - (i - 1) = j
        /\ i \in 0 .. n /\ i - 1 \in 0 .. n
    BY <1>1
  <2>2. w[i] = x[j]
    BY <1>4
  <2> HIDE DEF j
  <2>3. Third(x[j], u, v) /\ u \in 0 .. 2 /\ v \in 0 .. 2
    BY <1>3, <2>1
  <2>4. d[i] = IF u = 0 THEN 0 ELSE 3 - u
    BY <1>6, <2>1
  <2>5. d[i - 1] = IF v = 0 THEN 0 ELSE 3 - v
    BY <1>6, <2>1
  <2> HIDE DEF u, v
  <2>6. QED
    BY <2>2, <2>3, <2>4, <2>5 DEF Third
<1>8. d[0] = 0 /\ d[n] = 0
  <2>1. 0 \in 0 .. n /\ n \in 0 .. n /\ n - 0 = n /\ n - n = 0
    BY <1>1
  <2>2. QED
    BY <1>2, <1>6, <2>1 DEF n
<1>9. Counts(d, w)
  BY <1>4, <1>6, <1>7 DEF Counts
<1>10. QED
  BY <1>4, <1>8, <1>9 DEF Threes

LEMMA ThreesClean ==
  ASSUME NEW x, IsMusic(x), Clean(x)
  PROVE  Threes(x, 0, 0)
<1> DEFINE n == Len(x)
           c == [i \in 0 .. n |-> 0]
<1>1. n \in Nat /\ DOMAIN x = 1 .. n
  BY MusicIs
<1> HIDE DEF n
<1>2. \A i \in 1 .. n : i \in 0 .. n /\ i - 1 \in 0 .. n
  BY <1>1
<1>3. c \in [0 .. n -> 0 .. 2] /\ (\A i \in 0 .. n : c[i] = 0) /\ 0 \in 0 .. n /\ n \in 0 .. n
  BY <1>1
<1> HIDE DEF c
<1>4. \A i \in 1 .. n : Third(x[i], c[i - 1], c[i])
  BY <1>1, <1>2, <1>3 DEF Third, Clean
<1>5. Counts(c, x)
  BY <1>3, <1>4 DEF Counts, n
<1>6. QED
  BY <1>3, <1>5 DEF Threes, n

\* The loop that checks the triplets: 9 once a run was cut short.
Opens(up, x, n) == up[0] = 0 /\ \A k \in 1 .. n : up[k] = OpenAfter(up[k - 1], x[k])

LEMMA OpenAfterIs ==
  ASSUME NEW o \in {0, 1, 2, 9}, NEW e, e.tup \in BOOLEAN, NEW p, p = OpenAfter(o, e)
  PROVE  /\ p \in {0, 1, 2, 9}
         /\ p \in 0 .. 2 => o \in 0 .. 2 /\ Third(e, o, p)
<1>1. CASE e.tup /\ o # 9
  <2>1. p = (o + 1) % 3
    BY <1>1 DEF OpenAfter
  <2>2. CASE o = 0
    <3>1. p = 1
      BY <2>1, <2>2
    <3>2. QED
      BY <1>1, <2>2, <3>1 DEF Third
  <2>3. CASE o = 1
    <3>1. p = 2
      BY <2>1, <2>3
    <3>2. QED
      BY <1>1, <2>3, <3>1 DEF Third
  <2>4. CASE o = 2
    <3>1. p = 0
      BY <2>1, <2>4
    <3>2. QED
      BY <1>1, <2>4, <3>1 DEF Third
  <2>5. QED
    BY <1>1, <2>2, <2>3, <2>4
<1>2. CASE ~(e.tup /\ o # 9)
  <2>1. p = IF o = 0 THEN 0 ELSE 9
    BY <1>2 DEF OpenAfter
  <2>2. QED
    BY <1>2, <2>1 DEF Third
<1>3. QED
  BY <1>1, <1>2

LEMMA ThirdOpens ==
  ASSUME NEW e, e.tup \in BOOLEAN, NEW o \in 0 .. 2, NEW p \in 0 .. 2, Third(e, o, p)
  PROVE  OpenAfter(o, e) = p
<1>1. CASE e.tup
  <2>1. OpenAfter(o, e) = (o + 1) % 3
    BY <1>1 DEF OpenAfter
  <2>2. (o + 1) % 3 = IF o = 2 THEN 0 ELSE o + 1
    OBVIOUS
  <2>3. QED
    BY <1>1, <2>1, <2>2 DEF Third
<1>2. CASE ~e.tup
  BY <1>2 DEF Third, OpenAfter
<1>3. QED
  BY <1>1, <1>2

LEMMA WholeOpens ==
  ASSUME NEW x, IsMusic(x)
  PROVE  \E up \in [0 .. Len(x) -> {0, 1, 2, 9}] :
            Opens(up, x, Len(x)) /\ (WholeTriplets(x) <=> up[Len(x)] = 0)
<1> DEFINE n == Len(x)
           X == {0, 1, 2, 9}
           step == [y \in X \X (1 .. n) |-> OpenAfter(y[1], x[y[2]])]
<1>1. n \in Nat /\ DOMAIN x = 1 .. n
  BY MusicIs
<1>2. \A i \in 1 .. n : x[i].tup \in BOOLEAN
  BY <1>1 DEF IsMusic, IsEvent
<1>3. \A o \in X, k \in 1 .. n : OpenAfter(o, x[k]) \in X
  BY <1>2, OpenAfterIs
<1> HIDE DEF n, X
<1>4. step \in [X \X (1 .. n) -> X]
  BY <1>3
<1>5. \A o \in X, k \in 1 .. n : step[<<o, k>>] = OpenAfter(o, x[k])
  OBVIOUS
<1>6. 0 \in X
  BY DEF X
<1> HIDE DEF step
<1>7. PICK f \in [0 .. n -> X] : Steps(f, 0, step, n)
  BY <1>1, <1>4, <1>6, Stepping
<1>8. f[0] = 0 /\ \A k \in 1 .. n : f[k] = OpenAfter(f[k - 1], x[k])
  <2>1. \A k \in 1 .. n : k - 1 \in 0 .. n
    BY <1>1
  <2>2. QED
    BY <1>5, <1>7, <2>1 DEF Steps
<1> DEFINE F(h) == [k \in 0 .. n |-> IF k = 0 THEN 0 ELSE OpenAfter(h[k - 1], x[k])]
           up == CHOOSE h : h = F(h)
<1>9. f = F(f)
  <2>1. \A k \in 0 .. n : f[k] = IF k = 0 THEN 0 ELSE OpenAfter(f[k - 1], x[k])
    BY <1>1, <1>8
  <2>2. QED
    BY <2>1
<1>10. up = F(up)
  BY <1>9
<1>11. WholeTriplets(x) <=> up[n] = 0
  BY DEF WholeTriplets, n
<1> HIDE DEF up
<1>12. \A k \in 0 .. n : up[k] = IF k = 0 THEN 0 ELSE OpenAfter(up[k - 1], x[k])
  BY <1>10
<1>13. up[0] = 0 /\ \A k \in 1 .. n : up[k] = OpenAfter(up[k - 1], x[k])
  BY <1>1, <1>12
<1>14. Opens(up, x, n)
  BY <1>13 DEF Opens
<1>15. \A k \in 0 .. n : up[k] = f[k]
  <2> DEFINE S == {k \in Nat : k <= n => up[k] = f[k]}
  <2>1. 0 \in S
    BY <1>8, <1>13
  <2>2. ASSUME NEW k \in Nat, k \in S
        PROVE  k + 1 \in S
    <3>1. k + 1 <= n => k + 1 \in 1 .. n /\ k <= n /\ (k + 1) - 1 = k
      BY <1>1
    <3>2. QED
      BY <1>8, <1>13, <2>2, <3>1
  <2> HIDE DEF S
  <2>3. Nat \subseteq S
    BY <2>1, <2>2, NumbersInduction
  <2>4. QED
    BY <2>3 DEF S
<1>16. up \in [0 .. n -> X]
  <2>1. up = [k \in 0 .. n |-> up[k]]
    BY <1>10
  <2>2. QED
    BY <1>15, <2>1
<1>17. QED
  BY <1>11, <1>14, <1>16 DEF n, X

\* The triplets of x are whole when they come in threes.
THEOREM WholeIsThrees ==
  ASSUME NEW x, IsMusic(x)
  PROVE  WholeTriplets(x) <=> Threes(x, 0, 0)
<1> DEFINE n == Len(x)
<1>1. n \in Nat /\ DOMAIN x = 1 .. n
  BY MusicIs
<1>2. \A i \in 1 .. n : x[i].tup \in BOOLEAN
  BY <1>1 DEF IsMusic, IsEvent
<1>3. PICK up \in [0 .. n -> {0, 1, 2, 9}] : Opens(up, x, n) /\ (WholeTriplets(x) <=> up[n] = 0)
  BY WholeOpens
<1> HIDE DEF n
<1>4. up[0] = 0 /\ \A k \in 1 .. n : up[k] = OpenAfter(up[k - 1], x[k])
  BY <1>3 DEF Opens
<1>5. ASSUME up[n] = 0
      PROVE  Threes(x, 0, 0)
  <2> DEFINE S == {k \in Nat : k <= n => up[n - k] \in 0 .. 2}
  <2>1. 0 \in S
    <3>1. n - 0 = n /\ 0 \in 0 .. 2
      BY <1>1
    <3>2. QED
      BY <1>5, <3>1
  <2>2. ASSUME NEW k \in Nat, k \in S
        PROVE  k + 1 \in S
    <3>1. SUFFICES ASSUME k + 1 <= n PROVE up[n - (k + 1)] \in 0 .. 2
      OBVIOUS
    <3> DEFINE j == n - k
    <3>2. j \in 1 .. n /\ j - 1 = n - (k + 1) /\ j - 1 \in 0 .. n /\ k <= n
      BY <1>1, <3>1
    <3>3. up[j] \in 0 .. 2
      BY <2>2, <3>2
    <3> HIDE DEF j
    <3>4. up[j] = OpenAfter(up[j - 1], x[j]) /\ up[j - 1] \in {0, 1, 2, 9}
      BY <1>3, <1>4, <3>2
    <3>5. up[j - 1] \in 0 .. 2
      BY <1>2, <3>2, <3>3, <3>4, OpenAfterIs
    <3>6. QED
      BY <3>2, <3>5
  <2> HIDE DEF S
  <2>3. Nat \subseteq S
    BY <2>1, <2>2, NumbersInduction
  <2>4. ASSUME NEW k \in 0 .. n
        PROVE  up[k] \in 0 .. 2
    <3>1. n - k \in Nat /\ n - k <= n /\ n - (n - k) = k
      BY <1>1
    <3>2. up[n - (n - k)] \in 0 .. 2
      BY <2>3, <3>1 DEF S
    <3>3. QED
      BY <3>1, <3>2
  <2>5. up \in [0 .. n -> 0 .. 2]
    BY <1>3, <2>4
  <2>6. ASSUME NEW k \in 1 .. n
        PROVE  Third(x[k], up[k - 1], up[k])
    <3>1. k - 1 \in 0 .. n /\ k \in 0 .. n
      BY <1>1
    <3>2. up[k] = OpenAfter(up[k - 1], x[k]) /\ up[k - 1] \in {0, 1, 2, 9} /\ up[k] \in 0 .. 2
      BY <1>3, <1>4, <2>4, <3>1
    <3>3. QED
      BY <1>2, <3>2, OpenAfterIs
  <2>7. Counts(up, x)
    BY <2>5, <2>6 DEF Counts, n
  <2>8. QED
    BY <1>4, <1>5, <2>7 DEF Threes, n
<1>6. ASSUME Threes(x, 0, 0)
      PROVE  up[n] = 0
  <2>1. PICK c : Counts(c, x) /\ c[0] = 0 /\ c[n] = 0
    BY <1>6 DEF Threes, n
  <2>2. c \in [0 .. n -> 0 .. 2] /\ \A i \in 1 .. n : Third(x[i], c[i - 1], c[i])
    BY <2>1 DEF Counts, n
  <2> DEFINE S == {k \in Nat : k <= n => up[k] = c[k]}
  <2>3. 0 \in S
    BY <1>4, <2>1
  <2>4. ASSUME NEW k \in Nat, k \in S
        PROVE  k + 1 \in S
    <3>1. SUFFICES ASSUME k + 1 <= n PROVE up[k + 1] = c[k + 1]
      OBVIOUS
    <3>2. k + 1 \in 1 .. n /\ k <= n /\ (k + 1) - 1 = k /\ k \in 0 .. n /\ k + 1 \in 0 .. n
      BY <1>1, <3>1
    <3>3. up[k] = c[k]
      BY <2>4, <3>2
    <3>4. up[k + 1] = OpenAfter(up[k], x[k + 1]) /\ Third(x[k + 1], c[k], c[k + 1])
      BY <1>4, <2>2, <3>2
    <3>5. c[k] \in 0 .. 2 /\ c[k + 1] \in 0 .. 2 /\ x[k + 1].tup \in BOOLEAN
      BY <1>2, <2>2, <3>2
    <3>6. QED
      BY <3>3, <3>4, <3>5, ThirdOpens
  <2> HIDE DEF S
  <2>5. n \in S
    BY <1>1, <2>3, <2>4, NumbersInduction
  <2>6. QED
    BY <2>1, <2>5 DEF S
<1>7. QED
  BY <1>3, <1>5, <1>6

\* Events with other names.
Alike(x, w) ==
  /\ IsSequence(w) /\ Len(w) = Len(x)
  /\ \A i \in 1 .. Len(x) :
       /\ IsEvent(w[i]) /\ w[i].u = x[i].u /\ w[i].rest = x[i].rest /\ w[i].tup = x[i].tup

LEMMA AlikeSounds ==
  ASSUME NEW x, NEW w, IsMusic(x), Alike(x, w)
  PROVE  /\ IsMusic(w) /\ Sounds(w) = Sounds(x) /\ (Clean(w) <=> Clean(x))
         /\ WholeTriplets(w) <=> WholeTriplets(x)
<1> DEFINE n == Len(x)
<1>1. n \in Nat /\ DOMAIN x = 1 .. n
  BY MusicIs
<1>2. Len(w) = n
  BY DEF Alike
<1>3. DOMAIN w = 1 .. n
  BY <1>2 DEF Alike, IsSequence
<1>4. IsMusic(w)
  BY <1>3 DEF Alike, IsMusic
<1>5. \A i \in 1 .. n : Sounding(w[i]) = Sounding(x[i]) /\ w[i].tup = x[i].tup
  BY DEF Alike, Sounding
<1>6. Weights(w) = Weights(x)
  BY <1>1, <1>3, <1>5 DEF Weights
<1>7. Sounds(w) = Sounds(x)
  BY <1>4, <1>6, WeightsAre
<1>8. Clean(w) <=> Clean(x)
  BY <1>1, <1>3, <1>5 DEF Clean
<1>9. \A c : Counts(c, w) <=> Counts(c, x)
  BY <1>2, <1>5 DEF Counts, Third
<1>10. Threes(w, 0, 0) <=> Threes(x, 0, 0)
  BY <1>2, <1>9 DEF Threes
<1>11. QED
  BY <1>4, <1>7, <1>8, <1>10, WholeIsThrees

-----------------------------------------------------------------------------
(* A stretch of time as notes or rests *)

LEMMA LargestIs ==
  ASSUME NEW n \in Nat, n # 0, NEW d, d = Largest(n)
  PROVE  d \in Durations /\ d \in 1 .. n
<1> DEFINE S == {k \in Nat : \E c \in Durations : c <= n /\ k = n - c}
<1>1. Durations \subseteq Nat \ {0} /\ 1 \in Durations
  BY MeasuresAssumption
<1>2. n - 1 \in S
  BY <1>1
<1>3. PICK k \in S : \A j \in S : k <= j
  BY <1>2, Smallest
<1>4. PICK c \in Durations : c <= n /\ k = n - c
  BY <1>3
<1>5. ASSUME NEW b \in Durations, b <= n
      PROVE  b <= c
  <2>1. b \in Nat /\ c \in Nat
    BY <1>1, <1>4
  <2>2. n - b \in S
    BY <1>5, <2>1
  <2>3. n - c <= n - b
    BY <1>3, <1>4, <2>2
  <2>4. QED
    BY <2>1, <2>3
<1>6. d \in Durations /\ d <= n
  BY <1>4, <1>5 DEF Largest
<1>7. QED
  BY <1>1, <1>6

\* The notes are taken off one by one, from the longest.
Takes(f, n) ==
  \A k \in 0 .. n : f[k] = IF k = 0 THEN <<>> ELSE <<Largest(k)>> \o f[k - Largest(k)]

LEMMA LargestLess ==
  ASSUME NEW n \in Nat, NEW k \in 0 .. n, k # 0
  PROVE  Largest(k) \in Durations /\ Largest(k) \in 1 .. k /\ k - Largest(k) \in 0 .. k - 1
<1> DEFINE d == Largest(k)
<1>1. k \in Nat
  OBVIOUS
<1>2. d \in Durations /\ d \in 1 .. k
  BY <1>1, LargestIs
<1> HIDE DEF d
<1>3. k - d \in 0 .. k - 1
  BY <1>1, <1>2
<1>4. QED
  BY <1>2, <1>3 DEF d

LEMMA TakingOff ==
  ASSUME NEW n \in Nat
  PROVE  \E f \in [0 .. n -> Seq(Durations)] : Takes(f, n)
<1> DEFINE S == {m \in Nat : \E f \in [0 .. m -> Seq(Durations)] : Takes(f, m)}
<1>1. 0 \in S
  <2> DEFINE f == [k \in 0 .. 0 |-> <<>>]
  <2>1. f \in [0 .. 0 -> Seq(Durations)] /\ \A k \in 0 .. 0 : k = 0 /\ f[k] = <<>>
    BY EmptySeq
  <2> HIDE DEF f
  <2>2. Takes(f, 0)
    BY <2>1 DEF Takes
  <2>3. QED
    BY <2>1, <2>2
<1>2. ASSUME NEW m \in Nat, m \in S
      PROVE  m + 1 \in S
  <2>1. PICK f \in [0 .. m -> Seq(Durations)] : Takes(f, m)
    BY <1>2
  <2> DEFINE d == Largest(m + 1)
             q == <<d>> \o f[(m + 1) - d]
             g == [k \in 0 .. m + 1 |-> IF k <= m THEN f[k] ELSE q]
  <2>2. m + 1 \in Nat /\ m + 1 # 0 /\ m + 1 \in 0 .. m + 1
    OBVIOUS
  <2>3. d \in Durations /\ (m + 1) - d \in 0 .. m
    <3>1. d \in Durations /\ d \in 1 .. m + 1
      BY <2>2, LargestIs
    <3> HIDE DEF d
    <3>2. QED
      BY <3>1
  <2>4. \A k \in 0 .. m : g[k] = f[k]
    OBVIOUS
  <2>5. g[m + 1] = q
    OBVIOUS
  <2>6. q \in Seq(Durations)
    <3>1. f[(m + 1) - d] \in Seq(Durations) /\ <<d>> \in Seq(Durations)
      BY <2>3
    <3> HIDE DEF d
    <3>2. QED
      BY <3>1, ConcatProperties
  <2> HIDE DEF q
  <2>7. g \in [0 .. m + 1 -> Seq(Durations)]
    BY <2>6
  <2> HIDE DEF g
  <2>8. ASSUME NEW k \in 0 .. m + 1
        PROVE  g[k] = IF k = 0 THEN <<>> ELSE <<Largest(k)>> \o g[k - Largest(k)]
    <3>1. CASE k = m + 1
      <4>1. k # 0 /\ Largest(k) = d
        BY <2>2, <3>1
      <4>2. g[(m + 1) - d] = f[(m + 1) - d]
        BY <2>3, <2>4
      <4>3. q = <<d>> \o g[(m + 1) - d]
        BY <4>2 DEF q
      <4> HIDE DEF d
      <4>4. QED
        BY <2>5, <3>1, <4>1, <4>3
    <3>2. CASE k # m + 1
      <4>1. k \in 0 .. m
        BY <3>2
      <4>2. k # 0 => k - Largest(k) \in 0 .. m
        <5> DEFINE e == Largest(k)
        <5>1. k # 0 => e \in 1 .. k /\ k - e \in 0 .. k - 1
          BY <4>1, LargestLess
        <5> HIDE DEF e
        <5>2. k # 0 => k - e \in 0 .. m
          BY <4>1, <5>1
        <5>3. QED
          BY <5>2 DEF e
      <4>3. f[k] = IF k = 0 THEN <<>> ELSE <<Largest(k)>> \o f[k - Largest(k)]
        BY <2>1, <4>1 DEF Takes
      <4>4. k # 0 => g[k - Largest(k)] = f[k - Largest(k)]
        BY <2>4, <4>2
      <4>5. g[k] = f[k]
        BY <2>4, <4>1
      <4>6. QED
        BY <4>3, <4>4, <4>5
    <3>3. QED
      BY <3>1, <3>2
  <2>9. Takes(g, m + 1)
    BY <2>8 DEF Takes
  <2>10. QED
    BY <2>7, <2>9
<1> HIDE DEF S
<1>3. n \in S
  BY <1>1, <1>2, NumbersInduction
<1>4. QED
  BY <1>3 DEF S

\* What is taken off is what there was.
THEOREM Decomposed ==
  ASSUME NEW n \in Nat, NEW into, into = Decompose(n)
  PROVE  into \in Seq(Durations) /\ Total(into) = n
<1>1. PICK f \in [0 .. n -> Seq(Durations)] : Takes(f, n)
  BY TakingOff
<1> DEFINE F(h) == [k \in 0 .. n |-> IF k = 0 THEN <<>> ELSE <<Largest(k)>> \o h[k - Largest(k)]]
           up == CHOOSE h : h = F(h)
<1>2. f = F(f)
  <2>1. \A k \in 0 .. n : f[k] = IF k = 0 THEN <<>> ELSE <<Largest(k)>> \o f[k - Largest(k)]
    BY <1>1 DEF Takes
  <2>2. QED
    BY <2>1
<1>3. up = F(up)
  BY <1>2
<1>4. into = up[n]
  BY DEF Decompose
<1> HIDE DEF up
<1>5. \A k \in 0 .. n : up[k] = IF k = 0 THEN <<>> ELSE <<Largest(k)>> \o up[k - Largest(k)]
  BY <1>3
<1> DEFINE S == {m \in Nat : \A k \in 0 .. m :
                   k <= n => up[k] \in Seq(Durations) /\ up[k] \in Seq(Nat) /\ Total(up[k]) = k}
<1>6. 0 \in S
  <2>1. up[0] = <<>>
    BY <1>5
  <2>2. <<>> \in Seq(Durations) /\ <<>> \in Seq(Nat) /\ Total(<<>>) = 0
    BY EmptySeq, TotalEmpty
  <2>3. \A k \in 0 .. 0 : k = 0
    OBVIOUS
  <2>4. QED
    BY <2>1, <2>2, <2>3
<1>7. ASSUME NEW m \in Nat, m \in S
      PROVE  m + 1 \in S
  <2>1. SUFFICES ASSUME NEW k \in 0 .. m + 1, k <= n
                 PROVE  up[k] \in Seq(Durations) /\ up[k] \in Seq(Nat) /\ Total(up[k]) = k
    OBVIOUS
  <2>2. CASE k \in 0 .. m
    BY <1>7, <2>1, <2>2
  <2>3. CASE k \notin 0 .. m
    <3> DEFINE d == Largest(k)
               j == k - d
    <3>1. k \in 0 .. n /\ k # 0 /\ k = m + 1
      BY <2>1, <2>3
    <3>2. d \in Durations /\ d \in 1 .. k /\ j \in 0 .. k - 1
      BY <3>1, LargestLess
    <3>3. up[k] = <<d>> \o up[j]
      BY <1>5, <3>1
    <3> HIDE DEF d
    <3>4. j \in 0 .. m /\ j <= n /\ d \in Nat /\ d + j = k
      BY <3>1, <3>2
    <3> HIDE DEF j
    <3>5. up[j] \in Seq(Durations) /\ up[j] \in Seq(Nat) /\ Total(up[j]) = j
      BY <1>7, <3>4
    <3>6. <<d>> \in Seq(Durations) /\ <<d>> \in Seq(Nat) /\ Total(<<d>>) = d
      BY <3>2, <3>4, TotalOne
    <3>7. up[k] \in Seq(Durations) /\ up[k] \in Seq(Nat)
      BY <3>3, <3>5, <3>6, ConcatProperties
    <3>8. Total(<<d>> \o up[j]) = Total(<<d>>) + Total(up[j])
      BY <3>5, <3>6, TotalConcat
    <3>9. QED
      BY <3>3, <3>4, <3>5, <3>6, <3>7, <3>8
  <2>4. QED
    BY <2>2, <2>3
<1> HIDE DEF S
<1>8. n \in S
  BY <1>6, <1>7, NumbersInduction
<1>9. up[n] \in Seq(Durations) /\ Total(up[n]) = n
  BY <1>8 DEF S
<1>10. QED
  BY <1>4, <1>9

\* Plain events that sound n units.
Spells(x, n) ==
  /\ IsMusic(x) /\ Clean(x) /\ Sounds(x) = 3 * n
  /\ \A i \in DOMAIN x : x[i].id = NoId

LEMMA WrittenSpells ==
  ASSUME NEW n \in Nat, NEW rest \in BOOLEAN, NEW x, x = Written(n, rest)
  PROVE  Spells(x, n)
<1> DEFINE into == Decompose(n)
<1>1. into \in Seq(Durations) /\ Total(into) = n
  BY Decomposed
<1>2. x = [i \in DOMAIN into |-> Plain(into[i], rest)]
  BY DEF Written
<1> HIDE DEF into
<1> DEFINE m == Len(into)
<1>3. m \in Nat /\ DOMAIN into = 1 .. m /\ \A i \in 1 .. m : into[i] \in Durations
  BY <1>1, LenProperties, ElementOfSeq
<1>4. into = [i \in 1 .. m |-> into[i]]
  BY <1>1, LenProperties
<1> HIDE DEF m
<1>5. ASSUME NEW i \in 1 .. m
      PROVE  IsEvent(x[i]) /\ x[i].u = into[i] /\ ~x[i].tup /\ x[i].id = NoId
  <2> DEFINE u == into[i]
             e == x[i]
  <2>1. e = [id |-> NoId, u |-> u, rest |-> rest, tup |-> FALSE]
    BY <1>2, <1>3 DEF Plain
  <2>2. u \in Durations
    BY <1>3
  <2> HIDE DEF u, e
  <2>3. e.id = NoId /\ e.u = u /\ e.rest = rest /\ e.tup = FALSE
    BY <2>1
  <2>4. IsEvent(e)
    BY <2>1, <2>2, <2>3 DEF IsEvent
  <2>5. QED
    BY <2>3, <2>4 DEF u, e
<1>6. x \in Seq({x[i] : i \in 1 .. m})
  <2>1. x \in [1 .. m -> {x[i] : i \in 1 .. m}]
    BY <1>2, <1>3
  <2>2. QED
    BY <1>3, <2>1, SeqDef
<1>7. \A e \in {x[i] : i \in 1 .. m} : IsEvent(e)
  BY <1>5
<1>8. IsMusic(x)
  BY <1>6, <1>7, MusicOf
<1>9. DOMAIN x = 1 .. m
  BY <1>2, <1>3
<1>10. Clean(x)
  BY <1>5, <1>9 DEF Clean
<1>11. Written32nds(x) = into
  <2>1. Written32nds(x) = [i \in 1 .. m |-> x[i].u]
    BY <1>9 DEF Written32nds
  <2>2. \A i \in 1 .. m : x[i].u = into[i]
    BY <1>5
  <2>3. QED
    BY <1>4, <2>1, <2>2
<1>12. Units(x) = n
  BY <1>1, <1>8, <1>11, WeightsAre
<1>13. \A i \in DOMAIN x : x[i].id = NoId
  BY <1>5, <1>9
<1>14. Sounds(x) = 3 * n
  BY <1>8, <1>10, <1>12, SoundsWritten
<1>15. QED
  BY <1>8, <1>10, <1>13, <1>14 DEF Spells

LEMMA RestsSpell ==
  ASSUME NEW n \in Nat, NEW x, x = Rests(n)
  PROVE  Spells(x, n)
BY WrittenSpells DEF Rests

-----------------------------------------------------------------------------
(* Merging rests *)

Merges(out, e) ==
  out # <<>> /\ e.rest /\ ~e.tup /\ Last(out).rest /\ ~Last(out).tup /\ Last(out).u + e.u \in Durations

\* One event more changes neither what sounds nor which triplets are whole.
IsExtended(out, e, new) ==
  /\ IsMusic(new) /\ Sounds(new) = Sounds(out) + Sounding(e)
  /\ Clean(out) /\ ~e.tup => Clean(new)
  /\ \A o, p \in 0 .. 2 : Threes(out, 0, o) /\ Third(e, o, p) => Threes(new, 0, p)

LEMMA Appending ==
  ASSUME NEW out, IsMusic(out), NEW e, IsEvent(e), NEW new, new = out \o <<e>>
  PROVE  IsExtended(out, e, new)
<1>1. /\ IsMusic(<<e>>) /\ Sounds(<<e>>) = Sounding(e) /\ (Clean(<<e>>) <=> ~e.tup)
  BY OneEvent
<1>2. IsJoined(out, <<e>>, new)
  BY <1>1, Joining
<1>3. ASSUME NEW o \in 0 .. 2, NEW p \in 0 .. 2, Threes(out, 0, o), Third(e, o, p)
      PROVE  Threes(new, 0, p)
  <2>1. Threes(<<e>>, o, p)
    BY <1>3, ThreesOne
  <2>2. QED
    BY <1>1, <1>2, <1>3, <2>1, ThreesJoined
<1>4. QED
  BY <1>1, <1>2, <1>3 DEF IsExtended, IsJoined

EndsWith(out, l, new, f) ==
  /\ IsMusic(f) /\ IsCut(out, Len(out) - 1, f, <<Last(out)>>) /\ new = f \o <<l>>
  /\ Len(out) \in Nat /\ Len(out) # 0

LEMMA LastJoined ==
  ASSUME NEW out, IsMusic(out), out # <<>>, NEW l, IsEvent(l), NEW new,
         new = [out EXCEPT ![Len(out)] = l]
  PROVE  \E f : EndsWith(out, l, new, f)
<1> DEFINE n == Len(out)
           k == n - 1
           f == Opening(out, k)
           r == Ending(out, k)
<1>1. n \in Nat /\ DOMAIN out = 1 .. n /\ out \in Seq({out[i] : i \in DOMAIN out})
  BY MusicIs
<1>2. n # 0
  BY <1>1
<1>3. k \in Nat /\ k <= n /\ n - k = 1 /\ 1 + k = n
  BY <1>1, <1>2
<1>4. IsCut(out, k, f, r)
  <2> HIDE DEF k, f, r
  <2>1. k <= Len(out)
    BY <1>3
  <2>2. QED
    BY <1>3, <2>1, Cutting DEF f, r
<1>5. r = <<Last(out)>>
  <2> HIDE DEF f, r, k
  <2>1. IsMusic(r) /\ Len(r) = 1 /\ r[1] = out[n]
    <3>1. IsMusic(r) /\ Len(r) = n - k /\ \A i \in 1 .. n - k : r[i] = out[i + k]
      BY <1>4 DEF IsCut
    <3>2. 1 \in 1 .. n - k
      BY <1>3
    <3>3. QED
      BY <1>3, <3>1, <3>2
  <2>2. r \in Seq({r[i] : i \in DOMAIN r})
    BY <2>1, MusicIs
  <2>3. r = <<r[1]>>
    BY <2>1, <2>2
  <2>4. QED
    BY <2>1, <2>3 DEF Last
<1>6. IsMusic(f) /\ Len(f) = k /\ \A i \in 1 .. k : f[i] = out[i]
  BY <1>4 DEF IsCut
<1> HIDE DEF f, r, n, k
<1>7. new = f \o <<l>>
  <2>1. IsMusic(<<l>>)
    BY OneEvent
  <2> DEFINE z == f \o <<l>>
             one == <<l>>
  <2>2. IsJoined(f, one, z)
    BY <1>6, <2>1, Joining
  <2>3. Len(one) = 1 /\ one[1] = l
    OBVIOUS
  <2> HIDE DEF z, one
  <2>4. IsMusic(z) /\ Len(z) = n /\ \A i \in 1 .. n : z[i] = IF i <= k THEN f[i] ELSE one[i - k]
    BY <1>3, <1>6, <2>2, <2>3 DEF IsJoined
  <2>5. DOMAIN z = 1 .. n /\ z = [i \in 1 .. n |-> z[i]]
    <3>1. DOMAIN z = 1 .. n /\ z \in Seq({z[i] : i \in DOMAIN z})
      BY <2>4, MusicIs
    <3>2. QED
      BY <2>4, <3>1, LenProperties
  <2>6. out = [i \in 1 .. n |-> out[i]]
    BY <1>1, LenProperties DEF n
  <2>7. new = [i \in 1 .. n |-> IF i = n THEN l ELSE out[i]]
    BY <1>1, <2>6 DEF n
  <2>8. ASSUME NEW i \in 1 .. n
        PROVE  z[i] = IF i = n THEN l ELSE out[i]
    <3>1. CASE i = n
      <4>1. ~(i <= k) /\ i - k = 1
        BY <1>3, <3>1
      <4>2. QED
        BY <2>3, <2>4, <3>1, <4>1
    <3>2. CASE i # n
      <4>1. i <= k /\ i \in 1 .. k
        BY <1>1, <1>3, <3>2
      <4>2. QED
        BY <1>6, <2>4, <3>2, <4>1
    <3>3. QED
      BY <3>1, <3>2
  <2>9. QED
    BY <2>5, <2>7, <2>8 DEF z
<1>8. QED
  BY <1>1, <1>2, <1>4, <1>5, <1>6, <1>7 DEF n, k, EndsWith

LEMMA Merging ==
  ASSUME NEW out, IsMusic(out), NEW e, IsEvent(e), Merges(out, e), NEW new,
         new = [out EXCEPT ![Len(out)].u = @ + e.u]
  PROVE  IsExtended(out, e, new)
<1> DEFINE n == Len(out)
           last == out[n]
           l == [last EXCEPT !.u = @ + e.u]
<1>1. n \in Nat /\ DOMAIN out = 1 .. n /\ out \in Seq({out[i] : i \in DOMAIN out})
  BY MusicIs
<1>2. n # 0 /\ out # <<>>
  BY <1>1 DEF Merges
<1>3. IsEvent(last) /\ Last(out) = last
  BY <1>1, <1>2 DEF IsMusic, Last
<1>4. last.rest /\ ~last.tup /\ e.rest /\ ~e.tup /\ last.u + e.u \in Durations
  BY <1>3 DEF Merges
<1>5. new = [out EXCEPT ![n] = l]
  OBVIOUS
<1> HIDE DEF last
<1>6. last = [id |-> last.id, u |-> last.u, rest |-> last.rest, tup |-> last.tup]
  BY <1>3 DEF IsEvent
<1>7. l = [id |-> last.id, u |-> last.u + e.u, rest |-> last.rest, tup |-> last.tup]
  BY <1>6
<1> HIDE DEF l
<1>8. IsEvent(l) /\ ~l.tup /\ l.u = last.u + e.u
  <2>1. l.id = last.id /\ l.u = last.u + e.u /\ l.rest = last.rest /\ l.tup = last.tup
    BY <1>7
  <2>2. QED
    BY <1>3, <1>4, <1>7, <2>1 DEF IsEvent
<1>9. PICK f : /\ IsMusic(f) /\ IsCut(out, n - 1, f, <<last>>) /\ new = f \o <<l>>
  <2>1. new = [out EXCEPT ![Len(out)] = l]
    BY <1>5
  <2>2. IsEvent(l) /\ out # <<>>
    BY <1>2, <1>8
  <2>3. PICK f : EndsWith(out, l, new, f)
    BY <2>1, <2>2, LastJoined
  <2>4. QED
    BY <1>3, <2>3 DEF EndsWith
<1>10. IsMusic(<<last>>) /\ Sounds(<<last>>) = Sounding(last) /\ (Clean(<<last>>) <=> ~last.tup)
  BY <1>3, OneEvent
<1>11. IsExtended(f, l, new)
  BY <1>8, <1>9, Appending
<1>12. Sounds(out) = Sounds(f) + Sounding(last) /\ (Clean(out) => Clean(f))
  BY <1>9, <1>10 DEF IsCut
<1>13. Sounding(l) = Sounding(last) + Sounding(e)
  <2>1. Sounding(l) = 3 * l.u /\ Sounding(last) = 3 * last.u /\ Sounding(e) = 3 * e.u
    BY <1>3, <1>4, <1>8, EventIs
  <2>2. last.u \in Nat /\ e.u \in Nat
    BY <1>3, EventIs
  <2>3. QED
    BY <1>8, <2>1, <2>2
<1>14. Sounds(new) = Sounds(out) + Sounding(e)
  <2>1. Sounds(f) \in Nat /\ Sounding(last) \in Nat /\ Sounding(e) \in Nat
    BY <1>3, <1>9, EventIs, WeightsAre
  <2>2. Sounds(new) = Sounds(f) + Sounding(l)
    BY <1>11 DEF IsExtended
  <2>3. QED
    BY <1>12, <1>13, <2>1, <2>2
<1>15. ASSUME NEW o \in 0 .. 2, NEW p \in 0 .. 2, Threes(out, 0, o), Third(e, o, p)
       PROVE  Threes(new, 0, p)
  <2>1. o = 0 /\ p = 0
    BY <1>4, <1>15 DEF Third
  <2> DEFINE k == n - 1
  <2>2. k \in Nat /\ k <= Len(out) /\ k + 1 = n
    BY <1>1, <1>2
  <2>3. IsCut(out, k, f, <<last>>)
    BY <1>9
  <2> HIDE DEF k
  <2>4. PICK q : CutInThrees(out, k, f, <<last>>, 0, q, o)
    BY <1>15, <2>2, <2>3, ThreesCut
  <2>5. q = 0 /\ Threes(f, 0, q)
    <3>1. k + 1 \in 1 .. Len(out) /\ ~out[k + 1].tup
      BY <1>1, <1>2, <1>4, <2>2 DEF last
    <3>2. QED
      BY <2>4, <3>1 DEF CutInThrees, ClosedAt
  <2>6. Third(l, 0, 0) /\ 0 \in 0 .. 2
    BY <1>8 DEF Third
  <2>7. QED
    BY <1>11, <2>1, <2>5, <2>6 DEF IsExtended
<1>16. Clean(out) => Clean(new)
  BY <1>8, <1>11, <1>12 DEF IsExtended
<1>17. QED
  BY <1>11, <1>14, <1>15, <1>16 DEF IsExtended

LEMMA MergingOne ==
  ASSUME NEW out, IsMusic(out), NEW e, IsEvent(e), NEW new, new = MergeOne(out, e)
  PROVE  IsExtended(out, e, new)
<1>1. CASE Merges(out, e)
  <2>1. new = [out EXCEPT ![Len(out)].u = @ + e.u]
    BY <1>1 DEF MergeOne, Merges
  <2>2. QED
    BY <1>1, <2>1, Merging
<1>2. CASE ~Merges(out, e)
  <2>1. new = Append(out, e)
    BY <1>2 DEF MergeOne, Merges
  <2>2. PICK S : out \in Seq(S) /\ <<e>> \in Seq(S) /\ \A x \in S : IsEvent(x)
    <3>1. IsMusic(<<e>>)
      BY OneEvent
    <3>2. QED
      BY <3>1, MusicTogether
  <2>3. e \in S
    BY <2>2
  <2>4. new = out \o <<e>>
    BY <2>1, <2>2, <2>3, AppendIsConcat
  <2>5. QED
    BY <2>4, Appending
<1>3. QED
  BY <1>1, <1>2

\* What the loop has merged after n events.
MergesTo(f, x, n) == f[0] = <<>> /\ \A k \in 1 .. n : f[k] = MergeOne(f[k - 1], x[k])

EventsOf(I) == [id : I, u : Durations, rest : BOOLEAN, tup : BOOLEAN]

LEMMA EventsAre ==
  ASSUME NEW I
  PROVE  \A e \in EventsOf(I) : IsEvent(e)
BY DEF EventsOf, IsEvent

LEMMA MergeOneIn ==
  ASSUME NEW I, NEW out \in Seq(EventsOf(I)), NEW e \in EventsOf(I)
  PROVE  MergeOne(out, e) \in Seq(EventsOf(I))
<1> DEFINE E == EventsOf(I)
           n == Len(out)
           l == [out[n] EXCEPT !.u = @ + e.u]
<1>1. CASE Merges(out, e)
  <2>1. MergeOne(out, e) = [out EXCEPT ![n] = l]
    BY <1>1 DEF MergeOne, Merges
  <2>2. n \in 1 .. n /\ out[n] \in E
    <3>1. n \in Nat \ {0}
      BY <1>1, EmptySeq DEF Merges
    <3>2. QED
      BY <3>1, ElementOfSeq
  <2>3. l \in E
    <3>1. out[n].u + e.u \in Durations
      BY <1>1 DEF Merges, Last
    <3>2. QED
      BY <2>2, <3>1 DEF EventsOf
  <2> HIDE DEF n, l, E
  <2>4. QED
    BY <2>1, <2>2, <2>3, ExceptSeq DEF n, E
<1>2. CASE ~Merges(out, e)
  <2>1. MergeOne(out, e) = Append(out, e)
    BY <1>2 DEF MergeOne, Merges
  <2>2. QED
    BY <2>1, AppendProperties
<1>3. QED
  BY <1>1, <1>2

LEMMA MergedBy ==
  ASSUME NEW x, IsMusic(x)
  PROVE  \E f : MergesTo(f, x, Len(x)) /\ MergeRests(x) = f[Len(x)]
<1> DEFINE n == Len(x)
           I == {x[i].id : i \in DOMAIN x}
           E == EventsOf(I)
           step == [y \in Seq(E) \X (1 .. n) |-> MergeOne(y[1], x[y[2]])]
<1>1. n \in Nat /\ DOMAIN x = 1 .. n
  BY MusicIs
<1>2. \A i \in 1 .. n : x[i] \in E
  <2>1. ASSUME NEW i \in 1 .. n
        PROVE  x[i] \in E
    <3>1. IsEvent(x[i]) /\ x[i].id \in I
      BY <1>1 DEF IsMusic
    <3> DEFINE e == x[i]
    <3> HIDE DEF e, I
    <3>2. e = [id |-> e.id, u |-> e.u, rest |-> e.rest, tup |-> e.tup] /\ e.id \in I
          /\ e.u \in Durations /\ e.rest \in BOOLEAN /\ e.tup \in BOOLEAN
      BY <3>1 DEF IsEvent, e
    <3>3. e \in E
      BY <3>2 DEF EventsOf
    <3>4. QED
      BY <3>3 DEF e
  <2>2. QED
    BY <2>1
<1> HIDE DEF n, I
<1>3. \A o \in Seq(E), k \in 1 .. n : MergeOne(o, x[k]) \in Seq(E)
  BY <1>2, MergeOneIn
<1> HIDE DEF E
<1>4. step \in [Seq(E) \X (1 .. n) -> Seq(E)]
  BY <1>3
<1>5. \A o \in Seq(E), k \in 1 .. n : step[<<o, k>>] = MergeOne(o, x[k])
  OBVIOUS
<1>6. <<>> \in Seq(E)
  BY EmptySeq
<1> HIDE DEF step
<1>7. PICK f \in [0 .. n -> Seq(E)] : Steps(f, <<>>, step, n)
  BY <1>1, <1>4, <1>6, Stepping
<1>8. f[0] = <<>> /\ \A k \in 1 .. n : f[k] = MergeOne(f[k - 1], x[k])
  <2>1. \A k \in 1 .. n : k - 1 \in 0 .. n
    BY <1>1
  <2>2. QED
    BY <1>5, <1>7, <2>1 DEF Steps
<1> DEFINE F(h) == [k \in 0 .. n |-> IF k = 0 THEN <<>> ELSE MergeOne(h[k - 1], x[k])]
           up == CHOOSE h : h = F(h)
<1>9. f = F(f)
  <2>1. \A k \in 0 .. n : f[k] = IF k = 0 THEN <<>> ELSE MergeOne(f[k - 1], x[k])
    BY <1>1, <1>8
  <2>2. QED
    BY <2>1
<1>10. up = F(up)
  BY <1>9
<1>11. MergeRests(x) = up[n]
  BY DEF MergeRests, n
<1> HIDE DEF up
<1>12. \A k \in 0 .. n : up[k] = IF k = 0 THEN <<>> ELSE MergeOne(up[k - 1], x[k])
  BY <1>10
<1>13. MergesTo(up, x, n)
  BY <1>1, <1>12 DEF MergesTo
<1>14. QED
  BY <1>11, <1>13 DEF n

\* w is as long as x, and its triplets are whole where those of x are.
IsMerged(x, w) ==
  /\ IsMusic(w) /\ Sounds(w) = Sounds(x)
  /\ Clean(x) => Clean(w)
  /\ Threes(x, 0, 0) => Threes(w, 0, 0)

\* Merging rests leaves a measure as long as it was and its triplets whole
\* (mergeAdjacentRests).
THEOREM MergingRests ==
  ASSUME NEW x, IsMusic(x), NEW w, w = MergeRests(x)
  PROVE  IsMerged(x, w)
<1> DEFINE n == Len(x)
<1>1. n \in Nat /\ DOMAIN x = 1 .. n /\ \A i \in 1 .. n : IsEvent(x[i])
  BY MusicIs DEF IsMusic
<1>2. PICK f : MergesTo(f, x, n) /\ w = f[n]
  BY MergedBy
<1>3. PICK up \in [0 .. n -> Nat] : Adds(up, Weights(x), n) /\ Total(Weights(x)) = up[n]
  BY <1>1, WeightsAre, TotalAdds
<1>4. up[0] = 0 /\ \A k \in 1 .. n : up[k] = up[k - 1] + Sounding(x[k])
  BY <1>1, <1>3 DEF Adds, Weights
<1>5. f[0] = <<>> /\ \A k \in 1 .. n : f[k] = MergeOne(f[k - 1], x[k])
  BY <1>2 DEF MergesTo
<1>6. Sounds(x) = up[n]
  BY <1>3, WeightsAre
<1> HIDE DEF n
<1> DEFINE Kept(c, k) == Counts(c, x) /\ c[0] = 0 => Threes(f[k], 0, c[k])
           S == {k \in Nat : k <= n =>
                   IsMusic(f[k]) /\ Sounds(f[k]) = up[k] /\ (Clean(x) => Clean(f[k]))
                   /\ \A c : Kept(c, k)}
<1>7. 0 \in S
  <2>1. \A c : Kept(c, 0)
    BY <1>5, ThreesEmpty
  <2> HIDE DEF Kept
  <2>2. QED
    BY <1>4, <1>5, <2>1, EmptyMusic
<1>8. ASSUME NEW k \in Nat, k \in S
      PROVE  k + 1 \in S
  <2>1. SUFFICES ASSUME k + 1 <= n
                 PROVE  /\ IsMusic(f[k + 1]) /\ Sounds(f[k + 1]) = up[k + 1]
                        /\ Clean(x) => Clean(f[k + 1])
                        /\ \A c : Kept(c, k + 1)
    OBVIOUS
  <2>2. k + 1 \in 1 .. n /\ k <= n /\ (k + 1) - 1 = k /\ k \in 0 .. n /\ k + 1 \in 0 .. n
    BY <1>1, <2>1
  <2>3. IsMusic(f[k]) /\ Sounds(f[k]) = up[k] /\ (Clean(x) => Clean(f[k])) /\ \A c : Kept(c, k)
    BY <1>8, <2>2
  <2>4. f[k + 1] = MergeOne(f[k], x[k + 1]) /\ up[k + 1] = up[k] + Sounding(x[k + 1])
    BY <1>4, <1>5, <2>2
  <2>5. IsEvent(x[k + 1])
    BY <1>1, <2>2
  <2>6. IsExtended(f[k], x[k + 1], f[k + 1])
    BY <2>3, <2>4, <2>5, MergingOne
  <2>7. Clean(x) => ~x[k + 1].tup
    BY <1>1, <2>2 DEF Clean
  <2>8. ASSUME NEW c, Counts(c, x), c[0] = 0
        PROVE  Threes(f[k + 1], 0, c[k + 1])
    <3>1. c[k] \in 0 .. 2 /\ c[k + 1] \in 0 .. 2 /\ Third(x[k + 1], c[k], c[k + 1])
      BY <2>2, <2>8 DEF Counts, n
    <3>2. Threes(f[k], 0, c[k])
      BY <2>3, <2>8
    <3>3. QED
      BY <2>6, <3>1, <3>2 DEF IsExtended
  <2>9. QED
    BY <2>3, <2>4, <2>6, <2>7, <2>8 DEF IsExtended
<1> HIDE DEF S
<1>9. n \in S
  BY <1>1, <1>7, <1>8, NumbersInduction
<1>10. IsMusic(f[n]) /\ Sounds(f[n]) = up[n] /\ (Clean(x) => Clean(f[n])) /\ \A c : Kept(c, n)
  BY <1>9 DEF S
<1>11. ASSUME Threes(x, 0, 0)
       PROVE  Threes(f[n], 0, 0)
  <2>1. PICK c : Counts(c, x) /\ c[0] = 0 /\ c[n] = 0
    BY <1>11 DEF Threes, n
  <2>2. QED
    BY <1>10, <2>1
<1>12. QED
  BY <1>2, <1>6, <1>10, <1>11 DEF IsMerged

-----------------------------------------------------------------------------
(* The ids of a measure's events *)

\* The events of y have no id, or one of an event of x.
Within(x, y) == \A I : NoId \in I /\ x \in Seq(EventsOf(I)) => y \in Seq(EventsOf(I))

LEMMA EventIn ==
  ASSUME NEW e, IsEvent(e), NEW I, e.id \in I
  PROVE  e \in EventsOf(I)
<1>1. /\ e = [id |-> e.id, u |-> e.u, rest |-> e.rest, tup |-> e.tup]
      /\ e.u \in Durations /\ e.rest \in BOOLEAN /\ e.tup \in BOOLEAN
  BY DEF IsEvent
<1> DEFINE d == e.id
           u == e.u
           r == e.rest
           t == e.tup
<1>2. e = [id |-> d, u |-> u, rest |-> r, tup |-> t] /\ d \in I /\ u \in Durations
      /\ r \in BOOLEAN /\ t \in BOOLEAN
  BY <1>1
<1> HIDE DEF d, u, r, t
<1>3. QED
  BY <1>2 DEF EventsOf

\* Events with ids of I.
LEMMA MusicIn ==
  ASSUME NEW x, IsMusic(x), NEW I, \A i \in 1 .. Len(x) : x[i].id \in I
  PROVE  x \in Seq(EventsOf(I))
<1>1. Len(x) \in Nat /\ DOMAIN x = 1 .. Len(x) /\ x \in Seq({x[i] : i \in DOMAIN x})
  BY MusicIs
<1>2. \A i \in 1 .. Len(x) : x[i] \in EventsOf(I)
  <2>1. ASSUME NEW i \in 1 .. Len(x)
        PROVE  x[i] \in EventsOf(I)
    <3>1. IsEvent(x[i]) /\ x[i].id \in I
      BY <1>1 DEF IsMusic
    <3>2. QED
      BY <3>1, EventIn
  <2>2. QED
    BY <2>1
<1>3. x = [i \in 1 .. Len(x) |-> x[i]]
  BY <1>1, LenProperties
<1>4. x \in [1 .. Len(x) -> EventsOf(I)]
  BY <1>2, <1>3
<1>5. QED
  BY <1>1, <1>4, SeqDef

LEMMA IdsIn ==
  ASSUME NEW I, NEW x \in Seq(EventsOf(I))
  PROVE  /\ IsMusic(x) /\ Len(x) \in Nat /\ DOMAIN x = 1 .. Len(x)
         /\ \A i \in 1 .. Len(x) : x[i] \in EventsOf(I) /\ x[i].id \in I
<1>1. Len(x) \in Nat /\ DOMAIN x = 1 .. Len(x) /\ \A i \in 1 .. Len(x) : x[i] \in EventsOf(I)
  BY LenProperties, ElementOfSeq
<1>2. IsMusic(x)
  BY EventsAre, MusicOf
<1>3. \A e \in EventsOf(I) : e.id \in I
  BY DEF EventsOf
<1>4. QED
  BY <1>1, <1>2, <1>3

\* A stretch of it, put in or taken from elsewhere.
LEMMA PickedIn ==
  ASSUME NEW I, NEW x \in Seq(EventsOf(I)), NEW y, IsMusic(y),
         \A i \in 1 .. Len(y) : \E j \in 1 .. Len(x) : y[i] = x[j]
  PROVE  y \in Seq(EventsOf(I))
<1>1. \A j \in 1 .. Len(x) : x[j].id \in I
  BY IdsIn
<1>2. \A i \in 1 .. Len(y) : y[i].id \in I
  BY <1>1
<1>3. QED
  BY <1>2, MusicIn

LEMMA CutIn ==
  ASSUME NEW I, NEW x \in Seq(EventsOf(I)), NEW k \in Nat, k <= Len(x),
         NEW f, NEW r, IsCut(x, k, f, r)
  PROVE  f \in Seq(EventsOf(I)) /\ r \in Seq(EventsOf(I))
<1>1. Len(x) \in Nat
  BY IdsIn
<1>2. IsMusic(f) /\ Len(f) = k /\ \A i \in 1 .. k : f[i] = x[i]
  BY DEF IsCut
<1>3. IsMusic(r) /\ Len(r) = Len(x) - k /\ \A i \in 1 .. Len(x) - k : r[i] = x[i + k]
  BY DEF IsCut
<1>4. \A i \in 1 .. k : i \in 1 .. Len(x)
  BY <1>1
<1>5. \A i \in 1 .. Len(x) - k : i + k \in 1 .. Len(x)
  BY <1>1
<1>6. f \in Seq(EventsOf(I))
  BY <1>2, <1>4, PickedIn
<1>7. r \in Seq(EventsOf(I))
  <2>1. \A i \in 1 .. Len(r) : \E j \in 1 .. Len(x) : r[i] = x[j]
    BY <1>3, <1>5
  <2>2. QED
    BY <1>3, <2>1, PickedIn
<1>8. QED
  BY <1>6, <1>7

LEMMA TurnedIn ==
  ASSUME NEW I, NEW x \in Seq(EventsOf(I)), NEW w, IsTurned(x, w)
  PROVE  w \in Seq(EventsOf(I))
<1>1. Len(x) \in Nat
  BY IdsIn
<1>2. IsMusic(w) /\ Len(w) = Len(x) /\ \A i \in 1 .. Len(x) : w[i] = x[Len(x) - i + 1]
  BY DEF IsTurned
<1>3. \A i \in 1 .. Len(x) : Len(x) - i + 1 \in 1 .. Len(x)
  BY <1>1
<1>4. QED
  BY <1>2, <1>3, PickedIn

\* What is written anew has no ids.
LEMMA SpelledIn ==
  ASSUME NEW n, NEW x, Spells(x, n), NEW I, NoId \in I
  PROVE  x \in Seq(EventsOf(I))
<1>1. IsMusic(x) /\ \A i \in DOMAIN x : x[i].id = NoId
  BY DEF Spells
<1>2. DOMAIN x = 1 .. Len(x)
  BY <1>1, MusicIs
<1>3. QED
  BY <1>1, <1>2, MusicIn

LEMMA JoinedIn ==
  ASSUME NEW I, NEW x \in Seq(EventsOf(I)), NEW y \in Seq(EventsOf(I)), NEW z \in Seq(EventsOf(I))
  PROVE  x \o y \in Seq(EventsOf(I)) /\ x \o y \o z \in Seq(EventsOf(I))
<1> DEFINE E == EventsOf(I)
<1> HIDE DEF E
<1>1. x \in Seq(E) /\ y \in Seq(E) /\ z \in Seq(E)
  BY DEF E
<1>2. x \o y \in Seq(E)
  BY <1>1, ConcatProperties
<1>3. (x \o y) \o z \in Seq(E)
  BY <1>1, <1>2, ConcatProperties
<1>4. QED
  BY <1>2, <1>3 DEF E

LEMMA OneIn ==
  ASSUME NEW I, NEW e \in EventsOf(I)
  PROVE  <<e>> \in Seq(EventsOf(I))
<1> DEFINE E == EventsOf(I)
<1> HIDE DEF E
<1>1. e \in E
  BY DEF E
<1>2. <<e>> \in Seq(E)
  BY <1>1
<1>3. QED
  BY <1>2 DEF E

LEMMA InMerged ==
  ASSUME NEW I, NEW x \in Seq(EventsOf(I)), NEW w, w = MergeRests(x)
  PROVE  w \in Seq(EventsOf(I))
<1> DEFINE n == Len(x)
           E == EventsOf(I)
<1>1. IsMusic(x) /\ n \in Nat /\ \A i \in 1 .. n : x[i] \in E
  BY IdsIn
<1>2. PICK f : MergesTo(f, x, n) /\ w = f[n]
  BY <1>1, MergedBy
<1>3. f[0] = <<>> /\ \A k \in 1 .. n : f[k] = MergeOne(f[k - 1], x[k])
  BY <1>2 DEF MergesTo
<1>4. \A o \in Seq(E), e \in E : MergeOne(o, e) \in Seq(E)
  BY MergeOneIn
<1> HIDE DEF n, E
<1> DEFINE S == {k \in Nat : k <= n => f[k] \in Seq(E)}
<1>5. 0 \in S
  BY <1>3, EmptySeq
<1>6. ASSUME NEW k \in Nat, k \in S
      PROVE  k + 1 \in S
  <2>1. SUFFICES ASSUME k + 1 <= n
                 PROVE  f[k + 1] \in Seq(E)
    OBVIOUS
  <2>2. k + 1 \in 1 .. n /\ k <= n /\ (k + 1) - 1 = k
    BY <1>1, <2>1
  <2>3. f[k] \in Seq(E) /\ x[k + 1] \in E /\ f[k + 1] = MergeOne(f[k], x[k + 1])
    BY <1>1, <1>3, <1>6, <2>2
  <2>4. QED
    BY <1>4, <2>3
<1> HIDE DEF S
<1>7. n \in S
  BY <1>1, <1>5, <1>6, NumbersInduction
<1>8. f[n] \in Seq(E)
  BY <1>1, <1>7 DEF S
<1>9. QED
  BY <1>2, <1>8 DEF E

-----------------------------------------------------------------------------
(* Measures in time *)

LEMMA SameMusic ==
  ASSUME NEW x, NEW y, IsMusic(x), IsMusic(y), Len(x) = Len(y), \A i \in 1 .. Len(x) : x[i] = y[i]
  PROVE  x = y
<1>1. PICK S : x \in Seq(S) /\ y \in Seq(S) /\ \A e \in S : IsEvent(e)
  BY MusicTogether
<1>2. QED
  BY <1>1, SeqEqual

\* A measure's events fit and its triplets are whole.
InTime(x) == IsMusic(x) /\ Sounds(x) <= 3 * Capacity /\ Threes(x, 0, 0)
FullBar(x) == IsMusic(x) /\ Sounds(x) = 3 * Capacity /\ Clean(x)

\* y, for x, is in time, and full if x was full and without triplets.
Keeps(x, y) == InTime(y) /\ (FullBar(x) => FullBar(y)) /\ Within(x, y)

LEMMA KeepsSelf ==
  ASSUME NEW x, InTime(x)
  PROVE  Keeps(x, x)
BY DEF Keeps, Within

LEMMA KeepsSound ==
  ASSUME NEW x, NEW y, InTime(x), IsMusic(y), Sounds(y) = Sounds(x), Threes(y, 0, 0),
         Clean(x) => Clean(y), Within(x, y)
  PROVE  Keeps(x, y)
BY DEF Keeps, InTime, FullBar

LEMMA KeepsMerged ==
  ASSUME NEW x, NEW y, Keeps(x, y), NEW w, w = MergeRests(y)
  PROVE  Keeps(x, w)
<1>1. IsMusic(y)
  BY DEF Keeps, InTime
<1>2. IsMerged(y, w)
  BY <1>1, MergingRests
<1>3. Within(x, w)
  BY InMerged DEF Keeps, Within
<1>4. QED
  BY <1>2, <1>3 DEF IsMerged, Keeps, InTime, FullBar

\* The events before the i-th, the i-th and those behind it.
IsParted(x, i, b, a) ==
  /\ IsMusic(b) /\ IsMusic(a) /\ IsEvent(x[i]) /\ Len(b) = i - 1 /\ Len(a) = Len(x) - i
  /\ \A j \in 1 .. i - 1 : b[j] = x[j]
  /\ \A j \in 1 .. Len(x) - i : a[j] = x[j + i]
  /\ Sounds(x) = Sounds(b) + Sounding(x[i]) + Sounds(a)
  /\ Clean(x) => Clean(b) /\ Clean(a) /\ ~x[i].tup
  /\ ~x[i].tup /\ Threes(x, 0, 0) => Threes(b, 0, 0) /\ Threes(a, 0, 0)

LEMMA Parting ==
  ASSUME NEW x, IsMusic(x), NEW i \in 1 .. Len(x), NEW b, NEW a, b = Before(x, i), a = After(x, i)
  PROVE  IsParted(x, i, b, a)
<1> DEFINE n == Len(x)
           k == i - 1
           r == Ending(x, k)
           y == <<x[i]>>
<1>1. n \in Nat /\ DOMAIN x = 1 .. n /\ IsEvent(x[i])
  BY MusicIs DEF IsMusic
<1>2. k \in Nat /\ k <= n /\ i \in Nat /\ i <= n /\ k + 1 = i /\ 1 <= n - k
  BY <1>1
<1>3. b = Opening(x, k) /\ a = Ending(x, i)
  BY DEF Before, After, Opening, Ending
<1>4. IsCut(x, k, b, r)
  <2> HIDE DEF k, r
  <2>1. QED
    BY <1>2, <1>3, Cutting DEF r
<1> DEFINE c == Opening(x, i)
<1>5. IsCut(x, i, c, a)
  <2> HIDE DEF c
  <2>1. QED
    BY <1>2, <1>3, Cutting DEF c
<1> HIDE DEF n, k, r, c
<1>6. /\ IsMusic(b) /\ Len(b) = k /\ \A j \in 1 .. k : b[j] = x[j]
      /\ IsMusic(a) /\ Len(a) = n - i /\ \A j \in 1 .. n - i : a[j] = x[j + i]
      /\ IsMusic(c) /\ Len(c) = i /\ \A j \in 1 .. i : c[j] = x[j]
      /\ Sounds(x) = Sounds(c) + Sounds(a) /\ (Clean(x) <=> Clean(c) /\ Clean(a))
  BY <1>4, <1>5 DEF IsCut, n
<1>7. IsMusic(y) /\ Sounds(y) = Sounding(x[i]) /\ (Clean(y) <=> ~x[i].tup) /\ Len(y) = 1 /\ y[1] = x[i]
  BY <1>1, OneEvent
<1> HIDE DEF y
<1> DEFINE z == b \o y
<1>8. IsJoined(b, y, z)
  BY <1>6, <1>7, Joining
<1> HIDE DEF z
<1>9. c = z
  <2>1. IsMusic(z) /\ Len(z) = i /\ \A j \in 1 .. i : z[j] = IF j <= k THEN b[j] ELSE y[j - k]
    BY <1>2, <1>6, <1>7, <1>8 DEF IsJoined
  <2>2. ASSUME NEW j \in 1 .. i
        PROVE  c[j] = z[j]
    <3>1. CASE j <= k
      <4>1. j \in 1 .. k
        BY <1>2, <3>1
      <4>2. QED
        BY <1>6, <2>1, <3>1, <4>1
    <3>2. CASE ~(j <= k)
      <4>1. j = i /\ j - k = 1
        BY <1>2, <3>2
      <4>2. QED
        BY <1>6, <1>7, <2>1, <3>2, <4>1
    <3>3. QED
      BY <3>1, <3>2
  <2>3. QED
    BY <1>6, <2>1, <2>2, SameMusic
<1>10. Sounds(c) = Sounds(b) + Sounding(x[i]) /\ (Clean(c) <=> Clean(b) /\ ~x[i].tup)
  BY <1>7, <1>8, <1>9 DEF IsJoined
<1>11. ASSUME ~x[i].tup, Threes(x, 0, 0)
       PROVE  Threes(b, 0, 0) /\ Threes(a, 0, 0)
  <2>1. PICK p : CutInThrees(x, k, b, r, 0, p, 0)
    BY <1>2, <1>4, <1>11, ThreesCut DEF n
  <2>2. PICK q : CutInThrees(x, i, c, a, 0, q, 0)
    BY <1>2, <1>5, <1>11, ThreesCut DEF n
  <2>3. p = 0
    BY <1>2, <1>11, <2>1 DEF CutInThrees, ClosedAt
  <2>4. q = 0
    BY <1>2, <1>11, <2>2 DEF CutInThrees, ClosedAt
  <2>5. QED
    BY <2>1, <2>2, <2>3, <2>4 DEF CutInThrees
<1>12. Sounds(x) = Sounds(b) + Sounding(x[i]) + Sounds(a)
  BY <1>6, <1>10
<1>13. QED
  BY <1>1, <1>6, <1>10, <1>11, <1>12 DEF IsParted, n, k

LEMMA PartedIn ==
  ASSUME NEW I, NEW x \in Seq(EventsOf(I)), NEW i \in 1 .. Len(x), NEW b, NEW a, IsParted(x, i, b, a)
  PROVE  b \in Seq(EventsOf(I)) /\ a \in Seq(EventsOf(I))
<1>1. Len(x) \in Nat
  BY IdsIn
<1>2. IsMusic(b) /\ Len(b) = i - 1 /\ \A j \in 1 .. i - 1 : b[j] = x[j]
  BY DEF IsParted
<1>3. IsMusic(a) /\ Len(a) = Len(x) - i /\ \A j \in 1 .. Len(x) - i : a[j] = x[j + i]
  BY DEF IsParted
<1>4. \A j \in 1 .. i - 1 : j \in 1 .. Len(x)
  BY <1>1
<1>5. \A j \in 1 .. Len(x) - i : j + i \in 1 .. Len(x)
  BY <1>1
<1>6. b \in Seq(EventsOf(I))
  BY <1>2, <1>4, PickedIn
<1>7. a \in Seq(EventsOf(I))
  <2>1. \A j \in 1 .. Len(a) : \E k \in 1 .. Len(x) : a[j] = x[k]
    BY <1>3, <1>5
  <2>2. QED
    BY <1>3, <2>1, PickedIn
<1>8. QED
  BY <1>6, <1>7

\* Three sequences of events, one after the other.
IsThree(b, m, a, y) ==
  /\ IsMusic(y) /\ Sounds(y) = Sounds(b) + Sounds(m) + Sounds(a)
  /\ Clean(y) <=> Clean(b) /\ Clean(m) /\ Clean(a)
  /\ Threes(b, 0, 0) /\ Threes(m, 0, 0) /\ Threes(a, 0, 0) => Threes(y, 0, 0)

LEMMA ThreeJoined ==
  ASSUME NEW b, NEW m, NEW a, IsMusic(b), IsMusic(m), IsMusic(a), NEW y, y = b \o m \o a
  PROVE  IsThree(b, m, a, y)
<1> DEFINE z == b \o m
<1>1. IsJoined(b, m, z)
  BY Joining
<1>2. IsMusic(z)
  BY <1>1 DEF IsJoined
<1> HIDE DEF z
<1>3. y = z \o a
  BY DEF z
<1>4. IsJoined(z, a, y)
  BY <1>2, <1>3, Joining
<1>5. ASSUME Threes(b, 0, 0), Threes(m, 0, 0), Threes(a, 0, 0)
      PROVE  Threes(y, 0, 0)
  <2>1. Threes(z, 0, 0)
    BY <1>1, <1>5, ThreesJoined
  <2>2. QED
    BY <1>2, <1>4, <1>5, <2>1, ThreesJoined
<1>6. Sounds(y) = Sounds(b) + Sounds(m) + Sounds(a)
  BY <1>1, <1>4 DEF IsJoined
<1>7. QED
  BY <1>1, <1>4, <1>5, <1>6 DEF IsThree, IsJoined

\* A rest in the place of an event that is no member of a triplet.
LEMMA RemovedKeeps ==
  ASSUME NEW x, InTime(x), NEW i \in 1 .. Len(x), ~x[i].tup, NEW w, w = Removed(x, i)
  PROVE  Keeps(x, w)
<1> DEFINE b == Before(x, i)
           a == After(x, i)
           m == Rests(x[i].u)
           y == b \o m \o a
<1>1. IsMusic(x) /\ Threes(x, 0, 0)
  BY DEF InTime
<1>2. IsParted(x, i, b, a)
  BY <1>1, Parting
<1>3. x[i].u \in Nat /\ Sounding(x[i]) = 3 * x[i].u
  BY <1>2, EventIs DEF IsParted
<1>4. Spells(m, x[i].u)
  BY <1>3, RestsSpell
<1>5. IsMusic(m) /\ Threes(m, 0, 0) /\ Clean(m) /\ Sounds(m) = Sounding(x[i])
  BY <1>3, <1>4, ThreesClean DEF Spells
<1>11. Within(x, y)
  <2>1. SUFFICES ASSUME NEW I, NoId \in I, x \in Seq(EventsOf(I))
                 PROVE  y \in Seq(EventsOf(I))
    BY DEF Within
  <2> HIDE DEF b, a, m
  <2>2. b \in Seq(EventsOf(I)) /\ a \in Seq(EventsOf(I))
    BY <1>2, <2>1, PartedIn
  <2>3. m \in Seq(EventsOf(I))
    BY <1>4, <2>1, SpelledIn
  <2>4. QED
    BY <2>2, <2>3, JoinedIn
<1> HIDE DEF b, a, m, y
<1>6. IsThree(b, m, a, y)
  BY <1>2, <1>5, ThreeJoined DEF IsParted, y
<1>7. Sounds(y) = Sounds(x) /\ (Clean(x) => Clean(y)) /\ IsMusic(y) /\ Threes(y, 0, 0)
  BY <1>1, <1>2, <1>5, <1>6 DEF IsThree, IsParted
<1>8. Keeps(x, y)
  BY <1>7, <1>11, KeepsSound
<1>9. w = MergeRests(y)
  BY DEF Removed, y, b, a, m
<1>10. QED
  BY <1>8, <1>9, KeepsMerged

-----------------------------------------------------------------------------
(* Making room *)

LEMMA TakenIs ==
  ASSUME NEW x, IsMusic(x), NEW n \in Nat, NEW k, k = Taken(x, n)
  PROVE  k \in 0 .. Len(x) /\ (Units(SubSeq(x, 1, k)) >= n \/ k = Len(x))
<1> DEFINE m == Len(x)
           U(j) == Units(SubSeq(x, 1, j))
           S == {j \in 0 .. m : U(j) >= n \/ j = m}
<1>1. m \in Nat
  BY MusicIs
<1>2. \A j \in 0 .. m : U(j) \in Nat
  <2>1. ASSUME NEW j \in 0 .. m
        PROVE  U(j) \in Nat
    <3>1. j \in Nat /\ j <= Len(x)
      BY <1>1
    <3>2. IsCut(x, j, Opening(x, j), Ending(x, j))
      BY <3>1, Cutting
    <3>3. IsMusic(Opening(x, j))
      BY <3>2 DEF IsCut
    <3>4. QED
      BY <3>3, WeightsAre DEF Opening
  <2>2. QED
    BY <2>1
<1>3. m \in S /\ S \subseteq Nat
  BY <1>1
<1>4. PICK j \in S : \A i \in S : j <= i
  BY <1>3, Smallest
<1>5. ASSUME NEW i \in 0 .. (j - 1)
      PROVE  U(i) < n
  <2>1. j \in 0 .. m
    BY <1>4
  <2>2. i \in 0 .. m /\ i \notin S
    BY <1>1, <1>4, <2>1
  <2>3. ~(U(i) >= n) /\ U(i) \in Nat
    BY <1>2, <2>2
  <2> HIDE DEF U
  <2>4. QED
    BY <2>3
<1>6. j \in 0 .. m /\ (U(j) >= n \/ j = m)
  BY <1>4
<1>7. k \in 0 .. m /\ (U(k) >= n \/ k = m)
  BY <1>5, <1>6 DEF Taken
<1>8. QED
  BY <1>7

\* Room for n units at the front of x, when no triplet is in the way.
IsRoom(x, n, room) ==
  /\ IsMusic(room.remaining) /\ room.leftover \in Nat
  /\ Clean(x) => Clean(room.remaining)
  /\ Threes(x, 0, 0) => Threes(room.remaining, 0, 0)
  /\ ~room.short => 3 * n + 3 * room.leftover + Sounds(room.remaining) = Sounds(x)
  /\ room.short => room.leftover = 0 /\ Sounds(room.remaining) = 0 /\ Sounds(x) < 3 * n

LEMMA RoomMade ==
  ASSUME NEW x, IsMusic(x), NEW n \in Nat, NEW room, room = MakeRoom(x, n), ~room.blocked
  PROVE  IsRoom(x, n, room)
<1> DEFINE k == Taken(x, n)
           f == Opening(x, k)
           r == Ending(x, k)
           freed == Units(f)
<1>1. k \in 0 .. Len(x) /\ (freed >= n \/ k = Len(x)) /\ Len(x) \in Nat
  BY TakenIs, MusicIs DEF Opening
<1>2. k \in Nat /\ k <= Len(x)
  BY <1>1
<1> HIDE DEF k
<1>3. IsCut(x, k, f, r)
  BY <1>2, Cutting
<1>4. /\ room.blocked = (\E i \in 1 .. k : x[i].tup) /\ room.remaining = r
      /\ room.leftover = (IF freed > n THEN freed - n ELSE 0) /\ (room.short <=> freed < n)
  BY DEF MakeRoom, k, Opening, Ending
<1> HIDE DEF f, r
<1>5. /\ IsMusic(f) /\ Len(f) = k /\ \A i \in 1 .. k : f[i] = x[i]
      /\ IsMusic(r) /\ Sounds(x) = Sounds(f) + Sounds(r) /\ Len(r) = Len(x) - k
      /\ Clean(x) => Clean(r)
  BY <1>3 DEF IsCut
<1>6. Clean(f)
  BY <1>4, <1>5, MusicIs DEF Clean
<1>7. Sounds(f) = 3 * freed /\ freed \in Nat /\ Sounds(r) \in Nat
  BY <1>5, <1>6, SoundsWritten, WeightsAre
<1>8. Threes(x, 0, 0) => Threes(r, 0, 0)
  <2>1. SUFFICES ASSUME Threes(x, 0, 0) PROVE Threes(r, 0, 0)
    OBVIOUS
  <2>2. PICK p : CutInThrees(x, k, f, r, 0, p, 0) /\ (k = 0 => p = 0)
    BY <1>2, <1>3, <2>1, ThreesCut
  <2>3. p = 0
    <3>1. CASE k = 0
      BY <2>2, <3>1
    <3>2. CASE k # 0
      <4>1. k \in 1 .. Len(x) /\ k \in 1 .. k
        BY <1>1, <3>2
      <4>2. ~x[k].tup
        BY <1>4, <4>1
      <4>3. QED
        BY <2>2, <4>1, <4>2 DEF CutInThrees, ClosedAt
    <3>3. QED
      BY <3>1, <3>2
  <2>4. QED
    BY <2>2, <2>3 DEF CutInThrees
<1> HIDE DEF freed
<1>9. room.leftover \in Nat
  BY <1>4, <1>7
<1>10. ASSUME ~room.short
       PROVE  3 * n + 3 * room.leftover + Sounds(r) = Sounds(x)
  <2>1. ~(freed < n) /\ room.leftover = (IF freed > n THEN freed - n ELSE 0)
    BY <1>4, <1>10
  <2>2. QED
    BY <1>5, <1>7, <2>1
<1>11. ASSUME room.short
       PROVE  room.leftover = 0 /\ Sounds(r) = 0 /\ Sounds(x) < 3 * n
  <2>0. freed < n /\ room.leftover = (IF freed > n THEN freed - n ELSE 0)
    BY <1>4, <1>11
  <2>1. freed < n /\ room.leftover = 0 /\ k = Len(x)
    BY <1>1, <1>7, <2>0
  <2>2. r = <<>>
    <3>1. Len(r) = 0
      BY <1>1, <1>5, <2>1
    <3>2. r \in Seq({r[i] : i \in DOMAIN r})
      BY <1>5, MusicIs
    <3>3. QED
      BY <3>1, <3>2, EmptySeq
  <2>3. Sounds(r) = 0
    BY <2>2, EmptyMusic
  <2>4. QED
    BY <1>5, <1>7, <2>1, <2>3
<1>12. QED
  BY <1>4, <1>5, <1>8, <1>9, <1>10, <1>11 DEF IsRoom

LEMMA RoomIn ==
  ASSUME NEW I, NEW x \in Seq(EventsOf(I)), NEW n \in Nat, NEW room, room = MakeRoom(x, n)
  PROVE  room.remaining \in Seq(EventsOf(I))
<1> DEFINE k == Taken(x, n)
           f == Opening(x, k)
           r == Ending(x, k)
<1>1. IsMusic(x) /\ Len(x) \in Nat
  BY IdsIn
<1>2. k \in 0 .. Len(x)
  BY <1>1, TakenIs
<1>3. k \in Nat /\ k <= Len(x)
  BY <1>1, <1>2
<1>4. room.remaining = r
  BY DEF MakeRoom, Ending
<1> HIDE DEF k
<1>5. IsCut(x, k, f, r)
  BY <1>1, <1>3, Cutting
<1> HIDE DEF f, r
<1>6. QED
  BY <1>3, <1>4, <1>5, CutIn

LEMMA RefillIn ==
  ASSUME NEW I, NoId \in I, NEW room, room.remaining \in Seq(EventsOf(I)), room.leftover \in Nat,
         NEW z, z = Refill(room)
  PROVE  z \in Seq(EventsOf(I))
<1>1. Spells(Rests(room.leftover), room.leftover)
  BY RestsSpell
<1>2. Rests(room.leftover) \in Seq(EventsOf(I))
  BY <1>1, SpelledIn
<1>3. QED
  BY <1>2, JoinedIn DEF Refill

\* What is left of x when n units have come to its front.
IsRefill(x, n, z) ==
  /\ IsMusic(z)
  /\ Clean(x) => Clean(z)
  /\ Threes(x, 0, 0) => Threes(z, 0, 0)
  /\ \/ Sounds(z) + 3 * n = Sounds(x)
     \/ Sounds(z) = 0 /\ Sounds(x) < 3 * n

LEMMA Refilling ==
  ASSUME NEW x, IsMusic(x), NEW n \in Nat, NEW room, IsRoom(x, n, room), NEW z, z = Refill(room)
  PROVE  IsRefill(x, n, z) /\ (~room.short => Sounds(z) + 3 * n = Sounds(x))
<1> DEFINE rests == Rests(room.leftover)
           r == room.remaining
<1>1. room.leftover \in Nat /\ IsMusic(r) /\ Sounds(r) \in Nat
  BY WeightsAre DEF IsRoom
<1>2. Spells(rests, room.leftover)
  BY <1>1, RestsSpell
<1>3. IsMusic(rests) /\ Clean(rests) /\ Sounds(rests) = 3 * room.leftover /\ Threes(rests, 0, 0)
  BY <1>2, ThreesClean DEF Spells
<1> HIDE DEF rests
<1>4. IsJoined(rests, r, z)
  BY <1>1, <1>3, Joining DEF Refill, rests
<1>5. Threes(r, 0, 0) => Threes(z, 0, 0)
  BY <1>1, <1>3, <1>4, ThreesJoined
<1> HIDE DEF r
<1>6. Sounds(z) = 3 * room.leftover + Sounds(r) /\ Sounds(z) \in Nat /\ Sounds(x) \in Nat
  BY <1>3, <1>4, WeightsAre DEF IsJoined
<1>7. ASSUME ~room.short
      PROVE  Sounds(z) + 3 * n = Sounds(x)
  <2>1. 3 * n + 3 * room.leftover + Sounds(r) = Sounds(x)
    BY <1>7 DEF IsRoom, r
  <2>2. QED
    BY <1>1, <1>6, <2>1
<1>8. ASSUME room.short
      PROVE  Sounds(z) = 0 /\ Sounds(x) < 3 * n
  BY <1>6, <1>8 DEF IsRoom, r
<1>9. QED
  BY <1>3, <1>4, <1>5, <1>7, <1>8 DEF IsRefill, IsRoom, IsJoined, r

-----------------------------------------------------------------------------
(* A note that goes into a bar *)

LEMMA SnapIs ==
  ASSUME NEW x, IsMusic(x), NEW pos \in Nat, NEW at, at = Snap(x, pos)
  PROVE  at \in 0 .. Len(x)
<1> DEFINE n == Len(x)
           D(i) == Distance(x, i, pos)
           S == {d \in Nat : \E i \in 0 .. n : D(i) = d}
<1>1. n \in Nat
  BY MusicIs
<1>2. \A i \in 0 .. n : D(i) \in Nat
  <2>1. ASSUME NEW i \in 0 .. n
        PROVE  D(i) \in Nat
    <3> DEFINE here == Units(SubSeq(x, 1, i))
    <3>1. i \in Nat /\ i <= Len(x)
      BY <1>1
    <3>2. IsCut(x, i, Opening(x, i), Ending(x, i))
      BY <3>1, Cutting
    <3>3. here \in Nat
      BY <3>2, WeightsAre DEF IsCut, Opening
    <3>4. D(i) = IF here < pos THEN pos - here ELSE here - pos
      BY DEF Distance
    <3> HIDE DEF here, D
    <3>5. QED
      BY <3>3, <3>4
  <2>2. QED
    BY <2>1
<1> HIDE DEF D
<1>3. D(0) \in S
  BY <1>1, <1>2
<1>4. PICK d \in S : \A c \in S : d <= c
  BY <1>3, Smallest
<1> DEFINE T == {i \in 0 .. n : D(i) = d}
<1>5. T \subseteq Nat /\ T # {}
  BY <1>1, <1>4
<1>6. PICK i \in T : \A j \in T : i <= j
  BY <1>5, Smallest
<1>7. ASSUME NEW j \in 0 .. n
      PROVE  D(i) < D(j) \/ (D(i) = D(j) /\ i <= j)
  <2>1. D(j) \in S /\ D(j) \in Nat /\ d \in Nat /\ D(i) = d
    BY <1>2, <1>4, <1>6, <1>7
  <2>2. d <= D(j)
    BY <1>4, <2>1
  <2>3. CASE D(j) = d
    BY <1>6, <1>7, <2>1, <2>3
  <2>4. CASE D(j) # d
    BY <2>1, <2>2, <2>4
  <2>5. QED
    BY <2>3, <2>4
<1>8. i \in 0 .. n
  BY <1>6
<1>9. at \in 0 .. n
  BY <1>7, <1>8 DEF Snap, D
<1>10. QED
  BY <1>9

LEMMA CloneIs ==
  ASSUME NEW e, IsEvent(e), NEW c, c = Clone(e)
  PROVE  /\ IsEvent(c) /\ c.u = e.u /\ c.rest = e.rest /\ c.tup = e.tup /\ Sounding(c) = Sounding(e)
         /\ c.id = NoId
<1>1. e = [id |-> e.id, u |-> e.u, rest |-> e.rest, tup |-> e.tup]
  BY DEF IsEvent
<1>2. c = [id |-> NoId, u |-> e.u, rest |-> e.rest, tup |-> e.tup]
  BY <1>1 DEF Clone
<1>3. QED
  BY <1>2 DEF IsEvent, Sounding

\* A clone of another length.
Sized(e, u) == [Clone(e) EXCEPT !.u = u]

LEMMA SizedIs ==
  ASSUME NEW e, IsEvent(e), NEW u \in Durations, NEW c, c = Sized(e, u)
  PROVE  IsEvent(c) /\ c.u = u /\ c.rest = e.rest /\ c.tup = e.tup /\ c.id = NoId
<1>1. e = [id |-> e.id, u |-> e.u, rest |-> e.rest, tup |-> e.tup]
  BY DEF IsEvent
<1>2. c = [id |-> NoId, u |-> u, rest |-> e.rest, tup |-> e.tup]
  BY <1>1 DEF Clone, Sized
<1>3. c.id = NoId /\ c.u = u /\ c.rest = e.rest /\ c.tup = e.tup
  BY <1>2
<1>4. e.rest \in BOOLEAN /\ e.tup \in BOOLEAN
  BY DEF IsEvent
<1>5. c = [id |-> c.id, u |-> c.u, rest |-> c.rest, tup |-> c.tup]
  BY <1>2, <1>3
<1>6. QED
  BY <1>3, <1>4, <1>5 DEF IsEvent

\* A piece of a note in a bar is no longer than the bar, and that in the bar it
\* starts in no longer than the room there.
LEMMA PartIs ==
  ASSUME NEW n \in Nat, NEW room \in Nat, NEW g \in 0 .. ExtraBars(n, room),
         NEW p, p = PartIn(n, room, g)
  PROVE  /\ p \in Nat /\ (g # 0 => p <= Capacity)
         /\ g = 0 => p = IF n <= room THEN n ELSE room
<1>1. Capacity \in Nat /\ Capacity # 0
  BY MeasuresAssumption
<1>2. CASE g = 0
  BY <1>2 DEF PartIn
<1>3. CASE g # 0
  <2> DEFINE q == n - room
             left == n - room - (g - 1) * Capacity
             x == ExtraBars(n, room)
  <2>1. p = IF left < Capacity THEN left ELSE Capacity
    BY <1>3 DEF PartIn
  <2>2. x = IF n <= room THEN 0 ELSE (q + Capacity - 1) \div Capacity
    BY DEF ExtraBars
  <2>3. g \in Nat /\ g <= x /\ 1 <= g
    <3>1. g \in 0 .. x
      OBVIOUS
    <3> HIDE DEF x
    <3>2. QED
      BY <1>3, <3>1
  <2>4. ~(n <= room)
    <3> HIDE DEF q
    <3>1. n <= room => x = 0
      BY <2>2
    <3> HIDE DEF x
    <3>2. QED
      BY <2>3, <3>1
  <2>5. g <= (q + Capacity - 1) \div Capacity
    BY <2>2, <2>3, <2>4
  <2>6. q \in Nat /\ q # 0
    BY <2>4
  <2> HIDE DEF q, x
  <2>7. (g - 1) * Capacity < q
    BY <1>1, <2>3, <2>5, <2>6
  <2>8. left = q - (g - 1) * Capacity
    BY DEF q
  <2> HIDE DEF left
  <2>9. left \in Nat
    <3>1. (g - 1) * Capacity \in Int
      BY <1>1, <2>3
    <3> DEFINE o == (g - 1) * Capacity
    <3> HIDE DEF o
    <3>2. o \in Int /\ o < q /\ left = q - o
      BY <2>7, <2>8, <3>1 DEF o
    <3>3. QED
      BY <2>6, <3>2
  <2>10. QED
    BY <1>1, <1>3, <2>1, <2>9
<1>4. QED
  BY <1>2, <1>3

LEMMA PieceSpells ==
  ASSUME NEW e, IsEvent(e), NEW room \in Nat, NEW g \in 0 .. ExtraBars(e.u, room),
         NEW x, x = Piece(e, room, g)
  PROVE  Spells(x, PartIn(e.u, room, g))
<1>1. e.u \in Nat /\ e.rest \in BOOLEAN
  BY EventIs
<1>2. PartIn(e.u, room, g) \in Nat
  BY <1>1, PartIs
<1>3. QED
  BY <1>1, <1>2, WrittenSpells DEF Piece

-----------------------------------------------------------------------------
(* A note in its own bar *)

\* x without its i-th event, and with c put in after the k-th of those left
IsOut(x, i, r) ==
  /\ IsMusic(r) /\ Len(r) = Len(x) - 1
  /\ \A j \in 1 .. Len(x) - 1 : r[j] = IF j < i THEN x[j] ELSE x[j + 1]
  /\ Sounds(x) = Sounds(r) + Sounding(x[i])
  /\ Clean(x) => Clean(r)
  /\ ~x[i].tup /\ Threes(x, 0, 0) => Threes(r, 0, 0)

LEMMA TakingOut ==
  ASSUME NEW x, IsMusic(x), NEW i \in 1 .. Len(x), NEW r, r = Before(x, i) \o After(x, i)
  PROVE  IsOut(x, i, r)
<1> DEFINE b == Before(x, i)
           a == After(x, i)
           n == Len(x)
<1>1. IsParted(x, i, b, a) /\ n \in Nat
  BY Parting, MusicIs
<1> HIDE DEF b, a
<1>2. IsJoined(b, a, r)
  BY <1>1, Joining DEF IsParted, b, a
<1>3. i \in 1 .. n /\ Len(b) = i - 1 /\ Len(a) = n - i /\ Len(r) = Len(b) + Len(a)
  BY <1>1, <1>2 DEF IsParted, IsJoined
<1> HIDE DEF n
<1>4. Len(b) + Len(a) = n - 1
  BY <1>1, <1>3
<1>5. ASSUME NEW j \in 1 .. n - 1
      PROVE  r[j] = IF j < i THEN x[j] ELSE x[j + 1]
  <2>1. r[j] = IF j <= Len(b) THEN b[j] ELSE a[j - Len(b)]
    BY <1>2, <1>4 DEF IsJoined
  <2>2. CASE j < i
    <3>1. j \in 1 .. i - 1 /\ j <= Len(b)
      BY <1>1, <1>3, <2>2
    <3>2. b[j] = x[j]
      BY <1>1, <3>1 DEF IsParted
    <3>3. QED
      BY <2>1, <2>2, <3>1, <3>2
  <2>3. CASE ~(j < i)
    <3>1. j - Len(b) \in 1 .. n - i /\ ~(j <= Len(b)) /\ (j - Len(b)) + i = j + 1
      BY <1>1, <1>3, <2>3
    <3>2. a[j - Len(b)] = x[j + 1]
      BY <1>1, <3>1 DEF IsParted, n
    <3>3. QED
      BY <2>1, <2>3, <3>1, <3>2
  <2>4. QED
    BY <2>2, <2>3
<1>6. Sounds(x) = Sounds(r) + Sounding(x[i])
  <2>1. /\ Sounds(x) = Sounds(b) + Sounding(x[i]) + Sounds(a) /\ Sounds(r) = Sounds(b) + Sounds(a)
        /\ IsMusic(a) /\ IsMusic(b) /\ IsEvent(x[i])
    BY <1>1, <1>2 DEF IsParted, IsJoined
  <2>2. Sounds(a) \in Nat /\ Sounds(b) \in Nat /\ Sounding(x[i]) \in Nat
    BY <2>1, WeightsAre, EventIs
  <2>3. QED
    BY <2>1, <2>2
<1>7. ASSUME ~x[i].tup, Threes(x, 0, 0)
      PROVE  Threes(r, 0, 0)
  BY <1>1, <1>2, <1>7, ThreesJoined DEF IsParted
<1>8. QED
  BY <1>1, <1>2, <1>3, <1>4, <1>5, <1>6, <1>7 DEF IsOut, IsParted, IsJoined, n

LEMMA OutIn ==
  ASSUME NEW I, NEW x \in Seq(EventsOf(I)), NEW i \in 1 .. Len(x), NEW r, IsOut(x, i, r)
  PROVE  r \in Seq(EventsOf(I))
<1>1. Len(x) \in Nat
  BY IdsIn
<1>2. IsMusic(r) /\ Len(r) = Len(x) - 1
      /\ \A j \in 1 .. Len(x) - 1 : r[j] = IF j < i THEN x[j] ELSE x[j + 1]
  BY DEF IsOut
<1>3. \A j \in 1 .. Len(x) - 1 : j \in 1 .. Len(x) /\ j + 1 \in 1 .. Len(x)
  BY <1>1
<1>4. \A j \in 1 .. Len(r) : \E k \in 1 .. Len(x) : r[j] = x[k]
  BY <1>2, <1>3
<1>5. QED
  BY <1>2, <1>4, PickedIn

\* Both sides of a cut where no triplet is open.
LEMMA ClosedCut ==
  ASSUME NEW r, IsMusic(r), Threes(r, 0, 0), NEW k \in Nat, k <= Len(r),
         \A p : ClosedAt(r, k, p) /\ (k = 0 \/ k = Len(r) => p = 0) => p = 0
  PROVE  Threes(Opening(r, k), 0, 0) /\ Threes(Ending(r, k), 0, 0)
<1> DEFINE f == Opening(r, k)
           a == Ending(r, k)
<1>1. IsCut(r, k, f, a)
  BY Cutting
<1> HIDE DEF f, a
<1>2. PICK p : /\ CutInThrees(r, k, f, a, 0, p, 0)
               /\ k = 0 => p = 0
               /\ k = Len(r) => p = 0
  BY <1>1, ThreesCut
<1>3. p = 0
  BY <1>2 DEF CutInThrees
<1>4. QED
  BY <1>2, <1>3 DEF CutInThrees, f, a

\* One event put in where no triplet is open.
LEMMA PutIn ==
  ASSUME NEW r, IsMusic(r), NEW k \in Nat, k <= Len(r),
         Threes(Opening(r, k), 0, 0), Threes(Ending(r, k), 0, 0),
         NEW c, IsEvent(c), ~c.tup, NEW y, y = Opening(r, k) \o <<c>> \o Ending(r, k)
  PROVE  /\ IsMusic(y) /\ Sounds(y) = Sounds(r) + Sounding(c) /\ Threes(y, 0, 0)
         /\ Clean(r) => Clean(y)
<1> DEFINE f == Opening(r, k)
           a == Ending(r, k)
           m == <<c>>
<1>1. IsCut(r, k, f, a)
  BY Cutting
<1>2. IsMusic(m) /\ Sounds(m) = Sounding(c) /\ Clean(m) /\ Threes(m, 0, 0)
  BY OneEvent, ThreesClean
<1>3. Threes(f, 0, 0) /\ Threes(a, 0, 0)
  OBVIOUS
<1> HIDE DEF f, a, m
<1>4. IsThree(f, m, a, y)
  BY <1>1, <1>2, ThreeJoined DEF IsCut, f, m, a
<1>5. IsMusic(f) /\ IsMusic(a) /\ Sounds(r) = Sounds(f) + Sounds(a) /\ (Clean(r) <=> Clean(f) /\ Clean(a))
  BY <1>1 DEF IsCut
<1>6. Sounds(f) \in Nat /\ Sounds(a) \in Nat /\ Sounds(m) \in Nat
  BY <1>2, <1>5, WeightsAre
<1>7. Sounds(y) = Sounds(r) + Sounding(c)
  <2>1. Sounds(y) = Sounds(f) + Sounds(m) + Sounds(a)
    BY <1>4 DEF IsThree
  <2>2. QED
    BY <1>2, <1>5, <1>6, <2>1
<1>8. QED
  BY <1>2, <1>3, <1>4, <1>5, <1>7 DEF IsThree

\* A place in x that is not between two members of a triplet is, without the
\* i-th event, not within one either.
LEMMA PlaceCloses ==
  ASSUME NEW x, InTime(x), NEW i \in 1 .. Len(x), ~x[i].tup,
         NEW at \in 0 .. Len(x), ~SplitsTuplet(x, at),
         NEW to, to = (IF at > i - 1 THEN at - 1 ELSE at),
         NEW r, r = Before(x, i) \o After(x, i)
  PROVE  /\ IsOut(x, i, r) /\ to \in Nat /\ to <= Len(r)
         /\ Threes(Opening(r, to), 0, 0) /\ Threes(Ending(r, to), 0, 0)
<1> DEFINE n == Len(x)
<1>1. IsMusic(x) /\ Threes(x, 0, 0) /\ n \in Nat
  BY MusicIs DEF InTime
<1>2. IsOut(x, i, r)
  BY <1>1, TakingOut
<1>3. IsMusic(r) /\ Len(r) = n - 1 /\ Threes(r, 0, 0)
  BY <1>1, <1>2 DEF IsOut
<1>4. ~(at \in 1 .. (n - 1) /\ x[at].tup /\ x[at + 1].tup)
  BY DEF SplitsTuplet
<1>5. i \in 1 .. n /\ at \in 0 .. n
  OBVIOUS
<1> HIDE DEF n
<1>6. to \in Nat /\ to <= n - 1
  BY <1>1, <1>5
<1>7. CASE at \in {i - 1, i}
  <2> DEFINE b == Before(x, i)
             a == After(x, i)
             f == Opening(r, to)
             g == Ending(r, to)
  <2>1. IsParted(x, i, b, a)
    BY <1>1, Parting
  <2>2. to = i - 1
    BY <1>1, <1>5, <1>7
  <2>3. IsCut(r, to, f, g)
    BY <1>3, <1>6, Cutting
  <2> HIDE DEF b, a, f, g
  <2>4. IsJoined(b, a, r)
    BY <2>1, Joining DEF IsParted, b, a
  <2>5. /\ IsMusic(b) /\ IsMusic(f) /\ Len(b) = to /\ Len(f) = to /\ Len(a) = n - i
        /\ IsMusic(a) /\ IsMusic(g) /\ Len(g) = n - 1 - to
    BY <1>3, <2>1, <2>2, <2>3 DEF IsParted, IsCut, n
  <2>6. ASSUME NEW j \in 1 .. to
        PROVE  f[j] = b[j]
    <3>1. j <= Len(b) /\ j \in 1 .. Len(b) + Len(a)
      BY <1>1, <1>5, <1>6, <2>2, <2>5
    <3>2. r[j] = b[j] /\ f[j] = r[j]
      BY <2>3, <2>4, <3>1 DEF IsJoined, IsCut
    <3>3. QED
      BY <3>2
  <2>7. f = b
    BY <2>5, <2>6, SameMusic
  <2>8. n - 1 - to = n - i
    BY <1>1, <1>5, <2>2
  <2>9. ASSUME NEW j \in 1 .. n - i
        PROVE  g[j] = a[j]
    <3>1. /\ ~(j + to <= Len(b)) /\ j + to \in 1 .. Len(b) + Len(a) /\ (j + to) - Len(b) = j
          /\ j \in 1 .. Len(r) - to
      BY <1>1, <1>3, <1>5, <1>6, <2>2, <2>5
    <3>2. r[j + to] = a[(j + to) - Len(b)]
      BY <2>4, <3>1 DEF IsJoined
    <3>3. g[j] = r[j + to]
      BY <2>3, <3>1 DEF IsCut
    <3>4. QED
      BY <3>1, <3>2, <3>3
  <2>10. g = a
    BY <2>5, <2>8, <2>9, SameMusic
  <2>11. Threes(f, 0, 0) /\ Threes(g, 0, 0)
    BY <1>1, <2>1, <2>7, <2>10 DEF IsParted
  <2>12. QED
    BY <1>2, <1>3, <1>6, <2>11 DEF f, g
<1>8. CASE at \notin {i - 1, i}
  <2>1. ASSUME NEW p, ClosedAt(r, to, p), to = 0 \/ to = Len(r) => p = 0
        PROVE  p = 0
    <3>1. CASE to = 0 \/ to = n - 1
      BY <1>3, <2>1, <3>1
    <3>2. CASE to # 0 /\ to # n - 1
      <4>1. at \in 1 .. n - 1 /\ to \in 1 .. n - 1 /\ to + 1 \in 1 .. n - 1
        BY <1>1, <1>5, <1>6, <1>8, <3>2
      <4>2. ~x[at].tup \/ ~x[at + 1].tup
        BY <1>4, <4>1
      <4>3. r[to] = x[at] /\ r[to + 1] = x[at + 1]
        <5>1. /\ r[to] = IF to < i THEN x[to] ELSE x[to + 1]
              /\ r[to + 1] = IF to + 1 < i THEN x[to + 1] ELSE x[(to + 1) + 1]
          BY <1>2, <4>1 DEF IsOut, n
        <5>2. CASE at > i
          <6>1. ~(to < i) /\ ~(to + 1 < i) /\ to + 1 = at /\ (to + 1) + 1 = at + 1
            BY <1>1, <1>5, <5>2
          <6>2. QED
            BY <5>1, <6>1
        <5>3. CASE at < i - 1
          <6>1. to < i /\ to + 1 < i /\ to = at /\ to + 1 = at + 1
            BY <1>1, <1>5, <5>3
          <6>2. QED
            BY <5>1, <6>1
        <5>4. at > i \/ at < i - 1
          BY <1>1, <1>5, <1>8
        <5>5. QED
          BY <5>2, <5>3, <5>4
      <4>4. QED
        BY <1>3, <2>1, <4>1, <4>2, <4>3 DEF ClosedAt
    <3>3. QED
      BY <3>1, <3>2
  <2>2. to \in Nat /\ to <= Len(r)
    BY <1>3, <1>6
  <2>3. Threes(Opening(r, to), 0, 0) /\ Threes(Ending(r, to), 0, 0)
    BY <1>3, <2>1, <2>2, ClosedCut
  <2>4. QED
    BY <1>2, <2>2, <2>3
<1>9. QED
  BY <1>7, <1>8

\* An event moved to another place in its measure.
MovedTo(x, i, to) == InsertAt(RemoveAt(x, i), to + 1, Clone(x[i]))

LEMMA MovedKeeps ==
  ASSUME NEW x, InTime(x), NEW i \in 1 .. Len(x), ~x[i].tup,
         NEW at \in 0 .. Len(x), ~SplitsTuplet(x, at),
         NEW to, to = (IF at > i - 1 THEN at - 1 ELSE at), NEW y, y = MovedTo(x, i, to)
  PROVE  Keeps(x, y)
<1> DEFINE r == Before(x, i) \o After(x, i)
           c == Clone(x[i])
<1>1. /\ IsOut(x, i, r) /\ to \in Nat /\ to <= Len(r)
      /\ Threes(Opening(r, to), 0, 0) /\ Threes(Ending(r, to), 0, 0)
  BY PlaceCloses
<1>2. IsMusic(x) /\ IsEvent(x[i]) /\ Threes(x, 0, 0)
  BY MusicIs DEF InTime, IsMusic
<1>3. IsEvent(c) /\ ~c.tup /\ Sounding(c) = Sounding(x[i]) /\ c.id = NoId
  BY <1>2, CloneIs
<1>4. y = Opening(r, to) \o <<c>> \o Ending(r, to)
  <2>1. RemoveAt(x, i) = r
    BY DEF RemoveAt, Before, After
  <2> HIDE DEF r, c
  <2>2. y = SubSeq(r, 1, (to + 1) - 1) \o <<c>> \o SubSeq(r, to + 1, Len(r))
    BY <2>1 DEF MovedTo, InsertAt, c
  <2>3. (to + 1) - 1 = to
    BY <1>1
  <2>4. QED
    BY <2>2, <2>3 DEF Opening, Ending
<1> HIDE DEF r, c
<1>5. IsMusic(r) /\ Sounds(x) = Sounds(r) + Sounding(x[i]) /\ (Clean(x) => Clean(r))
  BY <1>1 DEF IsOut
<1>6. /\ IsMusic(y) /\ Sounds(y) = Sounds(r) + Sounding(c) /\ Threes(y, 0, 0)
      /\ Clean(r) => Clean(y)
  BY <1>1, <1>3, <1>4, <1>5, PutIn
<1>7. Sounds(y) = Sounds(x)
  BY <1>3, <1>5, <1>6
<1>8. Within(x, y)
  <2>1. SUFFICES ASSUME NEW I, NoId \in I, x \in Seq(EventsOf(I))
                 PROVE  y \in Seq(EventsOf(I))
    BY DEF Within
  <2>2. r \in Seq(EventsOf(I))
    BY <1>1, <2>1, OutIn
  <2>3. IsCut(r, to, Opening(r, to), Ending(r, to))
    BY <1>1, <1>5, Cutting
  <2>4. Opening(r, to) \in Seq(EventsOf(I)) /\ Ending(r, to) \in Seq(EventsOf(I))
    BY <1>1, <2>2, <2>3, CutIn
  <2>5. <<c>> \in Seq(EventsOf(I))
    BY <1>3, <2>1, EventIn, OneIn
  <2>6. Opening(r, to) \o <<c>> \o Ending(r, to) \in Seq(EventsOf(I))
    BY <2>4, <2>5, JoinedIn
  <2>7. QED
    BY <1>4, <2>6
<1>9. QED
  BY <1>5, <1>6, <1>7, <1>8, KeepsSound

-----------------------------------------------------------------------------
(* A note in another bar *)

LEMMA PlaceCut ==
  ASSUME NEW x, InTime(x), NEW at \in 0 .. Len(x), ~SplitsTuplet(x, at)
  PROVE  /\ IsCut(x, at, Opening(x, at), Ending(x, at))
         /\ Threes(Opening(x, at), 0, 0) /\ Threes(Ending(x, at), 0, 0)
<1> DEFINE n == Len(x)
<1>1. IsMusic(x) /\ Threes(x, 0, 0) /\ n \in Nat
  BY MusicIs DEF InTime
<1>2. ~(at \in 1 .. (n - 1) /\ x[at].tup /\ x[at + 1].tup) /\ at \in 0 .. n
  BY DEF SplitsTuplet
<1> HIDE DEF n
<1>3. at \in Nat /\ at <= n
  BY <1>1, <1>2
<1>4. ASSUME NEW p, ClosedAt(x, at, p), at = 0 \/ at = n => p = 0
      PROVE  p = 0
  <2>1. CASE at = 0 \/ at = n
    BY <1>4, <2>1
  <2>2. CASE at # 0 /\ at # n
    <3>1. at \in 1 .. n - 1 /\ at \in 1 .. n /\ at + 1 \in 1 .. n
      BY <1>1, <1>2, <2>2
    <3>2. ~x[at].tup \/ ~x[at + 1].tup
      BY <1>2, <3>1
    <3>3. QED
      BY <1>4, <3>1, <3>2 DEF ClosedAt, n
  <2>3. QED
    BY <2>1, <2>2
<1>5. at <= Len(x)
  BY <1>3 DEF n
<1>6. Threes(Opening(x, at), 0, 0) /\ Threes(Ending(x, at), 0, 0)
  BY <1>1, <1>3, <1>4, <1>5, ClosedCut DEF n
<1>7. IsCut(x, at, Opening(x, at), Ending(x, at))
  BY <1>1, <1>3, <1>5, Cutting
<1>8. QED
  BY <1>6, <1>7

\* At the end of a bar: the bar turned round gives the room at its front.
LEMMA DroppedLast ==
  ASSUME NEW x, InTime(x), NEW e, IsEvent(e), ~e.tup, e.u <= Capacity,
         NEW room, room = MakeRoom(Reverse(x), e.u), ~room.blocked,
         NEW y, y = Reverse(room.remaining) \o Rests(room.leftover) \o <<Clone(e)>>
  PROVE  Keeps(x, y)
<1> DEFINE t == Reverse(x)
           r == room.remaining
           b == Reverse(r)
           m == Rests(room.leftover)
           c == Clone(e)
           a == <<c>>
<1>1. IsMusic(x) /\ Threes(x, 0, 0) /\ Sounds(x) <= 3 * Capacity
  BY DEF InTime
<1>2. e.u \in Nat /\ Sounding(e) = 3 * e.u /\ Capacity \in Nat
  BY EventIs, MeasuresAssumption
<1>3. IsTurned(x, t)
  BY <1>1, Turning
<1>4. IsMusic(t) /\ Sounds(t) = Sounds(x) /\ (Clean(t) <=> Clean(x)) /\ Threes(t, 0, 0)
  BY <1>1, <1>3, ThreesTurned DEF IsTurned
<1>5. IsRoom(t, e.u, room)
  BY <1>2, <1>4, RoomMade
<1> HIDE DEF t
<1>6. IsMusic(r) /\ room.leftover \in Nat /\ (Clean(t) => Clean(r)) /\ Threes(r, 0, 0)
  BY <1>4, <1>5 DEF IsRoom
<1> HIDE DEF r
<1>7. IsTurned(r, b)
  BY <1>6, Turning
<1>8. IsMusic(b) /\ Sounds(b) = Sounds(r) /\ (Clean(b) <=> Clean(r)) /\ Threes(b, 0, 0)
  BY <1>6, <1>7, ThreesTurned DEF IsTurned
<1>9. Spells(m, room.leftover)
  BY <1>6, RestsSpell
<1>10. IsMusic(m) /\ Clean(m) /\ Sounds(m) = 3 * room.leftover /\ Threes(m, 0, 0)
  BY <1>9, ThreesClean DEF Spells
<1>11. IsEvent(c) /\ ~c.tup /\ Sounding(c) = 3 * e.u /\ c.id = NoId
  BY <1>2, CloneIs
<1> HIDE DEF c
<1>12. IsMusic(a) /\ Sounds(a) = 3 * e.u /\ Clean(a) /\ Threes(a, 0, 0)
  BY <1>11, OneEvent, ThreesClean
<1>13. y = b \o m \o a
  BY DEF r, c
<1>20. Within(x, y)
  <2>1. SUFFICES ASSUME NEW I, NoId \in I, x \in Seq(EventsOf(I))
                 PROVE  y \in Seq(EventsOf(I))
    BY DEF Within
  <2>2. t \in Seq(EventsOf(I))
    BY <1>3, <2>1, TurnedIn
  <2>3. r \in Seq(EventsOf(I))
    BY <1>2, <2>2, RoomIn DEF r, t
  <2>4. b \in Seq(EventsOf(I))
    BY <1>7, <2>3, TurnedIn
  <2>5. m \in Seq(EventsOf(I))
    BY <1>9, <2>1, SpelledIn
  <2>6. a \in Seq(EventsOf(I))
    BY <1>11, <2>1, EventIn, OneIn
  <2> HIDE DEF b, m, a
  <2>7. b \o m \o a \in Seq(EventsOf(I))
    BY <2>4, <2>5, <2>6, JoinedIn
  <2>8. QED
    BY <1>13, <2>7
<1> HIDE DEF b, m, a
<1>14. IsThree(b, m, a, y)
  BY <1>8, <1>10, <1>12, <1>13, ThreeJoined
<1>15. IsMusic(y) /\ Threes(y, 0, 0) /\ (Clean(x) => Clean(y))
  BY <1>4, <1>6, <1>8, <1>10, <1>12, <1>14 DEF IsThree
<1>16. /\ Sounds(y) = Sounds(r) + 3 * room.leftover + 3 * e.u
       /\ Sounds(r) \in Nat /\ Sounds(x) \in Nat /\ Sounds(y) \in Nat
  <2>1. Sounds(y) = Sounds(b) + Sounds(m) + Sounds(a)
    BY <1>14 DEF IsThree
  <2>2. QED
    BY <1>1, <1>6, <1>8, <1>10, <1>12, <1>15, <2>1, WeightsAre
<1>17. CASE room.short
  <2>1. room.leftover = 0 /\ Sounds(r) = 0 /\ Sounds(x) < 3 * e.u
    BY <1>4, <1>5, <1>17 DEF IsRoom, r
  <2>2. Sounds(y) <= 3 * Capacity /\ Sounds(x) # 3 * Capacity
    BY <1>2, <1>16, <2>1
  <2>3. QED
    BY <1>15, <1>20, <2>2 DEF Keeps, InTime, FullBar
<1>18. CASE ~room.short
  <2>1. 3 * e.u + 3 * room.leftover + Sounds(r) = Sounds(x)
    BY <1>4, <1>5, <1>18 DEF IsRoom, r
  <2>2. Sounds(y) = Sounds(x)
    BY <1>2, <1>6, <1>16, <2>1
  <2>3. QED
    BY <1>15, <1>20, <2>2, KeepsSound
<1>19. QED
  BY <1>17, <1>18

\* Before an event of a bar, when the note fits.
LEMMA DroppedHere ==
  ASSUME NEW x, InTime(x), NEW b, NEW a, NEW k \in Nat, k <= Len(x), IsCut(x, k, b, a), Threes(b, 0, 0), Threes(a, 0, 0),
         NEW n \in Nat, NEW p, Spells(p, n),
         NEW room, room = MakeRoom(a, n), ~room.blocked, ~room.short,
         NEW y, y = b \o p \o Refill(room)
  PROVE  Keeps(x, y)
<1> DEFINE z == Refill(room)
<1>1. /\ IsMusic(b) /\ IsMusic(a) /\ Sounds(x) = Sounds(b) + Sounds(a)
      /\ Clean(x) <=> Clean(b) /\ Clean(a)
  BY DEF IsCut
<1>2. IsRoom(a, n, room)
  BY <1>1, RoomMade
<1>3. IsRefill(a, n, z) /\ Sounds(z) + 3 * n = Sounds(a)
  BY <1>1, <1>2, Refilling
<1>4. IsMusic(p) /\ Clean(p) /\ Sounds(p) = 3 * n /\ Threes(p, 0, 0)
  BY ThreesClean DEF Spells
<1> HIDE DEF z
<1>5. IsMusic(z) /\ Threes(z, 0, 0) /\ (Clean(a) => Clean(z))
  BY <1>3 DEF IsRefill
<1>6. IsThree(b, p, z, y)
  BY <1>1, <1>4, <1>5, ThreeJoined DEF z
<1>7. Sounds(y) = Sounds(x)
  <2>1. Sounds(y) = Sounds(b) + Sounds(p) + Sounds(z)
    BY <1>6 DEF IsThree
  <2>2. Sounds(b) \in Nat /\ Sounds(z) \in Nat
    BY <1>1, <1>5, WeightsAre
  <2>3. QED
    BY <1>1, <1>3, <1>4, <2>1, <2>2
<1>8. IsMusic(y) /\ Threes(y, 0, 0) /\ (Clean(x) => Clean(y))
  BY <1>1, <1>4, <1>5, <1>6 DEF IsThree
<1>9. Within(x, y)
  <2>1. SUFFICES ASSUME NEW I, NoId \in I, x \in Seq(EventsOf(I))
                 PROVE  y \in Seq(EventsOf(I))
    BY DEF Within
  <2>2. b \in Seq(EventsOf(I)) /\ a \in Seq(EventsOf(I))
    BY <2>1, CutIn
  <2>3. p \in Seq(EventsOf(I))
    BY <2>1, SpelledIn
  <2>4. room.remaining \in Seq(EventsOf(I)) /\ room.leftover \in Nat
    BY <1>2, <2>2, RoomIn DEF IsRoom
  <2>5. z \in Seq(EventsOf(I))
    BY <2>1, <2>4, RefillIn DEF z
  <2>6. b \o p \o z \in Seq(EventsOf(I))
    BY <2>2, <2>3, <2>5, JoinedIn
  <2>7. QED
    BY <2>6 DEF z
<1>10. QED
  BY <1>7, <1>8, <1>9, KeepsSound

\* A bar filled up to its end with the first piece of a note.
LEMMA FilledUp ==
  ASSUME NEW x, InTime(x), NEW b, IsMusic(b), Threes(b, 0, 0), Clean(x) => Clean(b),
         Within(x, b),
         NEW here \in Nat, here = Capacity - Units(b), NEW p, Spells(p, here), NEW y, y = b \o p
  PROVE  Keeps(x, y)
<1>1. Capacity \in Nat /\ Units(b) \in Nat /\ Sounds(b) \in Nat
  BY WeightsAre, MeasuresAssumption
<1>2. IsMusic(p) /\ Clean(p) /\ Sounds(p) = 3 * here /\ Threes(p, 0, 0)
  BY ThreesClean DEF Spells
<1>3. IsJoined(b, p, y)
  BY <1>2, Joining
<1>4. /\ Sounds(y) = Sounds(b) + 3 * here /\ IsMusic(y) /\ (Clean(b) => Clean(y))
      /\ Threes(y, 0, 0)
  BY <1>2, <1>3, ThreesJoined DEF IsJoined
<1>5. Sounds(b) <= 3 * Units(b) /\ (Clean(b) => Sounds(b) = 3 * Units(b))
  BY SoundsWritten
<1> DEFINE u == Units(b)
           s == Sounds(b)
<1>6. s \in Nat /\ u \in Nat /\ here = Capacity - u /\ s <= 3 * u /\ (Clean(b) => s = 3 * u)
  BY <1>1, <1>5
<1>7. Sounds(y) = s + 3 * here
  BY <1>4
<1> HIDE DEF u, s
<1>8. Sounds(y) <= 3 * Capacity /\ (Clean(b) => Sounds(y) = 3 * Capacity)
  BY <1>1, <1>6, <1>7
<1>9. Within(x, y)
  <2>1. SUFFICES ASSUME NEW I, NoId \in I, x \in Seq(EventsOf(I))
                 PROVE  y \in Seq(EventsOf(I))
    BY DEF Within
  <2>2. b \in Seq(EventsOf(I))
    BY <2>1 DEF Within
  <2>3. p \in Seq(EventsOf(I))
    BY <2>1, SpelledIn
  <2>4. QED
    BY <2>2, <2>3, JoinedIn
<1>10. QED
  BY <1>4, <1>8, <1>9 DEF Keeps, InTime, FullBar

\* A bar that a note runs on into.
LEMMA RunInto ==
  ASSUME NEW x, InTime(x), NEW n \in Nat, n <= Capacity, NEW p, Spells(p, n),
         NEW room, room = MakeRoom(x, n), ~room.blocked, NEW y, y = p \o Refill(room)
  PROVE  Keeps(x, y)
<1> DEFINE z == Refill(room)
<1>1. IsMusic(x) /\ Threes(x, 0, 0) /\ Sounds(x) <= 3 * Capacity /\ Capacity \in Nat
  BY MeasuresAssumption DEF InTime
<1>2. IsRoom(x, n, room)
  BY <1>1, RoomMade
<1>3. IsRefill(x, n, z)
  BY <1>1, <1>2, Refilling
<1>4. IsMusic(p) /\ Clean(p) /\ Sounds(p) = 3 * n /\ Threes(p, 0, 0)
  BY ThreesClean DEF Spells
<1> HIDE DEF z
<1>5. IsMusic(z) /\ Threes(z, 0, 0) /\ (Clean(x) => Clean(z))
  BY <1>1, <1>3 DEF IsRefill
<1>6. IsJoined(p, z, y)
  BY <1>4, <1>5, Joining DEF z
<1>7. /\ IsMusic(y) /\ Threes(y, 0, 0) /\ (Clean(x) => Clean(y))
      /\ Sounds(y) = 3 * n + Sounds(z) /\ Sounds(z) \in Nat /\ Sounds(x) \in Nat
  BY <1>1, <1>4, <1>5, <1>6, ThreesJoined, WeightsAre DEF IsJoined
<1>11. Within(x, y)
  <2>1. SUFFICES ASSUME NEW I, NoId \in I, x \in Seq(EventsOf(I))
                 PROVE  y \in Seq(EventsOf(I))
    BY DEF Within
  <2>2. p \in Seq(EventsOf(I))
    BY <2>1, SpelledIn
  <2>3. room.remaining \in Seq(EventsOf(I)) /\ room.leftover \in Nat
    BY <1>2, <2>1, RoomIn DEF IsRoom
  <2>4. z \in Seq(EventsOf(I))
    BY <2>1, <2>3, RefillIn DEF z
  <2>5. QED
    BY <2>2, <2>4, JoinedIn DEF z
<1>8. CASE Sounds(z) + 3 * n = Sounds(x)
  <2>1. Sounds(y) = Sounds(x)
    BY <1>7, <1>8
  <2>2. QED
    BY <1>7, <1>11, <2>1, KeepsSound
<1>9. CASE Sounds(z) = 0 /\ Sounds(x) < 3 * n
  <2>1. Sounds(y) <= 3 * Capacity /\ Sounds(x) # 3 * Capacity
    BY <1>1, <1>7, <1>9
  <2>2. QED
    BY <1>7, <1>11, <2>1 DEF Keeps, InTime, FullBar
<1>10. QED
  BY <1>3, <1>8, <1>9 DEF IsRefill

-----------------------------------------------------------------------------
(* A note of another length *)

LEMMA Shrunk ==
  ASSUME NEW x, InTime(x), NEW i \in 1 .. Len(x), ~x[i].tup, NEW u \in Durations, u < x[i].u,
         NEW y, y = Before(x, i) \o <<Sized(x[i], u)>> \o Rests(x[i].u - u) \o After(x, i)
  PROVE  Keeps(x, y)
<1> DEFINE b == Before(x, i)
           a == After(x, i)
           c == Sized(x[i], u)
           m == <<c>>
           l == x[i].u - u
           r == Rests(l)
           z == b \o m \o r
<1>1. IsMusic(x) /\ Threes(x, 0, 0)
  BY DEF InTime
<1>2. IsParted(x, i, b, a)
  BY <1>1, Parting
<1>3. IsEvent(x[i]) /\ IsMusic(b) /\ IsMusic(a) /\ Threes(b, 0, 0) /\ Threes(a, 0, 0)
  BY <1>1, <1>2 DEF IsParted
<1>4. IsEvent(c) /\ c.u = u /\ ~c.tup /\ c.id = NoId
  <2>1. c = Sized(x[i], u)
    OBVIOUS
  <2> HIDE DEF c
  <2>2. QED
    BY <1>3, <2>1, SizedIs
<1> HIDE DEF c
<1>5. u \in Nat /\ x[i].u \in Nat /\ Sounding(c) = 3 * u /\ Sounding(x[i]) = 3 * x[i].u
  BY <1>3, <1>4, EventIs, MeasuresAssumption
<1>6. IsMusic(m) /\ Sounds(m) = 3 * u /\ Clean(m) /\ Threes(m, 0, 0)
  BY <1>4, <1>5, OneEvent, ThreesClean
<1>7. l \in Nat /\ u + l = x[i].u
  BY <1>5
<1>8. y = b \o m \o r \o a
  BY DEF c
<1> HIDE DEF b, a, m, l
<1>9. Spells(r, l)
  BY <1>7, RestsSpell
<1>10. IsMusic(r) /\ Clean(r) /\ Sounds(r) = 3 * l /\ Threes(r, 0, 0)
  BY <1>9, ThreesClean DEF Spells
<1>18. Within(x, y)
  <2>1. SUFFICES ASSUME NEW I, NoId \in I, x \in Seq(EventsOf(I))
                 PROVE  y \in Seq(EventsOf(I))
    BY DEF Within
  <2> HIDE DEF r
  <2>2. b \in Seq(EventsOf(I)) /\ a \in Seq(EventsOf(I))
    BY <1>2, <2>1, PartedIn
  <2>3. m \in Seq(EventsOf(I))
    BY <1>4, <2>1, EventIn, OneIn DEF m
  <2>4. r \in Seq(EventsOf(I))
    BY <1>9, <2>1, SpelledIn
  <2>5. b \o m \o r \in Seq(EventsOf(I))
    BY <2>2, <2>3, <2>4, JoinedIn
  <2>6. QED
    BY <1>8, <2>2, <2>5, JoinedIn
<1> HIDE DEF r
<1>11. IsThree(b, m, r, z)
  BY <1>3, <1>6, <1>10, ThreeJoined
<1>12. /\ IsMusic(z) /\ Sounds(z) = Sounds(b) + Sounds(m) + Sounds(r) /\ Threes(z, 0, 0)
       /\ (Clean(z) <=> Clean(b) /\ Clean(m) /\ Clean(r))
  BY <1>3, <1>6, <1>10, <1>11 DEF IsThree
<1>13. y = z \o a
  BY <1>8
<1> HIDE DEF z
<1>14. IsJoined(z, a, y)
  BY <1>3, <1>12, <1>13, Joining
<1>15. IsMusic(y) /\ Threes(y, 0, 0) /\ (Clean(x) => Clean(y))
  <2>1. Threes(y, 0, 0)
    BY <1>3, <1>12, <1>14, ThreesJoined
  <2>2. Clean(x) => Clean(b)
    BY <1>2 DEF IsParted
  <2>3. QED
    BY <1>2, <1>6, <1>10, <1>12, <1>14, <2>1, <2>2 DEF IsJoined, IsParted
<1>16. Sounds(y) = Sounds(x)
  <2>1. Sounds(y) = Sounds(z) + Sounds(a) /\ Sounds(x) = Sounds(b) + Sounding(x[i]) + Sounds(a)
    BY <1>2, <1>14 DEF IsParted, IsJoined
  <2>2. Sounds(b) \in Nat /\ Sounds(a) \in Nat
    BY <1>3, WeightsAre
  <2>3. Sounds(m) + Sounds(r) = Sounding(x[i])
    BY <1>5, <1>6, <1>7, <1>10
  <2>4. QED
    BY <1>5, <1>6, <1>10, <1>7, <1>12, <2>1, <2>2, <2>3
<1>17. QED
  BY <1>15, <1>16, <1>18, KeepsSound

LEMMA Grown ==
  ASSUME NEW x, InTime(x), NEW i \in 1 .. Len(x), ~x[i].tup, NEW u \in Durations, x[i].u < u,
         u <= Capacity - Units(Before(x, i)),
         NEW room, room = MakeRoom(After(x, i), u - x[i].u), ~room.blocked,
         NEW y, y = Before(x, i) \o <<Sized(x[i], u)>> \o Refill(room)
  PROVE  Keeps(x, y)
<1> DEFINE b == Before(x, i)
           a == After(x, i)
           c == Sized(x[i], u)
           m == <<c>>
           n == u - x[i].u
           z == Refill(room)
<1>1. IsMusic(x) /\ Threes(x, 0, 0) /\ Sounds(x) <= 3 * Capacity /\ Capacity \in Nat
  BY MeasuresAssumption DEF InTime
<1>2. IsParted(x, i, b, a)
  BY <1>1, Parting
<1>3. IsEvent(x[i]) /\ IsMusic(b) /\ IsMusic(a) /\ Threes(b, 0, 0) /\ Threes(a, 0, 0)
  BY <1>1, <1>2 DEF IsParted
<1>4. IsEvent(c) /\ c.u = u /\ ~c.tup /\ c.id = NoId
  <2>1. c = Sized(x[i], u)
    OBVIOUS
  <2> HIDE DEF c
  <2>2. QED
    BY <1>3, <2>1, SizedIs
<1> HIDE DEF c
<1>5. u \in Nat /\ x[i].u \in Nat /\ Sounding(c) = 3 * u /\ Sounding(x[i]) = 3 * x[i].u
  BY <1>3, <1>4, EventIs, MeasuresAssumption
<1>6. IsMusic(m) /\ Sounds(m) = 3 * u /\ Clean(m) /\ Threes(m, 0, 0)
  BY <1>4, <1>5, OneEvent, ThreesClean
<1>7. n \in Nat /\ x[i].u + n = u
  BY <1>5
<1>8. y = b \o m \o z
  BY DEF c
<1>9. room = MakeRoom(a, n) /\ u <= Capacity - Units(b)
  OBVIOUS
<1> HIDE DEF b, a, m, n
<1>10. IsRoom(a, n, room)
  BY <1>3, <1>7, <1>9, RoomMade
<1>11. IsRefill(a, n, z)
  BY <1>3, <1>7, <1>10, Refilling
<1>19. Within(x, y)
  <2>1. SUFFICES ASSUME NEW I, NoId \in I, x \in Seq(EventsOf(I))
                 PROVE  y \in Seq(EventsOf(I))
    BY DEF Within
  <2>2. b \in Seq(EventsOf(I)) /\ a \in Seq(EventsOf(I))
    BY <1>2, <2>1, PartedIn
  <2>3. m \in Seq(EventsOf(I))
    BY <1>4, <2>1, EventIn, OneIn DEF m
  <2>4. room.remaining \in Seq(EventsOf(I)) /\ room.leftover \in Nat
    BY <1>7, <1>9, <1>10, <2>2, RoomIn DEF IsRoom
  <2>5. z \in Seq(EventsOf(I))
    BY <2>1, <2>4, RefillIn DEF z
  <2> HIDE DEF z
  <2>6. b \o m \o z \in Seq(EventsOf(I))
    BY <2>2, <2>3, <2>5, JoinedIn
  <2>7. QED
    BY <1>8, <2>6
<1> HIDE DEF z
<1>12. IsMusic(z) /\ Threes(z, 0, 0) /\ (Clean(a) => Clean(z))
  BY <1>3, <1>11 DEF IsRefill
<1>13. IsThree(b, m, z, y)
  BY <1>3, <1>6, <1>8, <1>12, ThreeJoined
<1>14. IsMusic(y) /\ Threes(y, 0, 0) /\ (Clean(x) => Clean(y))
  BY <1>2, <1>3, <1>6, <1>12, <1>13 DEF IsThree, IsParted
<1> DEFINE sb == Sounds(b)
           sa == Sounds(a)
           sx == Sounds(x)
           sy == Sounds(y)
           ub == Units(b)
           xi == x[i].u
           sz == Sounds(z)
<1>15. /\ sb \in Nat /\ sa \in Nat /\ ub \in Nat /\ xi \in Nat /\ sz \in Nat /\ sx \in Nat
       /\ sx = sb + 3 * xi + sa /\ sy = sb + 3 * u + sz
       /\ u <= Capacity - ub /\ sb <= 3 * ub /\ (Clean(x) => sb = 3 * ub) /\ xi + n = u
  <2>1. sx = sb + 3 * xi + sa
    BY <1>2, <1>5 DEF IsParted
  <2>2. sy = sb + 3 * u + sz
    BY <1>6, <1>13 DEF IsThree
  <2>3. sb <= 3 * ub /\ (Clean(x) => sb = 3 * ub)
    BY <1>2, <1>3, SoundsWritten DEF IsParted
  <2>4. sb \in Nat /\ sa \in Nat /\ ub \in Nat /\ sz \in Nat /\ sx \in Nat
    BY <1>1, <1>3, <1>12, WeightsAre
  <2>5. QED
    BY <1>5, <1>7, <1>9, <2>1, <2>2, <2>3, <2>4
<1>16. CASE Sounds(z) + 3 * n = Sounds(a)
  <2>1. sz + 3 * n = sa
    BY <1>16
  <2> HIDE DEF sb, sa, sx, sy, ub, xi, sz
  <2>2. sy = sx
    BY <1>5, <1>7, <1>15, <2>1
  <2>3. QED
    BY <1>14, <1>19, <2>2, KeepsSound DEF sx, sy
<1>17. CASE Sounds(z) = 0 /\ Sounds(a) < 3 * n
  <2>1. sz = 0 /\ sa < 3 * n
    BY <1>17
  <2> HIDE DEF sb, sa, sx, sy, ub, xi, sz
  <2>2. sy <= 3 * Capacity
    BY <1>1, <1>5, <1>15, <2>1
  <2>3. Clean(x) => sx # 3 * Capacity
    BY <1>1, <1>5, <1>7, <1>15, <2>1
  <2>4. QED
    BY <1>14, <1>19, <2>2, <2>3 DEF Keeps, InTime, FullBar, sx, sy
<1>18. QED
  BY <1>11, <1>16, <1>17 DEF IsRefill

-----------------------------------------------------------------------------
(* The balanced edits of a voice *)

\* Every measure of a voice is in time.
VoiceInTime(voice) == IsVoice(voice) /\ \A k \in DOMAIN voice : InTime(voice[k].events)

\* What is written to a voice keeps its measures in time.
AllKeep(voice, new) ==
  \A k \in DOMAIN new \cap DOMAIN voice : Keeps(voice[k].events, new[k])

\* A voice after an edit that writes notes.
KeepsTime(voice, w) ==
  /\ DOMAIN w = DOMAIN voice
  /\ \A k \in DOMAIN voice : Keeps(voice[k].events, w[k].events)

LEMMA AtKeeps ==
  ASSUME NEW voice, NEW m \in DOMAIN voice, NEW x, Keeps(voice[m].events, x)
  PROVE  AllKeep(voice, At(m, x))
BY DEF AllKeep, At

LEMMA WithKeeps ==
  ASSUME NEW voice, NEW new, NEW more, AllKeep(voice, new), AllKeep(voice, more)
  PROVE  AllKeep(voice, With(new, more))
BY DEF AllKeep, With

LEMMA WrittenKeeps ==
  ASSUME NEW voice, VoiceInTime(voice), NEW new, AllKeep(voice, new), NEW w, w = Writes(voice, new)
  PROVE  KeepsTime(voice, w)
<1>1. DOMAIN w = DOMAIN voice
  BY DEF Writes
<1>2. ASSUME NEW k \in DOMAIN voice
      PROVE  Keeps(voice[k].events, w[k].events)
  <2>1. w[k] = IF k \in DOMAIN new THEN [voice[k] EXCEPT !.events = new[k], !.part = FALSE]
               ELSE voice[k]
    BY DEF Writes
  <2>2. CASE k \in DOMAIN new
    <3>1. voice[k] = [uid |-> voice[k].uid, part |-> voice[k].part, events |-> voice[k].events]
      BY DEF VoiceInTime, IsVoice
    <3>2. w[k].events = new[k]
      BY <2>1, <2>2, <3>1
    <3>3. QED
      BY <2>2, <3>2 DEF AllKeep
  <2>3. CASE k \notin DOMAIN new
    BY <2>1, <2>3, KeepsSelf DEF VoiceInTime
  <2>4. QED
    BY <2>2, <2>3
<1>3. QED
  BY <1>1, <1>2 DEF KeepsTime

LEMMA PlaceIs ==
  ASSUME NEW voice, VoiceInTime(voice), NEW m \in DOMAIN voice, NEW i \in DOMAIN voice[m].events
  PROVE  /\ InTime(voice[m].events) /\ IsMusic(voice[m].events) /\ i \in 1 .. Len(voice[m].events)
         /\ IsEvent(voice[m].events[i])
<1>1. InTime(voice[m].events) /\ IsMusic(voice[m].events)
  BY DEF VoiceInTime, InTime
<1>2. i \in 1 .. Len(voice[m].events) /\ IsEvent(voice[m].events[i])
  BY <1>1, MusicIs DEF IsMusic
<1>3. QED
  BY <1>1, <1>2

\* An edit of notes that removes one leaves every measure of the voice in time,
\* and a full one without triplets full (removeEventBalanced).
THEOREM RemoveInTime ==
  ASSUME NEW voice, VoiceInTime(voice), NEW m \in DOMAIN voice, NEW i \in DOMAIN voice[m].events,
         NEW w \in RemoveBalanced(voice, m, i)
  PROVE  KeepsTime(voice, w)
<1> DEFINE x == voice[m].events
<1>1. InTime(x) /\ i \in 1 .. Len(x)
  BY PlaceIs
<1>2. ~x[i].tup /\ w = Writes(voice, At(m, Removed(x, i)))
  BY DEF RemoveBalanced
<1>3. Keeps(x, Removed(x, i))
  BY <1>1, <1>2, RemovedKeeps
<1>4. AllKeep(voice, At(m, Removed(x, i)))
  BY <1>3, AtKeeps
<1>5. QED
  BY <1>2, <1>4, WrittenKeeps

\* A note that runs on over the next bar lines.
LEMMA RunOnKeeps ==
  ASSUME NEW voice, VoiceInTime(voice), NEW m, m \in Nat, NEW from, NEW e, IsEvent(e),
         NEW room \in Nat, RunsOn(voice, m, from, e, room)
  PROVE  AllKeep(voice, RunOn(voice, m, e, room))
<1> DEFINE new == RunOn(voice, m, e, room)
           g(k) == k - m
           n == ExtraBars(e.u, room)
<1>1. DOMAIN new = (m + 1) .. (m + n)
  BY DEF RunOn
<1>2. e.u \in Nat /\ Capacity \in Nat /\ Capacity # 0
  BY EventIs, MeasuresAssumption
<1>3. n \in Int
  BY <1>2 DEF ExtraBars
<1> HIDE DEF n
<1>4. ASSUME NEW k \in DOMAIN new
      PROVE  Keeps(voice[k].events, new[k])
  <2> DEFINE x == voice[k].events
             p == PartIn(e.u, room, k - m)
             piece == Piece(e, room, k - m)
             made == MakeRoom(x, p)
             y == piece \o Refill(made)
  <2>1. new[k] = MergeRests(y)
    BY <1>1 DEF RunOn, n
  <2>2. k - m \in 1 .. n /\ k - m \in 0 .. n /\ k - m # 0 /\ m + (k - m) = k
    BY <1>1, <1>3
  <2>3. m + (k - m) \in DOMAIN voice
        /\ ~MakeRoom(voice[m + (k - m)].events, PartIn(e.u, room, k - m)).blocked
    BY <2>2 DEF RunsOn, n
  <2>4. k \in DOMAIN voice /\ ~made.blocked
    BY <2>2, <2>3
  <2>5. InTime(x)
    BY <2>4 DEF VoiceInTime
  <2>6. p \in Nat /\ p <= Capacity
    BY <1>2, <2>2, PartIs DEF n
  <2>7. Spells(piece, p)
    BY <2>2, PieceSpells DEF n
  <2> HIDE DEF x, p, piece, made
  <2>8. Keeps(x, y)
    BY <2>4, <2>5, <2>6, <2>7, RunInto DEF made
  <2> HIDE DEF y
  <2>9. Keeps(x, MergeRests(y))
    BY <2>8, KeepsMerged
  <2>10. QED
    BY <2>1, <2>9 DEF x
<1>5. QED
  BY <1>4 DEF AllKeep

\* A move within a measure (reorderWithinMeasure).
LEMMA MoveWithinInTime ==
  ASSUME NEW voice, VoiceInTime(voice), NEW m \in DOMAIN voice, NEW i \in DOMAIN voice[m].events,
         ~voice[m].events[i].tup, NEW pos \in Nat, NEW w \in MoveWithin(voice, m, i, pos)
  PROVE  KeepsTime(voice, w)
<1> DEFINE x == voice[m].events
           at == Snap(x, pos)
           to == IF at > i - 1 THEN at - 1 ELSE at
           y == MovedTo(x, i, to)
<1>1. InTime(x) /\ IsMusic(x) /\ i \in 1 .. Len(x)
  BY PlaceIs
<1>2. at \in 0 .. Len(x)
  BY <1>1, SnapIs
<1>3. ~SplitsTuplet(x, at) /\ w = Writes(voice, At(m, y))
  BY DEF MoveWithin, MovedTo
<1>4. ~x[i].tup /\ to = (IF at > i - 1 THEN at - 1 ELSE at)
  OBVIOUS
<1> HIDE DEF at
<1>5. Keeps(x, y)
  <2> HIDE DEF x, to
  <2>1. QED
    BY <1>1, <1>2, <1>3, <1>4, MovedKeeps
<1> HIDE DEF y
<1>6. AllKeep(voice, At(m, y))
  BY <1>5, AtKeeps
<1>7. QED
  BY <1>3, <1>6, WrittenKeeps

LEMMA DropAtEndInTime ==
  ASSUME NEW voice, VoiceInTime(voice), NEW m \in DOMAIN voice, NEW i \in DOMAIN voice[m].events,
         ~voice[m].events[i].tup, NEW d \in DOMAIN voice, NEW w \in DropAtEnd(voice, m, i, d)
  PROVE  KeepsTime(voice, w)
<1> DEFINE x == voice[m].events
           t == voice[d].events
           e == x[i]
           room == MakeRoom(Reverse(t), e.u)
           y == Reverse(room.remaining) \o Rests(room.leftover) \o <<Clone(e)>>
           r == Removed(x, i)
           source == At(m, r)
           target == At(d, MergeRests(y))
<1>1. InTime(x) /\ IsMusic(x) /\ i \in 1 .. Len(x) /\ IsEvent(e)
  BY PlaceIs
<1>2. InTime(t)
  BY DEF VoiceInTime
<1>3. ~room.blocked /\ w = Writes(voice, With(source, target))
  BY DEF DropAtEnd
<1>4. ~e.tup
  OBVIOUS
<1>5. e.u <= Capacity
  <2>1. IsParted(x, i, Before(x, i), After(x, i))
    BY <1>1, Parting
  <2> DEFINE b == Sounds(Before(x, i))
             a == Sounds(After(x, i))
             u == e.u
  <2>2. Sounds(x) = b + Sounding(e) + a /\ b \in Nat /\ a \in Nat
    BY <2>1, WeightsAre DEF IsParted
  <2>3. Sounding(e) = 3 * u /\ u \in Nat
    BY <1>1, <1>4, EventIs
  <2>4. Sounds(x) <= 3 * Capacity /\ Capacity \in Nat
    BY <1>1, MeasuresAssumption DEF InTime
  <2> DEFINE s == Sounds(x)
  <2>5. s = b + 3 * u + a /\ s <= 3 * Capacity
    BY <2>2, <2>3, <2>4
  <2>6. b \in Nat /\ a \in Nat /\ u \in Nat
    BY <2>2, <2>3
  <2> HIDE DEF b, a, u, s
  <2>7. u <= Capacity
    BY <2>4, <2>5, <2>6
  <2>8. QED
    BY <2>7 DEF u
<1>6. Keeps(x, r)
  BY <1>1, <1>4, RemovedKeeps
<1>7. AllKeep(voice, source)
  <2> HIDE DEF r
  <2>1. QED
    BY <1>6, AtKeeps
<1>8. Keeps(t, y)
  <2> HIDE DEF e, t
  <2> HIDE DEF room
  <2>1. room = MakeRoom(Reverse(t), e.u)
    BY DEF room
  <2>2. QED
    BY <1>1, <1>2, <1>3, <1>4, <1>5, <2>1, DroppedLast
<1> HIDE DEF y, room, r
<1>9. Keeps(t, MergeRests(y))
  BY <1>8, KeepsMerged
<1>10. AllKeep(voice, target)
  BY <1>9, AtKeeps
<1> HIDE DEF source, target
<1>11. AllKeep(voice, With(source, target))
  BY <1>7, <1>10, WithKeeps
<1>12. QED
  BY <1>3, <1>11, WrittenKeeps

LEMMA DropBeforeInTime ==
  ASSUME NEW voice, VoiceInTime(voice), NEW m \in DOMAIN voice, NEW i \in DOMAIN voice[m].events,
         ~voice[m].events[i].tup, NEW d \in DOMAIN voice,
         NEW at \in 0 .. Len(voice[d].events), ~SplitsTuplet(voice[d].events, at),
         NEW w \in DropBefore(voice, m, i, d, at)
  PROVE  KeepsTime(voice, w)
<1> DEFINE x == voice[m].events
           t == voice[d].events
           e == x[i]
           before == SubSeq(t, 1, at)
           after == SubSeq(t, at + 1, Len(t))
           here == Capacity - Units(before)
           room == MakeRoom(after, e.u)
           source == At(m, Removed(x, i))
           piece == Piece(e, here, 0)
           fits == before \o piece \o Refill(room)
           filled == before \o piece
           run == RunOn(voice, d, e, here)
<1>1. InTime(x) /\ IsMusic(x) /\ i \in 1 .. Len(x) /\ IsEvent(e) /\ ~e.tup
  BY PlaceIs
<1>2. InTime(t) /\ at \in 0 .. Len(t) /\ ~SplitsTuplet(t, at)
  BY DEF VoiceInTime
<1>3. /\ e.u <= here => ~(here <= 0 \/ room.blocked \/ room.short)
      /\ ~(e.u <= here) => CanSplit(e.u, here) /\ RunsOn(voice, d, m, e, here)
      /\ w = Writes(voice, With(source, IF e.u <= here
                                        THEN At(d, MergeRests(fits))
                                        ELSE With(At(d, MergeRests(filled)), run)))
  <2> HIDE DEF source, fits, filled, run, room, here, x
  <2>1. w \in IF e.u <= here
              THEN IF here <= 0 \/ room.blocked \/ room.short THEN {}
                   ELSE {Writes(voice, With(source, At(d, MergeRests(fits))))}
              ELSE IF ~CanSplit(e.u, here) \/ ~RunsOn(voice, d, m, e, here) THEN {}
                   ELSE {Writes(voice, With(source, With(At(d, MergeRests(filled)), run)))}
    BY DEF DropBefore, source, fits, filled, run, room, here, x
  <2> HIDE DEF e
  <2>2. QED
    BY <2>1
<1>4. d \in Nat
  <2>1. voice \in Seq({voice[k] : k \in DOMAIN voice})
    BY DEF VoiceInTime, IsVoice, IsSequence
  <2>2. DOMAIN voice = 1 .. Len(voice) /\ Len(voice) \in Nat
    BY <2>1, LenProperties
  <2>3. QED
    BY <2>2
<1>5. Keeps(x, Removed(x, i))
  BY <1>1, RemovedKeeps
<1>6. AllKeep(voice, source)
  BY <1>5, AtKeeps
<1>7. /\ IsCut(t, at, before, after) /\ Threes(before, 0, 0) /\ Threes(after, 0, 0)
  <2>1. before = Opening(t, at) /\ after = Ending(t, at)
    BY DEF Opening, Ending
  <2> HIDE DEF before, after, t
  <2>2. QED
    BY <1>2, <2>1, PlaceCut
<1>8. IsMusic(before) /\ (Clean(t) => Clean(before)) /\ Units(before) \in Nat /\ Capacity \in Nat
  BY <1>7, WeightsAre, MeasuresAssumption DEF IsCut
<1>13. at \in Nat /\ at <= Len(t) /\ Within(t, before)
  <2>1. at \in Nat /\ at <= Len(t)
    <3>1. Len(t) \in Nat
      BY <1>2, MusicIs DEF InTime
    <3>2. QED
      BY <1>2, <3>1
  <2> HIDE DEF before, after, t
  <2>2. QED
    BY <1>7, <2>1, CutIn DEF Within
<1>9. here \in Int /\ here = Capacity - Units(before) /\ e.u \in Nat
  BY <1>1, <1>8, EventIs
<1> HIDE DEF source
<1>10. CASE e.u <= here
  <2>1. here \in Nat /\ ~room.blocked /\ ~room.short
    BY <1>3, <1>9, <1>10
  <2> HIDE DEF here, before, after, t
  <2>2. 0 \in 0 .. ExtraBars(e.u, here) /\ PartIn(e.u, here, 0) = e.u
    BY <1>10 DEF ExtraBars, PartIn
  <2>3. Spells(piece, e.u)
    <3> HIDE DEF e, piece
    <3>1. Spells(piece, PartIn(e.u, here, 0))
      BY <1>1, <2>1, <2>2, PieceSpells DEF piece
    <3>2. QED
      BY <2>2, <3>1
  <2> HIDE DEF piece, e
  <2>4. room = MakeRoom(after, e.u)
    OBVIOUS
  <2> HIDE DEF room
  <2>5. Keeps(t, fits)
    BY <1>2, <1>7, <1>9, <1>13, <2>1, <2>3, <2>4, DroppedHere
  <2> HIDE DEF fits
  <2>6. Keeps(t, MergeRests(fits))
    BY <2>5, KeepsMerged
  <2>7. AllKeep(voice, At(d, MergeRests(fits)))
    BY <2>6, AtKeeps DEF t
  <2>8. AllKeep(voice, With(source, At(d, MergeRests(fits))))
    BY <1>6, <2>7, WithKeeps
  <2>9. w = Writes(voice, With(source, At(d, MergeRests(fits))))
    BY <1>3, <1>10
  <2>10. QED
    BY <2>8, <2>9, WrittenKeeps
<1>11. CASE ~(e.u <= here)
  <2>1. here \in Nat /\ RunsOn(voice, d, m, e, here)
    BY <1>3, <1>9, <1>11 DEF CanSplit
  <2> HIDE DEF here, before, after, t
  <2>2. 0 \in 0 .. ExtraBars(e.u, here) /\ PartIn(e.u, here, 0) = here
    <3> DEFINE u == e.u
    <3>1. u \in Nat /\ here \in Nat /\ ~(u <= here) /\ Capacity \in Nat /\ Capacity # 0
      BY <1>9, <1>11, <2>1, MeasuresAssumption
    <3> HIDE DEF u
    <3> DEFINE q == u - here
    <3>2. q \in Nat /\ q # 0
      BY <3>1
    <3>3. ExtraBars(u, here) = (q + Capacity - 1) \div Capacity
      BY <3>1 DEF ExtraBars
    <3> HIDE DEF q
    <3>4. q + Capacity - 1 \in Nat
      BY <3>1, <3>2
    <3>5. (q + Capacity - 1) \div Capacity \in Nat
      BY <3>1, <3>4
    <3>6. PartIn(u, here, 0) = here
      BY <3>1 DEF PartIn
    <3>7. QED
      BY <3>3, <3>5, <3>6 DEF u
  <2>3. Spells(piece, here)
    <3> HIDE DEF e, piece
    <3>1. Spells(piece, PartIn(e.u, here, 0))
      BY <1>1, <2>1, <2>2, PieceSpells DEF piece
    <3>2. QED
      BY <2>2, <3>1
  <2> HIDE DEF piece, e
  <2>4. Keeps(t, filled)
    BY <1>2, <1>7, <1>8, <1>9, <1>13, <2>1, <2>3, FilledUp
  <2> HIDE DEF filled
  <2>5. Keeps(t, MergeRests(filled))
    BY <2>4, KeepsMerged
  <2>6. AllKeep(voice, At(d, MergeRests(filled)))
    BY <2>5, AtKeeps DEF t
  <2>7. AllKeep(voice, run)
    BY <1>1, <1>4, <2>1, RunOnKeeps
  <2> HIDE DEF run
  <2>8. AllKeep(voice, With(At(d, MergeRests(filled)), run))
    BY <2>6, <2>7, WithKeeps
  <2>9. AllKeep(voice, With(source, With(At(d, MergeRests(filled)), run)))
    BY <1>6, <2>8, WithKeeps
  <2>10. w = Writes(voice, With(source, With(At(d, MergeRests(filled)), run)))
    BY <1>3, <1>11
  <2>11. QED
    BY <2>9, <2>10, WrittenKeeps
<1>12. QED
  BY <1>10, <1>11

\* A move of an event leaves every measure of the voice in time, and a full one
\* without triplets full (moveEventBalanced).
THEOREM MoveInTime ==
  ASSUME NEW voice, VoiceInTime(voice), NEW m \in DOMAIN voice, NEW i \in DOMAIN voice[m].events,
         NEW d \in DOMAIN voice, NEW pos \in Nat, NEW w \in MoveBalanced(voice, m, i, d, pos)
  PROVE  KeepsTime(voice, w)
<1> DEFINE t == voice[d].events
           at == Snap(t, pos)
<1>1. IsMusic(t)
  BY DEF VoiceInTime, InTime
<1>2. at \in 0 .. Len(t)
  BY <1>1, SnapIs
<1> HIDE DEF at
<1>3. ~voice[m].events[i].tup
  BY DEF MoveBalanced
<1>4. CASE m = d
  <2>1. w \in MoveWithin(voice, m, i, pos)
    BY <1>3, <1>4 DEF MoveBalanced
  <2>2. QED
    BY <1>3, <2>1, MoveWithinInTime
<1>5. CASE m # d
  <2>1. /\ ~SplitsTuplet(t, at)
        /\ w \in IF at = Len(t) THEN DropAtEnd(voice, m, i, d) ELSE DropBefore(voice, m, i, d, at)
    BY <1>3, <1>5 DEF MoveBalanced, at
  <2>2. CASE at = Len(t)
    BY <1>3, <2>1, <2>2, DropAtEndInTime
  <2>3. CASE at # Len(t)
    BY <1>2, <1>3, <2>1, <2>3, DropBeforeInTime
  <2>4. QED
    BY <2>2, <2>3
<1>6. QED
  BY <1>4, <1>5

LEMMA ShrinkInTime ==
  ASSUME NEW voice, VoiceInTime(voice), NEW m \in DOMAIN voice, NEW i \in DOMAIN voice[m].events,
         ~voice[m].events[i].tup, NEW u \in Durations, u < voice[m].events[i].u,
         NEW w \in Shrink(voice, m, i, u)
  PROVE  KeepsTime(voice, w)
<1> DEFINE x == voice[m].events
           y == Before(x, i) \o <<Sized(x[i], u)>> \o Rests(x[i].u - u) \o After(x, i)
<1>1. InTime(x) /\ i \in 1 .. Len(x) /\ ~x[i].tup /\ u < x[i].u
  BY PlaceIs
<1>2. w = Writes(voice, At(m, MergeRests(y)))
  BY DEF Shrink, Sized
<1>3. Keeps(x, y)
  <2> HIDE DEF x
  <2>1. QED
    BY <1>1, Shrunk
<1> HIDE DEF y
<1>4. Keeps(x, MergeRests(y))
  BY <1>3, KeepsMerged
<1>5. AllKeep(voice, At(m, MergeRests(y)))
  BY <1>4, AtKeeps
<1>6. QED
  BY <1>2, <1>5, WrittenKeeps

LEMMA GrowInTime ==
  ASSUME NEW voice, VoiceInTime(voice), NEW m \in DOMAIN voice, NEW i \in DOMAIN voice[m].events,
         ~voice[m].events[i].tup, NEW u \in Durations, voice[m].events[i].u < u,
         NEW w \in Grow(voice, m, i, u)
  PROVE  KeepsTime(voice, w)
<1> DEFINE x == voice[m].events
           e == Sized(x[i], u)
           before == Before(x, i)
           here == Capacity - Units(before)
           room == MakeRoom(After(x, i), u - x[i].u)
           piece == Piece(e, here, 0)
           fits == before \o <<e>> \o Refill(room)
           filled == before \o piece
           run == RunOn(voice, m, e, here)
<1>1. InTime(x) /\ IsMusic(x) /\ i \in 1 .. Len(x) /\ IsEvent(x[i]) /\ ~x[i].tup /\ x[i].u < u
  BY PlaceIs
<1>2. /\ u <= here => ~room.blocked
      /\ ~(u <= here) => CanSplit(u, here) /\ RunsOn(voice, m, 0, e, here)
      /\ w = Writes(voice, IF u <= here
                           THEN At(m, MergeRests(fits))
                           ELSE With(At(m, MergeRests(filled)), run))
  <2> HIDE DEF fits, filled, run, room, here, x
  <2>1. w \in IF u <= here
              THEN IF room.blocked THEN {}
                   ELSE {Writes(voice, At(m, MergeRests(fits)))}
              ELSE IF ~CanSplit(u, here) \/ ~RunsOn(voice, m, 0, e, here) THEN {}
                   ELSE {Writes(voice, With(At(m, MergeRests(filled)), run))}
    BY DEF Grow, Sized, fits, filled, run, room, here, x
  <2> HIDE DEF e
  <2>2. QED
    BY <2>1
<1>3. m \in Nat
  <2>1. voice \in Seq({voice[k] : k \in DOMAIN voice})
    BY DEF VoiceInTime, IsVoice, IsSequence
  <2>2. DOMAIN voice = 1 .. Len(voice) /\ Len(voice) \in Nat
    BY <2>1, LenProperties
  <2>3. QED
    BY <2>2
<1>4. IsParted(x, i, before, After(x, i))
  BY <1>1, Parting
<1>5. IsMusic(before) /\ Threes(before, 0, 0) /\ (Clean(x) => Clean(before))
  BY <1>1, <1>4 DEF IsParted, InTime
<1>11. Within(x, before)
  <2> HIDE DEF x, before
  <2>1. QED
    BY <1>1, <1>4, PartedIn DEF Within
<1>6. IsEvent(e) /\ e.u = u
  <2>1. e = Sized(x[i], u)
    OBVIOUS
  <2> HIDE DEF e, x
  <2>2. QED
    BY <1>1, <2>1, SizedIs
<1>7. here \in Int /\ here = Capacity - Units(before) /\ u \in Nat /\ Capacity \in Nat /\ Capacity # 0
  BY <1>5, WeightsAre, MeasuresAssumption
<1>8. CASE u <= here
  <2>1. ~room.blocked
    BY <1>2, <1>8
  <2>2. Keeps(x, fits)
    <3>1. room = MakeRoom(After(x, i), u - x[i].u) /\ u <= Capacity - Units(Before(x, i))
      BY <1>8
    <3>2. fits = Before(x, i) \o <<Sized(x[i], u)>> \o Refill(room)
      OBVIOUS
    <3> HIDE DEF x, room, fits, e, before, here
    <3>3. QED
      BY <1>1, <2>1, <3>1, <3>2, Grown
  <2> HIDE DEF fits
  <2>3. Keeps(x, MergeRests(fits))
    BY <2>2, KeepsMerged
  <2>4. AllKeep(voice, At(m, MergeRests(fits)))
    BY <2>3, AtKeeps
  <2>5. w = Writes(voice, At(m, MergeRests(fits)))
    BY <1>2, <1>8
  <2>6. QED
    BY <2>4, <2>5, WrittenKeeps
<1>9. CASE ~(u <= here)
  <2>1. here \in Nat /\ RunsOn(voice, m, 0, e, here)
    BY <1>2, <1>7, <1>9 DEF CanSplit
  <2> HIDE DEF here, before, e, x
  <2>2. 0 \in 0 .. ExtraBars(u, here) /\ PartIn(u, here, 0) = here
    <3> DEFINE q == u - here
    <3>1. q \in Nat /\ q # 0
      BY <1>7, <1>9, <2>1
    <3>2. ExtraBars(u, here) = (q + Capacity - 1) \div Capacity
      BY <1>9 DEF ExtraBars
    <3>3. PartIn(u, here, 0) = here
      BY <1>9 DEF PartIn
    <3> HIDE DEF q
    <3>4. q + Capacity - 1 \in Nat
      BY <1>7, <3>1
    <3>5. (q + Capacity - 1) \div Capacity \in Nat
      BY <1>7, <3>4
    <3>6. QED
      BY <3>2, <3>3, <3>5
  <2>3. Spells(piece, here)
    <3> HIDE DEF piece
    <3>1. Spells(piece, PartIn(e.u, here, 0))
      BY <1>6, <2>1, <2>2, PieceSpells DEF piece
    <3>2. QED
      BY <1>6, <2>2, <3>1
  <2> HIDE DEF piece
  <2>4. Keeps(x, filled)
    BY <1>1, <1>5, <1>7, <1>11, <2>1, <2>3, FilledUp
  <2> HIDE DEF filled
  <2>5. Keeps(x, MergeRests(filled))
    BY <2>4, KeepsMerged
  <2>6. AllKeep(voice, At(m, MergeRests(filled)))
    BY <2>5, AtKeeps DEF x
  <2>7. AllKeep(voice, run)
    BY <1>3, <1>6, <2>1, RunOnKeeps
  <2> HIDE DEF run
  <2>8. AllKeep(voice, With(At(m, MergeRests(filled)), run))
    BY <2>6, <2>7, WithKeeps
  <2>9. w = Writes(voice, With(At(m, MergeRests(filled)), run))
    BY <1>2, <1>9
  <2>10. QED
    BY <2>8, <2>9, WrittenKeeps
<1>10. QED
  BY <1>8, <1>9

\* A change of an event's length leaves every measure of the voice in time, and
\* a full one without triplets full (changeDurationBalanced).
THEOREM ChangeDurationInTime ==
  ASSUME NEW voice, VoiceInTime(voice), NEW m \in DOMAIN voice, NEW i \in DOMAIN voice[m].events,
         NEW u \in Durations, NEW w \in ChangeDurationBalanced(voice, m, i, u)
  PROVE  KeepsTime(voice, w)
<1> DEFINE e == voice[m].events[i]
<1>1. IsEvent(e)
  BY PlaceIs
<1>2. e.u \in Nat /\ u \in Nat
  BY <1>1, EventIs, MeasuresAssumption
<1>3. /\ ~e.tup /\ u # e.u
      /\ w \in IF u < e.u THEN Shrink(voice, m, i, u) ELSE Grow(voice, m, i, u)
  BY DEF ChangeDurationBalanced
<1>4. CASE u < e.u
  BY <1>3, <1>4, ShrinkInTime
<1>5. CASE ~(u < e.u)
  <2>1. e.u < u
    BY <1>2, <1>3, <1>5
  <2>2. QED
    BY <1>3, <1>5, <2>1, GrowInTime
<1>6. QED
  BY <1>4, <1>5
=============================================================================
