------------------------- MODULE ScalarReductionProofs -------------------------
(***************************************************************************)
(* modL is the remainder by the order, for every width, order and input    *)
(* that the assumptions of ScalarModL admit.                               *)
(*                                                                         *)
(* What digits stand for is a sum of digits times weights, which carries   *)
(* leave alone and an elimination moves by a multiple of the order.  Bounds*)
(* on the digits, row by row, keep the carry out of each sweep small; the  *)
(* digits left after the last row are so small that one quotient and one   *)
(* correction leave the remainder itself.                                  *)
(***************************************************************************)
EXTENDS ScalarReduction, SequenceTheorems, WellFoundedInduction, TLAPS

\* A set with 0 in it that is closed upwards to n holds all up to n.
LEMMA Upwards ==
  ASSUME NEW n \in Nat, NEW T, 0 \in T, \A k \in 0 .. n - 1 : k \in T => k + 1 \in T
  PROVE  \A k \in 0 .. n : k \in T
<1> DEFINE Left == {k \in 0 .. n : k \notin T}
<1> SUFFICES ASSUME Left # {} PROVE FALSE
  OBVIOUS
<1>1. PICK k \in Left : \A j \in Left : ~(<<j, k>> \in OpToRel(<, Nat))
  <2>1. Left \subseteq Nat
    OBVIOUS
  <2> QED
    BY <2>1, NatLessThanWellFounded, WFMin
<1>2. k \in 0 .. n /\ k \notin T /\ k # 0
  OBVIOUS
<1>3. k - 1 \in 0 .. n - 1 /\ k - 1 + 1 = k /\ k - 1 \in Nat /\ k \in Nat /\ k - 1 < k
  BY <1>2
<1>4. k - 1 \notin T
  BY <1>2, <1>3
<1>5. k - 1 \in Left /\ <<k - 1, k>> \in OpToRel(<, Nat)
  BY <1>3, <1>4 DEF OpToRel
<1> QED
  BY <1>1, <1>5

\* The sequence of values that starts with `first` and takes `step`.
Steps(f, first, n, step) == f[0] = first /\ \A k \in 1 .. n : f[k] = step[k][f[k - 1]]

\* A value in S for 0 and a step from each value to the next are a function.
LEMMA Recursion ==
  ASSUME NEW S_, NEW first \in S_, NEW n \in Nat,
         NEW F, F = [0 .. n -> S_], NEW G, G = [1 .. n -> [S_ -> S_]], NEW step \in G
  PROVE  \E f \in F : Steps(f, first, n, step)
<1> DEFINE Good(k, f) == f[0] = first /\ \A j \in 1 .. k : f[j] = step[j][f[j - 1]]
<1>1. \E f \in [0 .. 0 -> S_] : Good(0, f)
  <2>1. [i \in 0 .. 0 |-> first] \in [0 .. 0 -> S_] /\ Good(0, [i \in 0 .. 0 |-> first])
    OBVIOUS
  <2> QED
    BY <2>1
<1>2. ASSUME NEW k \in 0 .. n - 1, NEW f \in [0 .. k -> S_], Good(k, f)
      PROVE  \E g \in [0 .. k + 1 -> S_] : Good(k + 1, g)
  <2> DEFINE g == [i \in 0 .. k + 1 |-> IF i = k + 1 THEN step[k + 1][f[k]] ELSE f[i]]
  <2>2. k + 1 \in 1 .. n /\ k \in 0 .. k /\ f[k] \in S_ /\ k \in Nat
    OBVIOUS
  <2>3. step[k + 1][f[k]] \in S_
    BY <2>2
  <2>4. g \in [0 .. k + 1 -> S_]
    BY <2>3
  <2>5. ASSUME NEW j \in 1 .. k + 1 PROVE g[j] = step[j][g[j - 1]]
    <3>1. CASE j \in 1 .. k
      <4>1. g[j] = f[j] /\ g[j - 1] = f[j - 1]
        BY <3>1, <2>2
      <4> QED
        BY <1>2, <3>1, <4>1
    <3>2. CASE j = k + 1
      <4>1. g[j] = step[k + 1][f[k]] /\ g[j - 1] = f[k]
        BY <3>2, <2>2
      <4> QED
        BY <3>2, <4>1
    <3> QED
      BY <3>1, <3>2, <2>2
  <2>6. g[0] = first
    BY <1>2, <2>2
  <2> HIDE DEF g
  <2>7. Good(k + 1, g)
    BY <2>5, <2>6
  <2> QED
    BY <2>4, <2>7
<1> DEFINE T == {k \in 0 .. n : \E f \in [0 .. k -> S_] : Good(k, f)}
<1> HIDE DEF Good
<1>3. 0 \in T /\ \A k \in 0 .. n - 1 : k \in T => k + 1 \in T
  <2>1. 0 \in T
    BY <1>1
  <2>2. ASSUME NEW k \in 0 .. n - 1, k \in T PROVE k + 1 \in T
    <3>1. PICK f \in [0 .. k -> S_] : Good(k, f)
      BY <2>2
    <3>2. \E g \in [0 .. k + 1 -> S_] : Good(k + 1, g)
      BY <1>2, <3>1
    <3> QED
      BY <3>2
  <2> QED
    BY <2>1, <2>2
<1>4. T \subseteq 0 .. n /\ \A k \in T : \E f \in [0 .. k -> S_] : Good(k, f)
  OBVIOUS
<1> HIDE DEF T
<1>5. n \in T
  <2>1. \A k \in 0 .. n : k \in T
    BY ONLY n \in Nat, <1>3, Upwards
  <2> QED
    BY <2>1
<1>6. PICK f \in [0 .. n -> S_] : Good(n, f)
  BY <1>4, <1>5
<1> QED
  BY <1>6 DEF Good, Steps

\* What steps within S_ from a value in S_ stays in S_.
LEMMA StaysIn ==
  ASSUME NEW S_, NEW n \in Nat, NEW p, p[0] \in S_, \A k \in 1 .. n : p[k - 1] \in S_ => p[k] \in S_
  PROVE  \A k \in 0 .. n : p[k] \in S_
<1> DEFINE T == {k \in 0 .. n : p[k] \in S_}
<1>1. 0 \in T
  OBVIOUS
<1>2. ASSUME NEW k \in 0 .. n - 1, k \in T PROVE k + 1 \in T
  <2>1. k + 1 \in 1 .. n /\ (k + 1) - 1 = k /\ k + 1 \in 0 .. n
    OBVIOUS
  <2> QED
    BY <1>2, <2>1
<1>3. \A k \in T : p[k] \in S_
  OBVIOUS
<1> HIDE DEF T
<1>4. \A k \in 0 .. n : k \in T
  BY ONLY <1>1, <1>2, n \in Nat, Upwards
<1> QED
  BY <1>3, <1>4

\* One more digit on both sides: the prefixes compare as they did, or if they
\* were equal as the digits do.
LEMMA DigitDecides ==
  ASSUME NEW r \in Nat, NEW x \in Int, NEW y \in Int,
         NEW u \in 0 .. r - 1, NEW v \in 0 .. r - 1
  PROVE  /\ (r * x + u < r * y + v) <=> (x < y \/ (x = y /\ u < v))
         /\ (r * x + u > r * y + v) <=> (x > y \/ (x = y /\ u > v))
<1>1. ASSUME NEW p \in Int, NEW q \in Int, p < q PROVE r * p + r <= r * q
  <2>1. p + 1 <= q /\ q - (p + 1) \in Nat
    BY <1>1
  <2>2. r * (q - (p + 1)) >= 0
    BY <2>1
  <2>3. r * (q - (p + 1)) = r * q - r * p - r
    OBVIOUS
  <2>4. r * p \in Int /\ r * q \in Int
    OBVIOUS
  <2> QED
    BY <2>2, <2>3, <2>4
<1> DEFINE a == r * x
           b == r * y
<1>2. /\ a \in Int /\ b \in Int
      /\ x < y => a + r <= b
      /\ y < x => b + r <= a
      /\ x = y => a = b
  BY <1>1
<1> HIDE DEF a, b
<1>3. CASE x < y
  BY <1>2, <1>3
<1>4. CASE y < x
  BY <1>2, <1>4
<1>5. CASE x = y
  BY <1>2, <1>5
<1>6. /\ (a + u < b + v) <=> (x < y \/ (x = y /\ u < v))
      /\ (a + u > b + v) <=> (x > y \/ (x = y /\ u > v))
  BY <1>2
<1> QED
  BY <1>6 DEF a, b

\* A quotient is what its remainder leaves.
LEMMA QuotientIs ==
  ASSUME NEW c \in Nat, c >= 1, NEW u \in Int, NEW z \in 0 .. c - 1, NEW v, v = c * u + z
  PROVE  v \div c = u
<1>1. c * u \in Int /\ v \in Int
  <2>1. c * u \in Int
    OBVIOUS
  <2> QED
    BY <2>1
<1> DEFINE d == v \div c
           e == v % c
<1>2. d \in Int /\ e \in 0 .. c - 1 /\ v = c * d + e
  BY <1>1
<1> HIDE DEF d, e
<1>3. /\ (c * u + z < c * d + e) <=> (u < d \/ (u = d /\ z < e))
      /\ (c * u + z > c * d + e) <=> (u > d \/ (u = d /\ z > e))
  BY <1>2, DigitDecides
<1>4. c * d \in Int
  BY <1>2
<1>5. d = u
  BY <1>1, <1>2, <1>3, <1>4
<1> QED
  BY <1>5 DEF d

-----------------------------------------------------------------------------
(***************************************************************************)
(* Widths, powers and numbers.                                             *)
(***************************************************************************)

\* The widths are positive.
LEMMA ScalarWidths == N \in Nat /\ N >= 1 /\ N * ByteBits \in Nat
BY WidthAssumption

\* A power of two as far as a scalar has bits.
LEMMA PowersOfTwo ==
  /\ 2 ^ 0 = 1
  /\ \A k \in 0 .. N * ByteBits : 2 ^ k \in Nat /\ 2 ^ k >= 1 /\ 2 ^ (k + 1) = 2 * 2 ^ k
<1> DEFINE n == N * ByteBits
<1>1. n \in Nat
  BY ScalarWidths
<1>2. /\ 2 ^ 0 = 1 /\ \A k \in 0 .. n : 2 ^ (k + 1) = 2 * 2 ^ k
  BY PowersAssumption
<1> DEFINE T == {k \in 0 .. n : 2 ^ k \in Nat /\ 2 ^ k >= 1}
<1> HIDE DEF n
<1>3. 0 \in T
  BY <1>1, <1>2
<1>4. ASSUME NEW k \in 0 .. n - 1, k \in T PROVE k + 1 \in T
  <2>1. 2 ^ k \in Nat /\ 2 ^ k >= 1 /\ k \in 0 .. n /\ k + 1 \in 0 .. n
    BY <1>1, <1>4
  <2>2. 2 ^ (k + 1) = 2 * 2 ^ k
    BY <1>2, <2>1
  <2> QED
    BY <2>1, <2>2
<1>5. \A k \in T : 2 ^ k \in Nat /\ 2 ^ k >= 1
  OBVIOUS
<1> HIDE DEF T
<1>6. \A k \in 0 .. n : k \in T
  BY ONLY <1>1, <1>3, <1>4, Upwards
<1> QED
  BY <1>2, <1>5, <1>6 DEF n

\* A sixteenth of the radix, and half of it.
Top == Radix \div 16
Middle == Radix \div 2

\* What Number adds up, digit for digit from the top.
Prefixes(b) ==
  LET value[k \in 0 .. Len(b)] ==
        IF k = 0 THEN 0 ELSE Radix * value[k - 1] + b[Len(b) - k + 1]
  IN value

\* The order has digits, so the radix is positive.
LEMMA Digits ==
  /\ Radix \in Nat /\ Radix >= 1
  /\ L \in Seq(Byte) /\ Len(L) = N /\ DOMAIN L = 1 .. N
<1>1. N \in Nat /\ N >= 1 /\ L \in [1 .. N -> 0 .. Radix - 1]
  BY ScalarWidths, OrderAssumption
<1>2. Radix \in Int
  BY WidthAssumption DEF Radix
<1>3. L[1] \in 0 .. Radix - 1
  BY <1>1
<1> QED
  BY <1>1, <1>2, <1>3 DEF Byte

\* The number of a byte string is its last Horner prefix.
LEMMA NumberIsPrefix == ASSUME NEW b PROVE Number(b) = Prefixes(b)[Len(b)]
  BY DEF Number, Prefixes

\* Each digit makes the number so far Radix times as much and itself.
LEMMA PrefixStep ==
  ASSUME NEW b \in Seq(Byte)
  PROVE  /\ Prefixes(b)[0] = 0
         /\ \A k \in 0 .. Len(b) : Prefixes(b)[k] \in Int
         /\ \A k \in 1 .. Len(b) : Prefixes(b)[k] = Radix * Prefixes(b)[k - 1] + b[Len(b) - k + 1]
<1> DEFINE n == Len(b)
           Rec(f) == [k \in 0 .. n |-> IF k = 0 THEN 0 ELSE Radix * f[k - 1] + b[n - k + 1]]
           step == [k \in 1 .. n |-> [v \in Int |-> Radix * v + b[n - k + 1]]]
<1>1. n \in Nat /\ Radix \in Int /\ \A k \in 1 .. n : n - k + 1 \in 1 .. n /\ b[n - k + 1] \in Int
  BY Digits, LenProperties DEF Byte
<1>2. Prefixes(b) = CHOOSE f : f = Rec(f)
  BY DEF Prefixes
<1> HIDE DEF n
<1> DEFINE Values == Int
           F == [0 .. n -> Values]
           G == [1 .. n -> [Values -> Values]]
           first == 0
<1>3. step \in G /\ first \in Values
  BY <1>1
<1>4. \A k \in 1 .. n : \A v \in Values : step[k][v] = Radix * v + b[n - k + 1]
  OBVIOUS
<1> HIDE DEF step
<1>5. PICK f \in F : f[0] = 0 /\ \A k \in 1 .. n : f[k] = step[k][f[k - 1]]
  <2>1. n \in Nat /\ F = [0 .. n -> Values] /\ G = [1 .. n -> [Values -> Values]]
    BY <1>1
  <2> HIDE DEF F, G, Values, first
  <2>2. \E f \in F : Steps(f, first, n, step)
    BY ONLY <2>1, <1>3, Recursion, Zenon
  <2> QED
    BY <2>2 DEF Steps, first
<1>6. ASSUME NEW k \in 0 .. n PROVE f[k] = Rec(f)[k]
  <2>1. CASE k = 0
    BY <1>5, <2>1
  <2>2. CASE k # 0
    <3>1. k \in 1 .. n /\ k - 1 \in 0 .. n
      BY <1>1, <2>2
    <3>2. f[k] = Radix * f[k - 1] + b[n - k + 1]
      BY <1>4, <1>5, <3>1
    <3> QED
      BY <2>2, <3>2
  <2> QED
    BY <2>1, <2>2
<1>7. f = Rec(f)
  BY <1>6
<1> DEFINE p == Prefixes(b)
<1> HIDE DEF Rec
<1>8. p = Rec(p)
  BY <1>2, <1>7
<1> HIDE DEF p
<1>9. p[0] = 0 /\ \A k \in 1 .. n : p[k] = Radix * p[k - 1] + b[n - k + 1]
  <2>1. 0 \in 0 .. n /\ \A k \in 1 .. n : k \in 0 .. n /\ k # 0
    BY <1>1
  <2>2. Rec(p)[0] = 0 /\ \A k \in 1 .. n : Rec(p)[k] = Radix * p[k - 1] + b[n - k + 1]
    BY <2>1 DEF Rec
  <2> QED
    BY <1>8, <2>2
<1>10. \A k \in 0 .. n : p[k] \in Int
  <2> DEFINE T == {k \in 0 .. n : p[k] \in Int}
  <2>1. 0 \in T
    BY <1>1, <1>9
  <2>2. ASSUME NEW k \in 0 .. n - 1, k \in T PROVE k + 1 \in T
    <3>1. k + 1 \in 1 .. n /\ k + 1 - 1 = k /\ k + 1 \in 0 .. n /\ p[k] \in Int
      BY <1>1, <2>2
    <3>2. p[k + 1] = Radix * p[k] + b[n - (k + 1) + 1]
      BY <1>9, <3>1
    <3>3. b[n - (k + 1) + 1] \in Int
      BY <1>1, <3>1
    <3>4. Radix * p[k] \in Int
      BY <1>1, <3>1
    <3>5. p[k + 1] \in Int
      BY <3>2, <3>3, <3>4
    <3> QED
      BY <3>1, <3>5
  <2> HIDE DEF T
  <2>3. \A k \in 0 .. n : k \in T
    BY ONLY <1>1, <2>1, <2>2, Upwards
  <2> QED
    BY <2>3 DEF T
<1> QED
  BY <1>9, <1>10 DEF n, p

\* The radix is a multiple of sixteen.
LEMMA RadixParts ==
  /\ Top \in Nat /\ Top >= 1 /\ Radix = 16 * Top /\ Middle = 8 * Top
  /\ Radix \in Nat /\ Radix >= 16
<1> DEFINE j == ByteBits - 4
           n == N * ByteBits
<1>1. /\ ByteBits \in Nat /\ ByteBits >= 4 /\ ByteBits <= n /\ n \in Nat
  <2>1. N \in Nat /\ N >= 1 /\ ByteBits \in Nat /\ ByteBits >= 4 /\ n \in Nat
    BY ScalarWidths, WidthAssumption
  <2>2. (N - 1) * ByteBits >= 0 /\ (N - 1) * ByteBits = N * ByteBits - ByteBits
    BY <2>1
  <2> QED
    BY <2>1, <2>2
<1>2. \A k \in 0 .. n : 2 ^ k \in Nat /\ 2 ^ k >= 1 /\ 2 ^ (k + 1) = 2 * 2 ^ k
  BY PowersOfTwo
<1> HIDE DEF n
<1>3. j \in Nat /\ j + 1 + 1 + 1 + 1 = ByteBits /\ j \in 0 .. n /\ j + 1 \in 0 .. n
      /\ j + 1 + 1 \in 0 .. n /\ j + 1 + 1 + 1 \in 0 .. n
  BY <1>1
<1> HIDE DEF j
<1>4. /\ 2 ^ j \in Nat /\ 2 ^ j >= 1 /\ 2 ^ (j + 1) = 2 * 2 ^ j /\ 2 ^ (j + 1 + 1) = 2 * 2 ^ (j + 1)
      /\ 2 ^ (j + 1 + 1 + 1) = 2 * 2 ^ (j + 1 + 1) /\ 2 ^ ByteBits = 2 * 2 ^ (j + 1 + 1 + 1)
  BY <1>2, <1>3
<1> DEFINE t == 2 ^ j
<1>5. t \in Nat /\ t >= 1 /\ Radix = 16 * t
  BY <1>4 DEF Radix
<1> HIDE DEF t
<1>6. (16 * t) \div 16 = t /\ (16 * t) \div 2 = 8 * t
  BY <1>5
<1> QED
  BY <1>5, <1>6 DEF Top, Middle

\* The order has digits, few of them and small ones below its top.
LEMMA OrderShape ==
  /\ N \in Nat /\ N >= 4 /\ Low \in Nat /\ Low >= 3 /\ Low <= N - 1 /\ N < 2 * Low
  /\ \A k \in 1 .. N : L[k] \in Byte /\ L[k] \in Int /\ 0 <= L[k] /\ L[k] <= Radix - 1
  /\ L[N] = Top /\ L[Low] = 0 /\ \A k \in Low + 1 .. N - 1 : L[k] = 0
  /\ 2 * N * (L[Low - 1] + 1) <= Radix
  /\ Low = N - 1 \/ Radix >= 128
<1>1. N \in Nat /\ Low \in 1 .. N - 1 /\ Low >= 3 /\ N < 2 * Low
  BY ScalarWidths, OrderAssumption, SpareAssumption
<1>2. \A k \in 1 .. N : L[k] \in 0 .. Radix - 1
  BY OrderAssumption
<1> QED
  BY <1>1, <1>2, RadixParts, OrderAssumption, SpareAssumption DEF Byte, Top

\* Each of the steps takes integers to integers.
IntSteps(n, step) == \A k \in 1 .. n : \A v \in Int : step[k][v] \in Int

\* Recursion over integers.
LEMMA IntRecursion ==
  ASSUME NEW n \in Nat, NEW first, first \in Int, NEW step,
         IntSteps(n, step)
  PROVE  \E f \in [0 .. n -> Int] : Steps(f, first, n, step)
<1> DEFINE Values == Int
           F == [0 .. n -> Values]
           G == [1 .. n -> [Values -> Values]]
           typed == [k \in 1 .. n |-> [v \in Values |-> step[k][v]]]
<1>1. n \in Nat /\ first \in Values /\ typed \in G
  BY DEF IntSteps
<1>2. F = [0 .. n -> Values] /\ G = [1 .. n -> [Values -> Values]]
  OBVIOUS
<1>3. \E f \in F : Steps(f, first, n, typed)
  <2> HIDE DEF F, G, Values, typed
  <2> QED
    BY ONLY <1>1, <1>2, Recursion, Zenon
<1>4. PICK f \in F : Steps(f, first, n, typed)
  BY <1>3
<1>5. ASSUME NEW k \in 1 .. n PROVE f[k] = step[k][f[k - 1]]
  <2>1. f[k - 1] \in Values /\ f[k] = typed[k][f[k - 1]]
    BY <1>4 DEF Steps
  <2> QED
    BY <2>1
<1> QED
  BY <1>4, <1>5 DEF Steps

-----------------------------------------------------------------------------
(***************************************************************************)
(* What digits stand for.  A number of fewer digits is padded with zeros.  *)
(***************************************************************************)
Weight ==
  LET w[k \in 0 .. 2 * N] == IF k = 0 THEN 1 ELSE Radix * w[k - 1]
  IN w

\* The digits added up from the lowest.
Sums(f) ==
  LET sum[k \in 0 .. 2 * N] == IF k = 0 THEN 0 ELSE sum[k - 1] + f[k - 1] * Weight[k - 1]
  IN sum

SignedDigits == [Digit -> Int]

\* A digit weighs Radix times the one below it.
LEMMA WeightStep ==
  /\ Weight[0] = 1
  /\ \A k \in 1 .. 2 * N : Weight[k] = Radix * Weight[k - 1]
  /\ \A k \in 0 .. 2 * N : Weight[k] \in Nat /\ Weight[k] >= 1
<1> DEFINE n == 2 * N
           Rec(f) == [k \in 0 .. n |-> IF k = 0 THEN 1 ELSE Radix * f[k - 1]]
           step == [k \in 1 .. n |-> [v \in Int |-> Radix * v]]
<1>1. n \in Nat /\ Radix \in Nat /\ Radix >= 1
  BY ScalarWidths, RadixParts
<1>2. Weight = CHOOSE f : f = Rec(f)
  BY DEF Weight
<1> HIDE DEF n
<1>3. IntSteps(n, step)
  BY <1>1 DEF IntSteps
<1>b. \A k \in 1 .. n : \A v \in Int : step[k][v] = Radix * v
  OBVIOUS
<1> HIDE DEF step
<1>4. PICK f \in [0 .. n -> Int] : f[0] = 1 /\ \A k \in 1 .. n : f[k] = step[k][f[k - 1]]
  <2> DEFINE first == 1
  <2>1. first \in Int
    OBVIOUS
  <2> HIDE DEF first
  <2>2. \E f \in [0 .. n -> Int] : Steps(f, first, n, step)
    BY ONLY <1>1, <1>3, <2>1, IntRecursion, Zenon
  <2> QED
    BY <2>2 DEF first, Steps
<1>5. ASSUME NEW k \in 0 .. n PROVE f[k] = Rec(f)[k]
  <2>1. CASE k = 0
    BY <1>4, <2>1
  <2>2. CASE k # 0
    <3>1. k \in 1 .. n /\ f[k - 1] \in Int
      BY <1>1, <2>2
    <3> QED
      BY <1>b, <1>4, <2>2, <3>1
  <2> QED
    BY <2>1, <2>2
<1>6. f = Rec(f)
  BY <1>5
<1> DEFINE p == Weight
<1>7. p = Rec(p)
  <2> HIDE DEF Rec, p
  <2> QED
    BY <1>2, <1>6 DEF p
<1> HIDE DEF p
<1>8. p[0] = 1 /\ \A k \in 1 .. n : p[k] = Radix * p[k - 1]
  <2>1. 0 \in 0 .. n /\ \A k \in 1 .. n : k \in 0 .. n /\ k # 0
    BY <1>1
  <2>2. Rec(p)[0] = 1 /\ \A k \in 1 .. n : Rec(p)[k] = Radix * p[k - 1]
    BY <2>1
  <2> HIDE DEF Rec
  <2> QED
    BY <1>7, <2>2
<1> DEFINE S_ == {v \in Nat : v >= 1}
<1>9. \A k \in 0 .. n : p[k] \in S_
  <2>1. p[0] \in S_
    BY <1>8
  <2>2. ASSUME NEW k \in 1 .. n, p[k - 1] \in S_ PROVE p[k] \in S_
    <3> DEFINE v == p[k - 1]
    <3>1. v \in Nat /\ v >= 1 /\ p[k] = Radix * v
      BY <1>8, <2>2
    <3> HIDE DEF v
    <3>2. Radix * v \in Nat /\ Radix * v >= 1
      BY <1>1, <3>1
    <3> QED
      BY <3>1, <3>2
  <2> HIDE DEF S_
  <2> QED
    BY ONLY <1>1, <2>1, <2>2, StaysIn
<1> QED
  BY <1>8, <1>9 DEF n, p

\* The sum of one digit more.
LEMMA SumStep ==
  ASSUME NEW x \in SignedDigits
  PROVE  /\ Sums(x)[0] = 0
         /\ \A k \in 1 .. 2 * N : Sums(x)[k] = Sums(x)[k - 1] + x[k - 1] * Weight[k - 1]
         /\ \A k \in 0 .. 2 * N : Sums(x)[k] \in Int
<1> DEFINE n == 2 * N
           Rec(f) == [k \in 0 .. n |-> IF k = 0 THEN 0 ELSE f[k - 1] + x[k - 1] * Weight[k - 1]]
           term == [k \in 1 .. n |-> x[k - 1] * Weight[k - 1]]
           step == [k \in 1 .. n |-> [v \in Int |-> v + term[k]]]
<1>1. n \in Nat
  BY ScalarWidths
<1>a. \A k \in 1 .. n : term[k] = x[k - 1] * Weight[k - 1] /\ term[k] \in Int
  <2>1. ASSUME NEW k \in 1 .. n PROVE x[k - 1] * Weight[k - 1] \in Int
    <3>1. k - 1 \in Digit /\ k - 1 \in 0 .. 2 * N
      BY <1>1 DEF Digit
    <3>2. x[k - 1] \in Int /\ Weight[k - 1] \in Int
      BY <3>1, WeightStep DEF SignedDigits
    <3> QED
      BY <3>2
  <2> QED
    BY <2>1
<1>2. Sums(x) = CHOOSE f : f = Rec(f)
  BY DEF Sums
<1> HIDE DEF n, term
<1>3. IntSteps(n, step)
  BY <1>a DEF IntSteps
<1>b. \A k \in 1 .. n : \A v \in Int : step[k][v] = v + term[k]
  OBVIOUS
<1> HIDE DEF step
<1>4. PICK f \in [0 .. n -> Int] : f[0] = 0 /\ \A k \in 1 .. n : f[k] = step[k][f[k - 1]]
  <2> DEFINE first == 0
  <2>1. first \in Int
    OBVIOUS
  <2> HIDE DEF first
  <2>2. \E f \in [0 .. n -> Int] : Steps(f, first, n, step)
    BY ONLY <1>1, <1>3, <2>1, IntRecursion, Zenon
  <2> QED
    BY <2>2 DEF first, Steps
<1>5. ASSUME NEW k \in 0 .. n PROVE f[k] = Rec(f)[k]
  <2>1. CASE k = 0
    BY <1>4, <2>1
  <2>2. CASE k # 0
    <3>1. k \in 1 .. n /\ f[k - 1] \in Int
      BY <1>1, <2>2
    <3>2. f[k] = f[k - 1] + x[k - 1] * Weight[k - 1]
      BY <1>b, <1>4, <1>a, <3>1
    <3> QED
      BY <2>2, <3>2
  <2> QED
    BY <2>1, <2>2
<1>6. f = Rec(f)
  BY <1>5
<1> DEFINE p == Sums(x)
<1>7. p = Rec(p)
  <2> HIDE DEF Rec, p
  <2> QED
    BY <1>2, <1>6 DEF p
<1> HIDE DEF p
<1>8. p[0] = 0 /\ \A k \in 1 .. n : p[k] = p[k - 1] + x[k - 1] * Weight[k - 1]
  <2>1. 0 \in 0 .. n /\ \A k \in 1 .. n : k \in 0 .. n /\ k # 0
    BY <1>1
  <2>2. Rec(p)[0] = 0 /\ \A k \in 1 .. n : Rec(p)[k] = p[k - 1] + x[k - 1] * Weight[k - 1]
    BY <2>1
  <2> HIDE DEF Rec
  <2> QED
    BY <1>7, <2>2
<1> DEFINE S_ == Int
<1>9. \A k \in 0 .. n : p[k] \in S_
  <2>1. p[0] \in S_
    BY <1>8
  <2>2. ASSUME NEW k \in 1 .. n, p[k - 1] \in S_ PROVE p[k] \in S_
    <3>1. p[k] = p[k - 1] + term[k] /\ term[k] \in Int
      BY <1>8, <1>a
    <3> QED
      BY <2>2, <3>1
  <2> HIDE DEF S_
  <2> QED
    BY ONLY <1>1, <2>1, <2>2, StaysIn
<1> QED
  BY <1>8, <1>9 DEF n, p

\* Weights multiply.
LEMMA WeightsAdd ==
  ASSUME NEW a \in Nat, NEW b \in Nat, a + b <= 2 * N
  PROVE  Weight[a + b] = Weight[a] * Weight[b]
<1> DEFINE T == {k \in 0 .. b : Weight[a + k] = Weight[a] * Weight[k]}
           w == Weight
<1>1. /\ w[0] = 1 /\ N \in Nat /\ Radix \in Nat
      /\ \A k \in 1 .. 2 * N : w[k] = Radix * w[k - 1]
      /\ \A k \in 0 .. 2 * N : w[k] \in Nat
  BY WeightStep, ScalarWidths, RadixParts
<1> HIDE DEF w
<1>2. w[a + 0] = w[a] * w[0]
  <2>1. a + 0 = a /\ w[a] \in Nat
    BY <1>1
  <2> QED
    BY <1>1, <2>1
<1>3. ASSUME NEW k \in 0 .. b - 1, w[a + k] = w[a] * w[k] PROVE w[a + (k + 1)] = w[a] * w[k + 1]
  <2>1. /\ a + (k + 1) \in 1 .. 2 * N /\ a + (k + 1) - 1 = a + k
        /\ k + 1 \in 1 .. 2 * N /\ k + 1 - 1 = k /\ k \in 0 .. 2 * N /\ a \in 0 .. 2 * N
    BY <1>1
  <2> DEFINE u == w[a]
             v == w[k]
  <2>2. w[a + (k + 1)] = Radix * (u * v) /\ w[k + 1] = Radix * v /\ u \in Nat /\ v \in Nat
    BY <1>1, <1>3, <2>1
  <2> HIDE DEF u, v
  <2>3. Radix * (u * v) = u * (Radix * v)
    BY <1>1, <2>2
  <2> QED
    BY <2>2, <2>3 DEF u
<1>4. 0 \in T /\ \A k \in 0 .. b - 1 : k \in T => k + 1 \in T
  <2>1. 0 \in 0 .. b /\ \A k \in 0 .. b - 1 : k + 1 \in 0 .. b
    OBVIOUS
  <2> QED
    BY <1>2, <1>3, <2>1 DEF w
<1>5. b \in 0 .. b /\ \A k \in T : Weight[a + k] = Weight[a] * Weight[k]
  OBVIOUS
<1> HIDE DEF T
<1>6. b \in T
  BY ONLY <1>4, <1>5, b \in Nat, Upwards
<1> QED
  BY <1>5, <1>6

\* A sum is linear in the digits.
LEMMA SumCombination ==
  ASSUME NEW f \in SignedDigits, NEW g \in SignedDigits, NEW h_ \in SignedDigits,
         NEW a \in Int, NEW b \in Int, NEW n \in 0 .. 2 * N,
         \A j \in 0 .. n - 1 : h_[j] = a * f[j] + b * g[j]
  PROVE  Sums(h_)[n] = a * Sums(f)[n] + b * Sums(g)[n]
<1> DEFINE Holds(k) == Sums(h_)[k] = a * Sums(f)[k] + b * Sums(g)[k]
           T == {k \in 0 .. n : Holds(k)}
<1>1. N \in Nat
  BY ScalarWidths
<1>2. Holds(0)
  BY SumStep
<1>3. ASSUME NEW k \in 0 .. n - 1, Holds(k) PROVE Holds(k + 1)
  <2>1. k + 1 \in 1 .. 2 * N /\ k + 1 - 1 = k /\ k \in 0 .. 2 * N /\ k \in Digit
    BY <1>1 DEF Digit
  <2> DEFINE p == Sums(f)[k]
             q == Sums(g)[k]
             u == f[k]
             v == g[k]
             w == Weight[k]
  <2>2. /\ Sums(h_)[k + 1] = Sums(h_)[k] + h_[k] * w
        /\ Sums(f)[k + 1] = p + u * w
        /\ Sums(g)[k + 1] = q + v * w
    BY <2>1, SumStep
  <2>3. p \in Int /\ q \in Int /\ u \in Int /\ v \in Int /\ w \in Int
    BY <2>1, SumStep, WeightStep DEF SignedDigits
  <2>4. Sums(h_)[k + 1] = (a * p + b * q) + (a * u + b * v) * w
    BY <1>3, <2>2
  <2> HIDE DEF p, q, u, v, w
  <2>5. (a * u + b * v) * w = a * (u * w) + b * (v * w)
    BY <2>3
  <2>6. a * (p + u * w) = a * p + a * (u * w) /\ b * (q + v * w) = b * q + b * (v * w)
    BY <2>3
  <2>7. a * p \in Int /\ b * q \in Int /\ a * (u * w) \in Int /\ b * (v * w) \in Int
    <3>1. u * w \in Int /\ v * w \in Int
      BY <2>3
    <3> QED
      BY <2>3, <3>1
  <2> QED
    BY <2>2, <2>4, <2>5, <2>6, <2>7
<1>4. 0 \in T /\ \A k \in 0 .. n - 1 : k \in T => k + 1 \in T
  <2>1. 0 \in 0 .. n /\ \A k \in 0 .. n - 1 : k + 1 \in 0 .. n
    BY <1>1
  <2> HIDE DEF Holds
  <2> QED
    BY <1>2, <1>3, <2>1
<1>5. n \in 0 .. n /\ n \in Nat /\ \A k \in T : Holds(k)
  BY <1>1
<1> HIDE DEF T
<1>6. n \in T
  BY ONLY <1>4, <1>5, Upwards
<1> QED
  BY <1>5, <1>6

\* A sum of larger digits is larger.
LEMMA SumMonotone ==
  ASSUME NEW f \in SignedDigits, NEW g \in SignedDigits, NEW n \in 0 .. 2 * N,
         \A j \in 0 .. n - 1 : f[j] <= g[j]
  PROVE  Sums(f)[n] <= Sums(g)[n]
<1> DEFINE Holds(k) == Sums(f)[k] <= Sums(g)[k]
           T == {k \in 0 .. n : Holds(k)}
<1>1. N \in Nat
  BY ScalarWidths
<1>2. Holds(0)
  BY SumStep
<1>3. ASSUME NEW k \in 0 .. n - 1, Holds(k) PROVE Holds(k + 1)
  <2>1. k + 1 \in 1 .. 2 * N /\ k + 1 - 1 = k /\ k \in 0 .. 2 * N /\ k \in Digit
    BY <1>1 DEF Digit
  <2> DEFINE p == Sums(f)[k]
             q == Sums(g)[k]
             u == f[k]
             v == g[k]
             w == Weight[k]
  <2>2. /\ Sums(f)[k + 1] = p + u * w
        /\ Sums(g)[k + 1] = q + v * w
    BY <2>1, SumStep
  <2>3. p \in Int /\ q \in Int /\ u \in Int /\ v \in Int /\ w \in Nat /\ u <= v /\ p <= q
    BY <1>3, <2>1, SumStep, WeightStep DEF SignedDigits
  <2> HIDE DEF p, q, u, v, w
  <2>4. (v - u) * w >= 0 /\ (v - u) * w = v * w - u * w
    <3>1. v - u \in Nat
      BY <2>3
    <3> QED
      BY <2>3, <3>1
  <2>5. u * w \in Int /\ v * w \in Int
    BY <2>3
  <2> QED
    BY <2>2, <2>3, <2>4, <2>5
<1>4. 0 \in T /\ \A k \in 0 .. n - 1 : k \in T => k + 1 \in T
  <2>1. 0 \in 0 .. n /\ \A k \in 0 .. n - 1 : k + 1 \in 0 .. n
    BY <1>1
  <2> HIDE DEF Holds
  <2> QED
    BY <1>2, <1>3, <2>1
<1>5. n \in 0 .. n /\ n \in Nat /\ \A k \in T : Holds(k)
  BY <1>1
<1> HIDE DEF T
<1>6. n \in T
  BY ONLY <1>4, <1>5, Upwards
<1> QED
  BY <1>5, <1>6

\* Carries move what digits stand for, up to the last carry.
LEMMA SumCarried ==
  ASSUME NEW f \in SignedDigits, NEW g \in SignedDigits, NEW n \in 0 .. 2 * N,
         NEW c, c[0] = 0, \A k \in 0 .. n : c[k] \in Int,
         \A k \in 1 .. n : g[k - 1] = f[k - 1] + c[k - 1] - c[k] * Radix
  PROVE  Sums(g)[n] + c[n] * Weight[n] = Sums(f)[n]
<1> DEFINE Holds(k) == Sums(g)[k] + c[k] * Weight[k] = Sums(f)[k]
           T == {k \in 0 .. n : Holds(k)}
<1>1. N \in Nat /\ Radix \in Int
  BY ScalarWidths, RadixParts
<1>2. Holds(0)
  BY SumStep, WeightStep
<1>3. ASSUME NEW k \in 0 .. n - 1, Holds(k) PROVE Holds(k + 1)
  <2>1. /\ k + 1 \in 1 .. 2 * N /\ k + 1 - 1 = k /\ k \in 0 .. 2 * N /\ k \in Digit
        /\ k + 1 \in 1 .. n /\ k \in 0 .. n /\ k + 1 \in 0 .. n
    BY <1>1 DEF Digit
  <2> DEFINE p == Sums(f)[k]
             q == Sums(g)[k]
             u == f[k]
             v == g[k]
             w == Weight[k]
             d == c[k]
             e == c[k + 1]
  <2>2. /\ Sums(f)[k + 1] = p + u * w
        /\ Sums(g)[k + 1] = q + v * w
        /\ Weight[k + 1] = Radix * w
    BY <2>1, SumStep, WeightStep
  <2>3. /\ p \in Int /\ q \in Int /\ u \in Int /\ v \in Int /\ w \in Nat /\ d \in Int /\ e \in Int
        /\ q + d * w = p
    BY <1>3, <2>1, SumStep, WeightStep DEF SignedDigits
  <2>4. v = u + d - e * Radix
    BY <2>1
  <2> HIDE DEF p, q, u, v, w, d, e
  <2>5. v * w = u * w + d * w - e * (Radix * w)
    <3>1. (u + d - e * Radix) * w = u * w + d * w - (e * Radix) * w
      <4> DEFINE z == e * Radix
      <4>1. z \in Int
        BY <1>1, <2>3
      <4> HIDE DEF z
      <4>2. (u + d - z) * w = u * w + d * w - z * w
        BY <2>3, <4>1
      <4> QED
        BY <4>2 DEF z
    <3>2. (e * Radix) * w = e * (Radix * w)
      BY <1>1, <2>3
    <3> QED
      BY <2>4, <3>1, <3>2
  <2>6. u * w \in Int /\ d * w \in Int /\ e * (Radix * w) \in Int
    <3>1. Radix * w \in Int
      BY <1>1, <2>3
    <3> QED
      BY <2>3, <3>1
  <2>7. Sums(g)[k + 1] + e * Weight[k + 1] = Sums(f)[k + 1]
    BY <2>2, <2>3, <2>5, <2>6
  <2> QED
    BY <2>7 DEF e
<1>4. 0 \in T /\ \A k \in 0 .. n - 1 : k \in T => k + 1 \in T
  <2>1. 0 \in 0 .. n /\ \A k \in 0 .. n - 1 : k + 1 \in 0 .. n
    BY <1>1
  <2> HIDE DEF Holds
  <2> QED
    BY <1>2, <1>3, <2>1
<1>5. n \in 0 .. n /\ n \in Nat /\ \A k \in T : Holds(k)
  BY <1>1
<1> HIDE DEF T
<1>6. n \in T
  BY ONLY <1>4, <1>5, Upwards
<1> QED
  BY <1>5, <1>6

\* Digits moved up by a places stand for Weight[a] times as much.
LEMMA SumShift ==
  ASSUME NEW f \in SignedDigits, NEW g \in SignedDigits,
         NEW a \in Nat, NEW n \in Nat, a + n <= 2 * N,
         \A j \in 0 .. a - 1 : f[j] = 0, \A j \in 0 .. n - 1 : f[a + j] = g[j]
  PROVE  Sums(f)[a + n] = Weight[a] * Sums(g)[n]
<1> DEFINE Zero_(k) == Sums(f)[k] = 0
           Holds(k) == Sums(f)[a + k] = Weight[a] * Sums(g)[k]
           Z_ == {k \in 0 .. a : Zero_(k)}
           T == {k \in 0 .. n : Holds(k)}
<1>1. N \in Nat /\ a \in 0 .. 2 * N /\ Weight[a] \in Int
  <2>1. N \in Nat /\ a \in 0 .. 2 * N
    BY ScalarWidths
  <2> QED
    BY <2>1, WeightStep
<1>2. Zero_(0)
  BY SumStep
<1>3. ASSUME NEW k \in 0 .. a - 1, Zero_(k) PROVE Zero_(k + 1)
  <2>1. k + 1 \in 1 .. 2 * N /\ k + 1 - 1 = k /\ k \in 0 .. 2 * N
    BY <1>1
  <2>2. Sums(f)[k + 1] = Sums(f)[k] + f[k] * Weight[k] /\ Weight[k] \in Int
    BY <2>1, SumStep, WeightStep
  <2>3. f[k] = 0 /\ Sums(f)[k] = 0
    BY <1>3
  <2> QED
    BY <2>2, <2>3
<1>4. Zero_(a)
  <2>1. 0 \in Z_ /\ \A k \in 0 .. a - 1 : k \in Z_ => k + 1 \in Z_
    <3>1. 0 \in 0 .. a /\ \A k \in 0 .. a - 1 : k + 1 \in 0 .. a
      BY <1>1
    <3> HIDE DEF Zero_
    <3> QED
      BY <1>2, <1>3, <3>1
  <2>2. a \in 0 .. a /\ \A k \in Z_ : Zero_(k)
    OBVIOUS
  <2> HIDE DEF Z_
  <2>3. a \in Z_
    BY ONLY <2>1, <2>2, a \in Nat, Upwards
  <2> QED
    BY <2>2, <2>3
<1>5. Holds(0)
  <2>1. a + 0 = a /\ Sums(g)[0] = 0
    BY SumStep
  <2> QED
    BY <1>1, <1>4, <2>1
<1>6. ASSUME NEW k \in 0 .. n - 1, Holds(k) PROVE Holds(k + 1)
  <2>1. /\ a + (k + 1) \in 1 .. 2 * N /\ a + (k + 1) - 1 = a + k
        /\ k + 1 \in 1 .. 2 * N /\ k + 1 - 1 = k /\ k \in 0 .. 2 * N /\ k \in Digit
        /\ k \in Nat /\ a + k <= 2 * N
    BY <1>1 DEF Digit
  <2> DEFINE w == Weight[a]
             x == Weight[k]
             u == g[k]
             q == Sums(g)[k]
  <2>2. /\ Sums(f)[a + (k + 1)] = w * q + u * Weight[a + k]
        /\ Sums(g)[k + 1] = q + u * x
        /\ Weight[a + k] = w * x
    BY <1>6, <2>1, SumStep, WeightsAdd
  <2>3. w \in Int /\ x \in Int /\ u \in Int /\ q \in Int
    BY <1>1, <2>1, WeightStep, SumStep DEF SignedDigits
  <2> HIDE DEF w, x, u, q
  <2>4. w * q + u * (w * x) = w * (q + u * x)
    <3>1. u * (w * x) = w * (u * x)
      BY <2>3
    <3> DEFINE z == u * x
    <3>2. z \in Int
      BY <2>3
    <3> HIDE DEF z
    <3>3. w * (q + z) = w * q + w * z
      BY <2>3, <3>2
    <3> QED
      BY <3>1, <3>3 DEF z
  <2> QED
    BY <2>2, <2>4 DEF w
<1>7. 0 \in T /\ \A k \in 0 .. n - 1 : k \in T => k + 1 \in T
  <2>1. 0 \in 0 .. n /\ \A k \in 0 .. n - 1 : k + 1 \in 0 .. n
    BY <1>1
  <2> HIDE DEF Holds
  <2> QED
    BY <1>5, <1>6, <2>1
<1>8. n \in 0 .. n /\ \A k \in T : Holds(k)
  OBVIOUS
<1> HIDE DEF T
<1>9. n \in T
  BY ONLY <1>7, n \in Nat, <1>8, Upwards
<1> QED
  BY <1>8, <1>9

\* Zeros at the top add nothing.
LEMMA SumAbove ==
  ASSUME NEW f \in SignedDigits, NEW m \in 0 .. 2 * N, NEW n \in m .. 2 * N,
         \A j \in m .. n - 1 : f[j] = 0
  PROVE  Sums(f)[n] = Sums(f)[m]
<1> DEFINE Holds(k) == Sums(f)[m + k] = Sums(f)[m]
           d == n - m
           T == {k \in 0 .. d : Holds(k)}
<1>1. N \in Nat /\ d \in Nat /\ m + d = n
  BY ScalarWidths
<1>2. Holds(0)
  BY <1>1
<1>3. ASSUME NEW k \in 0 .. d - 1, Holds(k) PROVE Holds(k + 1)
  <2>1. /\ m + (k + 1) \in 1 .. 2 * N /\ m + (k + 1) - 1 = m + k /\ m + k \in 0 .. 2 * N
        /\ m + k \in m .. n - 1 /\ m \in 0 .. 2 * N
    BY <1>1
  <2>2. /\ Sums(f)[m + (k + 1)] = Sums(f)[m] + 0 * Weight[m + k]
        /\ Weight[m + k] \in Int /\ Sums(f)[m] \in Int
    BY <1>3, <2>1, SumStep, WeightStep
  <2> QED
    BY <2>2
<1>4. 0 \in T /\ \A k \in 0 .. d - 1 : k \in T => k + 1 \in T
  <2>1. 0 \in 0 .. d /\ \A k \in 0 .. d - 1 : k + 1 \in 0 .. d
    BY <1>1
  <2> HIDE DEF Holds
  <2> QED
    BY <1>2, <1>3, <2>1
<1>5. d \in 0 .. d /\ \A k \in T : Holds(k)
  BY <1>1
<1> HIDE DEF T, d
<1>6. d \in T
  BY ONLY <1>1, <1>4, <1>5, Upwards
<1> QED
  BY <1>1, <1>5, <1>6

\* Equal digits have equal sums.
LEMMA SumsAgree ==
  ASSUME NEW f \in SignedDigits, NEW g \in SignedDigits, NEW n \in 0 .. 2 * N,
         \A j \in 0 .. n - 1 : f[j] = g[j]
  PROVE  Sums(f)[n] = Sums(g)[n]
<1>1. \A j \in 0 .. n - 1 : j \in Digit
  BY ScalarWidths DEF Digit
<1>2. \A j \in 0 .. n - 1 : f[j] \in Int /\ g[j] \in Int
  BY <1>1 DEF SignedDigits
<1>3. Sums(f)[n] <= Sums(g)[n] /\ Sums(g)[n] <= Sums(f)[n]
  BY <1>2, SumMonotone
<1> QED
  BY <1>3, SumStep

\* A digit raised by v.
LEMMA SumUpdate ==
  ASSUME NEW x \in SignedDigits, NEW t \in Digit, NEW v \in Int,
         NEW n \in 0 .. 2 * N, t < n
  PROVE  /\ [x EXCEPT ![t] = x[t] + v] \in SignedDigits
         /\ Sums([x EXCEPT ![t] = x[t] + v])[n] = Sums(x)[n] + v * Weight[t]
<1> DEFINE y == [x EXCEPT ![t] = x[t] + v]
           Holds(k) == Sums(y)[t + 1 + k] = Sums(x)[t + 1 + k] + v * Weight[t]
           d == n - (t + 1)
           T == {k \in 0 .. d : Holds(k)}
<1>1. /\ N \in Nat /\ d \in Nat /\ t + 1 + d = n /\ t \in Nat /\ t + 1 \in 1 .. 2 * N
      /\ t \in 0 .. 2 * N /\ t + 1 - 1 = t
  BY ScalarWidths DEF Digit
<1>2. x[t] \in Int /\ v * Weight[t] \in Int /\ Weight[t] \in Int
  <2>1. Weight[t] \in Int
    BY <1>1, WeightStep
  <2> QED
    BY <2>1 DEF SignedDigits
<1>3. y \in SignedDigits /\ y[t] = x[t] + v /\ \A j \in Digit : j # t => y[j] = x[j]
  BY <1>2 DEF SignedDigits
<1> HIDE DEF y
<1>4. Holds(0)
  <2>1. Sums(y)[t] = Sums(x)[t]
    <3>1. \A j \in 0 .. t - 1 : j \in Digit /\ j # t
      BY <1>1 DEF Digit
    <3> QED
      BY <1>1, <1>3, <3>1, SumsAgree
  <2>2. Sums(y)[t + 1] = Sums(y)[t] + y[t] * Weight[t]
    BY <1>1, <1>3, SumStep
  <2>3. Sums(x)[t + 1] = Sums(x)[t] + x[t] * Weight[t] /\ Sums(x)[t] \in Int
    BY <1>1, SumStep
  <2> DEFINE w == Weight[t]
             u == x[t]
  <2>4. (u + v) * w = u * w + v * w /\ u * w \in Int
    <3>1. w \in Int /\ u \in Int
      BY <1>2
    <3> HIDE DEF w, u
    <3> QED
      BY <3>1
  <2>5. t + 1 + 0 = t + 1
    BY <1>1
  <2> QED
    BY <1>2, <1>3, <2>1, <2>2, <2>3, <2>4, <2>5
<1>5. ASSUME NEW k \in 0 .. d - 1, Holds(k) PROVE Holds(k + 1)
  <2> DEFINE j == t + 1 + k
  <2>1. /\ t + 1 + (k + 1) = j + 1 /\ j + 1 \in 1 .. 2 * N /\ j + 1 - 1 = j
        /\ j \in Digit /\ j # t /\ j \in 0 .. 2 * N
    BY <1>1 DEF Digit
  <2> HIDE DEF j
  <2>2. /\ Sums(y)[j + 1] = Sums(y)[j] + x[j] * Weight[j]
        /\ Sums(x)[j + 1] = Sums(x)[j] + x[j] * Weight[j]
        /\ Sums(x)[j] \in Int /\ x[j] \in Int /\ Weight[j] \in Int
    BY <1>3, <2>1, SumStep, WeightStep DEF SignedDigits
  <2>3. Sums(y)[j] = Sums(x)[j] + v * Weight[t]
    BY <1>5 DEF j
  <2> DEFINE z == x[j] * Weight[j]
             u == v * Weight[t]
  <2>4. z \in Int /\ u \in Int
    BY <1>2, <2>2
  <2>5. Sums(y)[j + 1] = Sums(x)[j + 1] + u
    <3>1. Sums(y)[j + 1] = Sums(y)[j] + z /\ Sums(x)[j + 1] = Sums(x)[j] + z
          /\ Sums(y)[j] = Sums(x)[j] + u
      BY <2>2, <2>3
    <3> HIDE DEF z, u
    <3> QED
      BY <2>2, <2>4, <3>1
  <2> QED
    BY <2>1, <2>5
<1>6. 0 \in T /\ \A k \in 0 .. d - 1 : k \in T => k + 1 \in T
  <2>1. 0 \in 0 .. d /\ \A k \in 0 .. d - 1 : k + 1 \in 0 .. d
    BY <1>1
  <2> HIDE DEF Holds
  <2> QED
    BY <1>4, <1>5, <2>1
<1>7. d \in 0 .. d /\ \A k \in T : Holds(k)
  BY <1>1
<1> HIDE DEF T, d
<1>8. d \in T
  BY ONLY <1>1, <1>6, <1>7, Upwards
<1> QED
  BY <1>1, <1>3, <1>7, <1>8 DEF y

\* The digit 1 everywhere.
Ones == [i \in Digit |-> 1]

\* Radix - 1 everywhere is one less than the next weight.
LEMMA OnesSum ==
  /\ Ones \in SignedDigits
  /\ \A n \in 0 .. 2 * N : /\ Sums(Ones)[n] \in Nat
                           /\ (Radix - 1) * Sums(Ones)[n] = Weight[n] - 1
<1> DEFINE s == Sums(Ones)
           m == 2 * N
           Holds(k) == s[k] \in Nat /\ (Radix - 1) * s[k] = Weight[k] - 1
           T == {k \in 0 .. m : Holds(k)}
<1>1. Ones \in SignedDigits /\ \A k \in Digit : Ones[k] = 1
  BY DEF SignedDigits, Ones
<1>2. m \in Nat /\ Radix \in Nat
  BY ScalarWidths, RadixParts
<1>3. Holds(0)
  BY <1>1, <1>2, SumStep, WeightStep
<1>4. ASSUME NEW k \in 0 .. m - 1, Holds(k) PROVE Holds(k + 1)
  <2>1. k + 1 \in 1 .. 2 * N /\ k + 1 - 1 = k /\ k \in 0 .. 2 * N /\ k \in Digit
    BY <1>2 DEF Digit
  <2> DEFINE w == Weight[k]
             q == s[k]
  <2>2. s[k + 1] = q + 1 * w /\ Weight[k + 1] = Radix * w /\ w \in Nat
    BY <1>1, <2>1, SumStep, WeightStep
  <2>3. q \in Nat /\ (Radix - 1) * q = w - 1
    BY <1>4
  <2> HIDE DEF w, q
  <2>4. (Radix - 1) * (q + w) = (Radix - 1) * q + Radix * w - w
    BY <1>2, <2>2, <2>3
  <2>5. Radix * w \in Int
    BY <1>2, <2>2
  <2> QED
    BY <2>2, <2>3, <2>4, <2>5
<1>5. 0 \in T /\ \A k \in 0 .. m - 1 : k \in T => k + 1 \in T
  <2>1. 0 \in 0 .. m /\ \A k \in 0 .. m - 1 : k + 1 \in 0 .. m
    BY <1>2
  <2> HIDE DEF Holds
  <2> QED
    BY <1>3, <1>4, <2>1
<1>6. \A k \in T : Holds(k)
  OBVIOUS
<1> HIDE DEF T, m
<1>7. \A k \in 0 .. m : k \in T
  BY ONLY <1>2, <1>5, Upwards
<1> QED
  BY <1>1, <1>6, <1>7 DEF m

\* Digits within a bound are within that many times the digit 1.
LEMMA SumBound ==
  ASSUME NEW f \in SignedDigits, NEW B \in Nat, NEW n \in 0 .. 2 * N,
         \A j \in 0 .. n - 1 : -B <= f[j] /\ f[j] <= B
  PROVE  -(B * Sums(Ones)[n]) <= Sums(f)[n] /\ Sums(f)[n] <= B * Sums(Ones)[n]
<1> DEFINE up == [i \in Digit |-> B]
           down == [i \in Digit |-> -B]
           g == Sums(Ones)[n]
<1>1. up \in SignedDigits /\ down \in SignedDigits /\ Ones \in SignedDigits
  BY OnesSum DEF SignedDigits
<1>2. \A j \in 0 .. n - 1 : j \in Digit
  BY ScalarWidths DEF Digit
<1> DEFINE C == -B
           z == 0
<1>3. /\ \A j \in 0 .. n - 1 : up[j] = B * Ones[j] + z * Ones[j]
      /\ \A j \in 0 .. n - 1 : down[j] = C * Ones[j] + z * Ones[j]
  BY <1>2 DEF Ones
<1>4. \A j \in 0 .. n - 1 : down[j] <= f[j] /\ f[j] <= up[j]
  BY <1>2
<1> HIDE DEF up, down
<1>5. Sums(up)[n] = B * g + z * g /\ Sums(down)[n] = C * g + z * g
  <2>1. B \in Int /\ C \in Int /\ z \in Int
    OBVIOUS
  <2> HIDE DEF C, z
  <2>2. Sums(up)[n] = B * g + z * g
    BY <1>1, <1>3, <2>1, SumCombination
  <2>3. Sums(down)[n] = C * g + z * g
    BY <1>1, <1>3, <2>1, SumCombination
  <2> QED
    BY <2>2, <2>3
<1>6. Sums(down)[n] <= Sums(f)[n] /\ Sums(f)[n] <= Sums(up)[n]
  BY <1>1, <1>4, SumMonotone
<1>7. g \in Nat
  BY OnesSum
<1> HIDE DEF g
<1>8. B * g + 0 * g = B * g /\ (-B) * g + 0 * g = -(B * g)
  BY <1>7
<1> QED
  BY <1>5, <1>6, <1>8 DEF g

\* Digits below the radix stand for less than the next weight.
LEMMA SumOfDigits ==
  ASSUME NEW f \in SignedDigits, NEW n \in 0 .. 2 * N,
         \A j \in 0 .. n - 1 : 0 <= f[j] /\ f[j] <= Radix - 1
  PROVE  0 <= Sums(f)[n] /\ Sums(f)[n] <= Weight[n] - 1
<1> DEFINE none == [i \in Digit |-> 0]
           B == Radix - 1
<1>1. none \in SignedDigits /\ N \in Nat
  BY ScalarWidths DEF SignedDigits
<1>2. \A j \in 0 .. n - 1 : j \in Digit
  BY ScalarWidths DEF Digit
<1>3. \A j \in 0 .. n - 1 : none[j] = 0
  BY <1>2
<1> HIDE DEF none
<1>4. Sums(none)[n] = Sums(none)[0] /\ Sums(none)[0] = 0
  <2>1. 0 \in 0 .. 2 * N /\ n \in 0 .. 2 * N
    BY <1>1
  <2> QED
    BY <1>1, <1>3, <2>1, SumAbove, SumStep
<1>5. Sums(none)[n] <= Sums(f)[n]
  BY <1>1, <1>3, SumMonotone
<1>6. B \in Nat /\ \A j \in 0 .. n - 1 : -B <= f[j] /\ f[j] <= B
  <2>1. Radix \in Nat /\ Radix >= 16
    BY RadixParts
  <2>2. \A j \in 0 .. n - 1 : f[j] \in Int
    BY <1>2 DEF SignedDigits
  <2> QED
    BY <2>1, <2>2
<1> HIDE DEF B
<1>7. Sums(f)[n] <= B * Sums(Ones)[n]
  BY <1>6, SumBound
<1>8. B * Sums(Ones)[n] = Weight[n] - 1
  BY OnesSum DEF B
<1> QED
  BY <1>4, <1>5, <1>7, <1>8

\* A byte string as digits.
Padded(b) == [i \in Digit |-> IF i < N THEN b[i + 1] ELSE 0]

\* Its digits are those of a byte.
LEMMA PaddedDigits ==
  ASSUME NEW b \in [1 .. N -> Byte]
  PROVE  /\ Padded(b) \in SignedDigits
         /\ \A j \in 0 .. N - 1 : /\ j \in Digit /\ Padded(b)[j] = b[j + 1]
                                  /\ 0 <= Padded(b)[j] /\ Padded(b)[j] <= Radix - 1
         /\ \A j \in N .. 2 * N - 1 : Padded(b)[j] = 0
<1>1. \A j \in 0 .. N - 1 : j \in Digit /\ j + 1 \in 1 .. N /\ j < N
  BY ScalarWidths DEF Digit
<1>2. \A j \in N .. 2 * N - 1 : j \in Digit /\ ~(j < N)
  BY ScalarWidths DEF Digit
<1>3. \A k \in 1 .. N : b[k] \in Byte /\ b[k] \in Int /\ 0 <= b[k] /\ b[k] <= Radix - 1
  BY RadixParts DEF Byte
<1>4. \A j \in Digit : j < N => j \in 0 .. N - 1
  BY ScalarWidths DEF Digit
<1> QED
  BY <1>1, <1>2, <1>3, <1>4 DEF Padded, SignedDigits

\* The number of a byte string is what its digits stand for.
LEMMA NumberIsSum ==
  ASSUME NEW b \in [1 .. N -> Byte]
  PROVE  Number(b) = Sums(Padded(b))[N] /\ Number(b) = Sums(Padded(b))[2 * N]
<1> DEFINE x == Padded(b)
           s == Sums(x)
           p == Prefixes(b)
           Holds(k) == s[N] = s[N - k] + Weight[N - k] * p[k]
           T == {k \in 0 .. N : Holds(k)}
<1>1. N \in Nat /\ Radix \in Nat /\ b \in Seq(Byte) /\ Len(b) = N
  BY ScalarWidths, RadixParts
<1>2. x \in SignedDigits /\ \A j \in 0 .. N - 1 : x[j] = b[j + 1]
  BY PaddedDigits
<1>3. /\ p[0] = 0 /\ \A k \in 0 .. N : p[k] \in Int
      /\ \A k \in 1 .. N : p[k] = Radix * p[k - 1] + b[N - k + 1]
  BY <1>1, PrefixStep
<1>4. /\ s[0] = 0 /\ \A k \in 0 .. 2 * N : s[k] \in Int
      /\ \A k \in 1 .. 2 * N : s[k] = s[k - 1] + x[k - 1] * Weight[k - 1]
  BY <1>2, SumStep
<1> HIDE DEF p, s
<1>5. Holds(0)
  <2>1. N - 0 = N /\ N \in 0 .. 2 * N
    BY <1>1
  <2>2. s[N] \in Int /\ Weight[N] \in Int
    BY <1>4, <2>1, WeightStep
  <2> QED
    BY <1>3, <2>1, <2>2
<1>6. ASSUME NEW k \in 0 .. N - 1, Holds(k) PROVE Holds(k + 1)
  <2> DEFINE i == N - (k + 1)
  <2>1. /\ N - k = i + 1 /\ i \in 0 .. N - 1 /\ i + 1 \in 1 .. 2 * N /\ i + 1 - 1 = i
        /\ i \in 0 .. 2 * N
        /\ k + 1 \in 1 .. N /\ k + 1 - 1 = k /\ N - (k + 1) + 1 = i + 1 /\ k \in 0 .. N
    BY <1>1
  <2> HIDE DEF i
  <2> DEFINE u == x[i]
             w == Weight[i]
             q == p[k]
  <2>2. s[i + 1] = s[i] + u * w /\ Weight[i + 1] = Radix * w /\ p[k + 1] = Radix * q + u
    BY <1>2, <1>3, <1>4, <2>1, WeightStep
  <2>3. s[N] = s[i + 1] + Weight[i + 1] * q
    BY <1>6, <2>1
  <2>4. u \in Int /\ w \in Int /\ q \in Int /\ s[i] \in Int
    <3>1. i \in Digit
      BY <1>1, <2>1 DEF Digit
    <3> QED
      BY <1>2, <1>3, <1>4, <2>1, <3>1, WeightStep DEF SignedDigits
  <2> HIDE DEF u, w, q
  <2>5. u * w + (Radix * w) * q = w * (Radix * q + u)
    <3>1. (Radix * w) * q = w * (Radix * q)
      BY <1>1, <2>4
    <3> DEFINE z == Radix * q
    <3>2. z \in Int
      BY <1>1, <2>4
    <3> HIDE DEF z
    <3>3. w * (z + u) = w * z + u * w
      BY <2>4, <3>2
    <3> QED
      BY <2>4, <3>1, <3>2, <3>3 DEF z
  <2>6. u * w \in Int /\ (Radix * w) * q \in Int
    <3>1. Radix * w \in Int
      BY <1>1, <2>4
    <3> QED
      BY <2>4, <3>1
  <2>7. s[N] = s[i] + w * p[k + 1]
    BY <2>2, <2>3, <2>4, <2>5, <2>6
  <2> QED
    BY <2>7 DEF i, w
<1>7. 0 \in T /\ \A k \in 0 .. N - 1 : k \in T => k + 1 \in T
  <2>1. 0 \in 0 .. N /\ \A k \in 0 .. N - 1 : k + 1 \in 0 .. N
    BY <1>1
  <2> HIDE DEF Holds
  <2> QED
    BY <1>5, <1>6, <2>1
<1>8. N \in 0 .. N /\ \A k \in T : Holds(k)
  BY <1>1
<1> HIDE DEF T
<1>9. N \in T
  BY ONLY <1>1, <1>7, <1>8, Upwards
<1>10. s[N] = p[N]
  <2>1. N - N = 0 /\ p[N] \in Int
    BY <1>1, <1>3
  <2>2. s[N] = s[0] + Weight[0] * p[N]
    BY <1>8, <1>9, <2>1
  <2> QED
    BY <1>4, <2>1, <2>2, WeightStep
<1>11. Sums(x)[2 * N] = Sums(x)[N]
  <2>1. N \in 0 .. 2 * N /\ 2 * N \in N .. 2 * N
    BY <1>1
  <2>2. \A j \in N .. 2 * N - 1 : x[j] = 0
    BY PaddedDigits
  <2> QED
    BY <1>2, <2>1, <2>2, SumAbove
<1> QED
  BY <1>1, <1>10, <1>11, NumberIsPrefix DEF p, s

\* A remainder is what its quotient leaves.
LEMMA RemainderIs ==
  ASSUME NEW c \in Nat, c >= 1, NEW u \in Int, NEW z \in 0 .. c - 1, NEW v, v = c * u + z
  PROVE  v % c = z
<1>1. c * u \in Int /\ v \in Int
  <2>1. c * u \in Int
    OBVIOUS
  <2> QED
    BY <2>1
<1>2. v \div c = u
  BY QuotientIs
<1>3. v = c * (v \div c) + (v % c) /\ v % c \in Int
  BY <1>1
<1> QED
  BY <1>1, <1>2, <1>3

\* The remainder that Residue works out from the highest digit.
LEMMA ResidueIsRemainder ==
  ASSUME NEW x \in SignedDigits, NEW m \in Nat, m >= 1
  PROVE  Residue(LAMBDA i : x[i], 2 * N, m) = Sums(x)[2 * N] % m
<1> DEFINE n == 2 * N
           s == Sums(x)
           Rec(f) == [k \in 0 .. n |-> IF k = 0 THEN 0 ELSE (Radix * f[k - 1] + x[n - k]) % m]
           step == [k \in 1 .. n |-> [v \in Int |-> (Radix * v + x[n - k]) % m]]
           p == CHOOSE f : f = Rec(f)
<1>1. n \in Nat /\ Radix \in Nat
  BY ScalarWidths, RadixParts
<1>2. Residue(LAMBDA i : x[i], 2 * N, m) = p[n]
  BY DEF Residue
<1>3. \A k \in 1 .. n : n - k \in Digit /\ x[n - k] \in Int /\ n - k \in 0 .. 2 * N
  BY <1>1 DEF Digit, SignedDigits
<1>4. /\ s[0] = 0 /\ \A k \in 0 .. n : s[k] \in Int
      /\ \A k \in 1 .. n : s[k] = s[k - 1] + x[k - 1] * Weight[k - 1]
  BY SumStep
<1>5. /\ Weight[0] = 1 /\ \A k \in 0 .. n : Weight[k] \in Int
      /\ \A k \in 1 .. n : Weight[k] = Radix * Weight[k - 1]
  BY WeightStep
<1> HIDE DEF n, s
<1>6. ASSUME NEW k \in 1 .. n, NEW v \in Int
      PROVE  /\ Radix * v + x[n - k] \in Int
             /\ (Radix * v + x[n - k]) % m \in 0 .. m - 1
             /\ \E q \in Int : Radix * v + x[n - k] = m * q + ((Radix * v + x[n - k]) % m)
  <2> DEFINE y == Radix * v + x[n - k]
  <2>1. y \in Int
    <3>1. Radix * v \in Int
      BY <1>1
    <3> QED
      BY <1>3, <3>1
  <2> HIDE DEF y
  <2>2. y % m \in 0 .. m - 1 /\ y = m * (y \div m) + (y % m) /\ y \div m \in Int
    BY <2>1
  <2> QED
    BY <2>1, <2>2 DEF y
<1>7. IntSteps(n, step) /\ \A k \in 1 .. n : \A v \in Int : step[k][v] = (Radix * v + x[n - k]) % m
  BY <1>6 DEF IntSteps
<1> HIDE DEF step
<1>8. PICK f \in [0 .. n -> Int] : f[0] = 0 /\ \A k \in 1 .. n : f[k] = step[k][f[k - 1]]
  <2> DEFINE first == 0
  <2>1. first \in Int
    OBVIOUS
  <2> HIDE DEF first
  <2>2. \E f \in [0 .. n -> Int] : Steps(f, first, n, step)
    BY ONLY <1>1, <1>7, <2>1, IntRecursion, Zenon
  <2> QED
    BY <2>2 DEF first, Steps
<1>9. ASSUME NEW k \in 0 .. n PROVE f[k] = Rec(f)[k]
  <2>1. CASE k = 0
    BY <1>8, <2>1
  <2>2. CASE k # 0
    <3>1. k \in 1 .. n /\ f[k - 1] \in Int
      BY <1>1, <2>2
    <3>2. f[k] = (Radix * f[k - 1] + x[n - k]) % m
      BY <1>7, <1>8, <3>1
    <3> QED
      BY <2>2, <3>2
  <2> QED
    BY <2>1, <2>2
<1>10. p = Rec(p)
  <2>1. f = Rec(f)
    BY <1>9
  <2> HIDE DEF Rec
  <2> QED
    BY <2>1
<1> HIDE DEF p
<1>11. p[0] = 0 /\ \A k \in 1 .. n : p[k] = (Radix * p[k - 1] + x[n - k]) % m
  <2>1. 0 \in 0 .. n /\ \A k \in 1 .. n : k \in 0 .. n /\ k # 0
    BY <1>1
  <2>2. Rec(p)[0] = 0 /\ \A k \in 1 .. n : Rec(p)[k] = (Radix * p[k - 1] + x[n - k]) % m
    BY <2>1
  <2> HIDE DEF Rec
  <2> QED
    BY <1>10, <2>2
<1> DEFINE Holds(k) == /\ p[k] \in 0 .. m - 1
                       /\ \E q \in Int : s[n] = s[n - k] + Weight[n - k] * p[k] + m * q
           T == {k \in 0 .. n : Holds(k)}
<1>12. Holds(0)
  <2>1. n - 0 = n /\ n \in 0 .. n
    BY <1>1
  <2>2. s[n] \in Int /\ Weight[n] \in Int
    BY <1>4, <1>5, <2>1
  <2>3. s[n] = s[n - 0] + Weight[n - 0] * p[0] + m * 0
    BY <1>11, <2>1, <2>2
  <2> QED
    BY <1>11, <2>3
<1>13. ASSUME NEW k \in 0 .. n - 1, Holds(k) PROVE Holds(k + 1)
  <2> DEFINE i == n - (k + 1)
  <2>1. /\ n - k = i + 1 /\ i \in 0 .. n - 1 /\ i + 1 \in 1 .. n /\ i + 1 - 1 = i /\ i \in 0 .. n
        /\ k + 1 \in 1 .. n /\ k + 1 - 1 = k /\ k \in 0 .. n
    BY <1>1
  <2>2. x[i] \in Int
    BY <1>3, <2>1
  <2> HIDE DEF i
  <2> DEFINE u == x[i]
             w == Weight[i]
             h == p[k]
             e == p[k + 1]
  <2>3. PICK q \in Int : s[n] = s[i + 1] + Weight[i + 1] * h + m * q
    BY <1>13, <2>1
  <2>4. s[i + 1] = s[i] + u * w /\ Weight[i + 1] = Radix * w
    BY <1>4, <1>5, <2>1
  <2>5. w \in Int /\ s[i] \in Int /\ h \in Int
    BY <1>4, <1>5, <1>13, <2>1
  <2>6. e = (Radix * h + u) % m /\ e \in 0 .. m - 1
        /\ \E r \in Int : Radix * h + u = m * r + e
    <3>1. e = (Radix * h + u) % m
      BY <1>11, <2>1 DEF i
    <3>2. /\ (Radix * h + u) % m \in 0 .. m - 1
          /\ \E r \in Int : Radix * h + u = m * r + ((Radix * h + u) % m)
      <4> HIDE DEF h
      <4> QED
        BY <1>6, <2>1, <2>5 DEF i
    <3> HIDE DEF e, u, h
    <3> QED
      BY <3>1, <3>2
  <2>7. PICK r \in Int : Radix * h + u = m * r + e
    BY <2>6
  <2> HIDE DEF u, w, h, e
  <2>8. u * w + (Radix * w) * h = w * e + m * (w * r)
    <3>1. (Radix * w) * h = w * (Radix * h)
      BY <1>1, <2>5
    <3> DEFINE y == Radix * h
               z == m * r
    <3>2. y \in Int /\ z \in Int /\ e \in Int /\ u \in Int
      BY <1>1, <2>2, <2>5, <2>6 DEF u
    <3>3. y = z + e - u
      BY <2>7, <3>2
    <3>4. w * z = m * (w * r)
      BY <2>5
    <3> HIDE DEF y, z
    <3>5. w * (z + e - u) = w * z + w * e - u * w
      BY <2>5, <3>2
    <3>6. w * z \in Int /\ w * e \in Int /\ u * w \in Int
      BY <2>5, <3>2
    <3> QED
      BY <3>1, <3>3, <3>4, <3>5, <3>6 DEF y
  <2>9. s[n] = s[i] + w * e + m * (w * r + q)
    <3> DEFINE a == w * r
               b == u * w
               c == (Radix * w) * h
               d == w * e
    <3>1. a \in Int /\ b \in Int /\ c \in Int /\ d \in Int
      <4>1. Radix * w \in Int /\ u \in Int /\ e \in Int
        BY <1>1, <2>2, <2>5, <2>6 DEF u
      <4> QED
        BY <2>5, <4>1
    <3>2. s[n] = s[i] + b + c + m * q /\ b + c = d + m * a
      BY <2>3, <2>4, <2>8
    <3> HIDE DEF a, b, c, d
    <3>3. m * (a + q) = m * a + m * q /\ m * a \in Int /\ m * q \in Int
      BY <3>1
    <3>4. s[n] = s[i] + d + m * (a + q)
      <4> DEFINE y == m * a
                 z == m * q
                 t == s[i]
      <4>1. /\ y \in Int /\ z \in Int /\ t \in Int
            /\ s[n] = t + b + c + z /\ b + c = d + y /\ m * (a + q) = y + z
        BY <2>5, <3>2, <3>3
      <4> HIDE DEF y, z, t
      <4>2. s[n] = t + d + m * (a + q)
        BY <3>1, <4>1
      <4> QED
        BY <4>2 DEF t
    <3> QED
      BY <3>4 DEF a, d
  <2>10. w * r + q \in Int
    <3>1. w * r \in Int
      BY <2>5
    <3> QED
      BY <3>1
  <2> QED
    BY <2>6, <2>9, <2>10 DEF i, w, e
<1>14. 0 \in T /\ \A k \in 0 .. n - 1 : k \in T => k + 1 \in T
  <2>1. 0 \in 0 .. n /\ \A k \in 0 .. n - 1 : k + 1 \in 0 .. n
    BY <1>1
  <2> HIDE DEF Holds
  <2> QED
    BY <1>12, <1>13, <2>1
<1>15. n \in 0 .. n /\ \A k \in T : Holds(k)
  <2> HIDE DEF Holds
  <2> QED
    BY <1>1
<1> HIDE DEF T
<1>16. n \in T
  BY ONLY <1>1, <1>14, <1>15, Upwards
<1>17. PICK q \in Int : s[n] = s[n - n] + Weight[n - n] * p[n] + m * q
  BY <1>15, <1>16
<1>18. s[n] = m * q + p[n] /\ p[n] \in 0 .. m - 1
  <2>1. p[n] \in 0 .. m - 1 /\ n - n = 0 /\ m * q \in Int
    BY <1>1, <1>15, <1>16
  <2> QED
    BY <1>4, <1>5, <1>17, <2>1
<1>19. s[n] % m = p[n]
  <2> DEFINE v == s[n]
             z == p[n]
  <2>1. v = m * q + z /\ z \in 0 .. m - 1
    BY <1>18
  <2> HIDE DEF v, z
  <2>2. v % m = z
    BY ONLY m \in Nat, m >= 1, q \in Int, <2>1, RemainderIs
  <2> QED
    BY <2>2 DEF v, z
<1> QED
  BY <1>2, <1>19 DEF n, s

Sweep == [x : SignedDigits, carry : Int]

\* Widths of the reduction.
LEMMA ReductionWidths ==
  /\ N \in Nat /\ N >= 1 /\ Low \in Nat /\ Low \in 1 .. N - 1
  /\ Radix \in Nat /\ Radix >= 1 /\ Radix \div 2 \in Int /\ Radix \div 16 \in Int
  /\ \A k \in 1 .. N : L[k] \in Int
<1>1. N \in Nat /\ N >= 1 /\ Low \in 1 .. N - 1 /\ Radix \in Nat /\ Radix >= 1
  BY ScalarWidths, Digits, OrderAssumption
<1>2. \A k \in 1 .. N : L[k] \in Int
  BY <1>1, OrderAssumption
<1> QED
  BY <1>1, <1>2

\* One digit of an elimination.
EliminateDigit(x, i, v, k) ==
  LET j == i - N + k - 1
      w == v.x[j] + v.carry - 16 * x[i] * L[k]
      c == (w + Radix \div 2) \div Radix
  IN [x |-> [v.x EXCEPT ![j] = w - c * Radix], carry |-> c]

\* One digit of a settlement.
SettleDigit(quotient, v, j) ==
  LET w == v.x[j - 1] + v.carry - quotient * L[j]
  IN [x |-> [v.x EXCEPT ![j - 1] = w % Radix], carry |-> w \div Radix]

\* An update of signed digits.
LEMMA DigitUpdate ==
  ASSUME NEW x \in SignedDigits, NEW j, NEW v \in Int
  PROVE  [x EXCEPT ![j] = v] \in SignedDigits
  BY DEF SignedDigits

\* The step of an elimination keeps the digits integers.
LEMMA EliminateDigitTyped ==
  ASSUME NEW x \in SignedDigits, NEW i \in N .. 2 * N - 1, NEW v \in Sweep, NEW k \in 1 .. Low
  PROVE  EliminateDigit(x, i, v, k) \in Sweep
<1> DEFINE j == i - N + k - 1
           w == v.x[j] + v.carry - 16 * x[i] * L[k]
           c == (w + Radix \div 2) \div Radix
<1>1. j \in Digit /\ i \in Digit /\ k \in 1 .. N
  BY ReductionWidths DEF Digit
<1>2. v.x \in SignedDigits /\ v.x[j] \in Int /\ v.carry \in Int /\ x[i] \in Int /\ L[k] \in Int
  BY <1>1, ReductionWidths DEF Sweep, SignedDigits
<1>3. 16 * x[i] \in Int /\ 16 * x[i] * L[k] \in Int
  <2>1. 16 * x[i] \in Int
    BY <1>2
  <2> QED
    BY <1>2, <2>1
<1>4. w \in Int
  BY <1>2, <1>3
<1> HIDE DEF w, j
<1>5. c \in Int
  BY <1>4, ReductionWidths
<1> HIDE DEF c
<1>6. w - c * Radix \in Int
  <2>1. c * Radix \in Int
    BY <1>5, ReductionWidths
  <2> QED
    BY <1>4, <2>1
<1>7. [v.x EXCEPT ![j] = w - c * Radix] \in SignedDigits
  BY <1>2, <1>6, DigitUpdate
<1> QED
  BY <1>5, <1>7 DEF EliminateDigit, Sweep, c, w, j

\* So does the step of a settlement.
LEMMA SettleDigitTyped ==
  ASSUME NEW quotient \in Int, NEW v \in Sweep, NEW j \in 1 .. N
  PROVE  SettleDigit(quotient, v, j) \in Sweep
<1> DEFINE w == v.x[j - 1] + v.carry - quotient * L[j]
<1>1. j - 1 \in Digit
  BY ReductionWidths DEF Digit
<1>2. v.x \in SignedDigits /\ v.x[j - 1] \in Int /\ v.carry \in Int /\ L[j] \in Int
  BY <1>1, ReductionWidths DEF Sweep, SignedDigits
<1>3. quotient * L[j] \in Int
  BY <1>2
<1>4. w \in Int
  BY <1>2, <1>3
<1> HIDE DEF w
<1>5. w % Radix \in Int /\ w \div Radix \in Int
  BY <1>4, ReductionWidths
<1>6. [v.x EXCEPT ![j - 1] = w % Radix] \in SignedDigits
  BY <1>2, <1>5, DigitUpdate
<1> QED
  BY <1>5, <1>6 DEF SettleDigit, Sweep, w

\* Quotient and remainder.
LEMMA Division ==
  ASSUME NEW v \in Int, NEW b \in Nat, b >= 1
  PROVE  /\ v \div b \in Int /\ v % b \in 0 .. b - 1 /\ v % b \in Int
         /\ v = b * (v \div b) + (v % b)
         /\ v = (v \div b) * b + (v % b) /\ (v \div b) * b \in Int
<1> DEFINE q == v \div b
           z == v % b
<1>1. q \in Int /\ z \in 0 .. b - 1 /\ v = b * q + z
  OBVIOUS
<1> HIDE DEF q, z
<1>2. b * q = q * b /\ q * b \in Int
  BY <1>1
<1> QED
  BY <1>1, <1>2 DEF q, z

\* A remainder by the radix, and one rounded to the nearest.
LEMMA Rounded ==
  ASSUME NEW w \in Int
  PROVE  /\ w - (w \div Radix) * Radix = w % Radix
         /\ w % Radix \in 0 .. Radix - 1
         /\ w - ((w + Middle) \div Radix) * Radix \in -Middle .. Middle - 1
         /\ w \div Radix \in Int /\ (w + Middle) \div Radix \in Int
<1>1. Radix \in Nat /\ Radix >= 1 /\ Middle \in Int /\ Radix = 2 * Middle
  BY RadixParts
<1>2. ASSUME NEW v \in Int
      PROVE  v \div Radix \in Int /\ v = (v \div Radix) * Radix + (v % Radix) /\ v % Radix \in 0 .. Radix - 1
             /\ (v \div Radix) * Radix \in Int
  BY <1>1, Division
<1>3. w + Middle \in Int
  BY <1>1
<1>4. /\ w = (w \div Radix) * Radix + (w % Radix) /\ w % Radix \in 0 .. Radix - 1
      /\ w \div Radix \in Int /\ (w \div Radix) * Radix \in Int
  BY <1>2
<1> DEFINE v == w + Middle
           c == v \div Radix
           z == v % Radix
<1>5. v = c * Radix + z /\ z \in 0 .. Radix - 1 /\ c \in Int /\ c * Radix \in Int
  BY <1>2, <1>3
<1> HIDE DEF c, z
<1>6. w - c * Radix = z - Middle
  BY <1>1, <1>5
<1>7. z - Middle \in -Middle .. Middle - 1
  BY <1>1, <1>5
<1> QED
  BY <1>4, <1>5, <1>6, <1>7 DEF c

\* The elimination of digit i, in equations: each digit of its window takes a
\* carry, loses its share of the multiple and leaves a carry.
EliminatedBy(x, y, i, c) ==
  LET a == i - N IN
  /\ c[0] = 0 /\ \A k \in 0 .. Low : c[k] \in Int
  /\ \A k \in 1 .. Low :
       /\ y[a + k - 1] = x[a + k - 1] + c[k - 1] - 16 * x[i] * L[k] - c[k] * Radix
       /\ y[a + k - 1] \in -Middle .. Middle - 1
  /\ y[a + Low] = x[a + Low] + c[Low]
  /\ y[i] = 0
  /\ \A j \in Digit \ ((a .. a + Low) \cup {i}) : y[j] = x[j]

\* An elimination is a sweep in equations.
LEMMA EliminateIs ==
  ASSUME NEW x \in SignedDigits, NEW i \in N .. 2 * N - 1
  PROVE  /\ Eliminate(x, i) \in SignedDigits
         /\ \E c : EliminatedBy(x, Eliminate(x, i), i, c)
<1> DEFINE first == [x |-> x, carry |-> 0]
           Rec(f) == [k \in 0 .. Low |-> IF k = 0 THEN first ELSE EliminateDigit(x, i, f[k - 1], k)]
           step == [k \in 1 .. Low |-> [v \in Sweep |-> EliminateDigit(x, i, v, k)]]
           p == CHOOSE f : f = Rec(f)
           F == [0 .. Low -> Sweep]
           G == [1 .. Low -> [Sweep -> Sweep]]
<1>1. Low \in Nat /\ first \in Sweep
  BY ReductionWidths DEF Sweep
<1>2. Eliminate(x, i) = [p[Low].x EXCEPT ![i - N + Low] = @ + p[Low].carry, ![i] = 0]
  BY DEF Eliminate, EliminateDigit
<1>3. step \in G
  BY EliminateDigitTyped
<1>4. \A k \in 1 .. Low : \A v \in Sweep : step[k][v] = EliminateDigit(x, i, v, k)
  OBVIOUS
<1> HIDE DEF step, first
<1>5. PICK f \in F : f[0] = first /\ \A k \in 1 .. Low : f[k] = step[k][f[k - 1]]
  <2>1. F = [0 .. Low -> Sweep] /\ G = [1 .. Low -> [Sweep -> Sweep]]
    OBVIOUS
  <2> HIDE DEF F, G
  <2>2. \E f \in F : Steps(f, first, Low, step)
    BY ONLY <1>1, <2>1, <1>3, Recursion, Zenon
  <2> QED
    BY <2>2 DEF Steps
<1>6. ASSUME NEW k \in 0 .. Low PROVE f[k] = Rec(f)[k]
  <2>1. CASE k = 0
    BY <1>5, <2>1
  <2>2. CASE k # 0
    <3>1. k \in 1 .. Low /\ k - 1 \in 0 .. Low
      BY <1>1, <2>2
    <3>2. f[k] = EliminateDigit(x, i, f[k - 1], k)
      BY <1>4, <1>5, <3>1
    <3> QED
      BY <2>2, <3>2
  <2> QED
    BY <2>1, <2>2
<1>7. f = Rec(f)
  BY <1>6
<1>8. p = Rec(p)
  <2> HIDE DEF Rec
  <2> QED
    BY <1>7
<1> HIDE DEF p
<1>9. p[0] = first /\ \A k \in 1 .. Low : p[k] = EliminateDigit(x, i, p[k - 1], k)
  <2>1. 0 \in 0 .. Low /\ \A k \in 1 .. Low : k \in 0 .. Low /\ k # 0
    BY <1>1
  <2>2. Rec(p)[0] = first /\ \A k \in 1 .. Low : Rec(p)[k] = EliminateDigit(x, i, p[k - 1], k)
    BY <2>1
  <2> HIDE DEF Rec
  <2> QED
    BY <1>8, <2>2
<1>10. \A k \in 0 .. Low : p[k] \in Sweep
  <2>1. p[0] \in Sweep /\ \A k \in 1 .. Low : p[k - 1] \in Sweep => p[k] \in Sweep
    BY <1>1, <1>9, EliminateDigitTyped
  <2>2. \A k \in 0 .. Low : p[k] \in Sweep
    BY ONLY <1>1, <2>1, StaysIn
  <2> QED
    BY <1>1, <2>2
<1> DEFINE a == i - N
           c == [k \in 0 .. Low |-> p[k].carry]
           w == [k \in 1 .. Low |-> x[a + k - 1] + c[k - 1] - 16 * x[i] * L[k]]
           Passed(k) == /\ \A j \in Digit \ (a .. a + k - 1) : p[k].x[j] = x[j]
                        /\ \A l \in 1 .. k : p[k].x[a + l - 1] = w[l] - c[l] * Radix
           T == {k \in 0 .. Low : Passed(k)}
<1>11. /\ a \in Nat /\ a + Low < i /\ i \in Digit /\ a + Low \in Digit /\ N \in Nat
       /\ \A k \in 1 .. Low : a + k - 1 \in Digit /\ k \in 1 .. N /\ k - 1 \in 0 .. Low /\ k \in 0 .. Low
  BY ReductionWidths, OrderShape DEF Digit
<1>12. \A k \in 0 .. Low : c[k] = p[k].carry /\ c[k] \in Int /\ p[k].x \in SignedDigits
  BY <1>10 DEF Sweep
<1>13. p[0].x = x /\ c[0] = 0
  BY <1>1, <1>9, <1>12 DEF first
<1> HIDE DEF c, first
<1>14. \A k \in 1 .. Low : w[k] \in Int
  <2> SUFFICES ASSUME NEW k \in 1 .. Low
               PROVE  x[a + k - 1] + c[k - 1] - 16 * x[i] * L[k] \in Int
    OBVIOUS
  <2>1. x[a + k - 1] \in Int /\ c[k - 1] \in Int /\ x[i] \in Int /\ L[k] \in Int
    BY <1>11, <1>12, ReductionWidths DEF SignedDigits
  <2>2. 16 * x[i] \in Int
    BY <2>1
  <2>3. 16 * x[i] * L[k] \in Int
    BY <2>1, <2>2
  <2> QED
    BY <2>1, <2>3
<1>15. \A k \in 1 .. Low : w[k] = x[a + k - 1] + c[k - 1] - 16 * x[i] * L[k]
  OBVIOUS
<1> HIDE DEF w, a
<1>16. ASSUME NEW k \in 1 .. Low, Passed(k - 1)
       PROVE  /\ c[k] = (w[k] + Middle) \div Radix
              /\ p[k].x = [p[k - 1].x EXCEPT ![a + k - 1] = w[k] - c[k] * Radix]
  <2> DEFINE v == p[k - 1]
             j == a + k - 1
             u == v.x[j] + v.carry - 16 * x[i] * L[k]
  <2>1. p[k] = EliminateDigit(x, i, v, k) /\ i - N + k - 1 = j
    BY <1>9 DEF a
  <2>2. v.carry = c[k - 1]
    BY <1>11, <1>12
  <2>3. v.x[j] = x[j]
    <3>1. j \in Digit \ (a .. a + (k - 1) - 1)
      BY <1>11
    <3> QED
      BY <1>16, <3>1
  <2>4. u = w[k]
    BY <1>15, <2>2, <2>3
  <2> HIDE DEF v, j, u
  <2>5. p[k] = [x |-> [v.x EXCEPT ![j] = u - ((u + Middle) \div Radix) * Radix],
                carry |-> (u + Middle) \div Radix]
    <3>1. i - N + k - 1 = j /\ u = v.x[j] + v.carry - 16 * x[i] * L[k]
      BY <2>1 DEF u
    <3> QED
      BY <2>1, <3>1, Zenon DEF EliminateDigit, Middle
  <2>6. c[k] = p[k].carry
    BY <1>11, <1>12
  <2> QED
    BY <2>4, <2>5, <2>6 DEF v, j
<1>17. Passed(0)
  <2>1. \A j \in Digit : p[0].x[j] = x[j]
    BY <1>13
  <2> QED
    BY <2>1
<1>18. ASSUME NEW k \in 0 .. Low - 1, Passed(k) PROVE Passed(k + 1)
  <2>1. /\ k + 1 \in 1 .. Low /\ k + 1 - 1 = k /\ k \in 0 .. Low /\ a + (k + 1) - 1 = a + k
        /\ a + k \in Digit /\ a \in Nat
    <3>1. k + 1 \in 1 .. Low /\ k + 1 - 1 = k /\ k \in 0 .. Low /\ a + (k + 1) - 1 = a + k
      BY <1>1, <1>11
    <3>2. a + (k + 1) - 1 \in Digit
      BY <1>11, <3>1
    <3> QED
      BY <1>11, <3>1, <3>2
  <2>2. p[k + 1].x = [p[k].x EXCEPT ![a + k] = w[k + 1] - c[k + 1] * Radix]
    <3>1. Passed((k + 1) - 1)
      <4> HIDE DEF Passed
      <4> QED
        BY <1>18, <2>1
    <3> HIDE DEF Passed
    <3> QED
      BY <1>16, <2>1, <3>1
  <2>3. DOMAIN p[k].x = Digit
    BY <1>12, <2>1 DEF SignedDigits
  <2>4. ASSUME NEW j \in Digit \ (a .. a + (k + 1) - 1) PROVE p[k + 1].x[j] = x[j]
    <3>1. j # a + k /\ j \in Digit \ (a .. a + k - 1)
      BY <2>1 DEF Digit
    <3> QED
      BY <1>18, <2>2, <2>3, <3>1
  <2>5. ASSUME NEW l \in 1 .. k + 1 PROVE p[k + 1].x[a + l - 1] = w[l] - c[l] * Radix
    <3>1. CASE l = k + 1
      BY <2>1, <2>2, <2>3, <3>1
    <3>2. CASE l # k + 1
      <4>1. l \in 1 .. k /\ a + l - 1 # a + k /\ l \in 1 .. Low
        BY <1>1, <2>1, <3>2
      <4>2. a + l - 1 \in Digit
        BY <1>11, <4>1
      <4> QED
        BY <1>18, <2>2, <2>3, <4>1, <4>2
    <3> QED
      BY <3>1, <3>2
  <2> QED
    BY <2>4, <2>5
<1>19. /\ Passed(Low)
       /\ \A k \in 0 .. Low : Passed(k)
  <2>1. 0 \in T /\ \A k \in 0 .. Low - 1 : k \in T => k + 1 \in T
    <3>1. 0 \in 0 .. Low /\ \A k \in 0 .. Low - 1 : k + 1 \in 0 .. Low
      BY <1>1
    <3> HIDE DEF Passed
    <3> QED
      BY <1>17, <1>18, <3>1
  <2>2. \A k \in T : Passed(k)
    <3> HIDE DEF Passed
    <3> QED
      OBVIOUS
  <2> HIDE DEF T
  <2>3. \A k \in 0 .. Low : k \in T
    BY ONLY <1>1, <2>1, Upwards
  <2>4. Low \in 0 .. Low
    BY <1>1
  <2> HIDE DEF Passed
  <2> QED
    BY <2>2, <2>3, <2>4
<1>20. \A k \in 1 .. Low : w[k] - c[k] * Radix \in -Middle .. Middle - 1
  <2> SUFFICES ASSUME NEW k \in 1 .. Low PROVE w[k] - c[k] * Radix \in -Middle .. Middle - 1
    OBVIOUS
  <2>1. k - 1 \in 0 .. Low
    BY <1>11
  <2>2. c[k] = (w[k] + Middle) \div Radix
    <3> HIDE DEF Passed
    <3> QED
      BY <1>16, <1>19, <2>1
  <2> QED
    BY <1>14, <2>2, Rounded
<1> DEFINE z == p[Low].x
           y == [z EXCEPT ![a + Low] = z[a + Low] + c[Low], ![i] = 0]
<1>21. Eliminate(x, i) = y
  <2>1. p[Low].carry = c[Low]
    BY <1>1, <1>12
  <2> HIDE DEF p
  <2> QED
    BY <1>2, <2>1 DEF a
<1>22. z \in SignedDigits /\ c[Low] \in Int
  BY <1>1, <1>12
<1>23. \A j \in Digit \ (a .. a + Low - 1) : z[j] = x[j]
  BY <1>19
<1>24. \A k \in 1 .. Low : z[a + k - 1] = w[k] - c[k] * Radix
  BY <1>19
<1> HIDE DEF z
<1>25. y \in SignedDigits
  BY <1>11, <1>22 DEF SignedDigits
<1>26. \A j \in Digit : j # a + Low /\ j # i => y[j] = z[j]
  BY <1>22 DEF SignedDigits
<1>27. y[i] = 0 /\ y[a + Low] = x[a + Low] + c[Low]
  <2>1. a + Low \in Digit \ (a .. a + Low - 1) /\ a + Low # i
    BY <1>1, <1>11
  <2> QED
    BY <1>11, <1>22, <1>23, <2>1 DEF SignedDigits
<1> HIDE DEF y
<1>28. ASSUME NEW k \in 1 .. Low
       PROVE  /\ y[a + k - 1] = x[a + k - 1] + c[k - 1] - 16 * x[i] * L[k] - c[k] * Radix
              /\ y[a + k - 1] \in -Middle .. Middle - 1
  <2>1. a + k - 1 \in Digit /\ a + k - 1 # a + Low /\ a + k - 1 # i
    BY <1>1, <1>11
  <2>2. y[a + k - 1] = w[k] - c[k] * Radix
    BY <1>24, <1>26, <2>1
  <2>3. y[a + k - 1] = x[a + k - 1] + c[k - 1] - 16 * x[i] * L[k] - c[k] * Radix
    <3> DEFINE u == x[a + k - 1]
               v == c[k - 1]
               m == 16 * x[i] * L[k]
               d == c[k] * Radix
    <3>1. u \in Int /\ v \in Int /\ m \in Int /\ d \in Int
      <4>0. k - 1 \in 0 .. Low /\ k \in 0 .. Low /\ a + k - 1 \in Digit /\ i \in Digit /\ k \in 1 .. N
        BY <1>11
      <4>3. u \in Int /\ x[i] \in Int
        BY <4>0 DEF SignedDigits
      <4>4. v \in Int /\ c[k] \in Int
        BY <1>12, <4>0
      <4>1. u \in Int /\ v \in Int /\ c[k] \in Int /\ x[i] \in Int /\ L[k] \in Int /\ Radix \in Int
        BY <4>0, <4>3, <4>4, ReductionWidths
      <4>2. 16 * x[i] \in Int
        BY <4>1
      <4>5. m \in Int
        <5> DEFINE sixteen == 16 * x[i]
                   digit == L[k]
        <5>1. sixteen \in Int /\ digit \in Int
          BY <4>1, <4>2
        <5> HIDE DEF sixteen, digit
        <5>2. sixteen * digit \in Int
          BY <5>1
        <5> QED
          BY <5>2 DEF sixteen, digit
      <4>6. d \in Int
        BY <4>1
      <4> HIDE DEF m, d
      <4> QED
        BY <4>1, <4>5, <4>6
    <3>2. w[k] = u + v - m /\ y[a + k - 1] = w[k] - d
      BY <1>15, <2>2
    <3> HIDE DEF u, v, m, d
    <3>3. y[a + k - 1] = u + v - m - d
      BY <3>1, <3>2
    <3> QED
      BY <3>3 DEF u, v, m, d
  <2>4. y[a + k - 1] \in -Middle .. Middle - 1
    BY <1>20, <2>2, Zenon
  <2> QED
    BY <2>3, <2>4
<1>29. ASSUME NEW j \in Digit \ ((a .. a + Low) \cup {i}) PROVE y[j] = x[j]
  <2>1. j # a + Low /\ j # i /\ j \in Digit \ (a .. a + Low - 1)
    BY <1>1, <1>11 DEF Digit
  <2> QED
    BY <1>23, <1>26, <2>1
<1>30. EliminatedBy(x, y, i, c)
  BY <1>12, <1>13, <1>27, <1>28, <1>29 DEF EliminatedBy, a
<1> QED
  BY <1>21, <1>25, <1>30

\* The settlement with a quotient, in equations: d are the bytes that the sweep
\* leaves, and its last carry times the order is taken off.
SettledBy(x, z, quotient, d, c) ==
  /\ c[0] = 0 /\ \A k \in 0 .. N : c[k] \in Int
  /\ \A k \in 1 .. N : /\ d[k - 1] = x[k - 1] + c[k - 1] - quotient * L[k] - c[k] * Radix
                       /\ d[k - 1] \in 0 .. Radix - 1
  /\ \A j \in 0 .. N - 1 : z[j] = d[j] - c[N] * L[j + 1]
  /\ \A j \in N .. 2 * N - 1 : z[j] = 0

\* Settling is a sweep in equations.
LEMMA SettleIs ==
  ASSUME NEW x \in SignedDigits
  PROVE  /\ Settle(x) \in SignedDigits
         /\ \E d \in SignedDigits : \E c : SettledBy(x, Settle(x), x[N - 1] \div Top, d, c)
<1> DEFINE quotient == x[N - 1] \div (Radix \div 16)
           first == [x |-> x, carry |-> 0]
           Rec(f) == [k \in 0 .. N |-> IF k = 0 THEN first ELSE SettleDigit(quotient, f[k - 1], k)]
           step == [k \in 1 .. N |-> [v \in Sweep |-> SettleDigit(quotient, v, k)]]
           p == CHOOSE f : f = Rec(f)
           F == [0 .. N -> Sweep]
           G == [1 .. N -> [Sweep -> Sweep]]
<1>1. N \in Nat /\ N >= 1 /\ N - 1 \in Digit /\ first \in Sweep /\ N \in 0 .. N
  BY ScalarWidths DEF Sweep, Digit
<1>2. Settle(x) = [i \in Digit |-> IF i < N THEN p[N].x[i] - p[N].carry * L[i + 1] ELSE 0]
  BY DEF Settle, SettleDigit
<1>0. quotient \in Int
  <2>1. Radix \div 16 \in Int /\ Radix \div 16 > 0
    BY RadixParts DEF Top
  <2>2. x[N - 1] \in Int
    BY <1>1 DEF SignedDigits
  <2> QED
    BY <2>1, <2>2
<1> HIDE DEF quotient
<1>3. step \in G
  BY <1>0, SettleDigitTyped
<1>4. \A k \in 1 .. N : \A v \in Sweep : step[k][v] = SettleDigit(quotient, v, k)
  OBVIOUS
<1> HIDE DEF step, first
<1>5. PICK f \in F : f[0] = first /\ \A k \in 1 .. N : f[k] = step[k][f[k - 1]]
  <2>1. F = [0 .. N -> Sweep] /\ G = [1 .. N -> [Sweep -> Sweep]]
    OBVIOUS
  <2> HIDE DEF F, G
  <2>2. \E f \in F : Steps(f, first, N, step)
    BY ONLY <1>1, <2>1, <1>3, Recursion, Zenon
  <2> QED
    BY <2>2 DEF Steps
<1>6. ASSUME NEW k \in 0 .. N PROVE f[k] = Rec(f)[k]
  <2>1. CASE k = 0
    BY <1>5, <2>1
  <2>2. CASE k # 0
    <3>1. k \in 1 .. N /\ k - 1 \in 0 .. N
      BY <1>1, <2>2
    <3>2. f[k] = SettleDigit(quotient, f[k - 1], k)
      BY <1>4, <1>5, <3>1
    <3> QED
      BY <2>2, <3>2
  <2> QED
    BY <2>1, <2>2
<1>7. f = Rec(f)
  BY <1>6
<1>8. p = Rec(p)
  <2> HIDE DEF Rec
  <2> QED
    BY <1>7
<1> HIDE DEF p
<1>9. p[0] = first /\ \A k \in 1 .. N : p[k] = SettleDigit(quotient, p[k - 1], k)
  <2>1. 0 \in 0 .. N /\ \A k \in 1 .. N : k \in 0 .. N /\ k # 0
    BY <1>1
  <2>2. Rec(p)[0] = first /\ \A k \in 1 .. N : Rec(p)[k] = SettleDigit(quotient, p[k - 1], k)
    BY <2>1
  <2> HIDE DEF Rec
  <2> QED
    BY <1>8, <2>2
<1>10. \A k \in 0 .. N : p[k] \in Sweep
  <2>1. p[0] \in Sweep /\ \A k \in 1 .. N : p[k - 1] \in Sweep => p[k] \in Sweep
    BY <1>0, <1>1, <1>9, SettleDigitTyped
  <2>2. \A k \in 0 .. N : p[k] \in Sweep
    BY ONLY <1>1, <2>1, StaysIn
  <2> QED
    BY <1>1, <2>2
<1> DEFINE c == [k \in 0 .. N |-> p[k].carry]
           w == [k \in 1 .. N |-> x[k - 1] + c[k - 1] - quotient * L[k]]
           Passed(k) == /\ \A j \in Digit \ (0 .. k - 1) : p[k].x[j] = x[j]
                        /\ \A l \in 1 .. k : p[k].x[l - 1] = w[l] % Radix
           T == {k \in 0 .. N : Passed(k)}
<1>11. \A k \in 1 .. N : k - 1 \in Digit /\ k - 1 \in 0 .. N /\ k \in 0 .. N
  BY ReductionWidths DEF Digit
<1>12. \A k \in 0 .. N : c[k] = p[k].carry /\ c[k] \in Int /\ p[k].x \in SignedDigits
  BY <1>10 DEF Sweep
<1>13. p[0].x = x /\ c[0] = 0
  BY <1>1, <1>9, <1>12 DEF first
<1> HIDE DEF c, first
<1>14. \A k \in 1 .. N : /\ w[k] \in Int /\ x[k - 1] \in Int /\ c[k - 1] \in Int /\ c[k] \in Int
                         /\ quotient * L[k] \in Int
  <2> SUFFICES ASSUME NEW k \in 1 .. N
               PROVE  /\ x[k - 1] + c[k - 1] - quotient * L[k] \in Int
                      /\ x[k - 1] \in Int /\ c[k - 1] \in Int /\ c[k] \in Int
                      /\ quotient * L[k] \in Int
    OBVIOUS
  <2>1. k - 1 \in Digit /\ k - 1 \in 0 .. N /\ k \in 0 .. N
    BY <1>11
  <2>2. x[k - 1] \in Int
    BY <2>1 DEF SignedDigits
  <2>3. c[k - 1] \in Int /\ c[k] \in Int
    BY <1>12, <2>1
  <2>4. quotient * L[k] \in Int
    BY <1>0, ReductionWidths
  <2> QED
    BY <2>2, <2>3, <2>4
<1>15. \A k \in 1 .. N : w[k] = x[k - 1] + c[k - 1] - quotient * L[k]
  OBVIOUS
<1> HIDE DEF w
<1>16. ASSUME NEW k \in 1 .. N, Passed(k - 1)
       PROVE  /\ c[k] = w[k] \div Radix
              /\ p[k].x = [p[k - 1].x EXCEPT ![k - 1] = w[k] % Radix]
  <2> DEFINE v == p[k - 1]
             j == k - 1
             u == v.x[j] + v.carry - quotient * L[k]
  <2>1. p[k] = SettleDigit(quotient, v, k)
    BY <1>9
  <2>2. v.carry = c[k - 1]
    BY <1>11, <1>12
  <2>3. v.x[j] = x[j]
    <3>1. j \in Digit \ (0 .. (k - 1) - 1)
      BY <1>1, <1>11
    <3> QED
      BY <1>16, <3>1
  <2>4. u = w[k]
    BY <1>15, <2>2, <2>3
  <2> HIDE DEF v, u
  <2>5. p[k] = [x |-> [v.x EXCEPT ![k - 1] = u % Radix], carry |-> u \div Radix]
    BY <2>1, Zenon DEF SettleDigit, u
  <2>6. c[k] = p[k].carry
    BY <1>11, <1>12
  <2> QED
    BY <2>4, <2>5, <2>6 DEF v
<1>17. Passed(0)
  BY <1>13
<1>18. ASSUME NEW k \in 0 .. N - 1, Passed(k) PROVE Passed(k + 1)
  <2>1. k + 1 \in 1 .. N /\ k + 1 - 1 = k /\ k \in 0 .. N /\ k \in Digit
    BY <1>1 DEF Digit
  <2>2. p[k + 1].x = [p[k].x EXCEPT ![k] = w[k + 1] % Radix]
    <3>1. Passed((k + 1) - 1)
      <4> HIDE DEF Passed
      <4> QED
        BY <1>18, <2>1
    <3> HIDE DEF Passed
    <3> DEFINE j == (k + 1) - 1
               u == w[k + 1] % Radix
    <3>0. j = k
      BY <2>1
    <3>2. p[k + 1].x = [p[j].x EXCEPT ![j] = u]
      BY <1>16, <2>1, <3>1, Zenon
    <3> HIDE DEF j, u
    <3>3. p[k + 1].x = [p[k].x EXCEPT ![k] = u]
      BY <3>0, <3>2
    <3> QED
      BY <3>3 DEF u
  <2>3. DOMAIN p[k].x = Digit
    BY <1>12, <2>1 DEF SignedDigits
  <2>4. ASSUME NEW j \in Digit \ (0 .. (k + 1) - 1) PROVE p[k + 1].x[j] = x[j]
    <3>1. j # k /\ j \in Digit \ (0 .. k - 1)
      BY <2>1 DEF Digit
    <3> QED
      BY <1>18, <2>2, <2>3, <3>1
  <2>5. ASSUME NEW l \in 1 .. k + 1 PROVE p[k + 1].x[l - 1] = w[l] % Radix
    <3>1. CASE l = k + 1
      <4>1. p[k + 1].x[k] = w[k + 1] % Radix
        BY <2>1, <2>2, <2>3
      <4> QED
        BY <2>1, <3>1, <4>1
    <3>2. CASE l # k + 1
      <4>1. l \in 1 .. k /\ l - 1 # k /\ l \in 1 .. N
        BY <1>1, <2>1, <3>2
      <4>2. l - 1 \in Digit
        BY <1>11, <4>1
      <4> QED
        BY <1>18, <2>2, <2>3, <4>1, <4>2
    <3> QED
      BY <3>1, <3>2
  <2> QED
    BY <2>4, <2>5
<1>19. /\ Passed(N)
       /\ \A k \in 0 .. N : Passed(k)
  <2>1. 0 \in T /\ \A k \in 0 .. N - 1 : k \in T => k + 1 \in T
    <3>1. 0 \in 0 .. N /\ \A k \in 0 .. N - 1 : k + 1 \in 0 .. N
      BY <1>1
    <3> HIDE DEF Passed
    <3> QED
      BY <1>17, <1>18, <3>1
  <2>2. \A k \in T : Passed(k)
    <3> HIDE DEF Passed
    <3> QED
      OBVIOUS
  <2> HIDE DEF T
  <2>3. \A k \in 0 .. N : k \in T
    BY ONLY <1>1, <2>1, Upwards
  <2> HIDE DEF Passed
  <2> QED
    BY <1>1, <2>2, <2>3
<1> DEFINE d == p[N].x
           z == Settle(x)
<1>20. ASSUME NEW k \in 1 .. N
       PROVE  /\ d[k - 1] = x[k - 1] + c[k - 1] - quotient * L[k] - c[k] * Radix
              /\ d[k - 1] \in 0 .. Radix - 1
  <2>1. k - 1 \in 0 .. N
    BY <1>11
  <2>2. c[k] = w[k] \div Radix
    <3> HIDE DEF Passed
    <3> QED
      BY <1>16, <1>19, <2>1
  <2>3. d[k - 1] = w[k] % Radix
    BY <1>19
  <2>4. d[k - 1] = w[k] - c[k] * Radix /\ d[k - 1] \in 0 .. Radix - 1
    BY <1>14, <2>2, <2>3, Rounded
  <2> HIDE DEF d
  <2> DEFINE u == x[k - 1]
             v == c[k - 1]
             m == quotient * L[k]
             e == c[k] * Radix
  <2>5. u \in Int /\ v \in Int /\ m \in Int /\ e \in Int
    <3>1. Radix \in Int
      BY ReductionWidths
    <3> QED
      BY <1>14, <3>1
  <2>6. w[k] = u + v - m /\ d[k - 1] = w[k] - e
    BY <1>15, <2>4
  <2> HIDE DEF u, v, m, e
  <2>7. d[k - 1] = u + v - m - e
    BY <2>5, <2>6
  <2> QED
    BY <2>4, <2>7 DEF u, v, m, e
<1>21. d \in SignedDigits /\ c[N] = p[N].carry /\ c[N] \in Int
  BY <1>1, <1>12
<1>22. /\ \A j \in 0 .. N - 1 : z[j] = d[j] - c[N] * L[j + 1]
       /\ \A j \in N .. 2 * N - 1 : z[j] = 0
  <2>1. \A j \in 0 .. N - 1 : j \in Digit /\ j < N
    BY <1>1 DEF Digit
  <2>2. \A j \in N .. 2 * N - 1 : j \in Digit /\ ~(j < N)
    BY <1>1 DEF Digit
  <2> HIDE DEF p
  <2> QED
    BY <1>2, <1>21, <2>1, <2>2
<1>23. z \in SignedDigits
  <2>1. ASSUME NEW i \in Digit, i < N PROVE d[i] - c[N] * L[i + 1] \in Int
    <3>1. i + 1 \in 1 .. N
      BY <1>1, <2>1 DEF Digit
    <3>2. d[i] \in Int /\ L[i + 1] \in Int
      BY <1>21, <3>1, ReductionWidths DEF SignedDigits
    <3>3. c[N] * L[i + 1] \in Int
      BY <1>21, <3>2
    <3> QED
      BY <3>2, <3>3
  <2> HIDE DEF p
  <2> QED
    BY <1>2, <1>21, <2>1 DEF SignedDigits
<1> HIDE DEF d, z, Passed
<1>24. SettledBy(x, z, quotient, d, c)
  BY <1>12, <1>13, <1>20, <1>22 DEF SettledBy
<1> QED
  BY <1>21, <1>23, <1>24 DEF z, quotient, Top

\* Carrying, in equations: r are bytes, and c the carries out of them.
CarriedBy(x, r, c) ==
  /\ c[0] = 0 /\ \A k \in 0 .. N : c[k] \in Int
  /\ \A k \in 1 .. N : r[k] = x[k - 1] + c[k - 1] - c[k] * Radix

\* Carrying makes bytes, in equations.
LEMMA CarryIs ==
  ASSUME NEW x \in SignedDigits
  PROVE  /\ Carry(x) \in [1 .. N -> Byte]
         /\ \E c : CarriedBy(x, Carry(x), c)
<1> DEFINE Rec(f) == [i \in 0 .. N - 1 |-> x[i] + IF i = 0 THEN 0 ELSE f[i - 1] \div Radix]
           first == x[0]
           step == [i \in 1 .. N - 1 |-> [v \in Int |-> x[i] + v \div Radix]]
           p == CHOOSE f : f = Rec(f)
           Values == Int
           F == [0 .. N - 1 -> Values]
           G == [1 .. N - 1 -> [Values -> Values]]
           n == N - 1
<1>1. N \in Nat /\ n \in Nat /\ first \in Values /\ \A i \in 0 .. n : x[i] \in Int
  <2>1. N \in Nat /\ n \in Nat /\ 0 .. n \subseteq Digit
    BY ScalarWidths DEF Digit
  <2> QED
    BY <2>1 DEF SignedDigits
<1>2. Carry(x) = [i \in 1 .. N |-> p[i - 1] % Radix]
  BY DEF Carry
<1>3. \A v \in Int : v \div Radix \in Int /\ v % Radix \in Byte
  BY ReductionWidths DEF Byte
<1>4. step \in G
  BY <1>1, <1>3
<1>5. \A i \in 1 .. n : \A v \in Int : step[i][v] = x[i] + v \div Radix
  OBVIOUS
<1> HIDE DEF step
<1>6. PICK f \in F : f[0] = first /\ \A i \in 1 .. n : f[i] = step[i][f[i - 1]]
  <2>1. F = [0 .. n -> Values] /\ G = [1 .. n -> [Values -> Values]]
    OBVIOUS
  <2> HIDE DEF F, G, Values, n, first
  <2>2. \E f \in F : Steps(f, first, n, step)
    BY ONLY <1>1, <2>1, <1>4, Recursion, Zenon
  <2> QED
    BY <2>2 DEF Steps
<1>7. ASSUME NEW i \in 0 .. N - 1 PROVE f[i] = Rec(f)[i]
  <2>1. CASE i = 0
    <3>1. x[0] + 0 = x[0]
      BY <1>1
    <3> QED
      BY <1>6, <2>1, <3>1
  <2>2. CASE i # 0
    <3>1. i \in 1 .. n /\ i - 1 \in 0 .. n
      BY <1>1, <2>2
    <3>2. f[i] = x[i] + f[i - 1] \div Radix
      BY <1>5, <1>6, <3>1
    <3> QED
      BY <2>2, <3>2
  <2> QED
    BY <2>1, <2>2
<1>8. f = Rec(f)
  BY <1>7
<1>9. p = Rec(p)
  <2> HIDE DEF Rec
  <2> QED
    BY <1>8
<1> HIDE DEF p
<1>0. p[0] = x[0] + 0 /\ \A i \in 1 .. n : p[i] = x[i] + p[i - 1] \div Radix
  <2>1. 0 \in 0 .. N - 1 /\ \A i \in 1 .. n : i \in 0 .. N - 1 /\ i # 0
    BY <1>1
  <2>2. /\ Rec(p)[0] = x[0] + 0
        /\ \A i \in 1 .. n : Rec(p)[i] = x[i] + p[i - 1] \div Radix
    BY <2>1
  <2> HIDE DEF Rec
  <2> QED
    BY <1>9, <2>2
<1>10. \A i \in 0 .. n : p[i] \in Values
  <2>1. p[0] \in Values
    BY <1>0, <1>1
  <2>2. ASSUME NEW i \in 1 .. n, p[i - 1] \in Values PROVE p[i] \in Values
    <3> DEFINE q == p[i - 1] \div Radix
               y == x[i]
    <3>1. p[i] = y + q /\ y \in Int
      BY <1>0, <1>1
    <3>2. q \in Int
      BY <1>3, <2>2
    <3> HIDE DEF q, y
    <3> QED
      BY <3>1, <3>2
  <2> HIDE DEF n, Values
  <2> QED
    BY ONLY <1>1, <2>1, <2>2, StaysIn
<1>11. \A i \in 1 .. N : p[i - 1] % Radix \in Byte
  <2>1. \A i \in 1 .. N : i - 1 \in 0 .. n
    BY <1>1
  <2> QED
    BY <1>3, <1>10, <2>1
<1> DEFINE c == [k \in 0 .. N |-> IF k = 0 THEN 0 ELSE p[k - 1] \div Radix]
           r == Carry(x)
<1>12. r \in [1 .. N -> Byte]
  BY <1>2, <1>11
<1>13. ASSUME NEW k \in 1 .. N
       PROVE  /\ p[k - 1] \in Int /\ x[k - 1] \in Int /\ p[k - 1] = x[k - 1] + c[k - 1]
              /\ c[k] = p[k - 1] \div Radix /\ c[k - 1] \in Int /\ c[k] \in Int
  <2>1. k - 1 \in 0 .. n /\ k \in 0 .. N /\ k - 1 \in 0 .. N /\ k # 0
    BY <1>1
  <2>2. p[k - 1] \in Int /\ x[k - 1] \in Int
    BY <1>1, <1>10, <2>1
  <2>3. CASE k = 1
    <3>1. k - 1 = 0 /\ c[k - 1] = 0
      BY <2>1, <2>3
    <3>2. p[k - 1] = x[k - 1] + c[k - 1]
      BY <1>0, <3>1
    <3> QED
      BY <1>3, <2>1, <2>2, <3>1, <3>2
  <2>4. CASE k # 1
    <3>1. k - 1 \in 1 .. n /\ k - 1 # 0 /\ k - 1 - 1 \in 0 .. n
      BY <1>1, <2>1, <2>4
    <3>2. c[k - 1] = p[k - 1 - 1] \div Radix
      BY <2>1, <3>1
    <3>3. p[k - 1] = x[k - 1] + p[k - 1 - 1] \div Radix
      BY <1>0, <3>1
    <3>4. p[k - 1 - 1] \in Int
      BY <1>10, <3>1
    <3> QED
      BY <1>3, <2>1, <2>2, <3>2, <3>3, <3>4
  <2> QED
    BY <2>3, <2>4
<1>14. c[0] = 0 /\ \A k \in 0 .. N : c[k] \in Int
  <2>1. 0 \in 0 .. N /\ \A k \in 0 .. N : k = 0 \/ k \in 1 .. N
    BY <1>1
  <2>2. c[0] = 0
    BY <2>1
  <2> HIDE DEF c
  <2> QED
    BY <1>13, <2>1, <2>2
<1>15. ASSUME NEW k \in 1 .. N PROVE r[k] = x[k - 1] + c[k - 1] - c[k] * Radix
  <2> DEFINE w == p[k - 1]
             d == c[k] * Radix
  <2>1. r[k] = w % Radix
    BY <1>2
  <2> HIDE DEF c, p, r
  <2>2. w - d = w % Radix
    BY <1>13, Rounded
  <2>3. d \in Int
    BY <1>13, ReductionWidths
  <2> HIDE DEF d
  <2> QED
    BY <1>13, <2>1, <2>2, <2>3 DEF d
<1> HIDE DEF c, r
<1> QED
  BY <1>12, <1>14, <1>15 DEF CarriedBy, r

\* Products of sums and differences.
LEMMA Distributes ==
  ASSUME NEW a \in Int, NEW b \in Int, NEW c \in Int
  PROVE  /\ a * (b + c) = a * b + a * c /\ a * (b - c) = a * b - a * c
         /\ (b + c) * a = b * a + c * a /\ (b - c) * a = b * a - c * a
         /\ a * b \in Int /\ a * c \in Int /\ b * a \in Int /\ c * a \in Int
         /\ a * b = b * a /\ (-a) * b = -(a * b)
  OBVIOUS

\* A product of positive numbers.
LEMMA ProductIsPositive ==
  ASSUME NEW a \in Nat, NEW b \in Nat
  PROVE  a * b \in Nat /\ (a >= 1 /\ b >= 1 => a * b >= 1 /\ a * b >= a /\ a * b >= b)
<1>1. a * b \in Nat
  OBVIOUS
<1>2. ASSUME a >= 1, b >= 1 PROVE a * b >= 1 /\ a * b >= a /\ a * b >= b
  <2>1. (a - 1) * b >= 0
    <3>1. a - 1 \in Nat
      BY <1>2
    <3> QED
      BY <3>1
  <2>2. a * (b - 1) >= 0
    <3>1. b - 1 \in Nat
      BY <1>2
    <3> QED
      BY <3>1
  <2>3. (a - 1) * b = a * b - b /\ a * (b - 1) = a * b - a
    OBVIOUS
  <2> QED
    BY <1>1, <1>2, <2>1, <2>2, <2>3
<1> QED
  BY <1>1, <1>2

\* Products keep order.
LEMMA ProductMonotone ==
  ASSUME NEW a \in Nat, NEW b \in Int, NEW c \in Int, b <= c
  PROVE  a * b <= a * c /\ b * a <= c * a
<1>1. c - b \in Nat
  OBVIOUS
<1>2. a * (c - b) >= 0
  BY <1>1
<1>3. a * (c - b) = a * c - a * b /\ a * b = b * a /\ a * c = c * a /\ a * b \in Int /\ a * c \in Int
  BY Distributes
<1> QED
  BY <1>2, <1>3

-----------------------------------------------------------------------------
(***************************************************************************)
(* The order, and what an elimination takes off.                           *)
(***************************************************************************)

\* What the order has below its top digit.
Delta == Sums(Padded(L))[Low]

\* The order is its top digit's weight and a delta far below it.
LEMMA OrderIs ==
  /\ L \in [1 .. N -> Byte]
  /\ Delta \in Nat /\ 2 * N * (Radix * Delta) <= Weight[Low]
  /\ Order \in Nat /\ Order >= 1 /\ Order = Delta + Top * Weight[N - 1]
  /\ 16 * Order = 16 * Delta + Weight[N]
<1> DEFINE x == Padded(L)
<1>1. /\ N \in Nat /\ N >= 4 /\ Low \in Nat /\ Low >= 3 /\ Low <= N - 1
      /\ L[N] = Top /\ L[Low] = 0 /\ \A k \in Low + 1 .. N - 1 : L[k] = 0
      /\ 2 * N * (L[Low - 1] + 1) <= Radix
      /\ \A k \in 1 .. N : L[k] \in Int /\ 0 <= L[k]
  BY OrderShape
<1>2. /\ Top \in Nat /\ Top >= 1 /\ Radix = 16 * Top /\ Radix \in Nat /\ Radix >= 16
  BY RadixParts
<1>3. L \in [1 .. N -> Byte]
  BY OrderAssumption DEF Byte
<1>4. /\ x \in SignedDigits
      /\ \A j \in 0 .. N - 1 : x[j] = L[j + 1] /\ 0 <= x[j] /\ x[j] <= Radix - 1
  BY <1>3, PaddedDigits
<1>5. Order = Sums(x)[N]
  BY <1>3, NumberIsSum DEF Order
<1> HIDE DEF x
<1>6. /\ Weight[N] = 16 * (Top * Weight[N - 1]) /\ Weight[N - 1] \in Nat /\ Weight[N - 1] >= 1
      /\ Weight[Low] = Radix * (Radix * Weight[Low - 2]) /\ Weight[Low - 2] \in Nat
      /\ Weight[Low - 1] \in Nat /\ Weight[Low] \in Nat
  <2>1. /\ N \in 1 .. 2 * N /\ N - 1 \in 0 .. 2 * N /\ Low \in 1 .. 2 * N /\ Low - 1 \in 1 .. 2 * N
        /\ Low - 1 - 1 = Low - 2 /\ Low - 2 \in 0 .. 2 * N /\ Low - 1 \in 0 .. 2 * N /\ Low \in 0 .. 2 * N
    BY <1>1
  <2>2. /\ Weight[N] = Radix * Weight[N - 1] /\ Weight[N - 1] \in Nat /\ Weight[N - 1] >= 1
        /\ Weight[Low] = Radix * Weight[Low - 1] /\ Weight[Low - 1] = Radix * Weight[Low - 2]
        /\ Weight[Low - 2] \in Nat /\ Weight[Low - 1] \in Nat /\ Weight[Low] \in Nat
    <3>1. Weight[Low - 1] = Radix * Weight[Low - 1 - 1]
      BY <2>1, WeightStep
    <3> QED
      BY <2>1, <3>1, WeightStep
  <2> DEFINE w == Weight[N - 1]
  <2>3. Radix * w = 16 * (Top * w)
    <3>1. w \in Nat
      BY <2>2
    <3> HIDE DEF w
    <3> QED
      BY <1>2, <3>1
  <2> QED
    BY <2>2, <2>3
<1>7. /\ Sums(x)[N - 1] = Delta
      /\ Order = Delta + Top * Weight[N - 1]
  <2>1. /\ Low \in 0 .. 2 * N /\ N - 1 \in Low .. 2 * N
        /\ N \in 1 .. 2 * N
    BY <1>1
  <2>2. \A j \in Low .. N - 1 - 1 : x[j] = 0
    <3> SUFFICES ASSUME NEW j \in Low .. N - 1 - 1 PROVE x[j] = 0
      OBVIOUS
    <3>1. j \in 0 .. N - 1 /\ j + 1 \in Low + 1 .. N - 1
      BY <1>1
    <3> QED
      BY <1>1, <1>4, <3>1
  <2>3. Sums(x)[N - 1] = Sums(x)[Low]
    BY <1>4, <2>1, <2>2, SumAbove
  <2>4. Sums(x)[N] = Sums(x)[N - 1] + x[N - 1] * Weight[N - 1]
    BY <1>4, <2>1, SumStep
  <2>5. x[N - 1] = Top
    <3>1. N - 1 \in 0 .. N - 1 /\ N - 1 + 1 = N
      BY <1>1
    <3> QED
      BY <1>1, <1>4, <3>1
  <2> QED
    BY <1>5, <2>3, <2>4, <2>5 DEF Delta, x
<1> DEFINE w == Weight[Low - 2]
           e == L[Low - 1]
<1>8. Delta \in Nat /\ Delta <= (e + 1) * w /\ e \in Nat
  <2>1. /\ Low \in 1 .. 2 * N /\ Low - 1 \in 1 .. 2 * N /\ Low - 1 - 1 = Low - 2 /\ Low - 2 \in 0 .. 2 * N
        /\ Low - 1 \in 0 .. N - 1 /\ Low - 2 \in 0 .. N - 1 /\ Low - 1 + 1 = Low /\ Low - 2 + 1 = Low - 1
        /\ Low - 1 \in 1 .. N
    BY <1>1
  <2>2. Delta = Sums(x)[Low - 1] + x[Low - 1] * Weight[Low - 1]
    BY <1>4, <2>1, SumStep DEF Delta, x
  <2>3. Sums(x)[Low - 1] = Sums(x)[Low - 2] + x[Low - 2] * Weight[Low - 2]
    BY <1>4, <2>1, SumStep
  <2>4. x[Low - 1] = 0 /\ x[Low - 2] = e /\ e \in Nat
    BY <1>1, <1>4, <2>1
  <2>5. 0 <= Sums(x)[Low - 2] /\ Sums(x)[Low - 2] <= w - 1 /\ Sums(x)[Low - 2] \in Int
    <3>1. \A j \in 0 .. Low - 2 - 1 : 0 <= x[j] /\ x[j] <= Radix - 1
      BY <1>1, <1>4
    <3> QED
      BY <1>4, <2>1, <3>1, SumOfDigits, SumStep
  <2> DEFINE s == Sums(x)[Low - 2]
  <2>6. Delta = s + e * w
    <3>1. 0 * Weight[Low - 1] = 0 /\ e * w \in Int
      BY <1>6, <2>4
    <3> QED
      BY <2>2, <2>3, <2>4, <2>5, <3>1
  <2>7. s \in Int /\ 0 <= s /\ s <= w - 1 /\ w \in Nat /\ e \in Nat
    BY <1>6, <2>4, <2>5
  <2> HIDE DEF s, w, e
  <2>8. e * w \in Nat /\ (e + 1) * w = e * w + w
    BY <2>7
  <2> QED
    BY <2>6, <2>7, <2>8
<1>9. 2 * N * (Radix * Delta) <= Weight[Low]
  <2> DEFINE d == Delta
             m == (e + 1) * w
             n == 2 * N
  <2>1. d \in Nat /\ d <= m /\ w \in Nat /\ e \in Nat /\ n \in Nat /\ n * (e + 1) <= Radix
        /\ Weight[Low] = Radix * (Radix * w)
    BY <1>1, <1>6, <1>8
  <2> HIDE DEF d, w, e, n
  <2>2. m \in Nat
    BY <2>1
  <2>3. (n * Radix) * (m - d) >= 0 /\ n * Radix \in Nat
    <3>1. n * Radix \in Nat /\ m - d \in Nat
      BY <1>2, <2>1, <2>2
    <3> QED
      BY <3>1
  <2>4. (n * Radix) * (m - d) = (n * Radix) * m - (n * Radix) * d
    <3> DEFINE z == n * Radix
    <3>1. z \in Nat
      BY <2>3
    <3> HIDE DEF z, m
    <3>2. z * (m - d) = z * m - z * d
      BY <2>1, <2>2, <3>1, Distributes
    <3> QED
      BY <3>2 DEF z
  <2>5. (n * Radix) * m = (n * (e + 1)) * (Radix * w)
    <3> DEFINE u == e + 1
    <3>1. u \in Nat
      BY <2>1
    <3> HIDE DEF u
    <3>2. (n * Radix) * (u * w) = (n * u) * (Radix * w)
      BY <1>2, <2>1, <3>1
    <3> QED
      BY <3>2 DEF u
  <2>6. (n * (e + 1)) * (Radix * w) <= Radix * (Radix * w)
    <3> DEFINE u == n * (e + 1)
               z == Radix * w
    <3>1. u \in Nat /\ z \in Nat /\ u <= Radix
      BY <1>2, <2>1
    <3> HIDE DEF u, z
    <3>2. (Radix - u) * z >= 0
      <4>1. Radix - u \in Nat
        BY <1>2, <3>1
      <4> QED
        BY <3>1, <4>1
    <3>3. (Radix - u) * z = Radix * z - u * z /\ Radix * z \in Int /\ u * z \in Int
      BY <1>2, <3>1
    <3>4. u * z <= Radix * z
      BY <3>2, <3>3
    <3> QED
      BY <3>4 DEF u, z
  <2>7. (n * Radix) * d <= Weight[Low]
    <3>1. (n * Radix) * m \in Int /\ (n * Radix) * d \in Int
      BY <2>1, <2>2, <2>3
    <3>2. (n * Radix) * m <= Weight[Low]
      BY <2>1, <2>5, <2>6
    <3> QED
      BY <1>6, <2>3, <2>4, <3>1, <3>2
  <2>8. n * (Radix * d) = (n * Radix) * d
    BY <1>2, <2>1
  <2> QED
    BY <2>7, <2>8 DEF n, d
<1>10. Top * Weight[N - 1] \in Nat /\ Top * Weight[N - 1] >= 1
  <2> DEFINE v == Weight[N - 1]
  <2>1. v \in Nat /\ v >= 1
    BY <1>6
  <2> HIDE DEF v
  <2>2. Top * v \in Nat /\ Top * v >= 1
    BY <1>2, <2>1, ProductIsPositive
  <2> QED
    BY <2>2 DEF v
<1> HIDE DEF w, e
<1>11. Order \in Nat /\ Order >= 1 /\ 16 * Order = 16 * Delta + Weight[N]
  <2> DEFINE t == Top * Weight[N - 1]
  <2>1. Order = Delta + t /\ t \in Nat /\ t >= 1 /\ Weight[N] = 16 * t /\ Delta \in Nat
    BY <1>6, <1>7, <1>8, <1>10
  <2> HIDE DEF t
  <2> QED
    BY <2>1
<1> QED
  BY <1>3, <1>7, <1>8, <1>9, <1>11

\* Sixteen times the order as an elimination takes it off: the low digits times
\* sixteen, and 1 in the place of the digit eliminated.
Sixteenfold(i) ==
  [j \in Digit |->
     IF j = i THEN 1
     ELSE IF j >= i - N /\ j < i - N + Low THEN 16 * L[j - (i - N) + 1]
     ELSE 0]

\* A sixteenfold order is 16 * Order, i - N places up.
LEMMA SixteenfoldSum ==
  ASSUME NEW i \in N .. 2 * N - 1
  PROVE  /\ Sixteenfold(i) \in SignedDigits
         /\ Sums(Sixteenfold(i))[2 * N] = Weight[i - N] * (16 * Order)
<1> DEFINE f == Sixteenfold(i)
           a == i - N
           x == Padded(L)
           g == [j \in Digit |-> IF j < Low THEN 16 * L[j + 1] ELSE 0]
<1>1. /\ N \in Nat /\ N >= 4 /\ Low \in Nat /\ Low >= 3 /\ Low <= N - 1
      /\ \A k \in 1 .. N : L[k] \in Int
  BY OrderShape
<1>2. a \in Nat /\ a + N = i /\ a + Low < i /\ i \in Digit /\ i \in 0 .. 2 * N /\ i + 1 \in 1 .. 2 * N
      /\ a \in 0 .. 2 * N /\ Low \in 0 .. 2 * N /\ N \in Low .. 2 * N /\ N \in 0 .. 2 * N
      /\ i + 1 - 1 = i
  BY <1>1 DEF Digit
<1>3. f \in SignedDigits
  <2>1. ASSUME NEW j \in Digit, j >= a, j < a + Low PROVE 16 * L[j - a + 1] \in Int
    <3>1. j - a + 1 \in 1 .. N
      BY <1>1, <1>2, <2>1 DEF Digit
    <3> QED
      BY <1>1, <3>1
  <2> QED
    BY <2>1 DEF SignedDigits, Sixteenfold
<1>4. g \in SignedDigits
  <2>1. ASSUME NEW j \in Digit, j < Low PROVE 16 * L[j + 1] \in Int
    <3>1. j + 1 \in 1 .. N
      BY <1>1, <2>1 DEF Digit
    <3> QED
      BY <1>1, <3>1
  <2> QED
    BY <2>1 DEF SignedDigits
<1>5. /\ x \in SignedDigits
      /\ \A j \in 0 .. N - 1 : j \in Digit /\ x[j] = L[j + 1]
  BY OrderIs, PaddedDigits
<1>6. Sums(f)[a + N] = Weight[a] * Sums(g)[N]
  <2>1. \A j \in 0 .. a - 1 : f[j] = 0
    BY <1>1, <1>2 DEF Sixteenfold, Digit
  <2>2. ASSUME NEW j \in 0 .. N - 1 PROVE f[a + j] = g[j]
    <3>1. a + j \in Digit /\ j \in Digit /\ a + j # i /\ a + j >= a /\ (a + j < a + Low <=> j < Low)
          /\ (a + j) - a + 1 = j + 1
      BY <1>1, <1>2 DEF Digit
    <3> QED
      BY <3>1 DEF Sixteenfold
  <2>3. a + N <= 2 * N
    BY <1>1, <1>2
  <2> HIDE DEF f, g, a
  <2> QED
    BY <1>1, <1>2, <1>3, <1>4, <2>1, <2>2, <2>3, SumShift
<1>7. Sums(g)[N] = 16 * Delta
  <2>1. Sums(g)[N] = Sums(g)[Low]
    <3>1. \A j \in Low .. N - 1 : g[j] = 0
      BY <1>1 DEF Digit
    <3> HIDE DEF g
    <3> QED
      BY <1>2, <1>4, <3>1, SumAbove
  <2> DEFINE m == 16
             z == 0
  <2>2. \A j \in 0 .. Low - 1 : g[j] = m * x[j] + z * x[j]
    <3> SUFFICES ASSUME NEW j \in 0 .. Low - 1 PROVE g[j] = m * x[j] + z * x[j]
      OBVIOUS
    <3>1. j \in 0 .. N - 1 /\ j \in Digit /\ j < Low /\ j + 1 \in 1 .. N
      BY <1>1 DEF Digit
    <3>2. x[j] = L[j + 1] /\ L[j + 1] \in Int
      BY <1>1, <1>5, <3>1
    <3>3. g[j] = 16 * L[j + 1]
      BY <3>1
    <3> HIDE DEF g, x
    <3> QED
      BY <3>2, <3>3
  <2>3. m \in Int /\ z \in Int
    OBVIOUS
  <2> HIDE DEF m, z, g
  <2>4. Sums(g)[Low] = m * Sums(x)[Low] + z * Sums(x)[Low]
    BY <1>2, <1>4, <1>5, <2>2, <2>3, SumCombination
  <2>5. Sums(x)[Low] = Delta /\ Delta \in Nat
    BY OrderIs DEF Delta
  <2> QED
    BY <2>1, <2>4, <2>5 DEF m, z
<1>8. Sums(f)[i + 1] = Sums(f)[i] + 1 * Weight[i]
  <2>1. f[i] = 1
    BY <1>2 DEF Sixteenfold
  <2> HIDE DEF f
  <2> QED
    BY <1>2, <1>3, <2>1, SumStep
<1>9. Sums(f)[2 * N] = Sums(f)[i + 1]
  <2>1. \A j \in i + 1 .. 2 * N - 1 : f[j] = 0
    BY <1>1, <1>2 DEF Sixteenfold, Digit
  <2>2. i + 1 \in 0 .. 2 * N /\ 2 * N \in i + 1 .. 2 * N
    BY <1>1, <1>2
  <2> HIDE DEF f
  <2> QED
    BY <1>3, <2>1, <2>2, SumAbove
<1>10. Weight[i] = Weight[a] * Weight[N]
  <2>1. a + N <= 2 * N
    BY <1>1, <1>2
  <2> HIDE DEF a
  <2> QED
    BY <1>1, <1>2, <2>1, WeightsAdd
<1> DEFINE w == Weight[a]
           v == Weight[N]
           d == 16 * Delta
<1>11. w \in Int /\ v \in Int /\ d \in Int /\ 16 * Order = d + v
  <2>1. w \in Int /\ v \in Int
    <3> HIDE DEF a
    <3> QED
      BY <1>2, WeightStep
  <2> HIDE DEF w
  <2> QED
    BY <2>1, OrderIs
<1>12. Sums(f)[2 * N] = w * d + w * v
  <2>1. Sums(f)[2 * N] = w * d + 1 * (w * v)
    BY <1>2, <1>6, <1>7, <1>8, <1>9, <1>10
  <2> HIDE DEF w, v, d
  <2>2. w * v \in Int
    BY <1>11
  <2> QED
    BY <2>1, <2>2
<1> HIDE DEF w, v, d
<1>13. w * d + w * v = w * (d + v)
  BY <1>11
<1> QED
  BY <1>3, <1>11, <1>12, <1>13 DEF f, w, a

\* Eliminating a digit takes a multiple of the order off.
LEMMA EliminationSum ==
  ASSUME NEW x \in SignedDigits, NEW i \in N .. 2 * N - 1,
         NEW y \in SignedDigits, NEW c, EliminatedBy(x, y, i, c)
  PROVE  Sums(y)[2 * N] = Sums(x)[2 * N] - x[i] * (Weight[i - N] * (16 * Order))
<1> DEFINE a == i - N
           s == Sixteenfold(i)
           f == [j \in Digit |-> x[j] - x[i] * s[j]]
           d == [k \in 0 .. 2 * N |-> IF a <= k /\ k <= a + Low THEN c[k - a] ELSE 0]
           m == 2 * N
<1>1. /\ N \in Nat /\ N >= 4 /\ Low \in Nat /\ Low >= 3 /\ Low <= N - 1 /\ Radix \in Int
      /\ \A k \in 1 .. N : L[k] \in Int
  BY OrderShape, RadixParts
<1>2. a \in Nat /\ a + N = i /\ a + Low < i /\ i \in Digit /\ a + Low < m /\ i < m
      /\ m \in 0 .. 2 * N /\ m \in Nat
  BY <1>1 DEF Digit
<1>3. s \in SignedDigits /\ Sums(s)[m] = Weight[a] * (16 * Order)
  BY SixteenfoldSum
<1>4. /\ c[0] = 0 /\ \A k \in 0 .. Low : c[k] \in Int
      /\ \A k \in 1 .. Low :
           y[a + k - 1] = x[a + k - 1] + c[k - 1] - 16 * x[i] * L[k] - c[k] * Radix
      /\ y[a + Low] = x[a + Low] + c[Low]
      /\ y[i] = 0
      /\ \A j \in Digit \ ((a .. a + Low) \cup {i}) : y[j] = x[j]
  BY DEF EliminatedBy
<1>5. \A j \in Digit : x[j] \in Int /\ s[j] \in Int /\ x[i] \in Int /\ x[i] * s[j] \in Int
  <2>1. \A j \in Digit : x[j] \in Int /\ s[j] \in Int /\ x[i] \in Int
    BY <1>2, <1>3 DEF SignedDigits
  <2> QED
    BY <2>1
<1>6. f \in SignedDigits /\ \A j \in Digit : f[j] = x[j] - x[i] * s[j]
  BY <1>5 DEF SignedDigits
<1>7. /\ s[i] = 1
      /\ \A k \in 1 .. Low : s[a + k - 1] = 16 * L[k]
      /\ \A j \in Digit \ ((a .. a + Low - 1) \cup {i}) : s[j] = 0
  <2>1. s[i] = 1
    BY <1>2 DEF Sixteenfold
  <2>2. ASSUME NEW k \in 1 .. Low PROVE s[a + k - 1] = 16 * L[k]
    <3>1. /\ a + k - 1 \in Digit /\ a + k - 1 # i /\ a + k - 1 >= a /\ a + k - 1 < a + Low
          /\ (a + k - 1) - a + 1 = k
      BY <1>1, <1>2 DEF Digit
    <3> QED
      BY <3>1 DEF Sixteenfold
  <2>3. ASSUME NEW j \in Digit \ ((a .. a + Low - 1) \cup {i}) PROVE s[j] = 0
    <3>1. j # i /\ ~(j >= a /\ j < a + Low)
      BY <1>1, <1>2 DEF Digit
    <3> QED
      BY <3>1 DEF Sixteenfold
  <2> QED
    BY <2>1, <2>2, <2>3
<1> HIDE DEF s, f
<1>8. /\ \A k \in 0 .. m : a <= k /\ k <= a + Low => d[k] = c[k - a]
      /\ \A k \in 0 .. m : ~(a <= k /\ k <= a + Low) => d[k] = 0
      /\ \A k \in 0 .. m : d[k] \in Int
  <2>1. \A k \in 0 .. m : a <= k /\ k <= a + Low => k - a \in 0 .. Low
    BY <1>1, <1>2
  <2> QED
    BY <1>4, <2>1
<1>9. d[0] = 0
  <2>1. 0 \in 0 .. m
    BY <1>2
  <2>2. CASE a = 0
    BY <1>1, <1>4, <1>8, <2>1, <2>2
  <2>3. CASE a # 0
    BY <1>2, <1>8, <2>1, <2>3
  <2> QED
    BY <2>2, <2>3
<1>10. d[m] = 0
  <2>1. m \in 0 .. m /\ ~(m <= a + Low)
    BY <1>1, <1>2
  <2> QED
    BY <1>8, <2>1
<1> HIDE DEF d
<1>11. ASSUME NEW j \in Digit PROVE y[j] = f[j] + d[j] - d[j + 1] * Radix
  <2>1. /\ j \in 0 .. m /\ j + 1 \in 0 .. m /\ j \in Nat
        /\ d[j] \in Int /\ d[j + 1] \in Int
        /\ f[j] = x[j] - x[i] * s[j] /\ x[j] \in Int /\ x[i] \in Int
    BY <1>2, <1>5, <1>6, <1>8 DEF Digit
  <2>2. CASE j >= a /\ j < a + Low
    <3> DEFINE k == j - a + 1
    <3>1. k \in 1 .. Low /\ a + k - 1 = j /\ k - 1 = j - a /\ k = (j + 1) - a
          /\ k - 1 \in 0 .. Low /\ k \in 0 .. Low /\ k \in 1 .. N
      BY <1>1, <1>2, <2>1, <2>2
    <3> HIDE DEF k
    <3>2. d[j] = c[k - 1] /\ d[j + 1] = c[k]
      <4>1. a <= j /\ j <= a + Low /\ a <= j + 1 /\ j + 1 <= a + Low
        BY <1>1, <1>2, <2>1, <2>2
      <4> HIDE DEF a, m
      <4>2. d[j] = c[j - a] /\ d[j + 1] = c[(j + 1) - a]
        BY <1>8, <2>1, <4>1
      <4> QED
        BY <3>1, <4>2
    <3>3. y[j] = x[j] + c[k - 1] - 16 * x[i] * L[k] - c[k] * Radix /\ s[j] = 16 * L[k]
      BY <1>4, <1>7, <3>1
    <3> DEFINE u == x[j]
               v == c[k - 1]
               e == c[k] * Radix
               p == x[i]
               l == L[k]
    <3>4. u \in Int /\ v \in Int /\ e \in Int /\ p \in Int /\ l \in Int
      <4>1. c[k] \in Int /\ v \in Int
        BY <1>4, <3>1
      <4> QED
        BY <1>1, <2>1, <3>1, <4>1
    <3>5. y[j] = u + v - 16 * p * l - e /\ f[j] = u - p * (16 * l)
          /\ d[j] = v /\ d[j + 1] * Radix = e
      BY <2>1, <3>2, <3>3
    <3> HIDE DEF u, v, e, p, l
    <3>6. 16 * p * l = p * (16 * l) /\ p * (16 * l) \in Int
      BY <3>4
    <3> QED
      BY <3>4, <3>5, <3>6
  <2>3. CASE j = a + Low
    <3>1. d[j] = c[Low] /\ d[j + 1] = 0 /\ s[j] = 0
      <4>1. j - a = Low /\ ~(j + 1 <= a + Low) /\ j \in Digit \ ((a .. a + Low - 1) \cup {i}) /\ a <= j
        BY <1>1, <1>2, <2>1, <2>3
      <4> QED
        BY <1>7, <1>8, <2>1, <2>3, <4>1
    <3>2. y[j] = x[j] + c[Low] /\ c[Low] \in Int
      BY <1>1, <1>4, <2>3
    <3> QED
      BY <1>1, <2>1, <3>1, <3>2
  <2>4. CASE j = i
    <3>1. d[j] = 0 /\ d[j + 1] = 0 /\ s[j] = 1 /\ y[j] = 0
      <4>1. ~(j <= a + Low) /\ ~(j + 1 <= a + Low)
        BY <1>1, <1>2, <2>1, <2>4
      <4> QED
        BY <1>4, <1>7, <1>8, <2>1, <2>4, <4>1
    <3> QED
      BY <1>1, <2>1, <2>4, <3>1
  <2>5. CASE ~(j >= a /\ j <= a + Low) /\ j # i
    <3>1. /\ j \in Digit \ ((a .. a + Low) \cup {i}) /\ j \in Digit \ ((a .. a + Low - 1) \cup {i})
      BY <1>1, <1>2, <2>1, <2>5
    <3>2. d[j] = 0
      BY <1>8, <2>1, <2>5
    <3>3. d[j + 1] = 0
      <4>1. CASE j + 1 = a
        <5>1. d[j + 1] = c[0]
          <6>1. a <= j + 1 /\ j + 1 <= a + Low /\ (j + 1) - a = 0
            BY <1>1, <1>2, <2>1, <4>1
          <6> QED
            BY <1>8, <2>1, <6>1
        <5> QED
          BY <1>4, <5>1
      <4>2. CASE j + 1 # a
        <5>1. ~(a <= j + 1 /\ j + 1 <= a + Low)
          BY <1>1, <1>2, <2>1, <2>5, <4>2
        <5> QED
          BY <1>8, <2>1, <5>1
      <4> QED
        BY <4>1, <4>2
    <3>4. y[j] = x[j] /\ s[j] = 0
      BY <1>4, <1>7, <3>1
    <3> QED
      BY <1>1, <2>1, <3>2, <3>3, <3>4
  <2> QED
    BY <1>1, <1>2, <2>1, <2>2, <2>3, <2>4, <2>5
<1>12. Sums(y)[m] + d[m] * Weight[m] = Sums(f)[m]
  <2>1. \A k \in 1 .. m : y[k - 1] = f[k - 1] + d[k - 1] - d[k] * Radix
    <3> SUFFICES ASSUME NEW k \in 1 .. m PROVE y[k - 1] = f[k - 1] + d[k - 1] - d[k] * Radix
      OBVIOUS
    <3>1. k - 1 \in Digit /\ k - 1 + 1 = k
      BY <1>2 DEF Digit
    <3> QED
      BY <1>11, <3>1
  <2> HIDE DEF m
  <2> QED
    BY <1>2, <1>6, <1>8, <1>9, <2>1, SumCarried
<1>13. Sums(f)[m] = 1 * Sums(x)[m] + (-x[i]) * Sums(s)[m]
  <2> DEFINE u == 1
             v == -x[i]
  <2>1. u \in Int /\ v \in Int
    BY <1>2, <1>5
  <2>2. \A j \in 0 .. m - 1 : f[j] = u * x[j] + v * s[j]
    <3> SUFFICES ASSUME NEW j \in 0 .. m - 1 PROVE f[j] = u * x[j] + v * s[j]
      OBVIOUS
    <3>1. j \in Digit
      BY <1>2 DEF Digit
    <3> DEFINE p == x[i]
               q == s[j]
               r == x[j]
    <3>2. f[j] = r - p * q /\ p \in Int /\ q \in Int /\ r \in Int
      BY <1>5, <1>6, <3>1
    <3> HIDE DEF p, q, r
    <3>3. (-p) * q = -(p * q) /\ p * q \in Int
      BY <3>2
    <3>4. f[j] = 1 * r + (-p) * q
      BY <3>2, <3>3
    <3> QED
      BY <3>4 DEF p, q, r
  <2> HIDE DEF u, v, m
  <2>3. Sums(f)[m] = u * Sums(x)[m] + v * Sums(s)[m]
    BY <1>2, <1>3, <1>6, <2>1, <2>2, SumCombination
  <2> QED
    BY <2>3 DEF u, v
<1> DEFINE p == x[i]
           q == Weight[a] * (16 * Order)
           t == Sums(x)[m]
<1>14. p \in Int /\ q \in Int /\ t \in Int /\ Sums(y)[m] \in Int /\ Weight[m] \in Int
  <2>1. Weight[a] \in Int /\ 16 * Order \in Int
    <3>1. a \in 0 .. 2 * N
      BY <1>1, <1>2
    <3> QED
      BY <3>1, WeightStep, OrderIs
  <2>2. q \in Int
    BY <2>1
  <2> QED
    BY <1>2, <1>5, <2>2, SumStep, WeightStep
<1>15. Sums(y)[m] + 0 * Weight[m] = 1 * t + (-p) * q
  BY <1>3, <1>10, <1>12, <1>13
<1> HIDE DEF p, q, t
<1>16. (-p) * q = -(p * q) /\ p * q \in Int
  BY <1>14
<1>17. Sums(y)[m] = t - p * q
  BY <1>14, <1>15, <1>16
<1> QED
  BY <1>17 DEF p, q, t, m, a

-----------------------------------------------------------------------------
(***************************************************************************)
(* How far the carries go.                                                 *)
(***************************************************************************)

\* What n digits of half a radix stand for is little more than half the weight of
\* the next, and n digits of 1 for no more than its fifteenth.
LEMMA HalfSum ==
  ASSUME NEW n \in 0 .. 2 * N
  PROVE  /\ Weight[n] \in Nat /\ Weight[n] >= 1 /\ Sums(Ones)[n] \in Nat
         /\ 15 * Sums(Ones)[n] <= Weight[n]
         /\ Radix * Sums(Ones)[n] = Weight[n] - 1 + Sums(Ones)[n]
         /\ Middle * Sums(Ones)[n] \in Nat
         /\ 30 * (Middle * Sums(Ones)[n]) <= 16 * Weight[n]
<1> DEFINE g == Sums(Ones)[n]
           w == Weight[n]
<1>1. /\ Top \in Nat /\ Top >= 1 /\ Radix = 16 * Top /\ Middle = 8 * Top
      /\ Radix \in Nat /\ Radix >= 16 /\ Middle \in Nat
  BY RadixParts
<1>2. w \in Nat /\ w >= 1 /\ g \in Nat /\ (Radix - 1) * g = w - 1
  BY OnesSum, WeightStep
<1> HIDE DEF g, w
<1> DEFINE p == Radix * g
           q == Middle * g
<1>3. p \in Nat /\ q \in Nat /\ p = 2 * q
  BY <1>1, <1>2
<1>4. (Radix - 1) * g = p - g
  BY <1>1, <1>2
<1>5. 16 * g <= p
  <2>1. g * 16 <= g * Radix /\ g * 16 = 16 * g /\ g * Radix = Radix * g
    BY <1>1, <1>2, ProductMonotone
  <2> QED
    BY <2>1
<1> HIDE DEF p, q
<1>6. p - g = w - 1
  BY <1>2, <1>4
<1>7. 15 * g <= w /\ p = w - 1 + g /\ 30 * q <= 16 * w
  BY <1>2, <1>3, <1>5, <1>6
<1> QED
  BY <1>1, <1>2, <1>3, <1>7 DEF g, w, p, q

\* The weight above the sweep is a cube of the radix or more, and delta is far below it.
LEMMA SweepWeight ==
  /\ Weight[Low] \in Nat /\ Weight[Low] >= 1 /\ Delta \in Nat
  /\ 2 * N <= Radix /\ Radix * (Radix * Radix) <= Weight[Low]
  /\ 8 * (Radix * Delta) <= Weight[Low] /\ 128 * Delta <= Weight[Low]
  /\ 2 * (N * (Radix * Delta)) <= Weight[Low]
<1>1. /\ N \in Nat /\ N >= 4 /\ Low \in Nat /\ Low >= 3 /\ Low <= N - 1
      /\ 2 * N * (L[Low - 1] + 1) <= Radix
      /\ \A k \in 1 .. N : L[k] \in Int /\ 0 <= L[k]
  BY OrderShape
<1>2. Radix \in Nat /\ Radix >= 16
  BY RadixParts
<1>3. Delta \in Nat /\ 2 * N * (Radix * Delta) <= Weight[Low]
  BY OrderIs
<1>4. 2 * N <= Radix
  <2> DEFINE e == L[Low - 1]
             n == 2 * N
  <2>1. e \in Nat /\ n \in Nat /\ n * (e + 1) <= Radix
    <3>1. Low - 1 \in 1 .. N
      BY <1>1
    <3> QED
      BY <1>1, <3>1
  <2> HIDE DEF e, n
  <2>2. n * (e + 1) = n * e + n /\ n * e \in Nat
    BY <2>1
  <2>3. n <= Radix
    BY <1>2, <2>1, <2>2
  <2> QED
    BY <2>3 DEF n
<1>5. Weight[Low] \in Nat /\ Weight[Low] >= 1 /\ Radix * (Radix * Radix) <= Weight[Low]
  <2> DEFINE k == Low - 3
             w == Weight[k]
  <2>1. /\ k \in 0 .. 2 * N /\ k + 1 \in 1 .. 2 * N /\ k + 2 \in 1 .. 2 * N /\ k + 3 \in 1 .. 2 * N
        /\ k + 1 - 1 = k /\ (k + 2) - 1 = k + 1 /\ (k + 3) - 1 = k + 2 /\ k + 3 = Low /\ Low \in 0 .. 2 * N
    BY <1>1
  <2> HIDE DEF k
  <2>2. Weight[k + 3] = Radix * Weight[k + 2] /\ Weight[k + 2] = Radix * Weight[k + 1] /\ Weight[k + 1] = Radix * w
    <3>1. Weight[k + 3] = Radix * Weight[(k + 3) - 1]
      BY <2>1, WeightStep
    <3>2. Weight[k + 2] = Radix * Weight[(k + 2) - 1]
      BY <2>1, WeightStep
    <3>3. Weight[k + 1] = Radix * Weight[k + 1 - 1]
      BY <2>1, WeightStep
    <3> QED
      BY <2>1, <3>1, <3>2, <3>3
  <2>3. w \in Nat /\ w >= 1 /\ Weight[Low] \in Nat /\ Weight[Low] >= 1
    BY <2>1, WeightStep
  <2> HIDE DEF w
  <2> DEFINE z == Radix * (Radix * Radix)
  <2>4. z \in Nat
    BY <1>2
  <2>5. Weight[Low] = z * w
    <3>1. Radix * (Radix * (Radix * w)) = (Radix * (Radix * Radix)) * w
      BY <1>2, <2>3
    <3> QED
      BY <2>1, <2>2, <3>1
  <2> HIDE DEF z
  <2>6. z * 1 <= z * w
    BY <2>3, <2>4, ProductMonotone
  <2> QED
    BY <2>3, <2>4, <2>5, <2>6 DEF z
<1> DEFINE p == Radix * Delta
<1>6. p \in Nat /\ 16 * Delta <= p
  <2>1. Delta * 16 <= Delta * Radix /\ Delta * 16 = 16 * Delta /\ Delta * Radix = Radix * Delta
    BY <1>2, <1>3, ProductMonotone
  <2> QED
    BY <1>2, <1>3, <2>1
<1> HIDE DEF p
<1>7. 2 * N * p = 2 * (N * p) /\ 4 * p <= N * p /\ N * p \in Nat
  <2>1. p * 4 <= p * N /\ p * 4 = 4 * p /\ p * N = N * p
    BY <1>1, <1>6, ProductMonotone
  <2> QED
    BY <1>1, <1>6, <2>1
<1>8. 2 * N * p <= Weight[Low]
  BY <1>3 DEF p
<1>9. 8 * p <= Weight[Low] /\ 128 * Delta <= Weight[Low] /\ 2 * (N * p) <= Weight[Low]
  BY <1>3, <1>5, <1>6, <1>7, <1>8
<1> QED
  BY <1>3, <1>4, <1>5, <1>9 DEF p

\* The last carry of an elimination is bounded by what the digits it passes stand for.
LEMMA CarryBound ==
  ASSUME NEW x \in SignedDigits, NEW i \in N .. 2 * N - 1,
         NEW y \in SignedDigits, NEW c, EliminatedBy(x, y, i, c),
         NEW passed \in SignedDigits, \A k \in 0 .. Low - 1 : passed[k] = x[i - N + k],
         NEW B \in Nat, -B <= Sums(passed)[Low], Sums(passed)[Low] <= B,
         NEW T \in Nat, -T <= x[i], x[i] <= T,
         NEW C \in Nat, B + Middle * Sums(Ones)[Low] + 16 * (T * Delta) < (C + 1) * Weight[Low]
  PROVE  c[Low] \in Int /\ -C <= c[Low] /\ c[Low] <= C
<1> DEFINE a == i - N
           pad == Padded(L)
           t == x[i]
           v == -(16 * t)
           one == 1
           g == [k \in Digit |-> IF k < Low THEN y[a + k] ELSE 0]
           f == [k \in Digit |-> one * passed[k] + v * pad[k]]
<1>1. /\ N \in Nat /\ N >= 4 /\ Low \in Nat /\ Low >= 3 /\ Low <= N - 1 /\ Low \in 0 .. 2 * N
      /\ Radix \in Int /\ Middle \in Nat
      /\ \A k \in 1 .. N : L[k] \in Int
  BY OrderShape, RadixParts
<1>2. a \in Nat /\ a + N = i /\ a + Low < 2 * N /\ i \in Digit
  BY <1>1 DEF Digit
<1>3. pad \in SignedDigits /\ \A j \in 0 .. N - 1 : j \in Digit /\ pad[j] = L[j + 1]
  BY OrderIs, PaddedDigits
<1>4. t \in Int /\ v \in Int /\ one \in Int
  BY <1>2 DEF SignedDigits
<1>5. g \in SignedDigits /\ f \in SignedDigits
  <2>1. \A k \in Digit : k < Low => a + k \in Digit
    BY <1>1, <1>2 DEF Digit
  <2>2. \A k \in Digit : pad[k] \in Int /\ passed[k] \in Int
    BY <1>3 DEF SignedDigits
  <2> HIDE DEF pad, v, one
  <2>3. \A k \in Digit : one * passed[k] + v * pad[k] \in Int
    BY <1>4, <2>2
  <2> QED
    BY <2>1, <2>3 DEF SignedDigits
<1>6. /\ c[0] = 0 /\ \A k \in 0 .. Low : c[k] \in Int
      /\ \A k \in 1 .. Low :
           /\ y[a + k - 1] = x[a + k - 1] + c[k - 1] - 16 * x[i] * L[k] - c[k] * Radix
           /\ y[a + k - 1] \in -Middle .. Middle - 1
  BY DEF EliminatedBy
<1>7. \A k \in 0 .. Low - 1 : k \in Digit /\ g[k] = y[a + k] /\ f[k] = one * passed[k] + v * pad[k]
                              /\ pad[k] = L[k + 1] /\ passed[k] = x[a + k]
  <2> SUFFICES ASSUME NEW k \in 0 .. Low - 1
               PROVE  k \in Digit /\ g[k] = y[a + k] /\ f[k] = one * passed[k] + v * pad[k]
                      /\ pad[k] = L[k + 1] /\ passed[k] = x[a + k]
    OBVIOUS
  <2>1. k \in Digit /\ k < Low /\ k \in 0 .. N - 1
    BY <1>1 DEF Digit
  <2>2. pad[k] = L[k + 1]
    BY <1>3, <2>1
  <2> HIDE DEF pad, v, one
  <2>3. g[k] = y[a + k]
    BY <2>1
  <2>4. f[k] = one * passed[k] + v * pad[k]
    BY <2>1
  <2>5. passed[k] = x[a + k]
    BY <2>1
  <2> QED
    BY <2>1, <2>2, <2>3, <2>4, <2>5
<1> HIDE DEF g, f, pad
<1>8. ASSUME NEW k \in 1 .. Low PROVE g[k - 1] = f[k - 1] + c[k - 1] - c[k] * Radix
  <2> DEFINE j == k - 1
  <2>1. j \in 0 .. Low - 1 /\ a + k - 1 = a + j /\ j + 1 = k /\ j \in 0 .. Low /\ k \in 0 .. Low /\ k \in 1 .. N
        /\ a + j \in Digit
    BY <1>1, <1>2 DEF Digit
  <2>2. /\ g[j] = x[a + j] + c[j] - 16 * t * L[k] - c[k] * Radix
        /\ f[j] = one * x[a + j] + v * L[k]
    BY <1>6, <1>7, <2>1
  <2> DEFINE p == x[a + j]
             d == c[j]
             e == c[k] * Radix
             l == L[k]
             u == t
  <2>3. p \in Int /\ d \in Int /\ e \in Int /\ l \in Int /\ u \in Int
    <3>1. c[k] \in Int /\ d \in Int
      BY <1>6, <2>1
    <3> QED
      BY <1>1, <1>4, <2>1, <3>1 DEF SignedDigits
  <2>4. g[j] = p + d - 16 * u * l - e /\ f[j] = 1 * p + (-(16 * u)) * l
    BY <2>2
  <2> HIDE DEF p, d, e, l, u, j
  <2>5. (-(16 * u)) * l = -(16 * u * l) /\ 16 * u * l \in Int
    BY <2>3
  <2>6. g[j] = f[j] + d - e
    BY <2>3, <2>4, <2>5
  <2> QED
    BY <2>6 DEF d, e, j
<1>9. Sums(g)[Low] + c[Low] * Weight[Low] = Sums(f)[Low]
  BY <1>1, <1>5, <1>6, <1>8, SumCarried
<1>10. Sums(f)[Low] = one * Sums(passed)[Low] + v * Delta
  <2>1. Delta = Sums(pad)[Low]
    BY DEF Delta, pad
  <2> HIDE DEF one, v
  <2>2. Sums(f)[Low] = one * Sums(passed)[Low] + v * Sums(pad)[Low]
    BY <1>1, <1>3, <1>4, <1>5, <1>7, SumCombination
  <2> QED
    BY <2>1, <2>2
<1>11. /\ -(Middle * Sums(Ones)[Low]) <= Sums(g)[Low]
       /\ Sums(g)[Low] <= Middle * Sums(Ones)[Low]
  <2>1. ASSUME NEW j \in 0 .. Low - 1 PROVE -Middle <= g[j] /\ g[j] <= Middle
    <3>1. j + 1 \in 1 .. Low /\ a + (j + 1) - 1 = a + j
      BY <1>1, <1>2
    <3>2. y[a + j] \in -Middle .. Middle - 1
      BY <1>6, <3>1
    <3>3. g[j] \in -Middle .. Middle - 1
      BY <1>7, <3>2
    <3> QED
      BY <1>1, <3>3
  <2> QED
    BY <1>1, <1>5, <2>1, SumBound
<1> DEFINE w == Weight[Low]
           e == c[Low]
           s == Sums(g)[Low]
           m == Middle * Sums(Ones)[Low]
           q == Sums(passed)[Low]
           d == Delta
           h == T * d
           r == t * d
           ew == e * w
           cw == C * w
<1>12. w \in Nat /\ w >= 1 /\ e \in Int /\ s \in Int /\ m \in Nat /\ q \in Int /\ d \in Nat
  BY <1>1, <1>5, <1>6, HalfSum, SumStep, SweepWeight
<1>13. h \in Nat /\ r \in Int /\ -h <= r /\ r <= h
  <2>1. d * t <= d * T /\ d * t = t * d /\ d * T = T * d
    <3>1. t \in Int /\ T \in Int /\ t <= T
      BY <1>4
    <3> HIDE DEF t, d
    <3> QED
      BY <1>12, <3>1, ProductMonotone
  <2>2. d * (-T) <= d * t /\ d * (-T) = -(T * d)
    <3> DEFINE n == -T
    <3>1. t \in Int /\ n \in Int /\ n <= t
      BY <1>4
    <3> HIDE DEF t, d, n
    <3>2. d * n <= d * t
      BY <1>12, <3>1, ProductMonotone
    <3>3. d * (-T) = -(T * d)
      BY <1>12
    <3> QED
      BY <3>2, <3>3 DEF n
  <2>3. t \in Int /\ T * d \in Nat /\ t * d \in Int
    BY <1>4, <1>12
  <2> HIDE DEF t, d
  <2> QED
    BY <2>1, <2>2, <2>3
<1>14. s + ew = 1 * q + (-(16 * t)) * d
  BY <1>9, <1>10
<1>15. (-(16 * t)) * d = -(16 * r)
  <2> HIDE DEF t, d
  <2> QED
    BY <1>4, <1>12
<1>16. ew \in Int /\ cw \in Nat /\ (C + 1) * w = cw + w
  <2> HIDE DEF w, e
  <2> QED
    BY <1>12
<1>17. -m <= s /\ s <= m /\ -B <= q /\ q <= B /\ B + m + 16 * h < (C + 1) * w
  BY <1>11
<1>18. -(cw + w) < ew /\ ew < cw + w
  <2> DEFINE z == (-(16 * t)) * d
             cv == (C + 1) * w
  <2>1. s + ew = 1 * q + z /\ z = -(16 * r) /\ cv = cw + w /\ B + m + 16 * h < cv
    BY <1>14, <1>15, <1>16, <1>17
  <2> HIDE DEF w, e, s, m, q, d, h, r, ew, cw, t, z, cv
  <2>2. ew = q - 16 * r - s
    BY <1>12, <1>13, <1>16, <2>1
  <2> QED
    BY <1>12, <1>13, <1>16, <1>17, <2>1, <2>2
<1>19. -C <= e /\ e <= C
  <2> HIDE DEF w, e
  <2>1. ASSUME e >= C + 1 PROVE FALSE
    <3>1. w * (C + 1) <= w * e /\ w * (C + 1) = (C + 1) * w /\ w * e = e * w
      <4> DEFINE n == C + 1
      <4>1. n \in Int /\ n <= e
        BY <1>12, <2>1
      <4> HIDE DEF n
      <4>2. w * n <= w * e /\ w * n = n * w /\ w * e = e * w
        BY <1>12, <4>1, ProductMonotone
      <4> QED
        BY <4>2 DEF n
    <3> HIDE DEF ew, cw
    <3>2. w * (C + 1) = cw + w /\ w * e = ew
      BY <1>16, <3>1 DEF ew
    <3> QED
      BY <1>12, <1>16, <1>18, <3>1, <3>2
  <2>2. ASSUME e <= -(C + 1) PROVE FALSE
    <3>1. w * e <= w * (-(C + 1)) /\ w * (-(C + 1)) = -((C + 1) * w) /\ w * e = e * w
      <4> DEFINE n == -(C + 1)
      <4>1. n \in Int /\ e <= n
        BY <1>12, <2>2
      <4> HIDE DEF n
      <4>2. w * e <= w * n /\ w * e = e * w
        BY <1>12, <4>1, ProductMonotone
      <4>3. w * (-(C + 1)) = -((C + 1) * w)
        BY <1>12
      <4> QED
        BY <4>2, <4>3 DEF n
    <3> HIDE DEF ew, cw
    <3>2. w * (-(C + 1)) = -(cw + w) /\ w * e = ew
      BY <1>16, <3>1 DEF ew
    <3> QED
      BY <1>12, <1>16, <1>18, <3>1, <3>2
  <2> QED
    BY <1>12, <2>1, <2>2
<1> QED
  BY <1>12, <1>19

\* No further from 0 than b.
Within(v, b) == -b <= v /\ v <= b

\* A sum of N products of bytes; what the first carries come to, and the later ones.
ProductBound == N * (Radix * Radix)
FirstCarry == 16 * Radix + 1
LateCarry == 35

\* The digits with e rows eliminated: zeros above, untouched ones below the last
\* sweep, and what sweeps have passed rounded, but for a carry into each upper one.
RowBounds(x, e) ==
  \A j \in Digit :
    /\ j >= 2 * N - e => x[j] = 0
    /\ e = 0 \/ j < N - e => Within(x[j], ProductBound)
    /\ e > 0 /\ N - e <= j /\ j < N - e + Low => Within(x[j], Middle)
    /\ e > 0 /\ N - e + Low <= j /\ j <= N + Low - 2 => Within(x[j], Middle + FirstCarry)
    /\ e > 0 /\ N - e + Low <= j /\ j <= 2 * Low - 2 => Within(x[j], Middle + LateCarry)
    /\ Within(x[j], 2 * ProductBound)

\* The bounds are natural numbers, in this order.
LEMMA BoundSizes ==
  /\ ProductBound \in Nat /\ FirstCarry \in Nat /\ LateCarry \in Nat /\ Middle \in Nat
  /\ Middle + FirstCarry <= 17 * Radix /\ 17 * Radix <= 2 * ProductBound
  /\ Middle <= 2 * ProductBound
  /\ 2 * ProductBound <= Weight[Low] /\ DigitBound = 2 * ProductBound
<1>1. N \in Nat /\ N >= 4
  BY OrderShape
<1>2. /\ Top \in Nat /\ Top >= 1 /\ Radix = 16 * Top /\ Middle = 8 * Top
      /\ Radix \in Nat /\ Radix >= 16
  BY RadixParts
<1> DEFINE s == Radix * Radix
           r3 == Radix * s
           p == N * s
<1>3. s \in Nat /\ r3 \in Nat /\ p \in Nat
  <2>1. s \in Nat
    BY <1>2
  <2> HIDE DEF s
  <2> QED
    BY <1>1, <1>2, <2>1
<1>4. 16 * Radix <= s
  BY <1>2, ProductMonotone
<1>5. 4 * s <= p
  <2> HIDE DEF s
  <2>1. s * 4 <= s * N /\ s * 4 = 4 * s /\ s * N = N * s
    BY <1>1, <1>3, ProductMonotone
  <2> QED
    BY <2>1
<1>6. 2 * p <= r3
  <2> DEFINE n == 2 * N
  <2>1. n \in Nat /\ n <= Radix
    BY <1>1, SweepWeight
  <2>2. n * s = 2 * p
    <3> HIDE DEF s
    <3> QED
      BY <1>1, <1>3
  <2> HIDE DEF s, n, p
  <2>3. s * n <= s * Radix /\ s * n = n * s /\ s * Radix = Radix * s
    BY <1>2, <1>3, <2>1, ProductMonotone
  <2> QED
    BY <2>2, <2>3
<1>7. r3 <= Weight[Low] /\ Weight[Low] \in Nat
  BY SweepWeight
<1>8. DigitBound = 2 * p
  <2>1. 2 * N * Radix * Radix = 2 * (N * (Radix * Radix))
    BY <1>1, <1>2
  <2> QED
    BY <2>1 DEF DigitBound
<1> HIDE DEF s, r3, p
<1>9. ProductBound = p
  BY DEF ProductBound, p, s
<1>10. FirstCarry = 16 * Radix + 1 /\ LateCarry = 35
  BY DEF FirstCarry, LateCarry
<1> QED
  BY <1>2, <1>3, <1>4, <1>5, <1>6, <1>7, <1>8, <1>9, <1>10

\* The carries of a row, by how many rows came before it.
LEMMA CarryBounds ==
  ASSUME NEW x \in SignedDigits, NEW e \in 0 .. N - 1, RowBounds(x, e),
         NEW y \in SignedDigits, NEW c, EliminatedBy(x, y, 2 * N - 1 - e, c)
  PROVE  /\ c[Low] \in Int
         /\ e = 0 => Within(c[Low], ProductBound)
         /\ e > 0 => Within(c[Low], FirstCarry)
         /\ 2 * N - 1 - e <= N + Low - 2 => Within(c[Low], LateCarry)
<1> DEFINE i == 2 * N - 1 - e
           a == i - N
           passed == [k \in Digit |-> IF k < Low THEN x[a + k] ELSE 0]
           rest == [k \in Digit |-> IF k = 0 THEN 0 ELSE passed[k]]
           w == Weight[Low]
           g == Sums(Ones)[Low]
           d == Delta
           h == Middle
           P == ProductBound
<1>1. /\ N \in Nat /\ N >= 4 /\ Low \in Nat /\ Low >= 3 /\ Low <= N - 1 /\ N < 2 * Low
      /\ Low \in 0 .. 2 * N
  BY OrderShape
<1>2. /\ i \in N .. 2 * N - 1 /\ a \in Nat /\ a = N - 1 - e /\ a + N = i /\ e \in Nat /\ i \in Digit
      /\ a \in Digit
  BY <1>1 DEF Digit
<1>3. \A k \in 0 .. Low - 1 : k \in Digit /\ a + k \in Digit /\ passed[k] = x[a + k]
  BY <1>1, <1>2 DEF Digit
<1>4. passed \in SignedDigits
  <2>1. ASSUME NEW k \in Digit, k < Low PROVE x[a + k] \in Int
    <3>1. k \in 0 .. Low - 1
      BY <1>1, <2>1 DEF Digit
    <3> QED
      BY <1>3, <3>1 DEF SignedDigits
  <2> QED
    BY <2>1 DEF SignedDigits
<1>5. EliminatedBy(x, y, i, c)
  OBVIOUS
<1> HIDE DEF i, a, passed
<1>6. /\ w \in Nat /\ w >= 1 /\ g \in Nat /\ 15 * g <= w /\ h * g \in Nat /\ 30 * (h * g) <= 16 * w
      /\ d \in Nat /\ 8 * (Radix * d) <= w /\ 128 * d <= w /\ 2 * (N * (Radix * d)) <= w
      /\ P \in Nat /\ 2 * P <= w /\ h \in Nat /\ Radix \in Nat /\ Radix >= 16
      /\ h + FirstCarry <= 17 * Radix /\ FirstCarry \in Nat
      /\ x[i] \in Int /\ x[a] \in Int
  <2>1. x[i] \in Int /\ x[a] \in Int
    BY <1>2 DEF SignedDigits
  <2> QED
    BY <1>1, <2>1, HalfSum, SweepWeight, BoundSizes, RadixParts
<1>7. \A k \in 0 .. Low - 1 : passed[k] = x[i - N + k]
  <2>1. i - N = a
    BY DEF a
  <2> QED
    BY <1>3, <2>1
  \* The bound that CarryBound takes, in products of the weight.
<1>8. ASSUME NEW B \in Nat, NEW T \in Nat, NEW C \in Nat,
             Within(Sums(passed)[Low], B), Within(x[i], T),
             B + h * g + 16 * (T * d) < (C + 1) * w
      PROVE  c[Low] \in Int /\ Within(c[Low], C)
  <2>1. -B <= Sums(passed)[Low] /\ Sums(passed)[Low] <= B /\ -T <= x[i] /\ x[i] <= T
    BY <1>8 DEF Within
  <2>2. c[Low] \in Int /\ -C <= c[Low] /\ c[Low] <= C
    BY <1>2, <1>4, <1>5, <1>7, <1>8, <2>1, CarryBound
  <2> QED
    BY <2>2 DEF Within
<1>9. CASE e = 0
  <2> DEFINE B == P * g
             T == P
             C == P
  <2>1. Within(Sums(passed)[Low], B)
    <3>1. ASSUME NEW k \in 0 .. Low - 1 PROVE -P <= passed[k] /\ passed[k] <= P
      <4>1. a + k \in Digit /\ passed[k] = x[a + k]
        BY <1>3
      <4>2. Within(x[a + k], P)
        BY <1>9, <4>1 DEF RowBounds
      <4> QED
        BY <4>1, <4>2 DEF Within
    <3> HIDE DEF P
    <3>2. -(P * g) <= Sums(passed)[Low] /\ Sums(passed)[Low] <= P * g
      BY <1>1, <1>4, <1>6, <3>1, SumBound
    <3> QED
      BY <3>2 DEF Within
  <2>2. Within(x[i], T)
    BY <1>2, <1>9 DEF RowBounds
  <2>3. B \in Nat /\ T \in Nat /\ C \in Nat
    <3> HIDE DEF g, P
    <3> QED
      BY <1>6
  <2>4. B + h * g + 16 * (T * d) < (C + 1) * w
    <3> DEFINE b == P * g
               t == P * d
               z == P * w
               u == h * g
    <3> HIDE DEF P, w, d, g, h
    <3>1. b \in Nat /\ t \in Nat /\ z \in Nat /\ (P + 1) * w = z + w
      BY <1>6
    <3>2. 15 * b <= z
      <4>1. P * (15 * g) <= P * w /\ P * (15 * g) = 15 * (P * g)
        <5> DEFINE n == 15 * g
        <5>1. n \in Int /\ n <= w
          BY <1>6
        <5>2. P * (15 * g) = 15 * (P * g)
          BY <1>6
        <5> HIDE DEF n
        <5>3. P * n <= P * w
          BY <1>6, <5>1, ProductMonotone
        <5> QED
          BY <5>2, <5>3 DEF n
      <4> QED
        BY <4>1
    <3>3. 128 * t <= z
      <4> DEFINE n == 128 * d
      <4>1. n \in Int /\ n <= w
        BY <1>6
      <4>2. P * (128 * d) = 128 * (P * d)
        BY <1>6
      <4> HIDE DEF n
      <4>3. P * n <= P * w
        BY <1>6, <4>1, ProductMonotone
      <4> QED
        BY <4>2, <4>3 DEF n
    <3>4. u \in Nat /\ 30 * u <= 16 * w /\ w \in Nat /\ w >= 1
      BY <1>6
    <3>5. b + u + 16 * t < z + w
      <4> HIDE DEF b, t, z, u
      <4> QED
        BY <3>1, <3>2, <3>3, <3>4
    <3> QED
      BY <3>1, <3>5
  <2> HIDE DEF B, T, C
  <2>5. c[Low] \in Int /\ Within(c[Low], C)
    BY <1>8, <2>1, <2>2, <2>3, <2>4
  <2>6. ~(2 * N - 1 - e <= N + Low - 2)
    BY <1>1, <1>9
  <2> QED
    BY <1>9, <2>5, <2>6 DEF C
<1>10. CASE e > 0
  <2> DEFINE B == P + h * g
  <2>1. Within(Sums(passed)[Low], B)
    <3>1. rest \in SignedDigits
      <4>1. \A k \in Digit : passed[k] \in Int
        BY <1>4 DEF SignedDigits
      <4> QED
        BY <4>1 DEF SignedDigits
    <3>2. ASSUME NEW k \in 0 .. Low - 1 PROVE -h <= rest[k] /\ rest[k] <= h
      <4>1. k \in Digit /\ a + k \in Digit /\ passed[k] = x[a + k]
        BY <1>3
      <4>2. CASE k = 0
        BY <1>6, <4>1, <4>2
      <4>3. CASE k # 0
        <5>1. N - e <= a + k /\ a + k < N - e + Low
          BY <1>1, <1>2, <4>3
        <5>2. Within(x[a + k], Middle)
          BY <1>10, <4>1, <5>1 DEF RowBounds
        <5> QED
          BY <4>1, <4>3, <5>2 DEF Within
      <4> QED
        BY <4>2, <4>3
    <3> DEFINE v == x[a]
               m == [rest EXCEPT ![0] = rest[0] + v]
    <3>3. 0 \in Digit /\ rest[0] = 0 /\ 0 < Low
      BY <1>1 DEF Digit
    <3>4. v \in Int
      BY <1>6
    <3>5. Within(v, P)
      <4>1. a < N - e
        BY <1>1, <1>2
      <4> QED
        BY <1>2, <4>1 DEF RowBounds
    <3>6. \A k \in 0 .. Low - 1 : passed[k] = m[k]
      <4> SUFFICES ASSUME NEW k \in 0 .. Low - 1 PROVE passed[k] = m[k]
        OBVIOUS
      <4>1. k \in Digit /\ passed[k] = x[a + k]
        BY <1>3
      <4>2. CASE k = 0
        <5>1. a + 0 = a
          BY <1>2
        <5>2. m[0] = 0 + v
          <6> HIDE DEF v
          <6> QED
            BY <3>1, <3>3 DEF SignedDigits
        <5> QED
          BY <3>4, <4>1, <4>2, <5>1, <5>2
      <4>3. CASE k # 0
        <5>1. m[k] = rest[k]
          <6> HIDE DEF v
          <6> QED
            BY <3>1, <4>1, <4>3 DEF SignedDigits
        <5>2. rest[k] = passed[k]
          BY <4>1, <4>3
        <5> QED
          BY <5>1, <5>2
      <4> QED
        BY <4>2, <4>3
    <3>7. m \in SignedDigits /\ Sums(m)[Low] = Sums(rest)[Low] + v * Weight[0]
      <4> DEFINE t == 0
      <4>1. t \in Digit /\ t < Low
        BY <3>3
      <4> HIDE DEF rest, v, t
      <4>2. [rest EXCEPT ![t] = rest[t] + v] \in SignedDigits
            /\ Sums([rest EXCEPT ![t] = rest[t] + v])[Low] = Sums(rest)[Low] + v * Weight[t]
        BY <1>1, <3>1, <3>4, <4>1, SumUpdate
      <4> QED
        BY <4>2 DEF t
    <3> HIDE DEF m
    <3>8. Sums(passed)[Low] = Sums(m)[Low]
      BY <1>1, <1>4, <3>6, <3>7, SumsAgree
    <3>9. -(h * g) <= Sums(rest)[Low] /\ Sums(rest)[Low] <= h * g /\ Sums(rest)[Low] \in Int
      <4> HIDE DEF rest, h
      <4> QED
        BY <1>1, <1>6, <3>1, <3>2, SumBound, SumStep
    <3>10. Sums(passed)[Low] = Sums(rest)[Low] + v
      <4>1. Weight[0] = 1
        BY WeightStep
      <4> HIDE DEF v, rest
      <4>2. v * 1 = v
        BY <3>4
      <4> QED
        BY <3>7, <3>8, <4>1, <4>2
    <3> DEFINE s == Sums(rest)[Low]
               u == h * g
    <3>11. -u <= s /\ s <= u /\ s \in Int /\ u \in Nat
      BY <1>6, <3>9
    <3>12. -P <= v /\ v <= P
      BY <3>5 DEF Within
    <3> HIDE DEF s, u, v, P
    <3>13. -(P + u) <= s + v /\ s + v <= P + u
      BY <1>6, <3>4, <3>11, <3>12
    <3> QED
      BY <3>10, <3>13 DEF Within, s, u
  <2>2. B \in Nat
    <3> HIDE DEF h, g, P
    <3> QED
      BY <1>6
  <2>3. Within(c[Low], FirstCarry) /\ c[Low] \in Int
    <3> DEFINE T == 2 * P
               C == FirstCarry
    <3>1. Within(x[i], T)
      BY <1>2 DEF RowBounds
    <3>2. T \in Nat /\ C \in Nat
      BY <1>6
    <3>3. B + h * g + 16 * (T * d) < (C + 1) * w
      <4> DEFINE u == h * g
                 q == N * (Radix * d)
                 z == Radix * w
                 t == P * d
      <4>1. t = Radix * q /\ q \in Nat
        <5> HIDE DEF d
        <5>1. (N * (Radix * Radix)) * d = Radix * (N * (Radix * d))
          BY <1>1, <1>6
        <5>2. N * (Radix * d) \in Nat
          <6> DEFINE m == Radix * d
          <6>1. m \in Nat
            BY <1>6
          <6> HIDE DEF m
          <6>2. N * m \in Nat
            BY <1>1, <6>1
          <6> QED
            BY <6>2 DEF m
        <5> QED
          BY <5>1, <5>2 DEF ProductBound
      <4>2. 2 * q <= w
        BY <1>6
      <4> HIDE DEF P, w, d, g, h, q
      <4>3. 2 * (Radix * q) <= z /\ Radix * q \in Nat /\ z \in Nat
        <5> DEFINE n == 2 * q
        <5>1. n \in Int /\ n <= w
          BY <1>6, <4>1, <4>2
        <5>2. Radix * (2 * q) = 2 * (Radix * q)
          BY <1>6, <4>1
        <5> HIDE DEF n
        <5>3. Radix * n <= Radix * w
          BY <1>6, <5>1, ProductMonotone
        <5>4. Radix * q \in Nat /\ Radix * w \in Nat
          BY <1>6, <4>1
        <5> QED
          BY <5>2, <5>3, <5>4 DEF n
      <4>4. (2 * P) * d = 2 * t
        BY <1>6
      <4>5. (FirstCarry + 1) * w = 16 * z + 2 * w
        <5>1. FirstCarry + 1 = 16 * Radix + 2
          BY <1>6 DEF FirstCarry
        <5>2. (16 * Radix + 2) * w = 16 * (Radix * w) + 2 * w
          BY <1>6
        <5> QED
          BY <5>1, <5>2
      <4>6. u \in Nat /\ 30 * u <= 16 * w /\ w \in Nat /\ w >= 1 /\ P \in Nat /\ 2 * P <= w
        BY <1>6
      <4>7. t \in Nat /\ 2 * t <= z /\ z \in Nat
        BY <4>1, <4>3
      <4> HIDE DEF u, z, t
      <4>8. P + u + u + 16 * (2 * t) < 16 * z + 2 * w
        BY <4>6, <4>7
      <4> QED
        BY <4>4, <4>5, <4>8 DEF u
    <3> HIDE DEF B, T, C
    <3>4. c[Low] \in Int /\ Within(c[Low], C)
      BY <1>8, <2>1, <2>2, <3>1, <3>2, <3>3
    <3> QED
      BY <3>4 DEF C
  <2>4. ASSUME i <= N + Low - 2 PROVE Within(c[Low], LateCarry)
    <3> DEFINE T == h + FirstCarry
               C == LateCarry
    <3>1. Within(x[i], T)
      <4>1. N - e + Low <= i
        BY <1>1, <1>2 DEF i
      <4> QED
        BY <1>2, <1>10, <2>4, <4>1 DEF RowBounds
    <3>2. T \in Nat /\ C \in Nat
      BY <1>6 DEF LateCarry
    <3>3. B + h * g + 16 * (T * d) < (C + 1) * w
      <4> DEFINE u == h * g
                 t == T * d
                 q == Radix * d
      <4>1. T <= 17 * Radix /\ T \in Nat
        BY <1>6, <3>2
      <4> HIDE DEF P, w, d, g, h, T
      <4>2. t <= 17 * q /\ t \in Nat /\ q \in Nat
        <5> DEFINE n == 17 * Radix
        <5>1. n \in Int /\ T <= n
          BY <1>6, <4>1
        <5>2. d * (17 * Radix) = 17 * (Radix * d)
          BY <1>6
        <5> HIDE DEF n
        <5>3. d * T <= d * n /\ d * T = T * d
          BY <1>6, <4>1, <5>1, ProductMonotone
        <5>4. T * d \in Nat /\ Radix * d \in Nat
          BY <1>6, <4>1
        <5> QED
          BY <5>2, <5>3, <5>4 DEF n
      <4>3. 8 * q <= w
        BY <1>6
      <4>4. u \in Nat /\ 30 * u <= 16 * w /\ w \in Nat /\ w >= 1 /\ P \in Nat /\ 2 * P <= w
        BY <1>6
      <4>5. (LateCarry + 1) * w = 36 * w
        <5>1. LateCarry + 1 = 36
          BY DEF LateCarry
        <5> QED
          BY <5>1
      <4> HIDE DEF u, t, q
      <4>6. P + u + u + 16 * t < 36 * w
        BY <4>2, <4>3, <4>4
      <4> QED
        BY <4>5, <4>6 DEF u, t
    <3> HIDE DEF B, T, C
    <3>4. c[Low] \in Int /\ Within(c[Low], C)
      BY <1>8, <2>1, <2>2, <3>1, <3>2, <3>3
    <3> QED
      BY <3>4 DEF C
  <2> QED
    BY <1>10, <2>3, <2>4 DEF i
<1> QED
  BY <1>2, <1>9, <1>10

\* A row keeps the digits bounded and what they stand for modulo the order.
LEMMA RowStep ==
  ASSUME NEW x \in SignedDigits, NEW e \in 0 .. N - 1, RowBounds(x, e),
         NEW y, y = Eliminate(x, 2 * N - 1 - e)
  PROVE  /\ y \in SignedDigits /\ RowBounds(y, e + 1)
         /\ \E u \in Int : Sums(x)[2 * N] = Order * u + Sums(y)[2 * N]
<1> DEFINE i == 2 * N - 1 - e
           a == i - N
<1>1. /\ N \in Nat /\ N >= 4 /\ Low \in Nat /\ Low >= 3 /\ Low <= N - 1 /\ N < 2 * Low
      /\ Low \in 0 .. 2 * N
  BY OrderShape
<1>2. /\ i \in N .. 2 * N - 1 /\ a \in Nat /\ a = N - 1 - e /\ a + N = i /\ e \in Nat /\ i \in Digit
      /\ a \in Digit /\ a \in 0 .. 2 * N /\ a + Low < i
  BY <1>1 DEF Digit
<1>3. y \in SignedDigits /\ \E c : EliminatedBy(x, y, i, c)
  <2> HIDE DEF i
  <2> QED
    BY <1>2, EliminateIs DEF i
<1>4. PICK c : EliminatedBy(x, y, i, c)
  BY <1>3
<1>5. /\ c[Low] \in Int
      /\ e = 0 => Within(c[Low], ProductBound)
      /\ e > 0 => Within(c[Low], FirstCarry)
      /\ i <= N + Low - 2 => Within(c[Low], LateCarry)
  BY <1>3, <1>4, CarryBounds
<1>6. /\ \A k \in 1 .. Low : y[a + k - 1] \in -Middle .. Middle - 1
      /\ y[a + Low] = x[a + Low] + c[Low]
      /\ y[i] = 0
      /\ \A j \in Digit \ ((a .. a + Low) \cup {i}) : y[j] = x[j]
  BY <1>4 DEF EliminatedBy
<1>7. /\ ProductBound \in Nat /\ FirstCarry \in Nat /\ LateCarry \in Nat /\ Middle \in Nat
      /\ Middle + FirstCarry <= 2 * ProductBound /\ Middle <= 2 * ProductBound
  BY BoundSizes, RadixParts
<1> HIDE DEF i, a
<1>8. RowBounds(y, e + 1)
  <2> SUFFICES ASSUME NEW j \in Digit
               PROVE  /\ j >= 2 * N - (e + 1) => y[j] = 0
                      /\ e + 1 = 0 \/ j < N - (e + 1) => Within(y[j], ProductBound)
                      /\ e + 1 > 0 /\ N - (e + 1) <= j /\ j < N - (e + 1) + Low => Within(y[j], Middle)
                      /\ e + 1 > 0 /\ N - (e + 1) + Low <= j /\ j <= N + Low - 2
                           => Within(y[j], Middle + FirstCarry)
                      /\ e + 1 > 0 /\ N - (e + 1) + Low <= j /\ j <= 2 * Low - 2
                           => Within(y[j], Middle + LateCarry)
                      /\ Within(y[j], 2 * ProductBound)
    BY DEF RowBounds
  <2>1. /\ j \in Nat /\ j < 2 * N /\ N - (e + 1) = a /\ 2 * N - (e + 1) = i /\ e + 1 # 0 /\ e + 1 > 0
        /\ a + N = i
    BY <1>1, <1>2 DEF Digit
  <2>2. x[j] \in Int
    BY DEF SignedDigits
  <2>3. /\ j >= 2 * N - e => x[j] = 0
        /\ e = 0 \/ j < N - e => Within(x[j], ProductBound)
        /\ e > 0 /\ N - e <= j /\ j < N - e + Low => Within(x[j], Middle)
        /\ e > 0 /\ N - e + Low <= j /\ j <= N + Low - 2 => Within(x[j], Middle + FirstCarry)
        /\ e > 0 /\ N - e + Low <= j /\ j <= 2 * Low - 2 => Within(x[j], Middle + LateCarry)
        /\ Within(x[j], 2 * ProductBound)
    BY DEF RowBounds
  <2>4. CASE j = i
    <3>1. y[j] = 0 /\ \A b \in Nat : Within(0, b)
      BY <1>6, <2>4 DEF Within
    <3>2. Middle + FirstCarry \in Nat /\ Middle + LateCarry \in Nat /\ 2 * ProductBound \in Nat
      BY <1>7
    <3> QED
      BY <1>7, <3>1, <3>2
  <2>5. CASE a <= j /\ j < a + Low
    <3>1. j - a + 1 \in 1 .. Low /\ a + (j - a + 1) - 1 = j
      BY <1>1, <1>2, <2>1, <2>5
    <3>2. y[j] \in -Middle .. Middle - 1
      BY <1>6, <3>1
    <3>3. Within(y[j], Middle) /\ Within(y[j], 2 * ProductBound)
      BY <1>7, <3>2 DEF Within
    <3>4. ~(j >= i) /\ ~(j < a) /\ ~(a + Low <= j)
      BY <1>1, <1>2, <2>1, <2>5
    <3> QED
      BY <2>1, <3>3, <3>4
  <2>6. CASE j = a + Low
    <3>1. y[j] = x[j] + c[Low]
      BY <1>6, <2>6
    <3>2. ~(j >= i) /\ ~(j < a) /\ ~(j < a + Low)
      BY <1>1, <1>2, <2>1, <2>6
    <3>3. CASE e = 0
      <4>1. Within(x[j], ProductBound) /\ Within(c[Low], ProductBound)
        BY <1>5, <2>3, <3>3
      <4>2. Within(y[j], 2 * ProductBound)
        BY <1>5, <1>7, <2>2, <3>1, <4>1 DEF Within
      <4>3. ~(j <= N + Low - 2) /\ ~(j <= 2 * Low - 2)
        BY <1>1, <1>2, <2>6, <3>3
      <4> QED
        BY <2>1, <3>2, <4>2, <4>3
    <3>4. CASE e > 0
      <4>1. Within(x[j], Middle)
        <5>1. N - e <= j /\ j < N - e + Low
          BY <1>1, <1>2, <2>6, <3>4
        <5> QED
          BY <2>3, <3>4, <5>1
      <4>2. Within(c[Low], FirstCarry)
        BY <1>5, <3>4
      <4>3. Within(y[j], Middle + FirstCarry)
        BY <1>5, <1>7, <2>2, <3>1, <4>1, <4>2 DEF Within
      <4>4. Within(y[j], 2 * ProductBound)
        BY <1>5, <1>7, <2>2, <3>1, <4>1, <4>2 DEF Within
      <4>5. ASSUME j <= 2 * Low - 2 PROVE Within(y[j], Middle + LateCarry)
        <5>1. i <= N + Low - 2
          BY <1>1, <1>2, <2>6, <4>5
        <5>2. Within(c[Low], LateCarry)
          BY <1>5, <5>1
        <5> QED
          BY <1>5, <1>7, <2>2, <3>1, <4>1, <5>2 DEF Within
      <4> QED
        BY <2>1, <3>2, <4>3, <4>4, <4>5
    <3> QED
      BY <1>2, <3>3, <3>4
  <2>7. CASE j < a
    <3>1. j \in Digit \ ((a .. a + Low) \cup {i})
      BY <1>1, <1>2, <2>1, <2>7
    <3>2. y[j] = x[j] /\ Within(x[j], ProductBound)
      <4>1. e = 0 \/ j < N - e
        BY <1>1, <1>2, <2>1, <2>7
      <4> QED
        BY <1>6, <2>3, <3>1, <4>1
    <3>3. ~(j >= i) /\ ~(a <= j) /\ ~(a + Low <= j)
      BY <1>1, <1>2, <2>1, <2>7
    <3> QED
      BY <2>1, <2>3, <3>2, <3>3
  <2>8. CASE a + Low < j /\ j # i
    <3>1. j \in Digit \ ((a .. a + Low) \cup {i})
      BY <1>1, <1>2, <2>1, <2>8
    <3>2. y[j] = x[j]
      BY <1>6, <3>1
    <3>3. ~(j < a) /\ ~(j < a + Low) /\ (j >= i => j >= 2 * N - e)
      BY <1>1, <1>2, <2>1, <2>8
    <3>4. (j <= N + Low - 2 \/ j <= 2 * Low - 2) => e > 0 /\ N - e + Low <= j
      BY <1>1, <1>2, <2>1, <2>8
    <3> QED
      BY <2>1, <2>3, <3>2, <3>3, <3>4
  <2> QED
    BY <1>1, <1>2, <2>1, <2>4, <2>5, <2>6, <2>7, <2>8
<1>9. \E u \in Int : Sums(x)[2 * N] = Order * u + Sums(y)[2 * N]
  <2> DEFINE t == x[i]
             w == Weight[a]
             s == Sums(y)[2 * N]
             r == Sums(x)[2 * N]
             u == t * (16 * w)
  <2>1. s = r - t * (w * (16 * Order))
    BY <1>2, <1>3, <1>4, EliminationSum DEF a
  <2>2. t \in Int /\ w \in Int /\ s \in Int /\ r \in Int /\ Order \in Int
    <3>1. t \in Int
      BY <1>2 DEF SignedDigits
    <3>2. 2 * N \in 0 .. 2 * N
      BY <1>1
    <3>3. a \in 0 .. 2 * N
      BY <1>1, <1>2
    <3>4. w \in Int
      BY <3>3, WeightStep
    <3>5. s \in Int
      BY <1>3, <3>2, SumStep
    <3>6. r \in Int
      BY <3>2, SumStep
    <3>7. Order \in Int
      BY OrderIs
    <3> QED
      BY <3>1, <3>4, <3>5, <3>6, <3>7
  <2> HIDE DEF t, w, s, r
  <2>3. t * (w * (16 * Order)) = Order * u /\ u \in Int /\ Order * u \in Int
    <3> DEFINE k == 16 * w
    <3>1. k \in Int /\ t * (w * (16 * Order)) = Order * (t * (16 * w))
      BY <2>2
    <3>2. t * k \in Int
      <4> HIDE DEF k
      <4> QED
        BY <2>2, <3>1
    <3> HIDE DEF u
    <3>3. u \in Int
      BY <3>2 DEF u
    <3> QED
      BY <2>2, <3>1, <3>3 DEF u
  <2> DEFINE p == Order * u
  <2> HIDE DEF u
  <2>4. p \in Int /\ s = r - p
    BY <2>1, <2>3
  <2> HIDE DEF p
  <2>5. r = p + s
    BY <2>2, <2>4
  <2> QED
    BY <2>3, <2>5 DEF p, r, s
<1> QED
  BY <1>3, <1>8, <1>9

\* Numbers a multiple of m apart have the same remainder.
LEMMA SameRemainder ==
  ASSUME NEW m \in Nat, m >= 1, NEW v \in Int, NEW u \in Int, NEW z, z = m * u + v
  PROVE  z % m = v % m /\ v % m \in 0 .. m - 1
<1> DEFINE q == v \div m
           r == v % m
<1>1. q \in Int /\ r \in 0 .. m - 1 /\ v = m * q + r
  BY Division
<1> HIDE DEF q, r
<1> DEFINE t == u + q
<1>2. t \in Int /\ m * t = m * u + m * q
  BY <1>1
<1>3. z = m * t + r
  <2> DEFINE a == m * u
             b == m * q
  <2>1. a \in Int /\ b \in Int /\ r \in Int
    BY <1>1
  <2>2. z = a + v /\ v = b + r /\ m * t = a + b
    BY <1>1, <1>2
  <2> HIDE DEF a, b, t
  <2> QED
    BY <2>1, <2>2
<1> HIDE DEF t
<1>4. z % m = r
  BY ONLY m \in Nat, m >= 1, <1>1, <1>2, <1>3, RemainderIs
<1> QED
  BY <1>1, <1>4 DEF r

\* With all rows eliminated, the digits below the top one stand for so little that
\* 43 deltas more leave less than the weight of the top one.
LEMMA LowerDigits ==
  ASSUME NEW x \in SignedDigits, RowBounds(x, N)
  PROVE  \E B \in Nat : /\ -B <= Sums(x)[N - 1] /\ Sums(x)[N - 1] <= B
                        /\ B + 43 * Delta < Weight[N - 1]
<1> DEFINE n == N - 1
           w == Weight[n]
           g == Sums(Ones)[n]
           d == Delta
           h == Middle
<1>1. /\ N \in Nat /\ N >= 4 /\ Low \in Nat /\ Low >= 3 /\ Low <= n /\ n <= 2 * Low - 2 /\ n \in Nat
      /\ Low \in 0 .. 2 * N /\ n \in 0 .. 2 * N /\ N - 1 = n
      /\ (Low = n \/ Radix >= 128)
  BY OrderShape
<1>2. /\ Top \in Nat /\ Top >= 1 /\ Radix = 16 * Top /\ h = 8 * Top
      /\ Radix \in Nat /\ Radix >= 16 /\ h \in Nat
  BY RadixParts
<1>3. ASSUME NEW j \in 0 .. n - 1
      PROVE  /\ j < Low => Within(x[j], h)
             /\ Within(x[j], h + LateCarry)
  <2>1. j \in Digit /\ N > 0 /\ N - N = 0 /\ 0 + Low = Low /\ j >= 0 /\ j <= 2 * Low - 2
    BY <1>1 DEF Digit
  <2>2. /\ N > 0 /\ N - N <= j /\ j < N - N + Low => Within(x[j], Middle)
        /\ N > 0 /\ N - N + Low <= j /\ j <= 2 * Low - 2 => Within(x[j], Middle + LateCarry)
    BY <2>1 DEF RowBounds
  <2>3. j < Low => Within(x[j], h)
    BY <2>1, <2>2
  <2>4. CASE j < Low
    <3>1. x[j] \in Int /\ LateCarry \in Nat
      BY <2>1, BoundSizes DEF SignedDigits
    <3> QED
      BY <1>2, <2>3, <2>4, <3>1 DEF Within
  <2>5. CASE ~(j < Low)
    BY <1>1, <2>1, <2>2, <2>5
  <2> QED
    BY <2>3, <2>4, <2>5
<1> HIDE DEF n
<1>4. /\ w \in Nat /\ w >= 1 /\ g \in Nat /\ 15 * g <= w /\ h * g \in Nat /\ 30 * (h * g) <= 16 * w
      /\ Radix * g = w - 1 + g
      /\ d \in Nat
  BY <1>1, HalfSum, SweepWeight
<1>5. 128 * d <= w /\ 8 * (Radix * d) <= w
  <2> DEFINE u == Weight[Low]
             k == n - Low
             v == Weight[k]
             z == Radix * d
  <2>1. k \in Nat /\ Low + k = n /\ Low + k <= 2 * N /\ k \in 0 .. 2 * N
    BY <1>1
  <2>2. w = u * v
    <3> HIDE DEF k
    <3>1. Weight[Low + k] = Weight[Low] * Weight[k]
      BY <1>1, <2>1, WeightsAdd
    <3> QED
      BY <2>1, <3>1
  <2>3. u \in Nat /\ v \in Nat /\ v >= 1 /\ 128 * d <= u /\ 8 * z <= u
    <3> HIDE DEF k
    <3> QED
      BY <2>1, SweepWeight, WeightStep
  <2>4. z \in Nat
    BY <1>2, <1>4
  <2> HIDE DEF u, v, w, d, z
  <2>5. u * 1 <= u * v
    BY <2>3, ProductMonotone
  <2>6. u * 1 = u
    BY <2>3
  <2>7. 128 * d <= w /\ 8 * z <= w
    BY <1>4, <2>2, <2>3, <2>4, <2>5, <2>6
  <2> QED
    BY <2>7 DEF z
<1>6. CASE Low = n
  <2> DEFINE B == h * g
  <2>1. \A j \in 0 .. n - 1 : -h <= x[j] /\ x[j] <= h
    BY <1>1, <1>3, <1>6 DEF Within
  <2>2. -(h * g) <= Sums(x)[n] /\ Sums(x)[n] <= h * g
    <3> HIDE DEF h
    <3> QED
      BY <1>1, <1>2, <2>1, SumBound
  <2>3. B \in Nat /\ B + 43 * d < w
    <3> HIDE DEF w, d, h, g
    <3>1. B \in Nat /\ 30 * B <= 16 * w
      BY <1>4
    <3> HIDE DEF B
    <3> QED
      BY <1>4, <1>5, <3>1
  <2> QED
    BY <1>1, <2>2, <2>3
<1>7. CASE Radix >= 128
  <2> DEFINE b == h + LateCarry
             B == b * g
  <2>1. \A j \in 0 .. n - 1 : -b <= x[j] /\ x[j] <= b
    BY <1>3 DEF Within
  <2>2. b \in Nat /\ 128 * b <= 99 * Radix
    BY <1>2, <1>7 DEF LateCarry
  <2>3. -(b * g) <= Sums(x)[n] /\ Sums(x)[n] <= b * g
    <3> HIDE DEF b
    <3> QED
      BY <1>1, <2>1, <2>2, SumBound
  <2>4. B \in Nat /\ B + 43 * d < w
    <3> DEFINE p == Radix * g
    <3> HIDE DEF w, d, g, b
    <3>1. B \in Nat /\ p \in Nat /\ p = w - 1 + g
      BY <1>2, <1>4, <2>2
    <3>2. 128 * g <= p
      <4>1. g * 128 <= g * Radix
        BY <1>2, <1>4, <1>7, ProductMonotone
      <4>2. g * Radix = Radix * g
        BY <1>2, <1>4
      <4> QED
        BY <1>4, <4>1, <4>2
    <3>3. 128 * B <= 99 * p
      <4> DEFINE y == 128 * b
                 z == 99 * Radix
      <4>1. y \in Int /\ z \in Int /\ y <= z
        BY <1>2, <2>2
      <4>2. g * (128 * b) = 128 * (b * g) /\ g * (99 * Radix) = 99 * (Radix * g)
        BY <1>2, <1>4, <2>2
      <4> HIDE DEF y, z
      <4>3. g * y <= g * z
        BY <1>4, <4>1, ProductMonotone
      <4> QED
        BY <4>2, <4>3 DEF y, z
    <3>4. 1024 * d <= w
      <4> DEFINE z == Radix * d
      <4>1. d * 128 <= d * Radix /\ d * Radix = Radix * d
        BY <1>2, <1>4, <1>7, ProductMonotone
      <4>2. z \in Nat
        BY <1>2, <1>4
      <4>3. 8 * z <= w /\ d * 128 <= z
        BY <1>5, <4>1
      <4> HIDE DEF z
      <4> QED
        BY <1>4, <4>2, <4>3
    <3> HIDE DEF B, p
    <3> QED
      BY <1>4, <3>1, <3>2, <3>3, <3>4
  <2> QED
    BY <1>1, <2>3, <2>4
<1> QED
  BY <1>1, <1>6, <1>7

\* The quotient that Settle takes off leaves less than the order either side of 0.
LEMMA QuotientLeaves ==
  ASSUME NEW x \in SignedDigits, RowBounds(x, N), NEW q, q = x[N - 1] \div Top
  PROVE  /\ q \in Int
         /\ Sums(x)[N] - q * Order \in Int
         /\ -Order <= Sums(x)[N] - q * Order /\ Sums(x)[N] - q * Order < Order
<1> DEFINE n == N - 1
           t == x[n]
           r == t % Top
           w == Weight[n]
           s == Sums(x)[n]
           d == Delta
<1>1. /\ N \in Nat /\ N >= 4 /\ n \in Digit /\ n \in 0 .. 2 * N /\ N \in 1 .. 2 * N /\ N - 1 = n
      /\ Low \in Nat /\ Low <= n /\ n <= 2 * Low - 2
  BY OrderShape DEF Digit
<1>2. /\ Top \in Nat /\ Top >= 1 /\ Middle = 8 * Top
  BY RadixParts
<1>3. t \in Int
  BY <1>1 DEF SignedDigits
<1>4. q \in Int /\ r \in 0 .. Top - 1 /\ t = Top * q + r
  <2> HIDE DEF t
  <2>1. q = t \div Top
    BY DEF t
  <2> QED
    BY <1>2, <1>3, <2>1, Division
<1>5. -(Middle + LateCarry) <= t /\ t <= Middle + LateCarry
  <2>1. N > 0 /\ N - N + Low <= n /\ n <= 2 * Low - 2
    BY <1>1
  <2>2. Within(t, Middle + LateCarry)
    BY <1>1, <2>1 DEF RowBounds
  <2> QED
    BY <2>2 DEF Within
<1>6. -43 <= q /\ q <= 43
  <2> DEFINE p == Top * q
  <2> HIDE DEF t, r
  <2>1. p \in Int /\ t = p + r /\ -(8 * Top + 35) <= t /\ t <= 8 * Top + 35
    BY <1>2, <1>4, <1>5 DEF LateCarry
  <2>2. ASSUME q >= 44 PROVE FALSE
    <3>1. Top * 44 <= Top * q
      BY <1>2, <1>4, <2>2, ProductMonotone
    <3> HIDE DEF p
    <3>2. Top * 44 <= p
      BY <3>1 DEF p
    <3> QED
      BY <1>2, <1>4, <2>1, <3>2
  <2>3. ASSUME q <= -44 PROVE FALSE
    <3>1. Top * q <= Top * (-44)
      <4> DEFINE m == -44
      <4>1. m \in Int /\ q <= m
        BY <2>3
      <4> HIDE DEF m
      <4>2. Top * q <= Top * m
        BY <1>2, <1>4, <4>1, ProductMonotone
      <4> QED
        BY <4>2 DEF m
    <3> HIDE DEF p
    <3>2. p <= Top * (-44)
      BY <3>1 DEF p
    <3> QED
      BY <1>2, <1>4, <2>1, <3>2
  <2> QED
    BY <1>4, <2>2, <2>3
<1>7. PICK B \in Nat : -B <= s /\ s <= B /\ B + 43 * d < w
  BY LowerDigits
<1>8. Sums(x)[N] = s + t * w /\ s \in Int /\ w \in Nat /\ w >= 1 /\ d \in Nat
  BY <1>1, SumStep, WeightStep, SweepWeight
<1>9. Order = d + Top * w /\ Order \in Nat
  BY OrderIs
<1> HIDE DEF n, t, r, w, s, d
<1> DEFINE a == Top * w
           b == q * d
           c == r * w
           e == q * a
<1>10. a \in Nat /\ b \in Int /\ c \in Int /\ e \in Int
  <2>1. a \in Nat /\ b \in Int /\ c \in Int
    BY <1>2, <1>4, <1>8
  <2> HIDE DEF a
  <2> QED
    BY <1>4, <2>1
<1>11. -(43 * d) <= b /\ b <= 43 * d
  <2>1. d * q <= d * 43 /\ d * q = q * d /\ d * 43 = 43 * d
    BY <1>4, <1>6, <1>8, ProductMonotone
  <2>2. d * (-43) <= d * q
    <3> DEFINE m == -43
    <3>1. m \in Int /\ m <= q
      BY <1>6
    <3> HIDE DEF m
    <3>2. d * m <= d * q
      BY <1>4, <1>8, <3>1, ProductMonotone
    <3> QED
      BY <3>2 DEF m
  <2>3. d * (-43) = -(43 * d)
    BY <1>8
  <2> HIDE DEF b
  <2>4. b = d * q
    BY <2>1 DEF b
  <2> QED
    BY <1>8, <1>10, <2>1, <2>2, <2>3, <2>4
<1>12. 0 <= c /\ c <= a - w
  <2>1. r \in Nat /\ r <= Top - 1
    BY <1>2, <1>4
  <2> DEFINE m == Top - 1
  <2>2. m \in Int /\ r <= m
    BY <1>2, <2>1
  <2>3. w * (Top - 1) = Top * w - w
    BY <1>2, <1>8
  <2> HIDE DEF m
  <2>4. w * r <= w * m /\ w * r = r * w /\ w * r \in Nat
    BY <1>8, <2>1, <2>2, ProductMonotone
  <2> QED
    BY <2>3, <2>4 DEF m
<1>13. t * w = e + c
  <2>1. (Top * q + r) * w = q * (Top * w) + r * w
    <3> DEFINE p == Top * q
    <3>1. p \in Int /\ r \in Int
      BY <1>2, <1>4
    <3>2. (Top * q) * w = q * (Top * w)
      BY <1>2, <1>4, <1>8
    <3> HIDE DEF p
    <3>3. (p + r) * w = p * w + r * w
      BY <1>8, <3>1
    <3> QED
      BY <3>2, <3>3 DEF p
  <2> QED
    BY <1>4, <2>1
<1>14. q * Order = b + e
  <2> HIDE DEF a
  <2>1. q * (d + a) = q * d + q * a
    BY <1>4, <1>8, <1>10
  <2> QED
    BY <1>9, <2>1 DEF a
<1> HIDE DEF a, b, c, e
<1>15. Sums(x)[N] - q * Order = s + c - b
  <2> DEFINE y == t * w
             z == q * Order
  <2>1. Sums(x)[N] = s + y /\ y = e + c /\ z = b + e
    BY <1>8, <1>13, <1>14
  <2> HIDE DEF y, z
  <2>2. Sums(x)[N] - z = s + c - b
    BY <1>8, <1>10, <2>1
  <2> QED
    BY <2>2 DEF z
<1>16. Order = d + a
  BY <1>9 DEF a
<1>17. s + c - b \in Int /\ -(d + a) <= s + c - b /\ s + c - b < d + a
  <2>1. w <= a
    BY <1>8, <1>10, <1>12
  <2> QED
    BY <1>7, <1>8, <1>10, <1>11, <1>12, <2>1
<1> QED
  BY <1>4, <1>15, <1>16, <1>17

\* What is left after the last row becomes the bytes of its remainder by the order.
LEMMA LastStep ==
  ASSUME NEW x \in SignedDigits, RowBounds(x, N)
  PROVE  /\ Carry(Settle(x)) \in [1 .. N -> Byte]
         /\ Number(Carry(Settle(x))) = Sums(x)[2 * N] % Order
<1> DEFINE q == x[N - 1] \div Top
           y == Settle(x)
           r == Carry(y)
           pad == Padded(L)
           out == Padded(r)
           one == 1
           v == -q
           f == [j \in Digit |-> one * x[j] + v * pad[j]]
           W == Weight[N]
           O == Order
           V == Sums(x)[N]
           U == V - q * O
<1>1. /\ N \in Nat /\ N >= 4 /\ N \in 0 .. 2 * N /\ 2 * N \in N .. 2 * N /\ Radix \in Nat /\ Radix >= 16
      /\ \A k \in 1 .. N : L[k] \in Int
      /\ L \in [1 .. N -> Byte] /\ Order \in Nat /\ Order >= 1
  <2>1. N \in Nat /\ N >= 4 /\ \A k \in 1 .. N : L[k] \in Int
    BY OrderShape
  <2>2. N \in 0 .. 2 * N /\ 2 * N \in N .. 2 * N
    BY <2>1
  <2> QED
    BY <2>1, <2>2, RadixParts, OrderIs
<1>2. pad \in SignedDigits /\ \A j \in 0 .. N - 1 : j \in Digit /\ pad[j] = L[j + 1]
  BY <1>1, PaddedDigits
<1>3. Sums(pad)[N] = Order /\ 0 <= O /\ O <= W - 1
  <2>1. Order = Sums(pad)[N]
    BY <1>1, NumberIsSum DEF Order
  <2>2. \A j \in 0 .. N - 1 : 0 <= pad[j] /\ pad[j] <= Radix - 1
    BY <1>1, PaddedDigits
  <2> HIDE DEF pad
  <2>3. 0 <= Sums(pad)[N] /\ Sums(pad)[N] <= Weight[N] - 1
    BY <1>1, <1>2, <2>2, SumOfDigits
  <2> QED
    BY <2>1, <2>3
<1>4. q \in Int /\ U \in Int /\ -O <= U /\ U < O
  BY QuotientLeaves
<1>5. y \in SignedDigits /\ \E d \in SignedDigits : \E c : SettledBy(x, y, q, d, c)
  BY SettleIs
<1> HIDE DEF q, y, pad
<1>a. PICK d \in SignedDigits : \E c : SettledBy(x, y, q, d, c)
  BY <1>5
<1>6. PICK c : SettledBy(x, y, q, d, c)
  BY <1>a
<1>7. /\ c[0] = 0 /\ \A k \in 0 .. N : c[k] \in Int
      /\ \A k \in 1 .. N : /\ d[k - 1] = x[k - 1] + c[k - 1] - q * L[k] - c[k] * Radix
                           /\ d[k - 1] \in 0 .. Radix - 1
      /\ \A j \in 0 .. N - 1 : y[j] = d[j] - c[N] * L[j + 1]
      /\ \A j \in N .. 2 * N - 1 : y[j] = 0
  BY <1>6 DEF SettledBy
<1>8. f \in SignedDigits /\ \A j \in Digit : f[j] = x[j] - q * pad[j] /\ x[j] \in Int /\ pad[j] \in Int
  <2>1. \A j \in Digit : pad[j] \in Int /\ x[j] \in Int
    BY <1>2 DEF SignedDigits
  <2>2. ASSUME NEW j \in Digit
        PROVE  one * x[j] + v * pad[j] \in Int /\ one * x[j] + v * pad[j] = x[j] - q * pad[j]
    <3> DEFINE a == x[j]
               b == pad[j]
    <3>1. a \in Int /\ b \in Int
      BY <2>1
    <3> HIDE DEF a, b
    <3>2. (-q) * b = -(q * b) /\ q * b \in Int
      BY <1>4, <3>1
    <3>3. 1 * a + (-q) * b \in Int /\ 1 * a + (-q) * b = a - q * b
      BY <3>1, <3>2
    <3> QED
      BY <3>3 DEF a, b
  <2> HIDE DEF one, v
  <2> QED
    BY <2>1, <2>2 DEF SignedDigits
<1>9. Sums(f)[N] = U
  <2>1. \A j \in 0 .. N - 1 : f[j] = one * x[j] + v * pad[j]
    BY <1>2
  <2>2. one \in Int /\ v \in Int
    BY <1>4
  <2> HIDE DEF f, one, v
  <2>3. Sums(f)[N] = one * Sums(x)[N] + v * Sums(pad)[N]
    <3> DEFINE n == N
    <3>1. f \in SignedDigits /\ pad \in SignedDigits /\ n \in 0 .. 2 * N
      BY <1>1, <1>2, <1>8
    <3>2. \A j \in 0 .. n - 1 : f[j] = one * x[j] + v * pad[j]
      BY <2>1
    <3> HIDE DEF n
    <3>3. Sums(f)[n] = one * Sums(x)[n] + v * Sums(pad)[n]
      BY ONLY x \in SignedDigits, <2>2, <3>1, <3>2, SumCombination
    <3> QED
      BY <3>3 DEF n
  <2> DEFINE s == Sums(x)[N]
  <2>4. s \in Int
    BY <1>1, SumStep
  <2>5. Sums(f)[N] = 1 * s + (-q) * O /\ U = s - q * O
    BY <1>3, <2>3 DEF one, v
  <2> HIDE DEF s, O
  <2>6. O \in Int
    BY <1>1 DEF O
  <2>7. (-q) * O = -(q * O) /\ q * O \in Int
    BY <1>4, <2>6
  <2>8. Sums(f)[N] = s - q * O
    BY <2>4, <2>5, <2>7
  <2> QED
    BY <2>5, <2>8
<1> HIDE DEF f, U, V
<1>10. Sums(d)[N] + c[N] * W = U
  <2>1. ASSUME NEW k \in 1 .. N PROVE d[k - 1] = f[k - 1] + c[k - 1] - c[k] * Radix
    <3>1. k - 1 \in 0 .. N - 1 /\ (k - 1) + 1 = k /\ k - 1 \in 0 .. N /\ k \in 0 .. N
      BY <1>1
    <3>2. k - 1 \in Digit /\ pad[k - 1] = L[k] /\ f[k - 1] = x[k - 1] - q * L[k]
      BY <1>2, <1>8, <3>1
    <3> DEFINE a == x[k - 1]
               b == c[k - 1]
               e == q * L[k]
               g == c[k] * Radix
    <3>3. a \in Int /\ b \in Int /\ e \in Int /\ g \in Int
      <4>1. c[k] \in Int /\ b \in Int /\ L[k] \in Int /\ a \in Int
        BY <1>1, <1>7, <1>8, <3>1, <3>2
      <4> QED
        BY <1>1, <1>4, <4>1
    <3>4. d[k - 1] = a + b - e - g /\ f[k - 1] = a - e
      BY <1>7, <3>2
    <3> HIDE DEF a, b, e, g
    <3>5. d[k - 1] = f[k - 1] + b - g
      BY <3>3, <3>4
    <3> QED
      BY <3>5 DEF b, g
  <2>2. Sums(d)[N] + c[N] * Weight[N] = Sums(f)[N]
    <3>1. f \in SignedDigits /\ N \in 0 .. 2 * N /\ c[0] = 0 /\ \A k \in 0 .. N : c[k] \in Int
      BY <1>1, <1>7, <1>8
    <3> QED
      BY <2>1, <3>1, SumCarried
  <2> QED
    BY <1>9, <2>2
<1>11. 0 <= Sums(d)[N] /\ Sums(d)[N] <= W - 1 /\ Sums(d)[N] \in Int
  <2>1. ASSUME NEW j \in 0 .. N - 1 PROVE 0 <= d[j] /\ d[j] <= Radix - 1
    <3>1. j + 1 \in 1 .. N /\ (j + 1) - 1 = j
      BY <1>1
    <3>2. d[j] \in 0 .. Radix - 1
      BY <1>7, <3>1
    <3> QED
      BY <1>1, <3>2
  <2> QED
    BY <1>1, <2>1, SumOfDigits, SumStep
<1> DEFINE s == Sums(d)[N]
           t == c[N]
<1>12. s \in Int /\ t \in Int /\ W \in Int /\ O \in Int /\ O >= 1 /\ s + t * W = U /\ 0 <= s /\ s <= W - 1
       /\ O <= W - 1 /\ U \in Int /\ -O <= U /\ U < O
  <2>1. t \in Int /\ W \in Int
    <3>1. N \in 0 .. N
      BY <1>1
    <3>2. N \in 0 .. 2 * N
      BY <1>1
    <3>3. Weight[N] \in Int
      BY <3>2, WeightStep
    <3>4. c[N] \in Int
      BY <1>7, <3>1
    <3> QED
      BY <3>3, <3>4
  <2> QED
    BY <1>1, <1>3, <1>4, <1>10, <1>11, <2>1
<1> HIDE DEF s, t, W, O
<1>13. t = 0 \/ t = -1
  <2>1. ASSUME t >= 1 PROVE FALSE
    <3>1. W * 1 <= W * t /\ W * t = t * W /\ W * 1 = W
      <4>1. W \in Nat
        BY <1>12
      <4> QED
        BY <1>12, <2>1, <4>1, ProductMonotone
    <3> DEFINE p == t * W
    <3>2. p \in Int /\ W <= p /\ s + p = U
      BY <1>12, <3>1
    <3> HIDE DEF p
    <3> QED
      BY <1>12, <3>2
  <2>2. ASSUME t <= -2 PROVE FALSE
    <3> DEFINE m == -2
    <3>1. m \in Int /\ t <= m /\ W \in Nat /\ W * (-2) = -(2 * W)
      BY <1>12, <2>2
    <3> HIDE DEF m
    <3>2. W * t <= W * m /\ W * t = t * W
      BY <1>12, <3>1, ProductMonotone
    <3> DEFINE p == t * W
    <3>3. p \in Int /\ p <= -(2 * W) /\ s + p = U
      BY <1>12, <3>1, <3>2 DEF m
    <3> HIDE DEF p
    <3> QED
      BY <1>12, <3>3
  <2> QED
    BY <1>12, <2>1, <2>2
  \* The order is put back when, and only when, the rest went below 0.
<1> DEFINE R_ == U - t * O
<1>14. R_ \in 0 .. O - 1 /\ s - t * O = R_ + (-t) * W
  <2>1. CASE t = 0
    BY <1>12, <2>1
  <2>2. CASE t = -1
    <3>1. s + (-1) * W = U /\ R_ = U - (-1) * O
      BY <1>12, <2>2
    <3>2. s - W = U /\ R_ = U + O
      BY <1>12, <3>1
    <3>3. s - t * O = s + O /\ (-t) * W = W
      BY <1>12, <2>2
    <3> HIDE DEF R_
    <3> QED
      BY <1>12, <3>2, <3>3
  <2> QED
    BY <1>13, <2>1, <2>2
<1>15. Sums(y)[N] = s - t * O
  <2> DEFINE m == -t
  <2>1. one \in Int /\ m \in Int
    BY <1>12
  <2>2. \A j \in 0 .. N - 1 : y[j] = one * d[j] + m * pad[j]
    <3> SUFFICES ASSUME NEW j \in 0 .. N - 1 PROVE y[j] = one * d[j] + m * pad[j]
      OBVIOUS
    <3>1. j \in Digit /\ pad[j] = L[j + 1] /\ y[j] = d[j] - t * L[j + 1]
      BY <1>2, <1>7 DEF t
    <3> DEFINE a == d[j]
               b == pad[j]
    <3>2. a \in Int /\ b \in Int /\ y[j] = a - t * b
      BY <1>8, <3>1 DEF SignedDigits
    <3> HIDE DEF a, b
    <3>3. (-t) * b = -(t * b) /\ t * b \in Int
      BY <1>12, <3>2
    <3>4. y[j] = 1 * a + (-t) * b
      BY <3>2, <3>3
    <3> QED
      BY <3>4 DEF a, b
  <2> HIDE DEF one, m
  <2>3. Sums(y)[N] = one * Sums(d)[N] + m * Sums(pad)[N]
    BY <1>1, <1>2, <1>5, <2>1, <2>2, SumCombination
  <2>4. Sums(y)[N] = 1 * s + (-t) * O
    BY <1>3, <2>3 DEF one, m, s, O
  <2>5. (-t) * O = -(t * O) /\ t * O \in Int
    BY <1>12
  <2> QED
    BY <1>12, <2>4, <2>5
<1>16. r \in [1 .. N -> Byte] /\ \E e : CarriedBy(y, r, e)
  BY <1>5, CarryIs
<1> HIDE DEF r
<1>17. PICK e : CarriedBy(y, r, e)
  BY <1>16
<1>18. /\ e[0] = 0 /\ \A k \in 0 .. N : e[k] \in Int
       /\ \A k \in 1 .. N : r[k] = y[k - 1] + e[k - 1] - e[k] * Radix
  BY <1>17 DEF CarriedBy
<1>19. /\ out \in SignedDigits
       /\ \A j \in 0 .. N - 1 : out[j] = r[j + 1] /\ 0 <= out[j] /\ out[j] <= Radix - 1
       /\ Number(r) = Sums(out)[N]
  BY <1>16, PaddedDigits, NumberIsSum
<1> HIDE DEF out
<1>20. Sums(out)[N] + e[N] * W = Sums(y)[N]
  <2>1. ASSUME NEW k \in 1 .. N PROVE out[k - 1] = y[k - 1] + e[k - 1] - e[k] * Radix
    <3>1. k - 1 \in 0 .. N - 1 /\ (k - 1) + 1 = k
      BY <1>1
    <3> QED
      BY <1>18, <1>19, <3>1
  <2>2. Sums(out)[N] + e[N] * Weight[N] = Sums(y)[N]
    <3>1. y \in SignedDigits /\ out \in SignedDigits /\ N \in 0 .. 2 * N
          /\ e[0] = 0 /\ \A k \in 0 .. N : e[k] \in Int
      BY <1>1, <1>5, <1>18, <1>19
    <3> QED
      BY <2>1, <3>1, SumCarried
  <2> QED
    BY <2>2 DEF W
<1>21. Number(r) = R_
  <2> DEFINE n == Sums(out)[N]
             k == e[N]
             u == (-t) - k
  <2>1. n \in Int /\ k \in Int /\ 0 <= n /\ n <= W - 1
    <3>1. 0 <= n /\ n <= Weight[N] - 1 /\ n \in Int
      BY <1>1, <1>19, SumOfDigits, SumStep
    <3>2. N \in 0 .. N
      BY <1>1
    <3> QED
      BY <1>18, <3>1, <3>2 DEF W
  <2>2. n + k * W = R_ + (-t) * W
    BY <1>14, <1>15, <1>20
  <2> HIDE DEF n, k, R_
  <2>3. u \in Int /\ W * u = (-t) * W - k * W /\ k * W \in Int /\ (-t) * W \in Int
    BY <1>12, <2>1
  <2>4. R_ \in Int /\ 0 <= R_ /\ R_ <= W - 1 /\ W \in Nat
    BY <1>12, <1>14
  <2> DEFINE a == (-t) * W
             b == k * W
  <2>5. a \in Int /\ b \in Int /\ n + b = R_ + a /\ W * u = a - b
    BY <2>2, <2>3
  <2> HIDE DEF u
  <2>6. u = 0
    <3>1. ASSUME u >= 1 PROVE FALSE
      <4>1. W * 1 <= W * u /\ W * 1 = W
        BY <2>3, <2>4, <3>1, ProductMonotone
      <4> DEFINE p == W * u
      <4>2. W <= p /\ p = a - b
        BY <2>5, <4>1
      <4> HIDE DEF p, a, b
      <4> QED
        BY <2>1, <2>4, <2>5, <4>2
    <3>2. ASSUME u <= -1 PROVE FALSE
      <4> DEFINE m == -1
      <4>1. m \in Int /\ u <= m /\ W * (-1) = -W
        BY <2>4, <3>2
      <4> HIDE DEF m
      <4>2. W * u <= W * m
        BY <2>3, <2>4, <4>1, ProductMonotone
      <4> DEFINE p == W * u
      <4>3. p <= -W /\ p = a - b
        BY <2>5, <4>1, <4>2 DEF m
      <4> HIDE DEF p, a, b
      <4> QED
        BY <2>1, <2>4, <2>5, <4>3
    <3> QED
      BY <2>3, <3>1, <3>2
  <2>7. n = R_
    <3>1. W * u = 0
      BY <2>4, <2>6
    <3> DEFINE p == W * u
    <3>2. p = 0 /\ p = a - b
      BY <2>5, <3>1
    <3> HIDE DEF p, a, b
    <3> QED
      BY <2>1, <2>4, <2>5, <3>2
  <2> QED
    BY <1>19, <2>7 DEF n
<1>22. Sums(x)[2 * N] = Sums(x)[N]
  <2>1. \A j \in N .. 2 * N - 1 : x[j] = 0
    <3> SUFFICES ASSUME NEW j \in N .. 2 * N - 1 PROVE x[j] = 0
      OBVIOUS
    <3>1. j \in Digit /\ j >= 2 * N - N
      BY <1>1 DEF Digit
    <3> QED
      BY <3>1 DEF RowBounds
  <2> QED
    BY <1>1, <2>1, SumAbove
<1>23. Sums(x)[N] % O = R_
  <2> DEFINE u == q + t
             z == Sums(x)[N]
  <2>1. z \in Int /\ U = z - q * O
    BY <1>1, SumStep DEF U, V
  <2>2. u \in Int /\ O * u = q * O + t * O /\ q * O \in Int /\ t * O \in Int /\ O \in Nat
    BY <1>4, <1>12
  <2> HIDE DEF z, u
  <2> DEFINE a == q * O
             b == t * O
  <2>3. a \in Int /\ b \in Int /\ R_ = U - b /\ U = z - a /\ O * u = a + b
    BY <2>1, <2>2
  <2> HIDE DEF a, b, R_
  <2>4. z = O * u + R_
    BY <1>12, <2>1, <2>3
  <2>5. z % O = R_
    BY ONLY <1>12, <1>14, <2>2, <2>4, RemainderIs
  <2> QED
    BY <2>5 DEF z
<1>24. Number(r) = Sums(x)[2 * N] % Order
  BY <1>21, <1>22, <1>23 DEF O
<1> QED
  BY <1>16, <1>24 DEF r, y

-----------------------------------------------------------------------------
(***************************************************************************)
(* modL as a whole.                                                        *)
(***************************************************************************)

\* Eliminated is the rows one after the other; `With` only names a value.
LEMMA EliminatedSteps ==
  ASSUME NEW x \in SignedDigits
  PROVE  /\ Eliminated(x)[0] = x
         /\ \A k \in 1 .. N : Eliminated(x)[k] = Eliminate(Eliminated(x)[k - 1], 2 * N - k)
<1> DEFINE Rec(f) == [k \in 0 .. N |-> IF k = 0 THEN x ELSE Eliminate(f[k - 1], 2 * N - k)]
           RecW(f) == [k \in 0 .. N |->
                         IF k = 0 THEN x
                         ELSE With(f[k - 1], LAMBDA y : Eliminate(y, 2 * N - k))]
           step == [k \in 1 .. N |-> [v \in SignedDigits |-> Eliminate(v, 2 * N - k)]]
           p == Eliminated(x)
           F == [0 .. N -> SignedDigits]
           G == [1 .. N -> [SignedDigits -> SignedDigits]]
<1>1. N \in Nat
  BY ScalarWidths
<1>2. p = CHOOSE f : f = RecW(f)
  BY DEF Eliminated
<1>3. ASSUME NEW f PROVE RecW(f) = Rec(f)
  <2>1. ASSUME NEW v, NEW i PROVE With(v, LAMBDA y : Eliminate(y, i)) = Eliminate(v, i)
    <3>1. {Eliminate(y, i) : y \in {v}} = {Eliminate(v, i)}
      OBVIOUS
    <3>2. (CHOOSE result \in {Eliminate(v, i)} : TRUE) = Eliminate(v, i)
      OBVIOUS
    <3> QED
      BY <3>1, <3>2 DEF With
  <2> QED
    BY <2>1
<1> HIDE DEF RecW
<1>4. ASSUME NEW v \in SignedDigits, NEW k \in 1 .. N PROVE Eliminate(v, 2 * N - k) \in SignedDigits
  <2>1. 2 * N - k \in N .. 2 * N - 1
    BY <1>1
  <2> QED
    BY <2>1, EliminateIs
<1>5. step \in G
  BY <1>4
<1>6. \A k \in 1 .. N : \A v \in SignedDigits : step[k][v] = Eliminate(v, 2 * N - k)
  OBVIOUS
<1> HIDE DEF step
<1>7. PICK f \in F : f[0] = x /\ \A k \in 1 .. N : f[k] = step[k][f[k - 1]]
  <2>1. F = [0 .. N -> SignedDigits] /\ G = [1 .. N -> [SignedDigits -> SignedDigits]]
        /\ x \in SignedDigits
    OBVIOUS
  <2> HIDE DEF F, G
  <2>2. \E f \in F : Steps(f, x, N, step)
    BY ONLY <1>1, <2>1, <1>5, Recursion, Zenon
  <2> QED
    BY <2>2 DEF Steps
<1>8. ASSUME NEW k \in 0 .. N PROVE f[k] = Rec(f)[k]
  <2>1. CASE k = 0
    BY <1>7, <2>1
  <2>2. CASE k # 0
    <3>1. k \in 1 .. N /\ k - 1 \in 0 .. N
      BY <1>1, <2>2
    <3>2. f[k - 1] \in SignedDigits
      BY <3>1
    <3>3. f[k] = Eliminate(f[k - 1], 2 * N - k)
      BY <1>6, <1>7, <3>1, <3>2
    <3> QED
      BY <2>2, <3>3
  <2> QED
    BY <2>1, <2>2
<1>9. f = Rec(f)
  BY <1>8
<1>10. p = RecW(p)
  BY <1>2, <1>3, <1>9
<1> HIDE DEF p
<1>11. p = Rec(p)
  BY <1>3, <1>10
<1>12. p[0] = x /\ \A k \in 1 .. N : p[k] = Eliminate(p[k - 1], 2 * N - k)
  <2>1. 0 \in 0 .. N /\ \A k \in 1 .. N : k \in 0 .. N /\ k # 0
    BY <1>1
  <2>2. Rec(p)[0] = x /\ \A k \in 1 .. N : Rec(p)[k] = Eliminate(p[k - 1], 2 * N - k)
    BY <2>1
  <2> HIDE DEF Rec
  <2> QED
    BY <1>11, <2>2
<1> QED
  BY <1>12 DEF p

\* Whatever is eliminated, what is left are signed digits, and modL makes bytes.
LEMMA ModLIsBytes ==
  ASSUME NEW x \in SignedDigits
  PROVE  Eliminated(x)[N] \in SignedDigits /\ modL(x) \in [1 .. N -> Byte]
<1> DEFINE p == Eliminated(x)
           S_ == SignedDigits
<1>1. N \in Nat
  BY ScalarWidths
<1>2. p[0] \in S_
  BY EliminatedSteps
<1>3. ASSUME NEW k \in 1 .. N, p[k - 1] \in S_ PROVE p[k] \in S_
  <2>1. 2 * N - k \in N .. 2 * N - 1
    BY <1>1
  <2> QED
    BY <1>3, <2>1, EliminateIs, EliminatedSteps
<1>4. \A k \in 0 .. N : p[k] \in S_
  <2> HIDE DEF p, S_
  <2> QED
    BY ONLY <1>1, <1>2, <1>3, StaysIn
<1>5. Eliminated(x)[N] \in SignedDigits
  BY <1>1, <1>4
<1> QED
  BY <1>5, SettleIs, CarryIs DEF modL

\* From digits no larger than a sum of products, modL makes the remainder by the order.
LEMMA ModLIsRemainder ==
  ASSUME NEW x \in SignedDigits, RowBounds(x, 0)
  PROVE  /\ modL(x) \in [1 .. N -> Byte]
         /\ Number(modL(x)) = Sums(x)[2 * N] % Order
<1> DEFINE p == Eliminated(x)
           v(k) == Sums(p[k])[2 * N]
           Holds(k) == p[k] \in SignedDigits /\ RowBounds(p[k], k) /\ v(k) % Order = v(0) % Order
           T == {k \in 0 .. N : Holds(k)}
<1>1. N \in Nat /\ Order \in Nat /\ Order >= 1
  BY ScalarWidths, OrderIs
<1>2. p[0] = x /\ \A k \in 1 .. N : p[k] = Eliminate(p[k - 1], 2 * N - k)
  BY EliminatedSteps
<1> HIDE DEF p
<1>3. Holds(0)
  BY <1>2
<1>4. ASSUME NEW k \in 0 .. N - 1, Holds(k) PROVE Holds(k + 1)
  <2> DEFINE y == p[k]
             z == p[k + 1]
  <2>1. k + 1 \in 1 .. N /\ (k + 1) - 1 = k /\ 2 * N - (k + 1) = 2 * N - 1 - k
    BY <1>1
  <2>2. z = Eliminate(y, 2 * N - 1 - k)
    BY <1>2, <2>1
  <2>3. y \in SignedDigits /\ RowBounds(y, k)
    BY <1>4
  <2> HIDE DEF y, z
  <2>4. z \in SignedDigits /\ RowBounds(z, k + 1)
        /\ \E u \in Int : Sums(y)[2 * N] = Order * u + Sums(z)[2 * N]
    BY <2>2, <2>3, RowStep
  <2>5. PICK u \in Int : Sums(y)[2 * N] = Order * u + Sums(z)[2 * N]
    BY <2>4
  <2> DEFINE a == Sums(y)[2 * N]
             b == Sums(z)[2 * N]
             m == Order
  <2>6. a = m * u + b /\ b \in Int /\ m \in Nat /\ m >= 1
    <3>1. 2 * N \in 0 .. 2 * N
      BY <1>1
    <3> QED
      BY <1>1, <2>4, <2>5, <3>1, SumStep
  <2> HIDE DEF a, b, m
  <2>7. a % m = b % m
    BY ONLY <2>6, u \in Int, SameRemainder
  <2>8. Sums(z)[2 * N] % Order = Sums(y)[2 * N] % Order
    BY <2>7 DEF a, b, m
  <2> QED
    BY <1>4, <2>4, <2>8 DEF y, z
<1>5. 0 \in T /\ \A k \in 0 .. N - 1 : k \in T => k + 1 \in T
  <2>1. 0 \in 0 .. N /\ \A k \in 0 .. N - 1 : k + 1 \in 0 .. N
    BY <1>1
  <2> HIDE DEF Holds
  <2> QED
    BY <1>3, <1>4, <2>1
<1>6. N \in 0 .. N /\ \A k \in T : Holds(k)
  <2> HIDE DEF Holds
  <2> QED
    BY <1>1
<1> HIDE DEF T
<1>7. N \in T
  BY ONLY <1>1, <1>5, <1>6, Upwards
<1>8. Holds(N)
  <2> HIDE DEF Holds
  <2> QED
    BY <1>6, <1>7
<1> DEFINE y == p[N]
<1>9. y \in SignedDigits /\ RowBounds(y, N) /\ Sums(y)[2 * N] % Order = Sums(x)[2 * N] % Order
  BY <1>2, <1>8
<1>10. modL(x) = Carry(Settle(y))
  BY DEF modL, p
<1> HIDE DEF y
<1>11. Carry(Settle(y)) \in [1 .. N -> Byte] /\ Number(Carry(Settle(y))) = Sums(y)[2 * N] % Order
  BY <1>9, LastStep
<1> QED
  BY <1>9, <1>10, <1>11

\* Before the first row only the size of the digits matters.
LEMMA FreshBounds ==
  ASSUME NEW x \in SignedDigits, \A j \in Digit : 0 <= x[j] /\ x[j] <= ProductBound
  PROVE  RowBounds(x, 0)
<1>1. N \in Nat /\ ProductBound \in Nat
  BY ScalarWidths, BoundSizes
<1> SUFFICES ASSUME NEW j \in Digit
             PROVE  /\ j >= 2 * N - 0 => x[j] = 0
                    /\ Within(x[j], ProductBound)
                    /\ Within(x[j], 2 * ProductBound)
  BY DEF RowBounds
<1>2. x[j] \in Int /\ 0 <= x[j] /\ x[j] <= ProductBound
  BY DEF SignedDigits
<1>3. ~(j >= 2 * N - 0)
  BY <1>1 DEF Digit
<1> QED
  BY <1>1, <1>2, <1>3 DEF Within

-----------------------------------------------------------------------------
(***************************************************************************)
(* The sum of products a signer reduces.                                   *)
(***************************************************************************)

\* The digits after c of the products have been added.
SignedProducts(r, h, d) ==
  LET products[c \in 0 .. N * N] ==
        IF c = 0 THEN [i \in Digit |-> IF i < N THEN r[i + 1] ELSE 0]
        ELSE LET i == (c - 1) \div N
                 j == (c - 1) % N
             IN [products[c - 1] EXCEPT ![i + j] = @ + h[i + 1] * d[j + 1]]
  IN products

\* What the product after c products adds, and where.
Addition(x, h, d, c) ==
  [x EXCEPT ![c \div N + (c % N)] =
     x[c \div N + (c % N)] + h[c \div N + 1] * d[(c % N) + 1]]

\* The product after c products is that of one byte of h and one of d.
LEMMA ProductPlace ==
  ASSUME NEW c \in 0 .. N * N - 1
  PROVE  /\ c \div N \in 0 .. N - 1 /\ c % N \in 0 .. N - 1 /\ c = N * (c \div N) + (c % N)
         /\ c \div N + (c % N) \in Digit
<1>1. N \in Nat /\ N >= 1
  BY ScalarWidths
<1>2. c \in Int /\ 0 <= c /\ c < N * N
  <2> DEFINE m == N * N
  <2>1. m \in Int
    BY <1>1
  <2> HIDE DEF m
  <2>2. c \in 0 .. m - 1
    BY DEF m
  <2>3. c \in Int /\ 0 <= c /\ c < m
    BY <2>1, <2>2
  <2> QED
    BY <2>3 DEF m
<1> DEFINE i == c \div N
           j == c % N
<1>3. i \in Int /\ j \in 0 .. N - 1 /\ c = N * i + j
  BY <1>1, <1>2, Division
<1> HIDE DEF i, j
<1>4. i >= 0
  <2> SUFFICES ASSUME i <= -1 PROVE FALSE
    BY <1>3
  <2> DEFINE n == -1
             p == N * i
  <2>1. n \in Int /\ i <= n /\ N * (-1) = -N
    BY <1>1
  <2> HIDE DEF n
  <2>2. N * i <= N * n
    BY <1>1, <1>3, <2>1, ProductMonotone
  <2>3. p <= -N /\ c = p + j
    BY <1>3, <2>1, <2>2 DEF n
  <2> HIDE DEF p
  <2> QED
    BY <1>1, <1>2, <1>3, <2>3
<1>5. i <= N - 1
  <2> SUFFICES ASSUME i >= N PROVE FALSE
    BY <1>1, <1>3
  <2>1. N * N <= N * i
    BY <1>1, <1>3, ProductMonotone
  <2> DEFINE p == N * i
             m == N * N
  <2>2. m <= p /\ c = p + j /\ c < m /\ m \in Int /\ p \in Int
    BY <1>1, <1>2, <1>3, <2>1
  <2> HIDE DEF p, m
  <2> QED
    BY <1>3, <2>2
<1>6. i \in 0 .. N - 1 /\ i + j \in Digit
  BY <1>1, <1>3, <1>4, <1>5 DEF Digit
<1> QED
  BY <1>3, <1>6 DEF i, j

\* The products one after the other.
LEMMA ProductSteps ==
  ASSUME NEW r \in [1 .. N -> Byte], NEW h_ \in [1 .. N -> Byte], NEW d \in [1 .. N -> Byte]
  PROVE  /\ SignedProducts(r, h_, d)[0] = Padded(r)
         /\ \A c \in 0 .. N * N : SignedProducts(r, h_, d)[c] \in SignedDigits
         /\ \A c \in 0 .. N * N - 1 :
              SignedProducts(r, h_, d)[c + 1] = Addition(SignedProducts(r, h_, d)[c], h_, d, c)
<1> DEFINE n == N * N
           first == Padded(r)
           Next_(x, c) == [x EXCEPT ![(c - 1) \div N + ((c - 1) % N)] =
                             @ + h_[(c - 1) \div N + 1] * d[((c - 1) % N) + 1]]
           Rec(f) == [c \in 0 .. n |-> IF c = 0 THEN first ELSE Next_(f[c - 1], c)]
           step == [c \in 1 .. n |-> [x \in SignedDigits |-> Next_(x, c)]]
           p == SignedProducts(r, h_, d)
           F == [0 .. n -> SignedDigits]
           G == [1 .. n -> [SignedDigits -> SignedDigits]]
<1>1. n \in Nat /\ N \in Nat /\ first \in SignedDigits
  BY ScalarWidths, PaddedDigits
<1>2. p = CHOOSE f : f = Rec(f)
  BY DEF SignedProducts, Padded
<1>3. ASSUME NEW c \in 1 .. n, NEW x \in SignedDigits
      PROVE  Next_(x, c) \in SignedDigits /\ Next_(x, c) = Addition(x, h_, d, c - 1)
  <2> DEFINE b == c - 1
             i == b \div N
             j == b % N
  <2>1. b \in 0 .. n - 1
    <3> HIDE DEF n
    <3> QED
      BY <1>1
  <2>2. i \in 0 .. N - 1 /\ j \in 0 .. N - 1 /\ i + j \in Digit
    <3> HIDE DEF b
    <3> QED
      BY <2>1, ProductPlace
  <2>3. h_[i + 1] * d[j + 1] \in Int
    <3>1. i + 1 \in 1 .. N /\ j + 1 \in 1 .. N
      BY <1>1, <2>2
    <3>2. h_[i + 1] \in Int /\ d[j + 1] \in Int
      BY <3>1 DEF Byte
    <3> QED
      BY <3>2
  <2> DEFINE t == i + j
             v == x[t] + h_[i + 1] * d[j + 1]
  <2>4. v \in Int
    <3>1. x[t] \in Int
      BY <2>2 DEF SignedDigits
    <3> QED
      BY <2>3, <3>1
  <2>5. [x EXCEPT ![t] = v] \in SignedDigits
    BY <2>4, DigitUpdate
  <2>6. Next_(x, c) = [x EXCEPT ![t] = v]
    OBVIOUS
  <2>7. Addition(x, h_, d, c - 1) = [x EXCEPT ![t] = v]
    BY DEF Addition
  <2> QED
    BY <2>5, <2>6, <2>7
<1>4. step \in G
  BY <1>3
<1>5. \A c \in 1 .. n : \A x \in SignedDigits : step[c][x] = Addition(x, h_, d, c - 1)
  BY <1>3
<1> HIDE DEF step, first
<1>6. PICK f \in F : f[0] = first /\ \A c \in 1 .. n : f[c] = step[c][f[c - 1]]
  <2>1. F = [0 .. n -> SignedDigits] /\ G = [1 .. n -> [SignedDigits -> SignedDigits]]
    OBVIOUS
  <2> HIDE DEF F, G, n
  <2>2. \E f \in F : Steps(f, first, n, step)
    BY ONLY <1>1, <2>1, <1>4, Recursion, Zenon
  <2> QED
    BY <2>2 DEF Steps
<1>7. ASSUME NEW c \in 0 .. n PROVE f[c] = Rec(f)[c]
  <2> HIDE DEF Next_, n
  <2>1. CASE c = 0
    BY <1>6, <2>1
  <2>2. CASE c # 0
    <3>1. c \in 1 .. n /\ c - 1 \in 0 .. n
      BY <1>1, <2>2
    <3>2. f[c - 1] \in SignedDigits
      BY <3>1
    <3>3. f[c] = Next_(f[c - 1], c)
      BY <1>3, <1>5, <1>6, <3>1, <3>2
    <3> QED
      BY <2>2, <3>3
  <2> QED
    BY <2>1, <2>2
<1>8. f = Rec(f)
  <2> HIDE DEF Next_, n
  <2> QED
    BY <1>7
<1>9. p = Rec(p)
  <2> HIDE DEF p, Rec
  <2> QED
    BY <1>2, <1>8
<1> HIDE DEF p
<1>10. p[0] = first /\ \A c \in 1 .. n : p[c] = Next_(p[c - 1], c)
  <2> HIDE DEF Next_, n
  <2>1. 0 \in 0 .. n /\ \A c \in 1 .. n : c \in 0 .. n /\ c # 0
    BY <1>1
  <2>2. Rec(p)[0] = first /\ \A c \in 1 .. n : Rec(p)[c] = Next_(p[c - 1], c)
    BY <2>1
  <2> HIDE DEF Rec
  <2> QED
    BY <1>9, <2>2
<1> DEFINE S_ == SignedDigits
<1>11. \A c \in 0 .. n : p[c] \in S_
  <2>1. p[0] \in S_ /\ \A c \in 1 .. n : p[c - 1] \in S_ => p[c] \in S_
    <3> HIDE DEF Next_, n
    <3> QED
      BY <1>1, <1>3, <1>10
  <2> HIDE DEF S_, n
  <2> QED
    BY ONLY <1>1, <2>1, StaysIn
<1>12. ASSUME NEW c \in 0 .. n - 1 PROVE p[c + 1] = Addition(p[c], h_, d, c)
  <2> HIDE DEF Next_, n
  <2>1. c + 1 \in 1 .. n /\ (c + 1) - 1 = c /\ c \in 0 .. n
    BY <1>1
  <2> QED
    BY <1>3, <1>10, <1>11, <2>1
<1> QED
  BY <1>10, <1>11, <1>12 DEF p, n, first

\* The next product is in the next place of the row, or the first of the next row.
LEMMA NextPlace ==
  /\ 0 \div N = 0 /\ 0 % N = 0 /\ (N * N) \div N = N /\ (N * N) % N = 0
  /\ \A c \in 0 .. N * N - 1 :
       /\ c % N # N - 1 => (c + 1) \div N = c \div N /\ (c + 1) % N = (c % N) + 1
       /\ c % N = N - 1 => (c + 1) \div N = c \div N + 1 /\ (c + 1) % N = 0
<1>1. N \in Nat /\ N >= 1
  BY ScalarWidths
  \* A number with a given quotient and remainder.
<1>2. ASSUME NEW u \in Int, NEW z \in 0 .. N - 1, NEW v, v = N * u + z
      PROVE  v \div N = u /\ v % N = z
  BY ONLY <1>1, <1>2, QuotientIs, RemainderIs
<1>3. 0 \div N = 0 /\ 0 % N = 0 /\ (N * N) \div N = N /\ (N * N) % N = 0
  <2>1. 0 \in 0 .. N - 1 /\ 0 \in Int /\ N \in Int
    BY <1>1
  <2>2. 0 = N * 0 + 0
    BY <1>1
  <2> DEFINE v == N * N
  <2>3. v = N * N + 0
    <3>1. v \in Int
      BY <1>1
    <3> HIDE DEF v
    <3>2. v + 0 = v
      BY <3>1
    <3> QED
      BY <3>2 DEF v
  <2> DEFINE zero == 0
  <2>4. zero \in Int /\ zero \in 0 .. N - 1 /\ zero = N * zero + zero /\ v = N * N + zero
    BY <2>1, <2>2, <2>3
  <2> HIDE DEF v, zero
  <2>5. zero \div N = zero /\ zero % N = zero
    BY <1>2, <2>4
  <2>6. v \div N = N /\ v % N = zero
    BY <1>2, <2>1, <2>4
  <2> QED
    BY <2>5, <2>6 DEF v, zero
<1>4. ASSUME NEW c \in 0 .. N * N - 1
      PROVE  /\ c % N # N - 1 => (c + 1) \div N = c \div N /\ (c + 1) % N = (c % N) + 1
             /\ c % N = N - 1 => (c + 1) \div N = c \div N + 1 /\ (c + 1) % N = 0
  <2> DEFINE i == c \div N
             j == c % N
             e == c + 1
             p == N * i
  <2>1. i \in 0 .. N - 1 /\ j \in 0 .. N - 1 /\ c = p + j /\ i \in Int /\ p \in Int
    <3>1. i \in 0 .. N - 1 /\ j \in 0 .. N - 1 /\ c = N * i + j
      BY ProductPlace
    <3>2. i \in Int
      BY <1>1, <3>1
    <3> HIDE DEF i
    <3>3. N * i \in Int
      BY <1>1, <3>2
    <3> QED
      BY <3>1, <3>2, <3>3
  <2> HIDE DEF i, j
  <2>2. ASSUME j # N - 1 PROVE e \div N = i /\ e % N = j + 1
    <3> DEFINE z == j + 1
    <3>1. z \in 0 .. N - 1
      BY <1>1, <2>1, <2>2
    <3>2. e = p + z
      <4> HIDE DEF p
      <4> QED
        BY <1>1, <2>1
    <3> HIDE DEF e, z
    <3>3. e = N * i + z
      BY <3>2
    <3>4. e \div N = i /\ e % N = z
      BY <1>2, <2>1, <3>1, <3>3
    <3> QED
      BY <3>4 DEF z
  <2>3. ASSUME j = N - 1 PROVE e \div N = i + 1 /\ e % N = 0
    <3> DEFINE u == i + 1
               z == 0
    <3>1. z \in 0 .. N - 1 /\ u \in Int /\ N * u = p + N
      BY <1>1, <2>1
    <3>2. e = N * u + z
      <4> DEFINE q == N * u
      <4>1. q = p + N
        BY <3>1
      <4> HIDE DEF p, q
      <4>2. e = q + 0
        BY <1>1, <2>1, <2>3, <4>1
      <4> QED
        BY <4>2 DEF q
    <3> HIDE DEF e, u, z
    <3>3. e \div N = u /\ e % N = z
      BY <1>2, <3>1, <3>2
    <3> QED
      BY <3>3 DEF u, z
  <2> QED
    BY <2>2, <2>3 DEF i, j, e
<1> QED
  BY <1>3, <1>4

\* All products added up stand for r + h * d.
LEMMA ProductsSum ==
  ASSUME NEW r \in [1 .. N -> Byte], NEW h_ \in [1 .. N -> Byte], NEW d \in [1 .. N -> Byte]
  PROVE  Sums(SignedProducts(r, h_, d)[N * N])[2 * N] = Number(r) + Number(h_) * Number(d)
<1> DEFINE n == N * N
           m == 2 * N
           p == SignedProducts(r, h_, d)
           R_ == Sums(Padded(r))[m]
           H == Padded(h_)
           D == Padded(d)
           SH == Sums(H)
           SD == Sums(D)
           Done(i, j) == R_ + (SH[i] * SD[N] + (H[i] * Weight[i]) * SD[j])
           Holds(c) == Sums(p[c])[m] = Done(c \div N, c % N)
           T == {c \in 0 .. n : Holds(c)}
<1>1. N \in Nat /\ N >= 1 /\ n \in Nat /\ m \in Nat /\ m \in 0 .. 2 * N /\ N \in 0 .. 2 * N
      /\ N \in Digit
  BY ScalarWidths DEF Digit
<1>2. /\ p[0] = Padded(r)
      /\ \A c \in 0 .. n : p[c] \in SignedDigits
      /\ \A c \in 0 .. n - 1 : p[c + 1] = Addition(p[c], h_, d, c)
  BY ProductSteps
<1>3. /\ H \in SignedDigits /\ D \in SignedDigits /\ Padded(r) \in SignedDigits
      /\ \A k \in 0 .. N - 1 : H[k] = h_[k + 1] /\ D[k] = d[k + 1] /\ k \in Digit
      /\ H[N] = 0
  <2>1. N \in N .. 2 * N - 1
    BY <1>1
  <2> QED
    BY <2>1, PaddedDigits
<1>4. Number(r) = R_ /\ Number(h_) = SH[N] /\ Number(d) = SD[N]
  BY NumberIsSum
<1>5. /\ R_ \in Int /\ SH[0] = 0 /\ SD[0] = 0
      /\ \A k \in 0 .. N : SH[k] \in Int /\ SD[k] \in Int /\ H[k] \in Int /\ D[k] \in Int /\ Weight[k] \in Int
      /\ \A k \in 0 .. N - 1 : /\ SH[k + 1] = SH[k] + H[k] * Weight[k]
                               /\ SD[k + 1] = SD[k] + D[k] * Weight[k]
  <2>1. \A k \in 0 .. N : k \in 0 .. 2 * N /\ k \in Digit
    BY <1>1 DEF Digit
  <2>2. \A k \in 0 .. N - 1 : k + 1 \in 1 .. 2 * N /\ (k + 1) - 1 = k
    BY <1>1
  <2>3. R_ \in Int /\ SH[0] = 0 /\ SD[0] = 0
    BY <1>1, <1>3, SumStep
  <2>4. \A k \in 0 .. N : SH[k] \in Int /\ SD[k] \in Int /\ H[k] \in Int /\ D[k] \in Int /\ Weight[k] \in Int
    <3>1. \A k \in 0 .. 2 * N : SH[k] \in Int
      BY <1>3, SumStep
    <3>2. \A k \in 0 .. 2 * N : SD[k] \in Int
      BY <1>3, SumStep
    <3>3. \A k \in Digit : H[k] \in Int /\ D[k] \in Int
      BY <1>3 DEF SignedDigits
    <3> HIDE DEF SH, SD, H, D
    <3> QED
      BY <2>1, <3>1, <3>2, <3>3, WeightStep
  <2>5. ASSUME NEW k \in 0 .. N - 1
        PROVE  SH[k + 1] = SH[k] + H[k] * Weight[k] /\ SD[k + 1] = SD[k] + D[k] * Weight[k]
    <3>1. SH[k + 1] = SH[(k + 1) - 1] + H[(k + 1) - 1] * Weight[(k + 1) - 1]
      BY <1>3, <2>2, SumStep
    <3>2. SD[k + 1] = SD[(k + 1) - 1] + D[(k + 1) - 1] * Weight[(k + 1) - 1]
      BY <1>3, <2>2, SumStep
    <3> QED
      BY <2>2, <3>1, <3>2
  <2> QED
    BY <2>3, <2>4, <2>5
<1> HIDE DEF R_, H, D, SH, SD, p
<1>6. Holds(0)
  <2>1. Sums(p[0])[m] = R_
    BY <1>2 DEF R_
  <2>2. Done(0, 0) = R_
    <3> DEFINE a == SD[N]
               b == H[0] * Weight[0]
    <3>1. a \in Int /\ b \in Int
      <4>1. H[0] \in Int /\ Weight[0] \in Int /\ a \in Int
        BY <1>1, <1>5
      <4> QED
        BY <4>1
    <3>2. Done(0, 0) = R_ + (0 * a + b * 0)
      BY <1>5
    <3> HIDE DEF a, b, Done
    <3> QED
      BY <1>5, <3>1, <3>2
  <2>3. 0 \div N = 0 /\ 0 % N = 0
    BY NextPlace
  <2> QED
    BY <2>1, <2>2, <2>3
<1>7. ASSUME NEW c \in 0 .. n - 1, Holds(c) PROVE Holds(c + 1)
  <2> DEFINE i == c \div N
             j == c % N
             t == i + j
             x == p[c]
             v == h_[i + 1] * d[j + 1]
  <2>1. i \in 0 .. N - 1 /\ j \in 0 .. N - 1 /\ t \in Digit
    BY ProductPlace
  <2>2. c \in 0 .. n
    <3> HIDE DEF n
    <3> QED
      BY <1>1
  <2>3. x \in SignedDigits /\ p[c + 1] = [x EXCEPT ![t] = x[t] + v]
    <3>1. p[c + 1] = Addition(x, h_, d, c)
      BY <1>2
    <3> QED
      BY <1>2, <2>2, <3>1 DEF Addition
  <2>4. v = H[i] * D[j]
    BY <1>3, <2>1
  <2> DEFINE hi == H[i]
             dj == D[j]
             wi == Weight[i]
             wj == Weight[j]
             si == SH[i]
             sj == SD[j]
             all == SD[N]
  <2>5. hi \in Int /\ dj \in Int /\ wi \in Int /\ wj \in Int /\ si \in Int /\ sj \in Int /\ all \in Int
        /\ i \in 0 .. N /\ j \in 0 .. N /\ i \in Nat /\ j \in Nat /\ i + j <= 2 * N
        /\ i + 1 \in 0 .. N
    <3>1. i \in 0 .. N /\ j \in 0 .. N /\ i \in Nat /\ j \in Nat /\ i + j <= 2 * N /\ N \in 0 .. N
          /\ i + 1 \in 0 .. N
      <4> HIDE DEF i, j
      <4> QED
        BY <1>1, <2>1
    <3> HIDE DEF i, j
    <3> QED
      BY <1>5, <3>1
  <2>6. Sums(p[c + 1])[m] = Sums(x)[m] + v * Weight[t]
    <3>1. v \in Int
      <4> HIDE DEF v
      <4>1. v = hi * dj
        BY <2>4
      <4> HIDE DEF hi, dj
      <4> QED
        BY <2>5, <4>1
    <3>2. t < m
      BY <1>1, <2>1 DEF Digit
    <3> HIDE DEF x, t, v, m
    <3>3. Sums([x EXCEPT ![t] = x[t] + v])[m] = Sums(x)[m] + v * Weight[t]
      <4>1. t \in Digit
        BY <2>1
      <4> QED
        BY <1>1, <2>3, <3>1, <3>2, <4>1, SumUpdate
    <3> QED
      BY <2>3, <3>3
  <2>7. Weight[t] = wi * wj
    <3> HIDE DEF i, j
    <3> QED
      BY <2>5, WeightsAdd
  <2>8. Sums(x)[m] = R_ + (si * all + (hi * wi) * sj)
    BY <1>7
  <2>9. Sums(p[c + 1])[m] = R_ + (si * all + (hi * wi) * (sj + dj * wj))
    <3>1. (hi * dj) * (wi * wj) = (hi * wi) * (dj * wj)
      <4> HIDE DEF hi, dj, wi, wj
      <4> QED
        BY <2>5
    <3> DEFINE a == hi * wi
               b == dj * wj
               e == si * all
    <3>2. a \in Int /\ b \in Int /\ e \in Int
      <4> HIDE DEF hi, dj, wi, wj, si, all
      <4> QED
        BY <2>5
    <3>3. Sums(p[c + 1])[m] = R_ + (e + a * sj) + a * b
      BY <2>4, <2>6, <2>7, <2>8, <3>1
    <3> HIDE DEF a, b, e, hi, dj, wi, wj, si, all, sj
    <3>4. a * (sj + b) = a * sj + a * b /\ a * sj \in Int /\ a * b \in Int
      BY <2>5, <3>2
    <3>5. Sums(p[c + 1])[m] = R_ + (e + a * (sj + b))
      BY <1>5, <3>2, <3>3, <3>4
    <3> QED
      BY <3>5 DEF a, b, e
  <2>10. CASE j # N - 1
    <3>1. (c + 1) \div N = i /\ (c + 1) % N = j + 1
      BY <2>10, NextPlace
    <3>2. SD[j + 1] = sj + dj * wj
      <4> HIDE DEF j
      <4> QED
        BY <1>5, <2>1
    <3> QED
      BY <2>9, <3>1, <3>2
  <2>11. CASE j = N - 1
    <3>1. (c + 1) \div N = i + 1 /\ (c + 1) % N = 0
      BY <2>11, NextPlace
    <3>2. SD[N] = sj + dj * wj
      <4> HIDE DEF j
      <4>1. SD[j + 1] = sj + dj * wj /\ j + 1 = N
        BY <1>1, <1>5, <2>1, <2>11
      <4> QED
        BY <4>1
    <3>3. SH[i + 1] = si + hi * wi
      <4> HIDE DEF i
      <4> QED
        BY <1>5, <2>1
    <3>4. Done(i + 1, 0) = R_ + (si * all + (hi * wi) * all)
      <4> DEFINE a == hi * wi
                 b == H[i + 1] * Weight[i + 1]
      <4>1. a \in Int /\ b \in Int
        <5>1. H[i + 1] \in Int /\ Weight[i + 1] \in Int
          BY <1>5, <2>5
        <5> HIDE DEF hi, wi, i
        <5> QED
          BY <2>5, <5>1
      <4>2. Done(i + 1, 0) = R_ + ((si + a) * all + b * 0)
        BY <1>5, <3>3
      <4> HIDE DEF a, b, si, all, Done
      <4>3. (si + a) * all = si * all + a * all /\ si * all \in Int /\ a * all \in Int /\ b * 0 = 0
        BY <2>5, <4>1
      <4> DEFINE u == si * all
                 w == a * all
                 y == (si + a) * all
                 z == b * 0
      <4>4. y = u + w /\ u \in Int /\ w \in Int /\ z = 0 /\ Done(i + 1, 0) = R_ + (y + z)
        BY <4>2, <4>3
      <4> HIDE DEF u, w, y, z
      <4>5. Done(i + 1, 0) = R_ + (u + w)
        BY <1>5, <4>4
      <4> QED
        BY <4>5 DEF u, w, a
    <3> QED
      BY <2>9, <3>1, <3>2, <3>4
  <2> QED
    BY <2>10, <2>11
<1>8. 0 \in T /\ \A c \in 0 .. n - 1 : c \in T => c + 1 \in T
  <2> HIDE DEF Holds, n
  <2>1. 0 \in 0 .. n /\ \A c \in 0 .. n - 1 : c + 1 \in 0 .. n
    BY <1>1
  <2> QED
    BY <1>6, <1>7, <2>1
<1>9. n \in 0 .. n /\ \A c \in T : Holds(c)
  <2> HIDE DEF Holds, n
  <2> QED
    BY <1>1
<1> HIDE DEF T
<1>10. n \in T
  <2> HIDE DEF n
  <2> QED
    BY ONLY <1>1, <1>8, <1>9, Upwards
<1>11. Sums(p[n])[m] = Done(N, 0)
  <2>1. Holds(n)
    <3> HIDE DEF Holds
    <3> QED
      BY <1>9, <1>10
  <2>2. n \div N = N /\ n % N = 0
    BY NextPlace
  <2> QED
    BY <2>1, <2>2
<1>12. Done(N, 0) = R_ + SH[N] * SD[N]
  <2> DEFINE a == SH[N] * SD[N]
             w == Weight[N]
  <2>1. a \in Int /\ w \in Int
    <3>1. SH[N] \in Int /\ SD[N] \in Int /\ w \in Int
      BY <1>1, <1>5
    <3> QED
      BY <3>1
  <2>2. Done(N, 0) = R_ + (a + (0 * w) * 0)
    BY <1>3, <1>5
  <2> HIDE DEF a, w, Done
  <2>3. (0 * w) * 0 = 0
    BY <2>1
  <2>4. Done(N, 0) = R_ + a
    BY <1>5, <2>1, <2>2, <2>3
  <2> QED
    BY <2>4 DEF a
<1> QED
  BY <1>4, <1>11, <1>12 DEF p, n, m

\* A digit takes one product from each row, and a byte.
LEMMA ProductDigits ==
  ASSUME NEW r \in [1 .. N -> Byte], NEW h_ \in [1 .. N -> Byte], NEW d \in [1 .. N -> Byte]
  PROVE  \A k \in Digit : /\ 0 <= SignedProducts(r, h_, d)[N * N][k]
                          /\ SignedProducts(r, h_, d)[N * N][k] <= ProductBound
<1> DEFINE n == N * N
           p == SignedProducts(r, h_, d)
           top == Radix - 1
           B == top * top
           Rows(i, j, k) == IF i <= k /\ k < i + j THEN i + 1 ELSE i
           Fits(i, j, c) == \A k \in Digit : /\ 0 <= p[c][k]
                                             /\ p[c][k] <= top + Rows(i, j, k) * B
           Holds(c) == Fits(c \div N, c % N, c)
           T == {c \in 0 .. n : Holds(c)}
<1>1. N \in Nat /\ N >= 1 /\ n \in Nat /\ Radix \in Nat /\ Radix >= 16
  BY ScalarWidths, RadixParts
<1>2. /\ p[0] = Padded(r)
      /\ \A c \in 0 .. n : p[c] \in SignedDigits
      /\ \A c \in 0 .. n - 1 : p[c + 1] = Addition(p[c], h_, d, c)
  BY ProductSteps
<1> HIDE DEF p
<1>3. top \in Nat /\ B \in Nat
  <2>1. top \in Nat
    BY <1>1
  <2> HIDE DEF top
  <2> QED
    BY <2>1
<1>4. Holds(0)
  <2>1. ASSUME NEW k \in Digit PROVE 0 <= p[0][k] /\ p[0][k] <= top
    <3>1. k \in 0 .. N - 1 \/ k \in N .. 2 * N - 1
      BY <1>1 DEF Digit
    <3>2. Padded(r)[k] = 0 \/ (0 <= Padded(r)[k] /\ Padded(r)[k] <= top)
      BY <3>1, PaddedDigits
    <3> QED
      BY <1>2, <1>3, <3>2
  <2>2. ASSUME NEW k \in Digit PROVE Rows(0, 0, k) * B = 0
    <3>1. Rows(0, 0, k) = 0
      BY <1>1 DEF Digit
    <3> HIDE DEF B, Rows
    <3> QED
      BY <1>3, <3>1
  <2>3. 0 \div N = 0 /\ 0 % N = 0
    BY NextPlace
  <2> HIDE DEF Rows, B, top
  <2>4. ASSUME NEW k \in Digit PROVE 0 <= p[0][k] /\ p[0][k] <= top + Rows(0, 0, k) * B
    BY <1>3, <2>1, <2>2
  <2> QED
    BY <2>3, <2>4
<1>5. ASSUME NEW c \in 0 .. n - 1, Holds(c) PROVE Holds(c + 1)
  <2> DEFINE i == c \div N
             j == c % N
             t == i + j
             x == p[c]
             y == p[c + 1]
             v == h_[i + 1] * d[j + 1]
  <2>1. i \in 0 .. N - 1 /\ j \in 0 .. N - 1 /\ t \in Digit
    BY ProductPlace
  <2>2. c \in 0 .. n
    <3> HIDE DEF n
    <3> QED
      BY <1>1
  <2>3. x \in SignedDigits /\ y = [x EXCEPT ![t] = x[t] + v]
    <3>1. y = Addition(x, h_, d, c)
      BY <1>2
    <3> QED
      BY <1>2, <2>2, <3>1 DEF Addition
  <2>4. v \in Nat /\ v <= B
    <3> DEFINE a == h_[i + 1]
               b == d[j + 1]
    <3>1. a \in Nat /\ a <= top /\ b \in Nat /\ b <= top
      <4>1. i + 1 \in 1 .. N /\ j + 1 \in 1 .. N
        <5> HIDE DEF i, j
        <5> QED
          BY <1>1, <2>1
      <4>2. a \in Byte /\ b \in Byte
        <5> HIDE DEF i, j
        <5> QED
          BY <4>1
      <4> HIDE DEF a, b
      <4> QED
        BY <1>1, <4>2 DEF Byte
    <3> HIDE DEF a, b, top
    <3>2. a * b <= a * top
      BY <1>3, <3>1, ProductMonotone
    <3>3. a * top <= top * top
      BY <1>3, <3>1, ProductMonotone
    <3>4. a * b \in Nat /\ a * top \in Nat /\ top * top \in Nat
      BY <1>3, <3>1
    <3> DEFINE w == a * b
               m == a * top
               z == top * top
    <3>5. w \in Nat /\ m \in Nat /\ z \in Nat /\ w <= m /\ m <= z
      BY <3>2, <3>3, <3>4
    <3> HIDE DEF w, m, z
    <3>6. w \in Nat /\ w <= z
      BY <3>5
    <3> QED
      BY <3>6 DEF w, z, a, b
  \* Rows passed: once more for the digit added to, and never less.
  <2> DEFINE e == c + 1
             ii == e \div N
             jj == e % N
  <2>5. ASSUME NEW k \in Digit
        PROVE  /\ Rows(i, j, k) \in Nat /\ Rows(ii, jj, k) \in Nat
               /\ Rows(i, j, k) <= Rows(ii, jj, k)
               /\ k = t => Rows(ii, jj, k) = Rows(i, j, k) + 1
    <3>1. \/ ii = i /\ jj = j + 1
          \/ ii = i + 1 /\ jj = 0 /\ j = N - 1
      BY NextPlace
    <3>2. k \in Nat
      BY <1>1 DEF Digit
    <3> HIDE DEF i, j, ii, jj
    <3>3. i \in Nat /\ j \in Nat /\ j < N
      BY <1>1, <2>1
    <3>4. CASE ii = i /\ jj = j + 1
      BY <3>2, <3>3, <3>4
    <3>5. CASE ii = i + 1 /\ jj = 0 /\ j = N - 1
      BY <3>2, <3>3, <3>5
    <3> QED
      BY <3>1, <3>4, <3>5
  <2>6. \A k \in Digit : 0 <= x[k] /\ x[k] <= top + Rows(i, j, k) * B
    BY <1>5
  <2> HIDE DEF Rows, i, j, ii, jj, t, x, v, y
  <2>7. ASSUME NEW k \in Digit PROVE 0 <= y[k] /\ y[k] <= top + Rows(ii, jj, k) * B
    <3> DEFINE a == Rows(i, j, k)
               b == Rows(ii, jj, k)
               u == x[k]
               w == a * B
               z == b * B
    <3>1. a \in Nat /\ b \in Nat /\ a <= b /\ (k = t => b = a + 1) /\ u \in Int /\ 0 <= u /\ u <= top + w
      BY <2>3, <2>5, <2>6 DEF SignedDigits
    <3>2. w \in Nat /\ z \in Nat /\ w <= z /\ (k = t => z = w + B)
      <4> HIDE DEF a, b, B
      <4>1. B * a <= B * b /\ B * a = a * B /\ B * b = b * B
        BY <1>3, <3>1, ProductMonotone
      <4>2. a * B \in Nat /\ b * B \in Nat /\ (a + 1) * B = a * B + B
        BY <1>3, <3>1
      <4> QED
        BY <3>1, <4>1, <4>2
    <3> HIDE DEF a, b, u, w, z, B, top
    <3>3. CASE k = t
      <4>1. y[k] = u + v
        <5>1. y[k] = x[t] + v
          BY <2>1, <2>3, <3>3 DEF SignedDigits
        <5> QED
          BY <3>3, <5>1 DEF u
      <4>2. 0 <= y[k] /\ y[k] <= top + z
        BY <1>3, <2>4, <3>1, <3>2, <3>3, <4>1
      <4> QED
        BY <4>2 DEF z, b
    <3>4. CASE k # t
      <4>1. y[k] = u
        BY <2>1, <2>3, <3>4 DEF SignedDigits, u
      <4>2. 0 <= y[k] /\ y[k] <= top + z
        BY <1>3, <3>1, <3>2, <4>1
      <4> QED
        BY <4>2 DEF z, b
    <3> QED
      BY <3>3, <3>4
  <2> HIDE DEF B, top
  <2>8. \A k \in Digit : 0 <= p[c + 1][k] /\ p[c + 1][k] <= top + Rows((c + 1) \div N, (c + 1) % N, k) * B
    BY <2>7 DEF y, ii, jj
  <2> QED
    BY <2>8
<1>6. 0 \in T /\ \A c \in 0 .. n - 1 : c \in T => c + 1 \in T
  <2> HIDE DEF Holds, n
  <2>1. 0 \in 0 .. n /\ \A c \in 0 .. n - 1 : c + 1 \in 0 .. n
    BY <1>1
  <2> QED
    BY <1>4, <1>5, <2>1
<1>7. n \in 0 .. n /\ \A c \in T : Holds(c)
  <2> HIDE DEF Holds, n
  <2> QED
    BY <1>1
<1> HIDE DEF T
<1>8. n \in T
  <2> HIDE DEF n
  <2> QED
    BY ONLY <1>1, <1>6, <1>7, Upwards
<1>9. Fits(N, 0, n)
  <2>1. Holds(n)
    <3> HIDE DEF Holds
    <3> QED
      BY <1>7, <1>8
  <2>2. n \div N = N /\ n % N = 0
    BY NextPlace
  <2> HIDE DEF Fits
  <2> QED
    BY <2>1, <2>2
<1>10. top + N * B <= ProductBound
  <2> DEFINE s == Radix * Radix
             z == N * B
             w == N * top
             q == N * s
  <2>1. s = B + 2 * top + 1 /\ s \in Nat
    BY <1>1
  <2>2. ProductBound = N * s
    BY DEF ProductBound
  <2> HIDE DEF s, B, top
  <2>3. N * (B + 2 * top + 1) = N * B + 2 * (N * top) + N
    BY <1>1, <1>3
  <2>4. top * 1 <= top * N /\ top * N = N * top /\ top * 1 = top
    BY <1>1, <1>3, ProductMonotone
  <2>5. z \in Nat /\ w \in Nat
    BY <1>1, <1>3
  <2>6. ProductBound = z + 2 * w + N /\ top <= w
    BY <2>1, <2>2, <2>3, <2>4
  <2> HIDE DEF z, w
  <2>7. top + z <= ProductBound
    BY <1>1, <1>3, <2>5, <2>6
  <2> QED
    BY <2>7 DEF z
<1>11. ASSUME NEW k \in Digit PROVE 0 <= p[n][k] /\ p[n][k] <= ProductBound
  <2>1. 0 <= p[n][k] /\ p[n][k] <= top + Rows(N, 0, k) * B
    <3> HIDE DEF Rows, B, top
    <3> QED
      BY <1>9
  <2>2. Rows(N, 0, k) = N
    BY <1>1 DEF Digit
  <2>3. p[n][k] \in Int
    <3>1. n \in 0 .. n
      <4> HIDE DEF n
      <4> QED
        BY <1>1
    <3> QED
      BY <1>2, <3>1 DEF SignedDigits
  <2> DEFINE z == N * B
  <2>4. z \in Nat
    <3> HIDE DEF B
    <3> QED
      BY <1>1, <1>3
  <2>5. p[n][k] <= top + z /\ top + z <= ProductBound
    <3> HIDE DEF Rows, B, top
    <3> QED
      BY <1>10, <2>1, <2>2
  <2> HIDE DEF z, n, B, top
  <2> QED
    BY <1>3, <2>1, <2>3, <2>4, <2>5, BoundSizes
<1> QED
  BY <1>11 DEF p, n

-----------------------------------------------------------------------------
(***************************************************************************)
(* The scalars a verifier and a signer work with.                          *)
(***************************************************************************)

\* The digits of a digest, and of r + h * d, are small enough for modL.
LEMMA DigitsToReduce ==
  /\ \A r \in [1 .. 2 * N -> Byte] :
       LET x == [i \in Digit |-> r[i + 1]]
       IN x \in SignedDigits /\ RowBounds(x, 0)
  /\ \A r, h_, d \in [1 .. N -> Byte] :
       /\ SignDigits(r, h_, d) \in SignedDigits /\ RowBounds(SignDigits(r, h_, d), 0)
       /\ Sums(SignDigits(r, h_, d))[2 * N] = Number(r) + Number(h_) * Number(d)
<1>1. N \in Nat /\ N >= 1 /\ Radix \in Nat /\ Radix >= 16 /\ Radix - 1 <= ProductBound
  <2>1. ProductBound \in Nat /\ Middle + FirstCarry <= 17 * Radix /\ 17 * Radix <= 2 * ProductBound
    BY BoundSizes
  <2> QED
    BY <2>1, ScalarWidths, RadixParts
<1>2. ASSUME NEW r \in [1 .. 2 * N -> Byte], NEW x, x = [i \in Digit |-> r[i + 1]]
      PROVE  x \in SignedDigits /\ RowBounds(x, 0)
  <2>1. \A j \in Digit : r[j + 1] \in Byte
    BY <1>1 DEF Digit
  <2>2. \A j \in Digit : x[j] \in Int /\ 0 <= x[j] /\ x[j] <= Radix - 1
    BY <1>1, <1>2, <2>1 DEF Byte
  <2>3. x \in SignedDigits
    BY <1>2, <2>2 DEF SignedDigits
  <2>4. \A j \in Digit : 0 <= x[j] /\ x[j] <= ProductBound
    BY <1>1, <2>2, BoundSizes
  <2> QED
    BY <2>3, <2>4, FreshBounds
<1>3. ASSUME NEW r \in [1 .. N -> Byte], NEW h_ \in [1 .. N -> Byte], NEW d \in [1 .. N -> Byte]
      PROVE  /\ SignDigits(r, h_, d) \in SignedDigits /\ RowBounds(SignDigits(r, h_, d), 0)
             /\ Sums(SignDigits(r, h_, d))[2 * N] = Number(r) + Number(h_) * Number(d)
  <2> DEFINE x == SignedProducts(r, h_, d)[N * N]
  <2>1. SignDigits(r, h_, d) = x
    BY DEF SignDigits, SignedProducts
  <2>2. x \in SignedDigits
    <3> DEFINE n == N * N
    <3>1. n \in Nat
      BY <1>1
    <3>2. \A c \in 0 .. n : SignedProducts(r, h_, d)[c] \in SignedDigits
      BY ProductSteps
    <3> HIDE DEF n
    <3>3. SignedProducts(r, h_, d)[n] \in SignedDigits
      BY <3>1, <3>2
    <3> QED
      BY <3>3 DEF n
  <2>3. \A k \in Digit : 0 <= x[k] /\ x[k] <= ProductBound
    BY ProductDigits
  <2>4. Sums(x)[2 * N] = Number(r) + Number(h_) * Number(d)
    BY ProductsSum
  <2> HIDE DEF x
  <2> QED
    BY <2>1, <2>2, <2>3, <2>4, FreshBounds
<1> QED
  BY <1>2, <1>3

\* reduce makes of a digest the N bytes of its remainder by the order, for every digest.
THEOREM ReduceIsRemainder ==
  ASSUME NEW r \in [1 .. 2 * N -> Byte]
  PROVE  /\ reduce(r) \in [1 .. N -> Byte]
         /\ Number(reduce(r)) = Residue(LAMBDA k : r[k + 1], 2 * N, Order)
<1> DEFINE x == [i \in Digit |-> r[i + 1]]
           n == 2 * N
           m == Order
           RecR(f) == [k \in 0 .. n |-> IF k = 0 THEN 0 ELSE (Radix * f[k - 1] + r[n - k + 1]) % m]
           RecX(f) == [k \in 0 .. n |-> IF k = 0 THEN 0 ELSE (Radix * f[k - 1] + x[n - k]) % m]
<1>1. x \in SignedDigits /\ RowBounds(x, 0)
  BY DigitsToReduce
<1>2. Order \in Nat /\ Order >= 1 /\ N \in Nat /\ n \in Nat
  BY OrderIs, ScalarWidths
<1>3. reduce(r) = modL(x)
  BY DEF reduce
<1>4. Residue(LAMBDA k : r[k + 1], 2 * N, Order) = Residue(LAMBDA i : x[i], 2 * N, Order)
  <2>1. Residue(LAMBDA k : r[k + 1], 2 * N, Order) = (CHOOSE f : f = RecR(f))[n]
    BY DEF Residue
  <2>2. Residue(LAMBDA i : x[i], 2 * N, Order) = (CHOOSE f : f = RecX(f))[n]
    BY DEF Residue
  <2>3. ASSUME NEW f PROVE RecR(f) = RecX(f)
    <3>1. ASSUME NEW k \in 0 .. n, k # 0 PROVE x[n - k] = r[n - k + 1]
      <4>1. n - k \in Digit
        BY <1>2, <3>1 DEF Digit
      <4> QED
        BY <4>1
    <3> HIDE DEF x, m
    <3> QED
      BY <3>1
  <2> HIDE DEF RecR, RecX
  <2> QED
    BY <2>1, <2>2, <2>3
<1> HIDE DEF x
<1>5. modL(x) \in [1 .. N -> Byte] /\ Number(modL(x)) = Sums(x)[2 * N] % Order
  BY <1>1, ModLIsRemainder
<1>6. Residue(LAMBDA i : x[i], 2 * N, Order) = Sums(x)[2 * N] % Order
  BY <1>1, <1>2, ResidueIsRemainder
<1> QED
  BY <1>3, <1>4, <1>5, <1>6

\* What a signer makes of r, h and d are the N bytes of (r + h * d) % Order, for all of them.
THEOREM SignerScalarIs ==
  ASSUME NEW r \in [1 .. N -> Byte], NEW h_ \in [1 .. N -> Byte], NEW d \in [1 .. N -> Byte]
  PROVE  /\ modL(SignDigits(r, h_, d)) \in [1 .. N -> Byte]
         /\ Number(modL(SignDigits(r, h_, d))) = (Number(r) + Number(h_) * Number(d)) % Order
BY DigitsToReduce, ModLIsRemainder

-----------------------------------------------------------------------------
(***************************************************************************)
(* The rows as steps.                                                      *)
(***************************************************************************)

\* Digits within their bounds, standing for the residue; and the result its bytes.
ReductionInv ==
  /\ row \in 0 .. N
  /\ digits = Empty => row = 0 /\ reduced = Empty
  /\ digits # Empty => /\ digits \in SignedDigits /\ RowBounds(digits, row)
                       /\ Sums(digits)[2 * N] % Order = residue
  /\ reduced # Empty => reduced \in [1 .. N -> Byte] /\ Number(reduced) = residue

\* What is loaded is ready to be reduced, and its residue noted.
LEMMA LoadKeeps ==
  ASSUME ReductionInv, NEW x \in SignedDigits, RowBounds(x, 0), Load(x)
  PROVE  ReductionInv'
<1>1. digits' = x /\ row' = 0 /\ reduced' = Empty /\ digits = Empty
  BY DEF Load, ReductionInv
<1>2. residue' = Sums(x)[2 * N] % Order
  BY OrderIs, ResidueIsRemainder DEF Load, DigitsModOrder
<1>3. 0 \in 0 .. N
  BY ScalarWidths
<1> QED
  BY <1>1, <1>2, <1>3 DEF ReductionInv

\* Each step keeps the invariant.
LEMMA ReductionStep == ReductionInv /\ [ReductionNext]_reductionVars => ReductionInv'
<1> SUFFICES ASSUME ReductionInv, [ReductionNext]_reductionVars PROVE ReductionInv'
  OBVIOUS
<1>1. CASE LoadDigest
  <2>1. PICK d \in Digests : Load([i \in Digit |-> d[i + 1]])
    BY <1>1 DEF LoadDigest
  <2>2. d \in [1 .. 2 * N -> Byte]
    BY DigestAssumption
  <2> DEFINE x == [i \in Digit |-> d[i + 1]]
  <2>3. x \in SignedDigits /\ RowBounds(x, 0)
    BY <2>2, DigitsToReduce
  <2>4. Load(x)
    BY <2>1
  <2> HIDE DEF x
  <2> QED
    BY <2>3, <2>4, LoadKeeps
<1>2. CASE LoadProducts
  <2>1. PICK r \in Scalars, h_ \in Scalars, d \in Scalars : Load(SignDigits(r, h_, d))
    BY <1>2 DEF LoadProducts
  <2>2. r \in [1 .. N -> Byte] /\ h_ \in [1 .. N -> Byte] /\ d \in [1 .. N -> Byte]
    BY DigestAssumption
  <2>3. SignDigits(r, h_, d) \in SignedDigits /\ RowBounds(SignDigits(r, h_, d), 0)
    BY <2>2, DigitsToReduce
  <2> QED
    BY <2>1, <2>3, LoadKeeps
<1>3. CASE EliminateRow
  <2>1. /\ digits # Empty /\ row < N /\ digits' = Eliminate(digits, 2 * N - 1 - row)
        /\ row' = row + 1 /\ residue' = residue /\ reduced' = reduced
    BY <1>3 DEF EliminateRow
  <2>2. row \in 0 .. N - 1 /\ row + 1 \in 0 .. N /\ row + 1 # 0
    BY <2>1, ScalarWidths DEF ReductionInv
  <2>3. digits \in SignedDigits /\ RowBounds(digits, row) /\ Sums(digits)[2 * N] % Order = residue
    BY <2>1 DEF ReductionInv
  <2> DEFINE x == digits
             y == Eliminate(digits, 2 * N - 1 - row)
             e == row
  <2>4. x \in SignedDigits /\ e \in 0 .. N - 1 /\ RowBounds(x, e) /\ y = Eliminate(x, 2 * N - 1 - e)
    BY <2>2, <2>3
  <2> HIDE DEF x, y, e
  <2>5. y \in SignedDigits /\ RowBounds(y, e + 1)
        /\ \E u \in Int : Sums(x)[2 * N] = Order * u + Sums(y)[2 * N]
    BY <2>4, RowStep
  <2>6. PICK u \in Int : Sums(x)[2 * N] = Order * u + Sums(y)[2 * N]
    BY <2>5
  <2> DEFINE a == Sums(x)[2 * N]
             b == Sums(y)[2 * N]
             m == Order
  <2>7. a = m * u + b /\ b \in Int /\ m \in Nat /\ m >= 1
    <3>1. 2 * N \in 0 .. 2 * N
      BY ScalarWidths
    <3> QED
      BY <2>5, <2>6, <3>1, OrderIs, SumStep
  <2> HIDE DEF a, b, m
  <2>8. a % m = b % m
    BY ONLY <2>7, u \in Int, SameRemainder
  <2>9. digits' = y /\ row' = e + 1 /\ Sums(y)[2 * N] % Order = residue
    BY <2>1, <2>3, <2>8 DEF a, b, m, x, y, e
  <2>10. row' \in 0 .. N /\ digits' # Empty
    <3>1. y # Empty
      <4>1. DOMAIN y = Digit /\ DOMAIN Empty = {}
        BY <2>5 DEF SignedDigits, Empty
      <4>2. 0 \in Digit
        BY ScalarWidths DEF Digit
      <4> QED
        BY <4>1, <4>2
    <3> QED
      BY <2>2, <2>9, <3>1 DEF e
  <2>11. reduced' # Empty => reduced' \in [1 .. N -> Byte] /\ Number(reduced') = residue'
    BY <2>1 DEF ReductionInv
  <2> QED
    BY <2>1, <2>5, <2>9, <2>10, <2>11 DEF ReductionInv
<1>4. CASE Finish
  <2>1. /\ row = N /\ reduced' = Carry(Settle(digits))
        /\ digits' = digits /\ row' = row /\ residue' = residue
    BY <1>4 DEF Finish
  <2>2. digits # Empty
    BY <2>1, ScalarWidths DEF ReductionInv
  <2>3. digits \in SignedDigits /\ RowBounds(digits, N) /\ Sums(digits)[2 * N] % Order = residue
    BY <2>1, <2>2 DEF ReductionInv
  <2>4. Carry(Settle(digits)) \in [1 .. N -> Byte] /\ Number(Carry(Settle(digits))) = residue
    BY <2>3, LastStep
  <2> QED
    BY <2>1, <2>2, <2>4 DEF ReductionInv
<1>5. CASE UNCHANGED reductionVars
  BY <1>5 DEF ReductionInv, reductionVars
<1> QED
  BY <1>1, <1>2, <1>3, <1>4, <1>5 DEF ReductionNext

\* The invariant says what a reader of modL is promised.
LEMMA ReductionInvSuffices == ReductionInv => ReductionIsExact
<1> SUFFICES ASSUME ReductionInv PROVE ReductionIsExact
  OBVIOUS
<1>1. ASSUME digits # Empty
      PROVE  /\ DigitsModOrder(digits) = residue
             /\ \A i \in 2 * N - row .. 2 * N - 1 : digits[i] = 0
             /\ \A i \in Digit : digits[i] \in -DigitBound .. DigitBound
  <2>1. digits \in SignedDigits /\ RowBounds(digits, row) /\ Sums(digits)[2 * N] % Order = residue
        /\ row \in 0 .. N
    BY <1>1 DEF ReductionInv
  <2>2. DigitsModOrder(digits) = residue
    BY <2>1, OrderIs, ResidueIsRemainder DEF DigitsModOrder
  <2>3. ASSUME NEW i \in 2 * N - row .. 2 * N - 1 PROVE digits[i] = 0
    <3>1. i \in Digit /\ i >= 2 * N - row
      BY <2>1, ScalarWidths DEF Digit
    <3> QED
      BY <2>1, <3>1 DEF RowBounds
  <2>4. ASSUME NEW i \in Digit PROVE digits[i] \in -DigitBound .. DigitBound
    <3>1. digits[i] \in Int /\ Within(digits[i], 2 * ProductBound)
      BY <2>1 DEF SignedDigits, RowBounds
    <3>2. DigitBound = 2 * ProductBound /\ ProductBound \in Nat
      BY BoundSizes
    <3> QED
      BY <3>1, <3>2 DEF Within
  <2> QED
    BY <2>2, <2>3, <2>4
<1>2. reduced # Empty => reduced \in [1 .. N -> Byte] /\ Number(reduced) = residue
  BY DEF ReductionInv
<1> QED
  BY <1>1, <1>2 DEF ReductionIsExact

\* Reducing row by row, every digest and every sum of products a signer makes keeps
\* its residue by the order in digits within their bound, and ends as its bytes.
THEOREM ReductionIsCorrect == ReductionSpec => []ReductionIsExact
<1>1. ReductionInit => ReductionInv
  <2>1. 0 \in 0 .. N
    BY ScalarWidths
  <2> QED
    BY <2>1 DEF ReductionInit, ReductionInv
<1> QED
  BY <1>1, ReductionStep, ReductionInvSuffices, PTL DEF ReductionSpec
=============================================================================
