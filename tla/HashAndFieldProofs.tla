-------------------------- MODULE HashAndFieldProofs --------------------------
(***************************************************************************)
(* The hash and the field of the C leaf are exact, for every width and     *)
(* number of words, rounds or limbs their assumptions admit.               *)
(*                                                                         *)
(* crypto_hash computes what FIPS 180-4 defines.  Three things differ      *)
(* between the code and the standard, and each has its lemma: the schedule *)
(* advanced in place (AdvanceIs), the shifted state (RoundIsStandard), and *)
(* the last blocks made from the last bytes (LastBlocksAre).  HashInv says *)
(* where in the message each call and each block is.                       *)
(*                                                                         *)
(* The field operations are those of the residues.  Worth is what limbs    *)
(* stand for; a carry keeps it but for a multiple of the modulus           *)
(* (PassesAre), a folded product is a product (FoldedWorth) that keeps     *)
(* within the room of a column (FoldedIsSmall), and packing takes the      *)
(* modulus off to the least residue (PackIs).  FieldInv says of each       *)
(* register what it stands for and how far it may be from carried.         *)
(***************************************************************************)
EXTENDS Sha512, GfLimbs, SequenceTheorems, WellFoundedInduction, TLAPS

\* A set with 0 in it that is closed upwards to n holds all up to n.
LEMMA Upwards ==
  ASSUME NEW n \in Nat, NEW T, 0 \in T, \A k \in 0 .. n - 1 : k \in T => k + 1 \in T
  PROVE  \A k \in 0 .. n : k \in T
<1> DEFINE Left == {k \in 0 .. n : k \notin T}
<1> SUFFICES ASSUME Left # {} PROVE FALSE
  OBVIOUS
<1>1. PICK k \in Left : \A j \in Left : ~(<<j, k>> \in OpToRel(<, Nat))
  <2>1. Left \subseteq Nat
    OBVIOUS
  <2> QED
    BY <2>1, NatLessThanWellFounded, WFMin
<1>2. k \in 0 .. n /\ k \notin T /\ k # 0
  OBVIOUS
<1>3. k - 1 \in 0 .. n - 1 /\ k - 1 + 1 = k /\ k - 1 \in Nat /\ k \in Nat /\ k - 1 < k
  BY <1>2
<1>4. k - 1 \notin T
  BY <1>2, <1>3
<1>5. k - 1 \in Left /\ <<k - 1, k>> \in OpToRel(<, Nat)
  BY <1>3, <1>4 DEF OpToRel
<1> QED
  BY <1>1, <1>5

\* The sequence of values that starts with `first` and takes `step`.
Steps(f, first, n, step) == f[0] = first /\ \A k \in 1 .. n : f[k] = step[k][f[k - 1]]

\* A value in S for 0 and a step from each value to the next are a function.
LEMMA Recursion ==
  ASSUME NEW S_, NEW first \in S_, NEW n \in Nat,
         NEW F, F = [0 .. n -> S_], NEW G, G = [1 .. n -> [S_ -> S_]], NEW step \in G
  PROVE  \E f \in F : Steps(f, first, n, step)
<1> DEFINE Good(k, f) == f[0] = first /\ \A j \in 1 .. k : f[j] = step[j][f[j - 1]]
<1>1. \E f \in [0 .. 0 -> S_] : Good(0, f)
  <2>1. [i \in 0 .. 0 |-> first] \in [0 .. 0 -> S_] /\ Good(0, [i \in 0 .. 0 |-> first])
    OBVIOUS
  <2> QED
    BY <2>1
<1>2. ASSUME NEW k \in 0 .. n - 1, NEW f \in [0 .. k -> S_], Good(k, f)
      PROVE  \E g \in [0 .. k + 1 -> S_] : Good(k + 1, g)
  <2> DEFINE g == [i \in 0 .. k + 1 |-> IF i = k + 1 THEN step[k + 1][f[k]] ELSE f[i]]
  <2>2. k + 1 \in 1 .. n /\ k \in 0 .. k /\ f[k] \in S_ /\ k \in Nat
    OBVIOUS
  <2>3. step[k + 1][f[k]] \in S_
    BY <2>2
  <2>4. g \in [0 .. k + 1 -> S_]
    BY <2>3
  <2>5. ASSUME NEW j \in 1 .. k + 1 PROVE g[j] = step[j][g[j - 1]]
    <3>1. CASE j \in 1 .. k
      <4>1. g[j] = f[j] /\ g[j - 1] = f[j - 1]
        BY <3>1, <2>2
      <4> QED
        BY <1>2, <3>1, <4>1
    <3>2. CASE j = k + 1
      <4>1. g[j] = step[k + 1][f[k]] /\ g[j - 1] = f[k]
        BY <3>2, <2>2
      <4> QED
        BY <3>2, <4>1
    <3> QED
      BY <3>1, <3>2, <2>2
  <2>6. g[0] = first
    BY <1>2, <2>2
  <2> HIDE DEF g
  <2>7. Good(k + 1, g)
    BY <2>5, <2>6
  <2> QED
    BY <2>4, <2>7
<1> DEFINE T == {k \in 0 .. n : \E f \in [0 .. k -> S_] : Good(k, f)}
<1> HIDE DEF Good
<1>3. 0 \in T /\ \A k \in 0 .. n - 1 : k \in T => k + 1 \in T
  <2>1. 0 \in T
    BY <1>1
  <2>2. ASSUME NEW k \in 0 .. n - 1, k \in T PROVE k + 1 \in T
    <3>1. PICK f \in [0 .. k -> S_] : Good(k, f)
      BY <2>2
    <3>2. \E g \in [0 .. k + 1 -> S_] : Good(k + 1, g)
      BY <1>2, <3>1
    <3> QED
      BY <3>2
  <2> QED
    BY <2>1, <2>2
<1>4. T \subseteq 0 .. n /\ \A k \in T : \E f \in [0 .. k -> S_] : Good(k, f)
  OBVIOUS
<1> HIDE DEF T
<1>5. n \in T
  <2>1. \A k \in 0 .. n : k \in T
    BY ONLY n \in Nat, <1>3, Upwards
  <2> QED
    BY <2>1
<1>6. PICK f \in [0 .. n -> S_] : Good(n, f)
  BY <1>4, <1>5
<1> QED
  BY <1>6 DEF Good, Steps

\* What steps within S_ from a value in S_ stays in S_.
LEMMA StaysIn ==
  ASSUME NEW S_, NEW n \in Nat, NEW p, p[0] \in S_, \A k \in 1 .. n : p[k - 1] \in S_ => p[k] \in S_
  PROVE  \A k \in 0 .. n : p[k] \in S_
<1> DEFINE T == {k \in 0 .. n : p[k] \in S_}
<1>1. 0 \in T
  OBVIOUS
<1>2. ASSUME NEW k \in 0 .. n - 1, k \in T PROVE k + 1 \in T
  <2>1. k + 1 \in 1 .. n /\ (k + 1) - 1 = k /\ k + 1 \in 0 .. n
    OBVIOUS
  <2> QED
    BY <1>2, <2>1
<1>3. \A k \in T : p[k] \in S_
  OBVIOUS
<1> HIDE DEF T
<1>4. \A k \in 0 .. n : k \in T
  BY ONLY <1>1, <1>2, n \in Nat, Upwards
<1> QED
  BY <1>3, <1>4

\* One more digit on both sides: the prefixes compare as they did, or if they
\* were equal as the digits do.
LEMMA DigitDecides ==
  ASSUME NEW r \in Nat, NEW x \in Int, NEW y \in Int,
         NEW u \in 0 .. r - 1, NEW v \in 0 .. r - 1
  PROVE  /\ (r * x + u < r * y + v) <=> (x < y \/ (x = y /\ u < v))
         /\ (r * x + u > r * y + v) <=> (x > y \/ (x = y /\ u > v))
<1>1. ASSUME NEW p \in Int, NEW q \in Int, p < q PROVE r * p + r <= r * q
  <2>1. p + 1 <= q /\ q - (p + 1) \in Nat
    BY <1>1
  <2>2. r * (q - (p + 1)) >= 0
    BY <2>1
  <2>3. r * (q - (p + 1)) = r * q - r * p - r
    OBVIOUS
  <2>4. r * p \in Int /\ r * q \in Int
    OBVIOUS
  <2> QED
    BY <2>2, <2>3, <2>4
<1> DEFINE g == r * x
           b == r * y
<1>2. /\ g \in Int /\ b \in Int
      /\ x < y => g + r <= b
      /\ y < x => b + r <= g
      /\ x = y => g = b
  BY <1>1
<1> HIDE DEF g, b
<1>3. CASE x < y
  BY <1>2, <1>3
<1>4. CASE y < x
  BY <1>2, <1>4
<1>5. CASE x = y
  BY <1>2, <1>5
<1>6. /\ (g + u < b + v) <=> (x < y \/ (x = y /\ u < v))
      /\ (g + u > b + v) <=> (x > y \/ (x = y /\ u > v))
  BY <1>2
<1> QED
  BY <1>6 DEF g, b

\* A quotient is what its remainder leaves.
LEMMA QuotientIs ==
  ASSUME NEW c \in Nat, c >= 1, NEW u \in Int, NEW w_ \in 0 .. c - 1, NEW v, v = c * u + w_
  PROVE  v \div c = u
<1>1. c * u \in Int /\ v \in Int
  <2>1. c * u \in Int
    OBVIOUS
  <2> QED
    BY <2>1
<1> DEFINE d == v \div c
           e == v % c
<1>2. d \in Int /\ e \in 0 .. c - 1 /\ v = c * d + e
  <2>1. v \in Int /\ c \in Nat /\ c >= 1
    BY <1>1
  <2> QED
    BY ONLY <2>1
<1> HIDE DEF d, e
<1>3. /\ (c * u + w_ < c * d + e) <=> (u < d \/ (u = d /\ w_ < e))
      /\ (c * u + w_ > c * d + e) <=> (u > d \/ (u = d /\ w_ > e))
  BY <1>2, DigitDecides
<1>4. c * d \in Int
  BY <1>2
<1>5. d = u
  BY <1>1, <1>2, <1>3, <1>4
<1> QED
  BY <1>5 DEF d
-----------------------------------------------------------------------------
(***************************************************************************)
(* Widths and powers.                                                      *)
(***************************************************************************)

\* A word has bytes, a block words, and a byte values.
LEMMA HashWidths ==
  /\ WordBytes \in Nat /\ WordBytes >= 1 /\ Block \in Nat /\ Block = 16 * WordBytes
  /\ Rounds \in Nat /\ Rounds >= 16 /\ Rounds % 16 = 0
  /\ ByteSize \in Nat /\ ByteSize >= 2 /\ WordBits \in Nat
<1>1. Rounds \in Nat /\ Rounds # 0 /\ Rounds % 16 = 0
  BY HashAssumption
<1>2. Rounds >= 16
  BY <1>1
<1>3. WordBytes \in Nat /\ WordBytes # 0
  BY HashAssumption
<1>4. ByteSize \in Nat /\ WordBits \in Nat /\ \E k \in 1 .. ByteSize - 1 : TRUE
  BY WordPowersAssumption
<1>5. ByteSize >= 2
  BY <1>4
<1>6. Block = 16 * WordBytes /\ Block \in Nat
  BY <1>3 DEF Block
<1> QED
  BY <1>1, <1>2, <1>3, <1>4, <1>5, <1>6

\* The weights of the bytes of two words and one more are positive.
LEMMA ByteWeights ==
  /\ ByteSize ^ 0 = 1
  /\ \A k \in 0 .. 2 * WordBytes : ByteSize ^ (k + 1) = ByteSize * ByteSize ^ k
  /\ \A k \in 0 .. 2 * WordBytes : ByteSize ^ k \in Nat /\ ByteSize ^ k >= 1
  /\ WordSize = ByteSize ^ WordBytes /\ WordSize \in Nat /\ WordSize >= 1
<1> DEFINE n == 2 * WordBytes
           p == [k \in 0 .. n |-> ByteSize ^ k]
           S_ == {v \in Nat : v >= 1}
<1>1. n \in Nat /\ WordBytes \in 0 .. n /\ ByteSize \in Nat /\ ByteSize >= 2
  BY HashWidths
<1>2. /\ ByteSize ^ 0 = 1 /\ WordSize = ByteSize ^ WordBytes
      /\ \A k \in 0 .. n : ByteSize ^ (k + 1) = ByteSize * ByteSize ^ k
  BY WordPowersAssumption
<1> HIDE DEF n
<1>3. p[0] = 1 /\ \A k \in 1 .. n : p[k] = ByteSize * p[k - 1]
  <2>1. p[0] = 1
    BY <1>1, <1>2
  <2>2. ASSUME NEW k \in 1 .. n PROVE p[k] = ByteSize * p[k - 1]
    <3>1. k - 1 \in 0 .. n /\ k \in 0 .. n /\ k - 1 + 1 = k
      BY <1>1
    <3>2. ByteSize ^ (k - 1 + 1) = ByteSize * ByteSize ^ (k - 1)
      BY <1>2, <3>1
    <3> QED
      BY <3>1, <3>2
  <2> QED
    BY <2>1, <2>2
<1>4. \A k \in 0 .. n : ByteSize ^ k = p[k]
  OBVIOUS
<1> HIDE DEF p
<1>5. p[0] \in S_
  BY <1>3
<1>6. ASSUME NEW k \in 1 .. n, p[k - 1] \in S_ PROVE p[k] \in S_
  <2> DEFINE v == p[k - 1]
  <2>1. v \in Nat /\ v >= 1 /\ p[k] = ByteSize * v
    BY <1>3, <1>6
  <2> HIDE DEF v
  <2>2. ByteSize * v \in Nat /\ ByteSize * v >= 1
    BY <1>1, <2>1
  <2> QED
    BY <2>1, <2>2
<1>7. \A k \in 0 .. n : p[k] \in S_
  <2> HIDE DEF S_
  <2> QED
    BY ONLY <1>1, <1>5, <1>6, StaysIn
<1>8. \A k \in 0 .. n : ByteSize ^ k \in Nat /\ ByteSize ^ k >= 1
  BY <1>4, <1>7
<1> QED
  BY <1>1, <1>2, <1>8 DEF n

\* So are the weights of bits.
LEMMA BitWeights == \A k \in 0 .. WordBits : 2 ^ k \in Nat /\ 2 ^ k >= 1
<1> DEFINE p == [k \in 0 .. WordBits |-> 2 ^ k]
           S_ == {v \in Nat : v >= 1}
<1>1. WordBits \in Nat
  BY HashWidths
<1>2. 2 ^ 0 = 1 /\ \A k \in 0 .. WordBits : 2 ^ (k + 1) = 2 * 2 ^ k
  BY WordPowersAssumption
<1>3. p[0] = 1 /\ \A k \in 1 .. WordBits : p[k] = 2 * p[k - 1]
  <2>1. p[0] = 1
    BY <1>1, <1>2
  <2>2. ASSUME NEW k \in 1 .. WordBits PROVE p[k] = 2 * p[k - 1]
    <3>1. k - 1 \in 0 .. WordBits /\ k \in 0 .. WordBits /\ k - 1 + 1 = k
      BY <1>1
    <3>2. 2 ^ (k - 1 + 1) = 2 * 2 ^ (k - 1)
      BY <1>2, <3>1
    <3> QED
      BY <3>1, <3>2
  <2> QED
    BY <2>1, <2>2
<1>4. \A k \in 0 .. WordBits : 2 ^ k = p[k]
  OBVIOUS
<1> HIDE DEF p
<1>5. p[0] \in S_
  BY <1>3
<1>6. ASSUME NEW k \in 1 .. WordBits, p[k - 1] \in S_ PROVE p[k] \in S_
  <2>1. p[k - 1] \in Nat /\ p[k - 1] >= 1 /\ p[k] = 2 * p[k - 1]
    BY <1>3, <1>6
  <2> QED
    BY <2>1
<1>7. \A k \in 0 .. WordBits : p[k] \in S_
  <2> HIDE DEF S_
  <2> QED
    BY ONLY <1>1, <1>5, <1>6, StaysIn
<1> QED
  BY <1>4, <1>7

\* A number built up from its highest digit.
LEMMA Horner ==
  ASSUME NEW n \in Nat, NEW base \in Int, NEW term \in [1 .. n -> Int],
         NEW p, p = CHOOSE f : f = [k \in 0 .. n |-> IF k = 0 THEN 0 ELSE f[k - 1] * base + term[k]]
  PROVE  /\ p[0] = 0
         /\ \A k \in 1 .. n : p[k] = p[k - 1] * base + term[k]
         /\ \A k \in 0 .. n : p[k] \in Int
<1> DEFINE Rec(f) == [k \in 0 .. n |-> IF k = 0 THEN 0 ELSE f[k - 1] * base + term[k]]
           Values == Int
           F == [0 .. n -> Values]
           G == [1 .. n -> [Values -> Values]]
           first == 0
           step == [k \in 1 .. n |-> [v \in Values |-> v * base + term[k]]]
<1>1. step \in G /\ first \in Values
  <2>1. ASSUME NEW k \in 1 .. n, NEW v \in Int PROVE v * base + term[k] \in Int
    <3>1. v * base \in Int /\ term[k] \in Int
      OBVIOUS
    <3> QED
      BY <3>1
  <2> QED
    BY <2>1
<1>2. \A k \in 1 .. n : \A v \in Values : step[k][v] = v * base + term[k]
  OBVIOUS
<1> HIDE DEF step
<1>3. PICK f \in F : f[0] = 0 /\ \A k \in 1 .. n : f[k] = step[k][f[k - 1]]
  <2>1. n \in Nat /\ F = [0 .. n -> Values] /\ G = [1 .. n -> [Values -> Values]]
    OBVIOUS
  <2> HIDE DEF F, G, Values, first
  <2>2. \E f \in F : Steps(f, first, n, step)
    BY ONLY <2>1, <1>1, Recursion, Zenon
  <2> QED
    BY <2>2 DEF Steps, first
<1>4. ASSUME NEW k \in 0 .. n PROVE f[k] = Rec(f)[k]
  <2>1. CASE k = 0
    BY <1>3, <2>1
  <2>2. CASE k # 0
    <3>1. k \in 1 .. n /\ k - 1 \in 0 .. n
      BY <2>2
    <3>2. f[k] = f[k - 1] * base + term[k]
      BY <1>2, <1>3, <3>1
    <3> QED
      BY <2>2, <3>2
  <2> QED
    BY <2>1, <2>2
<1>5. f = Rec(f)
  BY <1>4
<1>6. p = CHOOSE g : g = Rec(g)
  OBVIOUS
<1> HIDE DEF Rec
<1>7. p = Rec(p)
  BY <1>5, <1>6
<1>8. p[0] = 0 /\ \A k \in 1 .. n : p[k] = p[k - 1] * base + term[k]
  <2>1. 0 \in 0 .. n /\ \A k \in 1 .. n : k \in 0 .. n /\ k # 0
    OBVIOUS
  <2>2. Rec(p)[0] = 0 /\ \A k \in 1 .. n : Rec(p)[k] = p[k - 1] * base + term[k]
    BY <2>1 DEF Rec
  <2> QED
    BY <1>7, <2>2
<1>9. \A k \in 0 .. n : p[k] \in Values
  <2>1. p[0] \in Values
    BY <1>8
  <2>2. ASSUME NEW k \in 1 .. n, p[k - 1] \in Values PROVE p[k] \in Values
    <3>1. p[k - 1] \in Int /\ term[k] \in Int /\ p[k] = p[k - 1] * base + term[k]
      BY <1>8, <2>2
    <3>2. p[k - 1] * base \in Int
      BY <3>1
    <3> QED
      BY <3>1, <3>2
  <2> HIDE DEF Values
  <2> QED
    BY ONLY <2>1, <2>2, n \in Nat, StaysIn
<1> QED
  BY <1>8, <1>9

-----------------------------------------------------------------------------
(***************************************************************************)
(* Words: the functions of the standard give integers.                     *)
(***************************************************************************)

\* Sums, not further specified, of the bits of two numbers.
LEMMA BitwiseIsInt ==
  ASSUME NEW x \in Int, NEW y \in Int
  PROVE  BitAnd(x, y) \in Int /\ BitXor(x, y) \in Int
<1> DEFINE n == WordBits
           two == 2
           both == [k \in 1 .. n |-> WordBit(x, n - k) * WordBit(y, n - k)]
           one == [k \in 1 .. n |-> (WordBit(x, n - k) + WordBit(y, n - k)) % 2]
           p == CHOOSE f : f = [k \in 0 .. n |-> IF k = 0 THEN 0 ELSE f[k - 1] * two + both[k]]
           q == CHOOSE f : f = [k \in 0 .. n |-> IF k = 0 THEN 0 ELSE f[k - 1] * two + one[k]]
<1>1. n \in Nat /\ two \in Int /\ n \in 0 .. n
  BY HashWidths
<1>2. ASSUME NEW k \in 1 .. n
      PROVE  /\ WordBit(x, n - k) \in Int /\ WordBit(y, n - k) \in Int
             /\ both[k] \in Int /\ one[k] \in Int
  <2> DEFINE c == 2 ^ (n - k)
             u == WordBit(x, n - k)
             v == WordBit(y, n - k)
  <2>1. c \in Nat /\ c >= 1
    BY <1>1, BitWeights
  <2>2. u = (x \div c) % 2 /\ v = (y \div c) % 2
    BY DEF WordBit
  <2> HIDE DEF c
  <2>3. u \in Int /\ v \in Int
    BY <2>1, <2>2
  <2>4. both[k] = u * v /\ one[k] = (u + v) % 2
    OBVIOUS
  <2> HIDE DEF u, v, both, one
  <2>5. u * v \in Int /\ (u + v) % 2 \in Int
    BY <2>3
  <2> QED
    BY <2>3, <2>4, <2>5 DEF u, v
<1>3. both \in [1 .. n -> Int] /\ one \in [1 .. n -> Int]
  BY <1>2
<1>4. BitAnd(x, y) = p[n]
  <2>1. ASSUME NEW f
        PROVE  [k \in 0 .. n |-> IF k = 0 THEN 0 ELSE f[k - 1] * two + both[k]]
                 = [k \in 0 .. n |-> IF k = 0 THEN 0
                                     ELSE f[k - 1] * 2 + WordBit(x, n - k) * WordBit(y, n - k)]
    <3>1. ASSUME NEW k \in 0 .. n, k # 0
          PROVE  both[k] = WordBit(x, n - k) * WordBit(y, n - k)
      <4>1. k \in 1 .. n
        BY <1>1, <3>1
      <4> QED
        BY <4>1
    <3> HIDE DEF both
    <3> QED
      BY <3>1
  <2> HIDE DEF both
  <2> QED
    BY <2>1 DEF BitAnd
<1>5. BitXor(x, y) = q[n]
  <2>1. ASSUME NEW f
        PROVE  [k \in 0 .. n |-> IF k = 0 THEN 0 ELSE f[k - 1] * two + one[k]]
                 = [k \in 0 .. n |-> IF k = 0 THEN 0
                                     ELSE f[k - 1] * 2 + ((WordBit(x, n - k) + WordBit(y, n - k)) % 2)]
    <3>1. ASSUME NEW k \in 0 .. n, k # 0
          PROVE  one[k] = (WordBit(x, n - k) + WordBit(y, n - k)) % 2
      <4>1. k \in 1 .. n
        BY <1>1, <3>1
      <4> QED
        BY <4>1
    <3> HIDE DEF one
    <3> QED
      BY <3>1
  <2> HIDE DEF one
  <2> QED
    BY <2>1 DEF BitXor
<1> HIDE DEF both, one, two, n
<1>6. p[n] \in Int
  <2>1. \A k \in 0 .. n : p[k] \in Int
    BY ONLY <1>1, <1>3, Horner
  <2> QED
    BY <1>1, <2>1
<1>7. q[n] \in Int
  <2>1. \A k \in 0 .. n : q[k] \in Int
    BY ONLY <1>1, <1>3, Horner
  <2> QED
    BY <1>1, <2>1
<1> QED
  BY <1>4, <1>5, <1>6, <1>7

\* A rotation of an integer is one.
LEMMA RotationIsInt ==
  ASSUME NEW x \in Int, NEW c \in 0 .. WordBits
  PROVE  R(x, c) \in Int /\ x \div 2 ^ c \in Int
<1> DEFINE u == 2 ^ c
           v == 2 ^ (WordBits - c)
<1>1. u \in Nat /\ u >= 1 /\ v \in Nat /\ WordSize \in Nat /\ WordSize >= 1
  <2>1. WordBits - c \in 0 .. WordBits
    BY HashWidths
  <2> QED
    BY <2>1, BitWeights, ByteWeights
<1>2. R(x, c) = x \div u + ((x * v) % WordSize)
  BY DEF R
<1> HIDE DEF u, v
<1>3. x \div u \in Int
  BY <1>1
<1>4. x * v \in Int
  BY <1>1
<1> DEFINE y == x * v
<1> HIDE DEF y
<1>5. y % WordSize \in Int
  BY <1>1, <1>4 DEF y
<1> QED
  BY <1>2, <1>3, <1>5 DEF y, u

\* So are all the functions of words that a round and a schedule use.
LEMMA WordFunctions ==
  ASSUME NEW x \in Int
  PROVE  /\ Sigma0(x) \in Int /\ Sigma1(x) \in Int /\ sigma0(x) \in Int /\ sigma1(x) \in Int
         /\ \A y, v \in Int : Ch(x, y, v) \in Int /\ Maj(x, y, v) \in Int
<1> DEFINE Sizes == {BigSigma0, BigSigma1, SmallSigma0, SmallSigma1}
<1>1. \A c \in Sizes : c[1] \in 0 .. WordBits /\ c[2] \in 0 .. WordBits /\ c[3] \in 0 .. WordBits
  <2>1. \A c \in Sizes : c \in [1 .. 3 -> 0 .. WordBits]
    BY HashAssumption
  <2>2. 1 \in 1 .. 3 /\ 2 \in 1 .. 3 /\ 3 \in 1 .. 3
    OBVIOUS
  <2> QED
    BY ONLY <2>1, <2>2
<1>2. \A c \in Sizes : /\ R(x, c[1]) \in Int /\ R(x, c[2]) \in Int /\ R(x, c[3]) \in Int
                       /\ x \div 2 ^ c[3] \in Int
  BY <1>1, RotationIsInt
<1>3. \A c \in Sizes : Rotations(x, c) \in Int /\ RotationsShift(x, c) \in Int
  BY <1>2, BitwiseIsInt DEF Rotations, RotationsShift
<1>4. ASSUME NEW y \in Int, NEW v \in Int PROVE Ch(x, y, v) \in Int /\ Maj(x, y, v) \in Int
  <2>1. WordSize - 1 - x \in Int
    BY ByteWeights
  <2> QED
    BY <2>1, BitwiseIsInt DEF Ch, Maj
<1> QED
  BY <1>3, <1>4 DEF Sigma0, Sigma1, sigma0, sigma1

-----------------------------------------------------------------------------
(***************************************************************************)
(* Words and their bytes.                                                  *)
(***************************************************************************)

\* Division by a product is two divisions, and a remainder by it keeps both parts.
LEMMA Divisions ==
  ASSUME NEW v \in Int, NEW b \in Nat, b >= 1, NEW m \in Nat, m >= 1
  PROVE  /\ v \div (b * m) = (v \div b) \div m
         /\ (v % (b * m)) \div b = (v \div b) % m
         /\ (v % (b * m)) % b = v % b
<1> DEFINE q == v \div b
           t == v % b
           p == q \div m
           s == q % m
           c == b * m
           y == b * s + t
<1>1. q \in Int /\ t \in 0 .. b - 1 /\ v = b * q + t
  BY ONLY v \in Int, b \in Nat, b >= 1
<1> HIDE DEF q, t
<1>2. p \in Int /\ s \in 0 .. m - 1 /\ q = m * p + s
  BY ONLY <1>1, m \in Nat, m >= 1
<1> HIDE DEF p, s
<1>3. c \in Nat /\ c >= 1
  <2>1. m - 1 \in Nat /\ b * (m - 1) >= 0 /\ b * (m - 1) = b * m - b /\ b * m \in Int
    OBVIOUS
  <2> QED
    BY <2>1
<1>4. y \in 0 .. c - 1
  <2>1. b * s \in Int /\ b * s >= 0
    BY <1>2
  <2>2. b * (m - 1 - s) >= 0
    BY <1>2
  <2>3. b * (m - 1 - s) = b * m - b - b * s
    BY <1>2
  <2>4. b * m \in Int
    OBVIOUS
  <2> QED
    BY <1>1, <2>1, <2>2, <2>3, <2>4
<1>5. v = c * p + y
  <2>1. b * q = b * (m * p) + b * s
    BY <1>1, <1>2
  <2>2. b * (m * p) = (b * m) * p
    BY <1>2
  <2>3. b * q \in Int /\ b * (m * p) \in Int /\ b * s \in Int
    BY <1>1, <1>2
  <2> QED
    BY <1>1, <2>1, <2>2, <2>3
<1> HIDE DEF c
<1>6. v \div c = p
  <2> HIDE DEF y
  <2> QED
    BY ONLY <1>2, <1>3, <1>4, <1>5, QuotientIs
<1>7. v % c = y
  <2>1. v = c * (v \div c) + (v % c)
    BY <1>3
  <2>2. c * p \in Int /\ y \in Int
    BY <1>2, <1>3, <1>4
  <2>3. v % c \in Int
    BY <1>3
  <2> HIDE DEF y
  <2>4. v = c * p + (v % c)
    BY <1>6, <2>1
  <2> DEFINE k == c * p
             e == v % c
  <2>5. k \in Int /\ e \in Int /\ v = k + e /\ v = k + y
    BY <1>5, <2>2, <2>3, <2>4
  <2> HIDE DEF k, e
  <2>6. e = y
    BY <2>2, <2>5
  <2> QED
    BY <2>6 DEF e
<1>8. y \div b = s
  <2>1. s \in Int
    BY <1>2
  <2> QED
    BY ONLY <1>1, <2>1, y = b * s + t, b \in Nat, b >= 1, QuotientIs
<1>9. y % b = t
  <2>1. y \in Int /\ y = b * (y \div b) + (y % b) /\ y % b \in Int
    BY <1>3, <1>4
  <2>2. b * s \in Int
    BY <1>2
  <2>3. y = b * s + (y % b) /\ y = b * s + t
    BY <1>8, <2>1
  <2> DEFINE k == b * s
             e == y % b
  <2>4. k \in Int /\ e \in Int /\ k + e = k + t /\ t \in Int
    BY <1>1, <2>1, <2>2, <2>3
  <2> HIDE DEF k, e
  <2>5. e = t
    BY <2>4
  <2> QED
    BY <2>5 DEF e
<1> QED
  BY <1>6, <1>7, <1>8, <1>9 DEF c, q, t, p, s

\* The values dl64 goes through.
Partial(x) ==
  LET u[k \in 0 .. WordBytes] == IF k = 0 THEN 0 ELSE u[k - 1] * ByteSize + x[k]
  IN u

\* dl64 reads a number of as many bytes, which is a word.
LEMMA DlSteps ==
  ASSUME NEW x, \A k \in 1 .. WordBytes : x[k] \in Octet
  PROVE  /\ Partial(x)[0] = 0
         /\ \A k \in 1 .. WordBytes : Partial(x)[k] = Partial(x)[k - 1] * ByteSize + x[k]
         /\ \A k \in 0 .. WordBytes : Partial(x)[k] \in 0 .. ByteSize ^ k - 1
         /\ dl64(x) = Partial(x)[WordBytes] /\ dl64(x) \in Word
<1> DEFINE n == WordBytes
           term == [k \in 1 .. n |-> x[k]]
           p == CHOOSE f : f = [k \in 0 .. n |-> IF k = 0 THEN 0 ELSE f[k - 1] * ByteSize + term[k]]
           T == {k \in 0 .. n : p[k] \in 0 .. ByteSize ^ k - 1}
<1>1. n \in Nat /\ n \in 0 .. n /\ ByteSize \in Nat /\ ByteSize >= 1
  BY HashWidths
<1>2. \A k \in 1 .. n : term[k] = x[k] /\ x[k] \in 0 .. ByteSize - 1
  BY DEF Octet
<1>3. term \in [1 .. n -> Int]
  BY <1>1, <1>2
<1>4. Partial(x) = p
  <2>1. ASSUME NEW f
        PROVE  [k \in 0 .. n |-> IF k = 0 THEN 0 ELSE f[k - 1] * ByteSize + term[k]]
                 = [k \in 0 .. n |-> IF k = 0 THEN 0 ELSE f[k - 1] * ByteSize + x[k]]
    <3>1. ASSUME NEW k \in 0 .. n, k # 0 PROVE term[k] = x[k]
      <4>1. k \in 1 .. n
        BY <1>1, <3>1
      <4> QED
        BY <4>1
    <3> HIDE DEF term
    <3> QED
      BY <3>1
  <2> HIDE DEF term
  <2> QED
    BY <2>1 DEF Partial
<1> HIDE DEF term, n
<1>5. /\ p[0] = 0
      /\ \A k \in 1 .. n : p[k] = p[k - 1] * ByteSize + term[k]
      /\ \A k \in 0 .. n : p[k] \in Int
  <2>1. ByteSize \in Int
    BY <1>1
  <2> QED
    BY ONLY <1>1, <2>1, <1>3, Horner
<1>6. /\ ByteSize ^ 0 = 1
      /\ \A k \in 0 .. n : ByteSize ^ (k + 1) = ByteSize * ByteSize ^ k /\ ByteSize ^ k \in Nat
  <2>1. \A k \in 0 .. n : k \in 0 .. 2 * WordBytes
    BY <1>1 DEF n
  <2> QED
    BY <2>1, ByteWeights
<1> HIDE DEF p
<1>7. 0 \in T
  <2>1. 0 \in 0 .. ByteSize ^ 0 - 1
    BY <1>6
  <2> QED
    BY <1>1, <1>5, <2>1
<1>8. ASSUME NEW k \in 0 .. n - 1, k \in T PROVE k + 1 \in T
  <2> DEFINE y == p[k]
             d == x[k + 1]
             g == ByteSize ^ k
  <2>1. k + 1 \in 1 .. n /\ k + 1 - 1 = k /\ k \in 0 .. n /\ k + 1 \in 0 .. n
    BY <1>1
  <2>2. p[k + 1] = y * ByteSize + d /\ d \in 0 .. ByteSize - 1
    BY <1>2, <1>5, <2>1
  <2>3. ByteSize ^ (k + 1) = ByteSize * g /\ g \in Nat /\ y \in 0 .. g - 1
    BY <1>6, <1>8, <2>1
  <2> HIDE DEF y, d, g
  <2>4. y * ByteSize + d \in 0 .. ByteSize * g - 1
    <3>1. y * ByteSize >= 0 /\ y * ByteSize \in Int /\ ByteSize * g \in Int
      BY <1>1, <2>3
    <3>2. ByteSize * (g - 1 - y) >= 0
      BY <1>1, <2>3
    <3>3. ByteSize * (g - 1 - y) = ByteSize * g - ByteSize - y * ByteSize
      BY <1>1, <2>3
    <3> QED
      BY <1>1, <2>2, <3>1, <3>2, <3>3
  <2> QED
    BY <2>1, <2>2, <2>3, <2>4
<1>9. \A k \in T : p[k] \in 0 .. ByteSize ^ k - 1
  OBVIOUS
<1> HIDE DEF T
<1>10. \A k \in 0 .. n : k \in T
  BY ONLY <1>1, <1>7, <1>8, Upwards
<1>11. \A k \in 0 .. n : p[k] \in 0 .. ByteSize ^ k - 1
  BY <1>9, <1>10
<1>12. dl64(x) = p[n]
  BY <1>4 DEF dl64, Partial, n
<1>13. p[n] \in Word
  BY <1>1, <1>11, ByteWeights DEF n, Word
<1> QED
  BY <1>2, <1>4, <1>5, <1>11, <1>12, <1>13 DEF n

\* dl64 reads back the word that ts64 wrote.
LEMMA WordOfItsBytes ==
  ASSUME NEW u \in Word
  PROVE  ts64(u) \in [1 .. WordBytes -> Octet] /\ dl64(ts64(u)) = u
<1> DEFINE n == WordBytes
           x == ts64(u)
           p == Partial(x)
           T == {k \in 0 .. n : p[k] = u \div ByteSize ^ (n - k)}
<1>1. n \in Nat /\ ByteSize \in Nat /\ ByteSize >= 1 /\ u \in Int /\ 0 <= u
  BY HashWidths DEF Word
<1>2. /\ ByteSize ^ 0 = 1 /\ u < ByteSize ^ n
      /\ \A k \in 0 .. n : /\ ByteSize ^ (k + 1) = ByteSize * ByteSize ^ k
                           /\ ByteSize ^ k \in Nat /\ ByteSize ^ k >= 1
  <2>1. \A k \in 0 .. n : k \in 0 .. 2 * WordBytes
    BY <1>1
  <2>2. WordSize \in Nat /\ u < WordSize /\ WordSize = ByteSize ^ n
    BY ByteWeights DEF Word
  <2> QED
    BY <2>1, <2>2, ByteWeights
<1>3. ASSUME NEW k \in 1 .. n
      PROVE  x[k] = (u \div ByteSize ^ (n - k)) % ByteSize /\ x[k] \in Octet
  <2> DEFINE g == ByteSize ^ (n - k)
             y == u \div g
  <2>1. g \in Nat /\ g >= 1
    BY <1>1, <1>2
  <2>2. x[k] = y % ByteSize
    BY DEF ts64
  <2> HIDE DEF g
  <2>3. y \in Int
    BY <1>1, <2>1
  <2> HIDE DEF y
  <2>4. y % ByteSize \in 0 .. ByteSize - 1
    BY <1>1, <2>3
  <2> QED
    BY <2>2, <2>4 DEF Octet, y, g
<1>4. x \in [1 .. n -> Octet]
  <2>1. x = [k \in 1 .. n |-> x[k]]
    BY DEF ts64
  <2> HIDE DEF x
  <2> QED
    BY <1>3, <2>1
<1> HIDE DEF x
<1>5. p[0] = 0 /\ (\A k \in 1 .. n : p[k] = p[k - 1] * ByteSize + x[k]) /\ dl64(x) = p[n]
  BY <1>3, DlSteps
<1> HIDE DEF p, n
<1>6. 0 \in T
  <2> DEFINE g == ByteSize ^ n
  <2>1. g \in Nat /\ u < g /\ n - 0 = n
    BY <1>1, <1>2
  <2> HIDE DEF g
  <2>2. u \div g = 0
    BY <1>1, <2>1
  <2> QED
    BY <1>1, <1>5, <2>1, <2>2 DEF g
<1>7. ASSUME NEW k \in 0 .. n - 1, k \in T PROVE k + 1 \in T
  <2> DEFINE j == n - (k + 1)
             g == ByteSize ^ j
             y == u \div g
  <2>1. /\ k + 1 \in 1 .. n /\ k + 1 - 1 = k /\ k + 1 \in 0 .. n
        /\ j \in 0 .. n /\ n - k = j + 1
    BY <1>1
  <2>2. g \in Nat /\ g >= 1 /\ ByteSize ^ (n - k) = g * ByteSize
    <3>1. g \in Nat /\ g >= 1 /\ ByteSize ^ (j + 1) = ByteSize * g
      BY <1>2, <2>1
    <3>2. ByteSize * g = g * ByteSize
      BY <1>1, <3>1
    <3> QED
      BY <2>1, <3>1, <3>2
  <2>3. p[k] = u \div ByteSize ^ (n - k) /\ p[k + 1] = p[k] * ByteSize + x[k + 1]
        /\ x[k + 1] = y % ByteSize
    BY <1>3, <1>5, <1>7, <2>1
  <2> HIDE DEF g
  <2>4. u \div (g * ByteSize) = y \div ByteSize
    BY <1>1, <2>2, Divisions
  <2>5. y \in Int
    BY <1>1, <2>2
  <2> HIDE DEF y
  <2>6. p[k + 1] = (y \div ByteSize) * ByteSize + (y % ByteSize)
    BY <2>2, <2>3, <2>4
  <2>7. (y \div ByteSize) * ByteSize + (y % ByteSize) = y
    <3>1. y = ByteSize * (y \div ByteSize) + (y % ByteSize) /\ y \div ByteSize \in Int
      BY <1>1, <2>5
    <3> DEFINE d == y \div ByteSize
    <3> HIDE DEF d
    <3>2. ByteSize * d = d * ByteSize
      BY <1>1, <3>1 DEF d
    <3> QED
      BY <3>1, <3>2 DEF d
  <2> QED
    BY <2>1, <2>6, <2>7 DEF y, g
<1>8. \A k \in T : p[k] = u \div ByteSize ^ (n - k)
  OBVIOUS
<1> HIDE DEF T
<1>9. n \in T
  <2>1. \A k \in 0 .. n : k \in T
    BY ONLY <1>1, <1>6, <1>7, Upwards
  <2> QED
    BY <1>1, <2>1
<1>10. p[n] = u
  <2>1. n - n = 0 /\ u \div 1 = u
    BY <1>1
  <2> QED
    BY <1>2, <1>8, <1>9, <2>1
<1> QED
  BY <1>4, <1>5, <1>10 DEF n, x

\* A slice, element for element.
LEMMA SliceOf ==
  ASSUME NEW U, NEW b \in Seq(U), NEW i \in Nat, NEW n \in Nat, i + n <= Len(b),
         NEW t, t = SubSeq(b, i + 1, i + n)
  PROVE  t \in Seq(U) /\ Len(t) = n /\ \A k \in 1 .. n : t[k] = b[i + k]
<1>1. Len(b) \in Nat /\ \A k \in 1 .. Len(b) : b[k] \in U
  BY LenProperties
<1> DEFINE lo == i + 1
           hi == i + n
<1>2. /\ lo \in Int /\ hi \in Int /\ \A k \in lo .. hi : b[k] \in U
      /\ (IF lo <= hi THEN hi - lo + 1 ELSE 0) = n /\ hi - lo + 1 = n
      /\ \A k \in 1 .. n : lo + k - 1 = i + k
  BY <1>1
<1>3. t = SubSeq(b, lo, hi)
  OBVIOUS
<1> HIDE DEF lo, hi
<1>4. /\ t \in Seq(U) /\ Len(t) = (IF lo <= hi THEN hi - lo + 1 ELSE 0)
      /\ \A k \in 1 .. hi - lo + 1 : t[k] = b[lo + k - 1]
  BY <1>2, <1>3, SubSeqProperties
<1> QED
  BY <1>2, <1>4

\* A slice of a slice.
SliceWithin(b, i, n, j, m) ==
  SubSeq(SubSeq(b, i + 1, i + n), j + 1, j + m) = SubSeq(b, i + j + 1, i + j + m)

\* It is a slice of the whole.
LEMMA SliceOfSlice ==
  ASSUME NEW U, NEW b \in Seq(U), NEW i \in Nat, NEW n \in Nat, i + n <= Len(b),
         NEW j \in Nat, NEW m \in Nat, j + m <= n
  PROVE  SliceWithin(b, i, n, j, m)
<1> DEFINE s == SubSeq(b, i + 1, i + n)
           e == i + j
<1>1. s \in Seq(U) /\ Len(s) = n /\ \A k \in 1 .. n : s[k] = b[i + k]
  BY SliceOf
<1>2. /\ e \in Nat /\ e + m <= Len(b) /\ j + m <= Len(s)
      /\ \A k \in 1 .. m : j + k \in 1 .. n /\ i + (j + k) = e + k
  <2>1. Len(b) \in Nat
    BY LenProperties
  <2> QED
    BY <1>1, <2>1
<1>3. \A k \in 1 .. m : s[j + k] = b[e + k]
  BY <1>1, <1>2
<1> HIDE DEF s, e
<1>4. SubSeq(s, j + 1, j + m) = SubSeq(b, e + 1, e + m)
  <2> DEFINE u == SubSeq(s, j + 1, j + m)
             v == SubSeq(b, e + 1, e + m)
  <2>1. j + m <= Len(s) /\ e \in Nat /\ e + m <= Len(b) /\ s \in Seq(U)
    BY <1>1, <1>2
  <2>2. u \in Seq(U) /\ Len(u) = m /\ \A k \in 1 .. m : u[k] = s[j + k]
    BY <2>1, SliceOf
  <2>3. v \in Seq(U) /\ Len(v) = m /\ \A k \in 1 .. m : v[k] = b[e + k]
    BY <2>1, SliceOf
  <2> HIDE DEF u, v
  <2>4. u = v
    BY <1>3, <2>2, <2>3, SeqEqual
  <2> QED
    BY <2>4 DEF u, v
<1> QED
  BY <1>4 DEF s, e, SliceWithin

\* A byte string of n words gives n words.
LEMMA WordsAre ==
  ASSUME NEW b \in Seq(Octet), NEW n \in Nat, Len(b) = n * WordBytes
  PROVE  /\ Words(b) \in [1 .. n -> Word]
         /\ \A i \in 1 .. n : Words(b)[i] = dl64(SubSeq(b, (i - 1) * WordBytes + 1, i * WordBytes))
<1> DEFINE W == WordBytes
           x(i) == SubSeq(b, (i - 1) * W + 1, i * W)
<1>1. W \in Nat /\ W >= 1
  BY HashWidths
<1>2. Len(b) \div W = n
  <2>1. n * W = W * n + 0 /\ 0 \in 0 .. W - 1 /\ n \in Int
    BY <1>1
  <2> DEFINE v == n * W
  <2>2. v = W * n + 0
    BY <2>1
  <2> HIDE DEF v
  <2>3. v \div W = n
    BY ONLY <1>1, <2>1, <2>2, QuotientIs
  <2> QED
    BY <2>3 DEF v
<1>3. ASSUME NEW i \in 1 .. n PROVE dl64(x(i)) \in Word
  <2> DEFINE e == (i - 1) * W
             t == x(i)
  <2>1. e \in Nat /\ i * W = e + W /\ e + W <= Len(b)
    <3>1. i - 1 \in Nat /\ (i - 1) * W \in Nat /\ (i - 1) * W = i * W - W
      BY <1>1
    <3>2. (n - i) * W >= 0 /\ (n - i) * W = n * W - i * W
      BY <1>1
    <3>3. i * W \in Int /\ n * W \in Int
      BY <1>1
    <3> QED
      BY <1>1, <3>1, <3>2, <3>3
  <2>2. t = SubSeq(b, e + 1, e + W)
    BY <2>1
  <2> HIDE DEF e, x, t
  <2>3. t \in Seq(Octet) /\ Len(t) = W
    <3>1. e \in Nat /\ e + W <= Len(b)
      BY <2>1
    <3> QED
      BY ONLY <1>1, <2>2, <3>1, b \in Seq(Octet), SliceOf
  <2>4. \A k \in 1 .. W : t[k] \in Octet
    BY <2>3, LenProperties
  <2>5. dl64(t) \in Word
    BY <2>4, DlSteps
  <2> QED
    BY <2>5 DEF t
<1>4. Words(b) = [i \in 1 .. n |-> dl64(x(i))]
  BY <1>2 DEF Words
<1> HIDE DEF x
<1>5. Words(b) \in [1 .. n -> Word] /\ \A i \in 1 .. n : Words(b)[i] = dl64(x(i))
  BY <1>3, <1>4
<1> QED
  BY <1>5 DEF x

State == [1 .. 8 -> Word]

\* A function on 1 .. n is a sequence of that length.
LEMMA LengthIs ==
  ASSUME NEW U, NEW n \in Nat, NEW y \in [1 .. n -> U]
  PROVE  y \in Seq(U) /\ Len(y) = n
OBVIOUS

\* The bytes of a state are those of eight words, and read back as them.
LEMMA StateOfItsBytes ==
  ASSUME NEW y \in State
  PROVE  /\ BytesOf(y) \in Seq(Octet) /\ Len(BytesOf(y)) = 8 * WordBytes
         /\ Words(BytesOf(y)) = y
<1> DEFINE W == WordBytes
           b == BytesOf(y)
           n == 8 * W
           at(i) == ts64(y[(i - 1) \div W + 1])[((i - 1) % W) + 1]
<1>1. W \in Nat /\ W >= 1 /\ n \in Nat
  BY HashWidths
<1>2. y \in Seq(Word) /\ Len(y) = 8
  <2> DEFINE c == 8
  <2>1. c \in Nat /\ y \in [1 .. c -> Word]
    BY DEF State
  <2> HIDE DEF c
  <2>2. y \in Seq(Word) /\ Len(y) = c
    BY ONLY <2>1, LengthIs
  <2> QED
    BY <2>2 DEF c
<1>3. b = [i \in 1 .. n |-> at(i)]
  BY <1>2 DEF BytesOf
<1>4. \A i \in 1 .. 8 : y[i] \in Word /\ ts64(y[i]) \in [1 .. W -> Octet] /\ dl64(ts64(y[i])) = y[i]
  BY WordOfItsBytes DEF State
<1>5. ASSUME NEW i \in 1 .. n PROVE at(i) \in Octet
  <2> DEFINE q == (i - 1) \div W
             r == (i - 1) % W
  <2>1. q \in Int /\ r \in 0 .. W - 1 /\ i - 1 = W * q + r
    BY <1>1
  <2> HIDE DEF q, r
  <2>2. q >= 0
    <3>1. SUFFICES ASSUME q <= -1 PROVE FALSE
      BY <2>1
    <3>2. W * (-1 - q) >= 0 /\ W * (-1 - q) = -W - W * q /\ W * q \in Int
      BY <1>1, <2>1, <3>1
    <3> QED
      BY <1>1, <2>1, <3>2
  <2>3. q <= 7
    <3>1. SUFFICES ASSUME q >= 8 PROVE FALSE
      BY <2>1
    <3>2. W * (q - 8) >= 0 /\ W * (q - 8) = W * q - 8 * W /\ W * q \in Int
      BY <1>1, <2>1, <3>1
    <3> QED
      BY <1>1, <2>1, <3>2
  <2>4. q + 1 \in 1 .. 8 /\ r + 1 \in 1 .. W
    BY <1>1, <2>1, <2>2, <2>3
  <2>5. ts64(y[q + 1])[r + 1] \in Octet
    BY <1>4, <2>4
  <2> QED
    BY <2>5 DEF q, r
<1> HIDE DEF at, b, n
<1>6. b \in Seq(Octet) /\ Len(b) = n /\ \A i \in 1 .. n : b[i] = at(i)
  BY <1>1, <1>3, <1>5
<1>7. ASSUME NEW i \in 1 .. 8 PROVE dl64(SubSeq(b, (i - 1) * W + 1, i * W)) = y[i]
  <2> DEFINE e == (i - 1) * W
             t == SubSeq(b, e + 1, e + W)
             x == ts64(y[i])
  <2>0. (i - 1) * W = e
    OBVIOUS
  <2>1. e \in Nat /\ i * W = e + W /\ e + W <= Len(b)
    <3>1. i - 1 \in Nat /\ (i - 1) * W \in Nat /\ (i - 1) * W = i * W - W
      BY <1>1
    <3>2. (8 - i) * W >= 0 /\ (8 - i) * W = 8 * W - i * W
      BY <1>1
    <3>3. i * W \in Int /\ 8 * W \in Int
      BY <1>1
    <3> QED
      BY <1>1, <1>6, <3>1, <3>2, <3>3 DEF n
  <2>2. e = W * (i - 1)
    BY <1>1
  <2> HIDE DEF e
  <2>3. t \in Seq(Octet) /\ Len(t) = W /\ \A k \in 1 .. W : t[k] = b[e + k]
    <3>1. b \in Seq(Octet) /\ e \in Nat /\ W \in Nat /\ e + W <= Len(b)
      BY <1>1, <1>6, <2>1
    <3>2. t = SubSeq(b, e + 1, e + W)
      OBVIOUS
    <3> HIDE DEF t
    <3> QED
      BY ONLY <3>1, <3>2, SliceOf
  <2>4. ASSUME NEW k \in 1 .. W PROVE t[k] = x[k]
    <3> DEFINE v == (e + k) - 1
    <3>1. v = W * (i - 1) + (k - 1) /\ k - 1 \in 0 .. W - 1 /\ i - 1 \in Int
      BY <1>1, <2>1, <2>2
    <3>2. v \in Int /\ e + k \in 1 .. n
      BY <1>1, <1>6, <2>1
    <3>6. at(e + k) = ts64(y[v \div W + 1])[(v % W) + 1]
      BY DEF at
    <3> HIDE DEF v
    <3>3. v \div W = i - 1
      BY ONLY <1>1, <3>1, QuotientIs
    <3>4. v % W = k - 1
      <4>1. v = W * (v \div W) + (v % W) /\ v % W \in Int
        BY <1>1, <3>2
      <4>2. W * (i - 1) \in Int
        BY <1>1
      <4> DEFINE g == W * (i - 1)
                 f == v % W
      <4>3. v = g + f /\ v = g + (k - 1) /\ g \in Int /\ f \in Int
        BY <3>1, <3>3, <4>1, <4>2
      <4> HIDE DEF g, f
      <4>4. f = k - 1
        BY <4>3
      <4> QED
        BY <4>4 DEF f
    <3>5. t[k] = at(e + k)
      BY <1>6, <2>3, <3>2
    <3>7. v \div W + 1 = i /\ (v % W) + 1 = k
      BY <3>3, <3>4
    <3> QED
      BY <3>5, <3>6, <3>7
  <2> HIDE DEF t
  <2>5. t = x
    <3>1. t \in [1 .. W -> Octet] /\ x \in [1 .. W -> Octet]
      <4>1. t \in [1 .. W -> Octet]
        BY <2>3, LenProperties
      <4> QED
        BY <1>4, <4>1
    <3> HIDE DEF x
    <3>2. t = [k \in 1 .. W |-> t[k]] /\ x = [k \in 1 .. W |-> x[k]]
      BY <3>1
    <3> QED
      BY <2>4, <3>2
  <2> QED
    BY <1>4, <2>0, <2>1, <2>5 DEF t
<1>8. Words(b) \in [1 .. 8 -> Word]
      /\ \A i \in 1 .. 8 : Words(b)[i] = dl64(SubSeq(b, (i - 1) * W + 1, i * W))
  BY <1>1, <1>6, WordsAre DEF n
<1>9. Words(b) = y
  <2>1. \A i \in 1 .. 8 : Words(b)[i] = y[i]
    BY <1>7, <1>8
  <2>2. y \in [1 .. 8 -> Word]
    BY DEF State
  <2> QED
    BY <1>8, <2>1, <2>2
<1> QED
  BY <1>6, <1>9 DEF b, n

-----------------------------------------------------------------------------
(***************************************************************************)
(* The schedule: the standard's, grown word by word, and the sixteen words *)
(* of the code, advanced in place.                                         *)
(***************************************************************************)

\* The word a schedule has at t.
NextWord(s, t) == (sigma1(s[t - 2]) + s[t - 7] + sigma0(s[t - 15]) + s[t - 16]) % WordSize

\* The first m words of the schedule of a block.
IsSchedule(s, block, m) ==
  /\ s \in Seq(Word) /\ Len(s) = m
  /\ \A j \in 1 .. 16 : s[j] = block[j]
  /\ \A t \in 17 .. m : s[t] = NextWord(s, t)

\* A remainder by the number of words is a word.
LEMMA WordRemainder == ASSUME NEW x \in Int PROVE x % WordSize \in Word
<1>1. WordSize \in Nat /\ WordSize >= 1
  BY ByteWeights
<1>2. x % WordSize \in 0 .. WordSize - 1
  BY <1>1
<1> QED
  BY <1>2 DEF Word

\* Words are integers.
LEMMA WordIsInt == \A x \in Word : x \in Int
<1>1. WordSize \in Nat
  BY ByteWeights
<1> QED
  BY <1>1 DEF Word

\* The sum that makes a word of the schedule, in any order.
LEMMA WordSum ==
  ASSUME NEW p \in Word, NEW q \in Word, NEW x \in Word, NEW y \in Word
  PROVE  /\ (sigma1(p) + q + sigma0(x) + y) % WordSize \in Word
         /\ (y + q + sigma0(x) + sigma1(p)) % WordSize
              = (sigma1(p) + q + sigma0(x) + y) % WordSize
<1> DEFINE c == sigma1(p)
           d == sigma0(x)
<1>1. c \in Int /\ d \in Int /\ q \in Int /\ y \in Int
  BY WordIsInt, WordFunctions
<1> HIDE DEF c, d
<1>2. c + q + d + y \in Int /\ y + q + d + c = c + q + d + y
  BY <1>1
<1>3. (c + q + d + y) % WordSize \in Word
  BY <1>2, WordRemainder
<1> QED
  BY <1>2, <1>3 DEF c, d

\* A schedule can be continued by a word.
LEMMA ScheduleGrows ==
  ASSUME NEW x, NEW m \in Nat, m >= 16, NEW s, IsSchedule(s, x, m)
  PROVE  /\ NextWord(s, m + 1) \in Word
         /\ IsSchedule(Append(s, NextWord(s, m + 1)), x, m + 1)
<1> DEFINE v == NextWord(s, m + 1)
           y == Append(s, v)
<1>1. s \in Seq(Word) /\ Len(s) = m /\ (\A j \in 1 .. 16 : s[j] = x[j])
      /\ \A t \in 17 .. m : s[t] = NextWord(s, t)
  BY DEF IsSchedule
<1>2. \A j \in 1 .. m : s[j] \in Word
  BY <1>1, LenProperties
<1>3. v \in Word
  <2>1. /\ (m + 1) - 2 \in 1 .. m /\ (m + 1) - 7 \in 1 .. m
        /\ (m + 1) - 15 \in 1 .. m /\ (m + 1) - 16 \in 1 .. m
    OBVIOUS
  <2>2. /\ s[(m + 1) - 2] \in Word /\ s[(m + 1) - 7] \in Word
        /\ s[(m + 1) - 15] \in Word /\ s[(m + 1) - 16] \in Word
    BY <1>2, <2>1
  <2> QED
    BY <2>2, WordSum DEF NextWord
<1> HIDE DEF v
<1>4. /\ y \in Seq(Word) /\ Len(y) = m + 1 /\ y[m + 1] = v
      /\ \A j \in 1 .. m : y[j] = s[j]
  BY <1>1, <1>3, AppendProperties
<1> HIDE DEF y
<1>5. ASSUME NEW t \in 17 .. m + 1 PROVE NextWord(y, t) = NextWord(s, t)
  <2>1. t - 2 \in 1 .. m /\ t - 7 \in 1 .. m /\ t - 15 \in 1 .. m /\ t - 16 \in 1 .. m
    OBVIOUS
  <2>2. /\ y[t - 2] = s[t - 2] /\ y[t - 7] = s[t - 7]
        /\ y[t - 15] = s[t - 15] /\ y[t - 16] = s[t - 16]
    BY <1>4, <2>1
  <2> QED
    BY <2>2 DEF NextWord
<1>6. ASSUME NEW t \in 17 .. m + 1 PROVE y[t] = NextWord(y, t)
  <2>1. CASE t = m + 1
    BY <1>4, <1>5, <2>1 DEF v
  <2>2. CASE t # m + 1
    <3>1. t \in 17 .. m /\ t \in 1 .. m
      BY <2>2
    <3> QED
      BY <1>1, <1>4, <1>5, <3>1
  <2> QED
    BY <2>1, <2>2
<1>7. \A j \in 1 .. 16 : y[j] = x[j]
  <2>1. \A j \in 1 .. 16 : j \in 1 .. m
    OBVIOUS
  <2> QED
    BY <1>1, <1>4, <2>1
<1> QED
  BY <1>3, <1>4, <1>6, <1>7 DEF IsSchedule, v, y

\* The standard's schedule of a block has all its words.
LEMMA ScheduleIs ==
  ASSUME NEW x \in [1 .. 16 -> Word]
  PROVE  IsSchedule(Schedule(x), x, Rounds)
<1> DEFINE n == Rounds - 16
           Seqs == Seq(Word)
           F == [0 .. n -> Seqs]
           G == [1 .. n -> [Seqs -> Seqs]]
           Next_(v, t) == Append(v, NextWord(v, t))
           Rec(f) == [t \in 16 .. Rounds |-> IF t = 16 THEN x ELSE Next_(f[t - 1], t)]
           p == CHOOSE f : f = Rec(f)
           step == [k \in 1 .. n |->
                      [v \in Seqs |-> IF IsSchedule(v, x, k + 15) THEN Next_(v, k + 16) ELSE v]]
<1>1. n \in Nat /\ Rounds \in Nat /\ Rounds >= 16 /\ n + 16 = Rounds
  BY HashWidths
<1>2. Schedule(x) = p[Rounds]
  BY DEF Schedule, NextWord
<1>3. IsSchedule(x, x, 16) /\ x \in Seqs
  <2>1. x \in Seq(Word) /\ Len(x) = 16
    BY ONLY x \in [1 .. 16 -> Word], 16 \in Nat, LengthIs
  <2> QED
    BY <2>1 DEF IsSchedule
<1>4. ASSUME NEW k \in 1 .. n, NEW v \in Seqs, IsSchedule(v, x, k + 15)
      PROVE  Next_(v, k + 16) \in Seqs /\ IsSchedule(Next_(v, k + 16), x, k + 16)
  <2>1. k + 15 \in Nat /\ k + 15 >= 16 /\ (k + 15) + 1 = k + 16
    BY <1>1
  <2>2. IsSchedule(Append(v, NextWord(v, (k + 15) + 1)), x, (k + 15) + 1)
    BY <1>4, <2>1, ScheduleGrows
  <2> QED
    BY <2>1, <2>2 DEF IsSchedule
<1>5. step \in G /\ F = [0 .. n -> Seqs] /\ G = [1 .. n -> [Seqs -> Seqs]]
  <2> HIDE DEF Next_, Seqs
  <2> QED
    BY <1>4
<1>6. \A k \in 1 .. n : \A v \in Seqs : IsSchedule(v, x, k + 15) => step[k][v] = Next_(v, k + 16)
  <2> HIDE DEF Next_, Seqs
  <2> QED
    OBVIOUS
<1> HIDE DEF step, n, Next_
<1>7. PICK f \in F : f[0] = x /\ \A k \in 1 .. n : f[k] = step[k][f[k - 1]]
  <2> HIDE DEF F, G, Seqs
  <2>1. \E f \in F : Steps(f, x, n, step)
    BY ONLY <1>1, <1>3, <1>5, Recursion, Zenon
  <2> QED
    BY <2>1 DEF Steps
<1> HIDE DEF Seqs
<1>8. \A k \in 0 .. n : IsSchedule(f[k], x, k + 16)
  <2> DEFINE T == {k \in 0 .. n : IsSchedule(f[k], x, k + 16)}
  <2>1. 0 \in T
    BY <1>1, <1>3, <1>7
  <2>2. ASSUME NEW k \in 0 .. n - 1, k \in T PROVE k + 1 \in T
    <3>1. /\ k + 1 \in 1 .. n /\ (k + 1) - 1 = k /\ (k + 1) + 15 = k + 16 /\ k + 1 \in 0 .. n
          /\ k \in 0 .. n
      BY <1>1
    <3>2. IsSchedule(f[k], x, (k + 1) + 15) /\ f[k] \in Seqs
      BY <2>2, <3>1
    <3>3. f[k + 1] = step[k + 1][f[k]]
      BY <1>7, <3>1
    <3>4. f[k + 1] = Next_(f[k], (k + 1) + 16)
      BY <1>6, <3>1, <3>2, <3>3
    <3>5. IsSchedule(f[k + 1], x, (k + 1) + 16)
      BY <1>4, <3>1, <3>2, <3>4
    <3> QED
      BY <3>1, <3>5
  <2>3. \A k \in T : IsSchedule(f[k], x, k + 16)
    OBVIOUS
  <2> HIDE DEF T
  <2>4. \A k \in 0 .. n : k \in T
    BY ONLY <1>1, <2>1, <2>2, Upwards
  <2> QED
    BY <2>3, <2>4
<1> DEFINE g == [t \in 16 .. Rounds |-> f[t - 16]]
<1>9. ASSUME NEW t \in 16 .. Rounds PROVE g[t] = Rec(g)[t]
  <2>1. CASE t = 16
    BY <1>7, <2>1
  <2>2. CASE t # 16
    <3>1. /\ t - 16 \in 1 .. n /\ (t - 16) - 1 = t - 17 /\ t - 17 \in 0 .. n
          /\ t - 1 \in 16 .. Rounds /\ (t - 1) - 16 = t - 17 /\ (t - 16) + 16 = t
          /\ (t - 17) + 16 = (t - 16) + 15
      BY <1>1, <2>2
    <3>2. f[t - 16] = step[t - 16][f[t - 17]]
      BY <1>7, <3>1
    <3>3. IsSchedule(f[t - 17], x, (t - 16) + 15) /\ f[t - 17] \in Seqs
      BY <1>8, <3>1
    <3>4. f[t - 16] = Next_(f[t - 17], t)
      BY <1>6, <3>1, <3>2, <3>3
    <3>5. g[t] = f[t - 16] /\ g[t - 1] = f[t - 17]
      BY <3>1
    <3> QED
      BY <2>2, <3>4, <3>5
  <2> QED
    BY <2>1, <2>2
<1>10. g = Rec(g)
  BY <1>9
<1>11. p = Rec(p)
  <2> HIDE DEF Rec, g
  <2> QED
    BY <1>10
<1> HIDE DEF p
<1>12. p[16] = x /\ \A t \in 17 .. Rounds : p[t] = Next_(p[t - 1], t)
  <2>1. 16 \in 16 .. Rounds /\ \A t \in 17 .. Rounds : t \in 16 .. Rounds /\ t # 16
    BY <1>1
  <2>2. Rec(p)[16] = x /\ \A t \in 17 .. Rounds : Rec(p)[t] = Next_(p[t - 1], t)
    BY <2>1
  <2> HIDE DEF Rec
  <2> QED
    BY <1>11, <2>2
<1>13. \A k \in 0 .. n : IsSchedule(p[k + 16], x, k + 16)
  <2> DEFINE T == {k \in 0 .. n : IsSchedule(p[k + 16], x, k + 16)}
  <2>1. 0 \in T
    BY <1>1, <1>3, <1>12
  <2>2. ASSUME NEW k \in 0 .. n - 1, k \in T PROVE k + 1 \in T
    <3>1. /\ k + 1 \in 1 .. n /\ (k + 1) + 15 = k + 16 /\ k + 1 \in 0 .. n
          /\ (k + 1) + 16 \in 17 .. Rounds /\ ((k + 1) + 16) - 1 = k + 16
      BY <1>1
    <3>2. IsSchedule(p[k + 16], x, (k + 1) + 15)
      BY <2>2, <3>1
    <3>3. p[(k + 1) + 16] = Next_(p[k + 16], (k + 1) + 16)
      BY <1>12, <3>1
    <3>4. p[k + 16] \in Seqs
      BY <3>2 DEF IsSchedule, Seqs
    <3>5. IsSchedule(p[(k + 1) + 16], x, (k + 1) + 16)
      BY <1>4, <3>1, <3>2, <3>3, <3>4
    <3> QED
      BY <3>1, <3>5
  <2>3. \A k \in T : IsSchedule(p[k + 16], x, k + 16)
    OBVIOUS
  <2> HIDE DEF T
  <2>4. \A k \in 0 .. n : k \in T
    BY ONLY <1>1, <2>1, <2>2, Upwards
  <2> QED
    BY <2>3, <2>4
<1>14. n \in 0 .. n
  BY <1>1
<1> QED
  BY <1>1, <1>2, <1>13, <1>14


\* One word of the sixteen advanced.
Turn(v, j) ==
  [v EXCEPT ![j] = (v[j] + v[((j - 1 + 9) % 16) + 1] + sigma0(v[((j - 1 + 1) % 16) + 1])
                     + sigma1(v[((j - 1 + 14) % 16) + 1])) % WordSize]

\* It stays one of sixteen words.
LEMMA TurnIs ==
  ASSUME NEW v \in [1 .. 16 -> Word], NEW j \in 1 .. 16
  PROVE  /\ Turn(v, j) \in [1 .. 16 -> Word]
         /\ \A i \in 1 .. 16 :
              Turn(v, j)[i] =
                IF i = j THEN (v[j] + v[((j - 1 + 9) % 16) + 1] + sigma0(v[((j - 1 + 1) % 16) + 1])
                                 + sigma1(v[((j - 1 + 14) % 16) + 1])) % WordSize
                ELSE v[i]
<1> DEFINE x == (v[j] + v[((j - 1 + 9) % 16) + 1] + sigma0(v[((j - 1 + 1) % 16) + 1])
                   + sigma1(v[((j - 1 + 14) % 16) + 1])) % WordSize
<1>1. /\ ((j - 1 + 9) % 16) + 1 \in 1 .. 16 /\ ((j - 1 + 1) % 16) + 1 \in 1 .. 16
      /\ ((j - 1 + 14) % 16) + 1 \in 1 .. 16
  OBVIOUS
<1>2. /\ v[j] \in Word /\ v[((j - 1 + 9) % 16) + 1] \in Word
      /\ v[((j - 1 + 1) % 16) + 1] \in Word /\ v[((j - 1 + 14) % 16) + 1] \in Word
  BY <1>1
<1>3. x \in Word
  <2> DEFINE p == v[((j - 1 + 14) % 16) + 1]
             q == v[((j - 1 + 9) % 16) + 1]
             r == v[((j - 1 + 1) % 16) + 1]
             y == v[j]
  <2>1. p \in Word /\ q \in Word /\ r \in Word /\ y \in Word
    BY <1>2
  <2>2. x = (y + q + sigma0(r) + sigma1(p)) % WordSize
    OBVIOUS
  <2> HIDE DEF p, q, r, y, x
  <2>3. (y + q + sigma0(r) + sigma1(p)) % WordSize \in Word
    BY ONLY <2>1, WordSum
  <2> QED
    BY <2>2, <2>3
<1>4. Turn(v, j) = [v EXCEPT ![j] = x]
  BY DEF Turn
<1> HIDE DEF x
<1>5. Turn(v, j) \in [1 .. 16 -> Word] /\ \A i \in 1 .. 16 : Turn(v, j)[i] = IF i = j THEN x ELSE v[i]
  BY <1>3, <1>4
<1> QED
  BY <1>5 DEF x

\* The words advanced in place, one after the other.
LEMMA AdvanceSteps ==
  ASSUME NEW u \in [1 .. 16 -> Word]
  PROVE  \E f : /\ f[0] = u /\ \A j \in 1 .. 16 : f[j] = Turn(f[j - 1], j)
                /\ Advance(u) = f[16]
<1> DEFINE S_ == [1 .. 16 -> Word]
           n == 16
           F == [0 .. n -> S_]
           G == [1 .. n -> [S_ -> S_]]
           Rec(f) == [j \in 0 .. 16 |-> IF j = 0 THEN u ELSE Turn(f[j - 1], j)]
           p == CHOOSE f : f = Rec(f)
           step == [j \in 1 .. n |-> [v \in S_ |-> Turn(v, j)]]
<1>1. Advance(u) = p[16]
  BY DEF Advance, Turn
<1>2. \A j \in 1 .. n : \A v \in S_ : Turn(v, j) \in S_
  BY TurnIs
<1>3. u \in S_ /\ n \in Nat /\ n = 16
  OBVIOUS
<1> HIDE DEF S_
<1>4. step \in G /\ F = [0 .. n -> S_] /\ G = [1 .. n -> [S_ -> S_]]
  BY <1>2
<1>5. \A j \in 1 .. n : \A v \in S_ : step[j][v] = Turn(v, j)
  OBVIOUS
<1>6. \A f \in F : \A j \in 1 .. n : f[j - 1] \in S_
  <2>1. \A j \in 1 .. n : j - 1 \in 0 .. n
    OBVIOUS
  <2> QED
    BY <2>1
<1>6a. \A f \in F : f = [j \in 0 .. 16 |-> f[j]]
  BY <1>3
<1> HIDE DEF step, n, F, G
<1>7. \E f \in F : Steps(f, u, n, step)
  BY ONLY <1>3, <1>4, Recursion, Zenon
<1>8. PICK f \in F : f[0] = u /\ \A j \in 1 .. n : f[j] = step[j][f[j - 1]]
  BY <1>7 DEF Steps
<1>9. \A j \in 1 .. n : f[j] = Turn(f[j - 1], j)
  BY <1>5, <1>6, <1>8
<1>10. \A j \in 0 .. 16 : f[j] = IF j = 0 THEN u ELSE Turn(f[j - 1], j)
  <2>1. \A j \in 0 .. 16 : j # 0 => j \in 1 .. n
    BY <1>3
  <2> QED
    BY <1>8, <1>9, <2>1
<1>11. f = Rec(f)
  BY <1>6a, <1>10
<1>12. p = Rec(p)
  <2> HIDE DEF Rec
  <2> QED
    BY <1>11
<1> HIDE DEF p
<1>13. p[0] = u /\ \A j \in 1 .. 16 : p[j] = Turn(p[j - 1], j)
  <2>1. Rec(p)[0] = u /\ \A j \in 1 .. 16 : Rec(p)[j] = Turn(p[j - 1], j)
    OBVIOUS
  <2> HIDE DEF Rec
  <2> QED
    BY <1>12, <2>1
<1> QED
  BY <1>1, <1>13

\* Sixteen words of the schedule, advanced in place, are the next sixteen.
LEMMA AdvanceIs ==
  ASSUME NEW x, NEW s, IsSchedule(s, x, Rounds), NEW e \in Nat, e + 32 <= Rounds,
         NEW u \in [1 .. 16 -> Word], \A j \in 1 .. 16 : u[j] = s[e + j]
  PROVE  /\ Advance(u) \in [1 .. 16 -> Word]
         /\ \A j \in 1 .. 16 : Advance(u)[j] = s[e + 16 + j]
<1>1. PICK f : /\ f[0] = u /\ \A j \in 1 .. 16 : f[j] = Turn(f[j - 1], j)
               /\ Advance(u) = f[16]
  BY AdvanceSteps
<1>2. /\ s \in Seq(Word) /\ Len(s) = Rounds
      /\ \A t \in 17 .. Rounds : s[t] = NextWord(s, t)
  BY DEF IsSchedule
<1>3. \A t \in 1 .. Rounds : s[t] \in Word
  BY <1>2, LenProperties
<1>4. Rounds \in Nat
  BY HashWidths
<1> DEFINE Half(v, j) == /\ v \in [1 .. 16 -> Word]
                         /\ \A i \in 1 .. 16 : v[i] = IF i <= j THEN s[e + 16 + i] ELSE s[e + i]
           n == 16
           T == {j \in 0 .. n : Half(f[j], j)}
<1>5. 0 \in T
  BY <1>1
<1>6. ASSUME NEW k \in 0 .. n - 1, k \in T PROVE k + 1 \in T
  <2> DEFINE j == k + 1
             v == f[k]
             fresh == (v[j] + v[((j - 1 + 9) % 16) + 1] + sigma0(v[((j - 1 + 1) % 16) + 1])
                         + sigma1(v[((j - 1 + 14) % 16) + 1])) % WordSize
  <2>1. v \in [1 .. 16 -> Word] /\ j \in 1 .. 16 /\ j - 1 = k /\ k \in 0 .. n
    BY <1>6
  <2>1a. \A i \in 1 .. 16 : v[i] = IF i <= k THEN s[e + 16 + i] ELSE s[e + i]
    BY <1>6
  <2>2. f[j] = Turn(v, j)
    BY <1>1, <2>1
  <2> HIDE DEF v, T, n
  <2>3. ASSUME NEW l \in 1 .. 15 PROVE v[((j - 1 + l) % 16) + 1] = s[e + j + l]
    <3>1. CASE j + l <= 16
      <4>1. ((j - 1 + l) % 16) + 1 = j + l /\ j + l \in 1 .. 16 /\ ~(j + l <= k) /\ e + (j + l) = e + j + l
        BY <2>1, <3>1
      <4> QED
        BY <2>1a, <4>1
    <3>2. CASE ~(j + l <= 16)
      <4>1. /\ ((j - 1 + l) % 16) + 1 = j + l - 16 /\ j + l - 16 \in 1 .. 16 /\ j + l - 16 <= k
            /\ e + 16 + (j + l - 16) = e + j + l
        BY <2>1, <3>2
      <4> QED
        BY <2>1a, <4>1
    <3> QED
      BY <3>1, <3>2
  <2>4. v[j] = s[e + j]
    BY <2>1, <2>1a
  <2> DEFINE t == e + 16 + j
  <2>5. fresh = (s[e + j] + s[e + j + 9] + sigma0(s[e + j + 1]) + sigma1(s[e + j + 14])) % WordSize
    <3> HIDE DEF j
    <3> QED
      BY <2>3, <2>4
  <2>6. /\ t \in 17 .. Rounds /\ t - 2 = e + j + 14 /\ t - 7 = e + j + 9
        /\ t - 15 = e + j + 1 /\ t - 16 = e + j
        /\ e + j + 14 \in 1 .. Rounds /\ e + j + 9 \in 1 .. Rounds
        /\ e + j + 1 \in 1 .. Rounds /\ e + j \in 1 .. Rounds
    BY <1>4, <2>1
  <2> HIDE DEF fresh, j, t
  <2>7. fresh = NextWord(s, t)
    <3> DEFINE p == s[e + j + 14]
               q == s[e + j + 9]
               r == s[e + j + 1]
               y == s[e + j]
    <3>1. p \in Word /\ q \in Word /\ r \in Word /\ y \in Word
      BY <1>3, <2>6
    <3>2. fresh = (y + q + sigma0(r) + sigma1(p)) % WordSize
      BY <2>5
    <3>3. NextWord(s, t) = (sigma1(p) + q + sigma0(r) + y) % WordSize
      BY <2>6 DEF NextWord
    <3> HIDE DEF p, q, r, y
    <3> QED
      BY <3>1, <3>2, <3>3, WordSum
  <2>8. fresh = s[t]
    BY <1>2, <2>6, <2>7
  <2>9. f[j] \in [1 .. 16 -> Word] /\ \A i \in 1 .. 16 : f[j][i] = IF i = j THEN fresh ELSE v[i]
    <3>1. Turn(v, j) \in [1 .. 16 -> Word] /\ \A i \in 1 .. 16 : Turn(v, j)[i] = IF i = j THEN fresh ELSE v[i]
      BY ONLY <2>1, TurnIs DEF fresh
    <3> QED
      BY <2>2, <3>1
  <2>10. ASSUME NEW i \in 1 .. 16 PROVE f[j][i] = IF i <= j THEN s[e + 16 + i] ELSE s[e + i]
    <3>1. CASE i = j
      BY <2>1, <2>8, <2>9, <3>1 DEF t
    <3>2. CASE i # j
      <4>1. (i <= j) <=> (i <= k)
        BY <2>1, <3>2
      <4>2. f[j][i] = v[i]
        BY <2>9, <3>2
      <4> QED
        BY <2>1a, <4>1, <4>2
    <3> QED
      BY <3>1, <3>2
  <2>11. Half(f[j], j) /\ j \in 0 .. n
    BY <2>1, <2>9, <2>10 DEF n
  <2> QED
    BY <2>11 DEF T, j
<1>7. \A j \in T : Half(f[j], j)
  OBVIOUS
<1>8. n \in Nat /\ n = 16
  OBVIOUS
<1> HIDE DEF T, n
<1>9. \A j \in 0 .. n : j \in T
  BY ONLY <1>5, <1>6, <1>8, Upwards
<1>10. Half(f[16], 16)
  BY <1>7, <1>8, <1>9
<1>11. \A j \in 1 .. 16 : f[16][j] = s[e + 16 + j]
  BY <1>10
<1> QED
  BY <1>1, <1>10, <1>11

-----------------------------------------------------------------------------
(***************************************************************************)
(* A round, and the sum that ends a block.                                 *)
(***************************************************************************)

\* A round of the code is the standard's on the variables by their names.
LEMMA RoundIsStandard ==
  ASSUME NEW y \in State, NEW i \in 0 .. Rounds - 1, NEW v \in Word
  PROVE  /\ RoundState(y, i, v) \in State
         /\ Named(RoundState(y, i, v)) = StandardRound(Named(y), i + 1, v)
<1> DEFINE s1 == Sigma1(y[5])
           s0 == Sigma0(y[1])
           c == Ch(y[5], y[6], y[7])
           m == Maj(y[1], y[2], y[3])
           t == y[8] + s1 + c + K[i + 1] + v
           top == (t + s0 + m) % WordSize
           mid == (y[4] + t) % WordSize
           b == [y EXCEPT ![8] = top, ![4] = mid]
           r == RoundState(y, i, v)
<1>1. \A j \in 1 .. 8 : y[j] \in Word /\ y[j] \in Int
  BY WordIsInt DEF State
<1>2. i + 1 \in 1 .. Rounds /\ Rounds \in Nat
  BY HashWidths
<1>3. K[i + 1] \in Word
  BY <1>2, HashAssumption
<1>4. s1 \in Int /\ s0 \in Int /\ c \in Int /\ m \in Int /\ K[i + 1] \in Int /\ v \in Int
  <2>1. /\ y[1] \in Int /\ y[2] \in Int /\ y[3] \in Int
        /\ y[5] \in Int /\ y[6] \in Int /\ y[7] \in Int
    BY <1>1
  <2>2. s1 \in Int /\ s0 \in Int
    BY ONLY <2>1, WordFunctions
  <2>3. c \in Int /\ m \in Int
    BY ONLY <2>1, WordFunctions
  <2>4. K[i + 1] \in Int /\ v \in Int
    BY <1>3, WordIsInt
  <2> QED
    BY <2>2, <2>3, <2>4
<1>5. r = [j \in 1 .. 8 |-> b[((j + 6) % 8) + 1]]
  BY DEF RoundState
<1>5a. r \in [1 .. 8 -> {b[((j + 6) % 8) + 1] : j \in 1 .. 8}]
  BY <1>5
<1>6. StandardRound(Named(y), i + 1, v)
        = [a |-> ((y[8] + s1 + c + K[i + 1] + v) + (s0 + m)) % WordSize,
           b |-> y[1], c |-> y[2], d |-> y[3],
           e |-> (y[4] + (y[8] + s1 + c + K[i + 1] + v)) % WordSize,
           f |-> y[5], g |-> y[6], h |-> y[7]]
  BY DEF StandardRound, Named
<1> HIDE DEF s1, s0, c, m, r
<1>7. t \in Int /\ (t + (s0 + m)) % WordSize = top /\ t + s0 + m \in Int /\ y[4] + t \in Int
  <2>1. t \in Int
    BY <1>1, <1>4
  <2> HIDE DEF t
  <2>2. t + (s0 + m) = t + s0 + m
    BY <1>4, <2>1
  <2> QED
    BY <1>1, <1>4, <2>1, <2>2
<1>8. StandardRound(Named(y), i + 1, v)
        = [a |-> top, b |-> y[1], c |-> y[2], d |-> y[3],
           e |-> mid, f |-> y[5], g |-> y[6], h |-> y[7]]
  BY <1>6, <1>7
<1>9. top \in Word /\ mid \in Word
  BY <1>7, WordRemainder
<1> HIDE DEF t, top, mid
<1>10. /\ b[1] = y[1] /\ b[2] = y[2] /\ b[3] = y[3] /\ b[4] = mid
       /\ b[5] = y[5] /\ b[6] = y[6] /\ b[7] = y[7] /\ b[8] = top
  BY DEF State
<1> HIDE DEF b
<1>11. /\ r[1] = b[8] /\ r[2] = b[1] /\ r[3] = b[2] /\ r[4] = b[3]
       /\ r[5] = b[4] /\ r[6] = b[5] /\ r[7] = b[6] /\ r[8] = b[7]
  BY <1>5
<1>12. \A j \in 1 .. 8 : j = 1 \/ j = 2 \/ j = 3 \/ j = 4 \/ j = 5 \/ j = 6 \/ j = 7 \/ j = 8
  OBVIOUS
<1>13. \A j \in 1 .. 8 : r[j] \in Word
  <2>1. /\ r[1] \in Word /\ r[2] \in Word /\ r[3] \in Word /\ r[4] \in Word
        /\ r[5] \in Word /\ r[6] \in Word /\ r[7] \in Word /\ r[8] \in Word
    BY <1>1, <1>9, <1>10, <1>11
  <2> QED
    BY <1>12, <2>1
<1>14. r \in State
  BY <1>5a, <1>13 DEF State
<1>15. Named(r) = StandardRound(Named(y), i + 1, v)
  BY <1>8, <1>10, <1>11 DEF Named
<1> QED
  BY <1>14, <1>15 DEF r

\* The variables by their names, listed, are the state, and its sums states.
LEMMA SumIs ==
  ASSUME NEW x \in State, NEW y \in State
  PROVE  /\ [i \in 1 .. 8 |-> (x[i] + y[i]) % WordSize] \in State
         /\ [i \in 1 .. 8 |-> (x[i] + y[i]) % WordSize]
              = [i \in 1 .. 8 |-> (y[i] + Listed(Named(x))[i]) % WordSize]
<1>1. \A j \in 1 .. 8 : x[j] \in Word /\ x[j] \in Int /\ y[j] \in Int
  BY WordIsInt DEF State
<1>2. \A j \in 1 .. 8 : Listed(Named(x))[j] = x[j]
  <2>1. Listed(Named(x)) = <<x[1], x[2], x[3], x[4], x[5], x[6], x[7], x[8]>>
    BY DEF Listed, Named
  <2>2. \A j \in 1 .. 8 : <<x[1], x[2], x[3], x[4], x[5], x[6], x[7], x[8]>>[j] = x[j]
    OBVIOUS
  <2> QED
    BY <2>1, <2>2
<1>3. \A j \in 1 .. 8 : (x[j] + y[j]) % WordSize \in Word
  BY <1>1, WordRemainder
<1>4. \A j \in 1 .. 8 : (x[j] + y[j]) % WordSize = (y[j] + Listed(Named(x))[j]) % WordSize
  <2>1. ASSUME NEW j \in 1 .. 8 PROVE x[j] + y[j] = y[j] + x[j]
    BY <1>1
  <2> QED
    BY <1>2, <2>1
<1> QED
  BY <1>3, <1>4 DEF State

-----------------------------------------------------------------------------
(***************************************************************************)
(* The padding: the standard's, and the last blocks of the code.           *)
(***************************************************************************)

\* How many bytes n left over become.
SizeOf(n) == IF n < Block - 2 * WordBytes THEN Block ELSE 2 * Block

\* The zeros that fill the last block.
LEMMA ZerosAre ==
  ASSUME NEW d \in Nat, NEW n \in 0 .. Block - 1, NEW l, l = Block * d + n
  PROVE  (CHOOSE k \in 0 .. Block - 1 : (l + 1 + k + 2 * WordBytes) % Block = 0)
           = SizeOf(n) - n - 1 - 2 * WordBytes
<1> DEFINE W == WordBytes
           c == Block
           zeros == SizeOf(n) - n - 1 - 2 * W
           Fills(k) == k \in 0 .. c - 1 /\ (l + 1 + k + 2 * W) % c = 0
<1>1. W \in Nat /\ W >= 1 /\ c \in Nat /\ c = 16 * W /\ c >= 1
  BY HashWidths
<1>2. c * d \in Nat /\ l \in Nat
  BY <1>1
<1>3. zeros \in 0 .. c - 1 /\ SizeOf(n) \in {c, 2 * c}
  BY <1>1 DEF SizeOf
<1> HIDE DEF c
<1>4. PICK q0 \in Int : l + 1 + zeros + 2 * W = c * q0
  <2>1. CASE SizeOf(n) = c
    <3>1. c * (d + 1) = c * d + c /\ d + 1 \in Int
      BY <1>1
    <3>2. l + 1 + zeros + 2 * W = c * d + c
      BY <1>1, <1>2, <2>1 DEF c
    <3> QED
      BY <3>1, <3>2
  <2>2. CASE SizeOf(n) = 2 * c
    <3>1. c * (d + 2) = c * d + 2 * c /\ d + 2 \in Int
      BY <1>1
    <3>2. l + 1 + zeros + 2 * W = c * d + 2 * c
      BY <1>1, <1>2, <2>2 DEF c
    <3> QED
      BY <3>1, <3>2
  <2> QED
    BY <1>3, <2>1, <2>2
<1> HIDE DEF zeros, W
<1>5. Fills(zeros)
  <2> DEFINE y == l + 1 + zeros + 2 * W
  <2>1. y = c * q0 + 0 /\ y \in Int /\ 0 \in 0 .. c - 1
    BY <1>1, <1>2, <1>3, <1>4
  <2> HIDE DEF y
  <2>2. y \div c = q0
    BY ONLY <1>1, <2>1, QuotientIs
  <2>3. y = c * (y \div c) + (y % c) /\ y % c \in Int
    <3>1. y \in Int /\ c \in Nat /\ c >= 1
      BY <1>1, <2>1
    <3> QED
      BY ONLY <3>1
  <2>4. c * q0 \in Int /\ y = c * q0 + (y % c)
    BY <1>1, <2>2, <2>3
  <2>5. y % c = 0
    BY <2>1, <2>3, <2>4
  <2> QED
    BY <1>3, <2>5 DEF y
<1>6. ASSUME NEW k, Fills(k) PROVE k = zeros
  <2> DEFINE y == l + 1 + k + 2 * W
             q == y \div c
  <2>1. y \in Int /\ k \in 0 .. c - 1 /\ y % c = 0
    BY <1>1, <1>2, <1>6
  <2>1a. y - k = (l + 1 + zeros + 2 * W) - zeros /\ k \in Int /\ zeros \in Int
    BY <1>1, <1>2, <1>3, <2>1
  <2> HIDE DEF y
  <2>2. y = c * q + (y % c) /\ q \in Int
    BY <1>1, <2>1
  <2> HIDE DEF q
  <2>3. y = c * q /\ c * q \in Int /\ c * q0 \in Int
    BY <1>1, <2>1, <2>2
  <2>4. c * q - k = c * q0 - zeros
    BY <1>4, <2>1a, <2>3
  <2>5. CASE q = q0
    BY <2>1a, <2>3, <2>4, <2>5
  <2>6. CASE q >= q0 + 1
    <3>1. c * (q - q0 - 1) >= 0 /\ c * (q - q0 - 1) = c * q - c * q0 - c
      BY <1>1, <2>2, <2>6
    <3> QED
      BY <1>1, <1>3, <2>1, <2>3, <2>4, <3>1
  <2>7. CASE q <= q0 - 1
    <3>1. c * (q0 - q - 1) >= 0 /\ c * (q0 - q - 1) = c * q0 - c * q - c
      BY <1>1, <2>2, <2>7
    <3> QED
      BY <1>1, <1>3, <2>1, <2>3, <2>4, <3>1
  <2> QED
    BY <2>2, <2>5, <2>6, <2>7
<1>7. (CHOOSE k \in 0 .. c - 1 : (l + 1 + k + 2 * W) % c = 0) = zeros
  BY <1>5, <1>6
<1> QED
  BY <1>7 DEF c, W, zeros

\* The powers of a byte's values multiply to a word's.
LEMMA PowersSplit ==
  \A k \in 0 .. WordBytes : WordSize = ByteSize ^ k * ByteSize ^ (WordBytes - k)
<1> DEFINE n == WordBytes
           T == {k \in 0 .. n : WordSize = ByteSize ^ k * ByteSize ^ (n - k)}
<1>1. n \in Nat /\ n >= 1 /\ ByteSize \in Nat
  BY HashWidths
<1>2. /\ \A k \in 0 .. n : /\ ByteSize ^ (k + 1) = ByteSize * ByteSize ^ k
                           /\ ByteSize ^ k \in Nat
      /\ ByteSize ^ 0 = 1 /\ WordSize = ByteSize ^ n
  <2>1. \A k \in 0 .. n : k \in 0 .. 2 * n
    BY <1>1
  <2> QED
    BY <2>1, ByteWeights
<1>3. 0 \in T
  BY <1>1, <1>2
<1>4. ASSUME NEW k \in 0 .. n - 1, k \in T PROVE k + 1 \in T
  <2> DEFINE g == ByteSize ^ k
             f == ByteSize ^ (n - (k + 1))
  <2>1. k \in 0 .. n /\ k + 1 \in 0 .. n /\ n - (k + 1) \in 0 .. n /\ (n - (k + 1)) + 1 = n - k
    BY <1>1
  <2>2. ByteSize ^ (n - k) = ByteSize * f /\ ByteSize ^ (k + 1) = ByteSize * g /\ f \in Nat /\ g \in Nat
    BY <1>2, <2>1
  <2>3. WordSize = g * ByteSize ^ (n - k)
    BY <1>4
  <2> HIDE DEF f, g
  <2>4. g * (ByteSize * f) = (ByteSize * g) * f
    BY <1>1, <2>2
  <2>5. WordSize = ByteSize ^ (k + 1) * f
    BY <2>2, <2>3, <2>4
  <2> QED
    BY <2>1, <2>5 DEF f
<1>5. \A k \in T : WordSize = ByteSize ^ k * ByteSize ^ (n - k)
  OBVIOUS
<1> HIDE DEF T, n
<1>6. \A k \in 0 .. n : k \in T
  BY ONLY <1>1, <1>3, <1>4, Upwards
<1> QED
  BY <1>5, <1>6 DEF n

\* The length in bits fits one byte more than a word.
LEMMA LengthBytes ==
  ASSUME NEW l \in Nat, l < WordSize, NEW b, b = l * 2 ^ LengthShift
  PROVE  /\ b \in Nat
         /\ \A k \in 0 .. WordBytes - 1 :
              ((b % WordSize) \div ByteSize ^ k) % ByteSize = (b \div ByteSize ^ k) % ByteSize
         /\ (b \div ByteSize ^ WordBytes) % ByteSize = b \div WordSize
         /\ \A k \in WordBytes + 1 .. 2 * WordBytes : (b \div ByteSize ^ k) % ByteSize = 0
<1> DEFINE W == WordBytes
           B == ByteSize
           p == 2 ^ LengthShift
<1>1. W \in Nat /\ W >= 1 /\ B \in Nat /\ B >= 2 /\ WordSize \in Nat /\ WordSize >= 1
  BY HashWidths, ByteWeights
<1>2. p \in 1 .. B - 1
  BY WordPowersAssumption
<1> HIDE DEF p
<1>3. b \in Nat
  BY <1>1, <1>2 DEF p
<1>4. /\ \A k \in 0 .. 2 * W : /\ B ^ (k + 1) = B * B ^ k
                               /\ B ^ k \in Nat /\ B ^ k >= 1
      /\ WordSize = B ^ W
  BY ByteWeights
<1>5. ASSUME NEW k \in 0 .. W - 1
      PROVE ((b % WordSize) \div B ^ k) % B = (b \div B ^ k) % B
  <2> DEFINE g == B ^ k
             f == B ^ (W - k)
             f1 == B ^ (W - (k + 1))
             y == b \div g
  <2>1. /\ k \in 0 .. 2 * W /\ k \in 0 .. W /\ W - k \in 0 .. 2 * W /\ W - (k + 1) \in 0 .. 2 * W
        /\ (W - (k + 1)) + 1 = W - k
    BY <1>1
  <2>2. g \in Nat /\ g >= 1 /\ f \in Nat /\ f >= 1 /\ f1 \in Nat /\ f1 >= 1 /\ f = B * f1
    BY <1>4, <2>1
  <2>3. WordSize = g * f
    BY <2>1, PowersSplit
  <2> HIDE DEF g, f, f1
  <2>4. y \in Int
    BY <1>3, <2>2
  <2>5. (b % (g * f)) \div g = y % f
    <3>1. b \in Int
      BY <1>3
    <3> QED
      BY ONLY <3>1, <2>2, Divisions
  <2> HIDE DEF y
  <2>6. (y % (B * f1)) % B = y % B
    <3>1. B \in Nat /\ B >= 1
      BY <1>1
    <3> HIDE DEF B
    <3> QED
      BY ONLY <3>1, <2>2, <2>4, Divisions
  <2> QED
    BY <2>2, <2>3, <2>5, <2>6 DEF g, y
<1> DEFINE q == b \div WordSize
<1>6. q \in 0 .. B - 1
  <2>1. q \in Int /\ b = WordSize * q + (b % WordSize) /\ b % WordSize \in 0 .. WordSize - 1
    BY <1>1, <1>3
  <2> HIDE DEF q
  <2>2. WordSize * q \in Int /\ WordSize * B \in Int
    BY <1>1, <2>1
  <2>3. b < WordSize * B
    <3>1. l * p <= WordSize * p /\ l * p \in Int
      <4>1. (WordSize - l) * p >= 0 /\ (WordSize - l) * p = WordSize * p - l * p
        BY <1>1, <1>2
      <4>2. l * p \in Int /\ WordSize * p \in Int
        BY <1>1, <1>2
      <4> QED
        BY <4>1, <4>2
    <3>2. WordSize * p < WordSize * B
      <4>1. WordSize * (B - p) >= 1 /\ WordSize * (B - p) = WordSize * B - WordSize * p
        BY <1>1, <1>2
      <4>2. WordSize * p \in Int
        BY <1>1, <1>2
      <4> QED
        BY <2>2, <4>1, <4>2
    <3>3. WordSize * p \in Int
      BY <1>1, <1>2
    <3> QED
      BY <1>3, <2>2, <3>1, <3>2, <3>3 DEF p
  <2>4. ASSUME q >= B PROVE FALSE
    <3>1. WordSize * (q - B) >= 0 /\ WordSize * (q - B) = WordSize * q - WordSize * B
      BY <1>1, <2>1, <2>4
    <3> QED
      BY <1>1, <1>3, <2>1, <2>2, <2>3, <3>1
  <2>5. ASSUME q <= -1 PROVE FALSE
    <3>1. WordSize * (-1 - q) >= 0 /\ WordSize * (-1 - q) = -WordSize - WordSize * q
      BY <1>1, <2>1, <2>5
    <3> QED
      BY <1>1, <1>3, <2>1, <2>2, <3>1
  <2> QED
    BY <1>1, <2>1, <2>4, <2>5
<1>7. (b \div B ^ W) % B = q
  <2>1. b \div B ^ W = q
    BY <1>4
  <2> HIDE DEF q
  <2>2. q % B = q
    BY <1>1, <1>6
  <2> QED
    BY <2>1, <2>2
<1> DEFINE n == W - 1
           T == {k \in 0 .. n : b \div B ^ ((W + 1) + k) = 0}
<1>8. n \in Nat
  BY <1>1
<1>9. ASSUME NEW k \in W .. 2 * W - 1
      PROVE  b \div B ^ (k + 1) = (b \div B ^ k) \div B
  <2> DEFINE g == B ^ k
  <2>1. k \in 0 .. 2 * W
    BY <1>1
  <2>2. B ^ (k + 1) = B * g /\ g \in Nat /\ g >= 1
    BY <1>4, <2>1
  <2> HIDE DEF g
  <2>3. B * g = g * B
    BY <1>1, <2>2
  <2>4. b \div (g * B) = (b \div g) \div B
    <3>1. b \in Int /\ B \in Nat /\ B >= 1
      BY <1>1, <1>3
    <3> HIDE DEF B
    <3> QED
      BY ONLY <3>1, <2>2, Divisions
  <2> QED
    BY <2>2, <2>3, <2>4 DEF g
<1>9a. \A x \in 0 .. B - 1 : x \div B = 0
  <2>1. ASSUME NEW x \in 0 .. B - 1 PROVE x \div B = 0
    <3>1. x = B * 0 + x /\ B >= 1
      BY <1>1
    <3> QED
      BY ONLY <1>1, <3>1, x \in 0 .. B - 1, 0 \in Int, QuotientIs
  <2> QED
    BY <2>1
<1>10. 0 \in T
  <2>1. W \in W .. 2 * W - 1
    BY <1>1
  <2>2. b \div B ^ (W + 1) = q \div B
    BY <1>4, <1>9, <2>1
  <2>3. q \div B = 0
    BY <1>6, <1>9a
  <2>4. (W + 1) + 0 = W + 1 /\ 0 \in 0 .. n
    BY <1>1
  <2> QED
    BY <2>2, <2>3, <2>4
<1>11. ASSUME NEW k \in 0 .. n - 1, k \in T PROVE k + 1 \in T
  <2> DEFINE i == (W + 1) + k
  <2>1. i \in W .. 2 * W - 1 /\ (W + 1) + (k + 1) = i + 1 /\ k + 1 \in 0 .. n
    BY <1>1
  <2>2. b \div B ^ i = 0
    BY <1>11
  <2> HIDE DEF i
  <2>3. b \div B ^ (i + 1) = 0 \div B
    BY <1>9, <2>1, <2>2
  <2>4. 0 \div B = 0
    BY <1>1, <1>9a
  <2> QED
    BY <2>1, <2>3, <2>4
<1>12. \A k \in T : b \div B ^ ((W + 1) + k) = 0
  OBVIOUS
<1> HIDE DEF T
<1>13. \A k \in 0 .. n : k \in T
  <2> HIDE DEF n
  <2> QED
    BY ONLY <1>8, <1>10, <1>11, Upwards
<1>14. ASSUME NEW k \in W + 1 .. 2 * W PROVE (b \div B ^ k) % B = 0
  <2>1. k - (W + 1) \in 0 .. n /\ (W + 1) + (k - (W + 1)) = k
    BY <1>1
  <2>2. b \div B ^ k = 0
    BY <1>12, <1>13, <2>1
  <2>3. 0 % B = 0
    BY <1>1
  <2> QED
    BY <2>2, <2>3
<1> QED
  BY <1>3, <1>5, <1>7, <1>14 DEF q

Joined(m, x, i, t) == m \o <<x>> \o [k \in 1 .. i |-> 0] \o t

IsJoined(y, m, x, i, j, t) ==
  /\ y \in Seq(Octet) /\ Len(y) = Len(m) + 1 + i + j
  /\ \A k \in 1 .. Len(m) : y[k] = m[k]
  /\ y[Len(m) + 1] = x
  /\ \A k \in Len(m) + 2 .. Len(m) + 1 + i : y[k] = 0
  /\ \A k \in 1 .. j : y[Len(m) + 1 + i + k] = t[k]

\* A byte string, one byte, zeros and a second string, element for element.
LEMMA JoinedIs ==
  ASSUME NEW m \in Seq(Octet), NEW x \in Octet, NEW i \in Nat, NEW j \in Nat,
         NEW t \in [1 .. j -> Octet]
  PROVE  IsJoined(Joined(m, x, i, t), m, x, i, j, t)
<1> DEFINE l == Len(m)
           y == Joined(m, x, i, t)
           p == <<x>>
           g == [k \in 1 .. i |-> 0]
           q == m \o p
           r == q \o g
<1>1. l \in Nat /\ 0 \in Octet
  BY HashWidths, LenProperties DEF Octet
<1>2. p \in Seq(Octet) /\ Len(p) = 1 /\ p[1] = x
  OBVIOUS
<1>3. g \in Seq(Octet) /\ Len(g) = i /\ \A k \in 1 .. i : g[k] = 0
  <2>1. g \in [1 .. i -> Octet]
    BY <1>1
  <2>2. \A k \in 1 .. i : g[k] = 0
    OBVIOUS
  <2> HIDE DEF g
  <2> QED
    BY ONLY <2>1, <2>2, i \in Nat, LengthIs
<1>4. t \in Seq(Octet) /\ Len(t) = j
  BY ONLY t \in [1 .. j -> Octet], j \in Nat, LengthIs
<1>5. y = r \o t
  BY DEF Joined
<1> HIDE DEF p, g, y
<1>6. /\ q \in Seq(Octet) /\ Len(q) = l + 1
      /\ \A k \in 1 .. l + 1 : q[k] = IF k <= l THEN m[k] ELSE p[k - l]
  <2>1. q \in Seq(Octet) /\ Len(q) = Len(m) + Len(p)
        /\ \A k \in 1 .. Len(m) + Len(p) : q[k] = IF k <= Len(m) THEN m[k] ELSE p[k - Len(m)]
    BY <1>2, ConcatProperties
  <2> QED
    BY <1>2, <2>1
<1> HIDE DEF q
<1>7. /\ r \in Seq(Octet) /\ Len(r) = l + 1 + i
      /\ \A k \in 1 .. l + 1 + i : r[k] = IF k <= l + 1 THEN q[k] ELSE g[k - (l + 1)]
  <2>0. q \in Seq(Octet) /\ g \in Seq(Octet)
    BY <1>3, <1>6
  <2>1. r \in Seq(Octet) /\ Len(r) = Len(q) + Len(g)
        /\ \A k \in 1 .. Len(q) + Len(g) : r[k] = IF k <= Len(q) THEN q[k] ELSE g[k - Len(q)]
    BY ONLY <2>0, ConcatProperties
  <2> QED
    BY <1>3, <1>6, <2>1
<1> HIDE DEF r
<1>8. /\ y \in Seq(Octet) /\ Len(y) = l + 1 + i + j
      /\ \A k \in 1 .. l + 1 + i + j :
           y[k] = IF k <= l + 1 + i THEN r[k] ELSE t[k - (l + 1 + i)]
  <2> DEFINE v == r \o t
  <2>1. r \in Seq(Octet) /\ t \in Seq(Octet)
    BY <1>4, <1>7
  <2>2. v \in Seq(Octet) /\ Len(v) = Len(r) + Len(t)
        /\ \A k \in 1 .. Len(r) + Len(t) : v[k] = IF k <= Len(r) THEN r[k] ELSE t[k - Len(r)]
    BY ONLY <2>1, ConcatProperties
  <2>3. y = v
    BY <1>5
  <2> HIDE DEF v
  <2> QED
    BY <1>4, <1>7, <2>2, <2>3
<1>9. ASSUME NEW k \in 1 .. l PROVE y[k] = m[k]
  <2>1. /\ k \in 1 .. l + 1 /\ k \in 1 .. l + 1 + i /\ k \in 1 .. l + 1 + i + j
        /\ k <= l /\ k <= l + 1 /\ k <= l + 1 + i
    BY <1>1
  <2> QED
    BY <1>6, <1>7, <1>8, <2>1
<1>10. y[l + 1] = x
  <2>1. /\ l + 1 \in 1 .. l + 1 /\ l + 1 \in 1 .. l + 1 + i /\ l + 1 \in 1 .. l + 1 + i + j
        /\ ~(l + 1 <= l) /\ l + 1 <= l + 1 /\ l + 1 <= l + 1 + i /\ (l + 1) - l = 1
    BY <1>1
  <2> QED
    BY <1>2, <1>6, <1>7, <1>8, <2>1
<1>11. ASSUME NEW k \in l + 2 .. l + 1 + i PROVE y[k] = 0
  <2>1. /\ k \in 1 .. l + 1 + i /\ k \in 1 .. l + 1 + i + j /\ ~(k <= l + 1) /\ k <= l + 1 + i
        /\ k - (l + 1) \in 1 .. i
    BY <1>1
  <2> QED
    BY <1>3, <1>7, <1>8, <2>1
<1>12. ASSUME NEW k \in 1 .. j PROVE y[l + 1 + i + k] = t[k]
  <2>1. /\ l + 1 + i + k \in 1 .. l + 1 + i + j /\ ~(l + 1 + i + k <= l + 1 + i)
        /\ (l + 1 + i + k) - (l + 1 + i) = k
    BY <1>1
  <2> QED
    BY <1>8, <2>1
<1>13. IsJoined(y, m, x, i, j, t)
  BY <1>8, <1>9, <1>10, <1>11, <1>12 DEF IsJoined
<1> QED
  BY <1>13 DEF y

\* The padded message: whole blocks, of which the message is the beginning.
LEMMA PaddedIs ==
  ASSUME NEW m \in Seq(Octet), NEW d \in Nat, NEW n \in 0 .. Block - 1,
         NEW l, l = Len(m), l = Block * d + n,
         NEW y, y = Padded(m), NEW e, e = Block * d + SizeOf(n) - 2 * WordBytes
  PROVE  /\ y \in Seq(Octet) /\ Len(y) = e + 2 * WordBytes
         /\ e >= l + 1
         /\ \A k \in 1 .. l : y[k] = m[k]
         /\ y[l + 1] = ByteSize \div 2
         /\ \A k \in l + 2 .. e : y[k] = 0
         /\ \A k \in 1 .. 2 * WordBytes :
              y[e + k] = ((l * 2 ^ LengthShift) \div (ByteSize ^ (2 * WordBytes - k))) % ByteSize
<1> DEFINE W == WordBytes
           i == SizeOf(n) - n - 1 - 2 * W
           j == 2 * W
           x == ByteSize \div 2
           b == l * 2 ^ LengthShift
           t == [k \in 1 .. 2 * W |-> (b \div (ByteSize ^ (2 * W - k))) % ByteSize]
<1>1. W \in Nat /\ W >= 1 /\ Block \in Nat /\ Block = 16 * W /\ ByteSize \in Nat /\ ByteSize >= 2
  BY HashWidths
<1>2. i \in Nat /\ j \in Nat /\ l \in Nat
  <2>1. l \in Nat
    BY LenProperties
  <2> QED
    BY <1>1, <2>1 DEF SizeOf
<1>3. x \in Octet
  BY <1>1 DEF Octet
<1>4. t \in [1 .. j -> Octet]
  <2>1. b \in Int
    <3>1. 2 ^ LengthShift \in Int
      BY <1>1, WordPowersAssumption
    <3> QED
      BY <1>2, <3>1
  <2> HIDE DEF b
  <2>2. ASSUME NEW k \in 1 .. 2 * W
        PROVE (b \div (ByteSize ^ (2 * W - k))) % ByteSize \in Octet
    <3> DEFINE g == ByteSize ^ (2 * W - k)
               q == b \div g
    <3>1. 2 * W - k \in 0 .. 2 * W
      BY <1>1
    <3>2. g \in Nat /\ g >= 1
      BY <3>1, ByteWeights
    <3> HIDE DEF g
    <3>3. q \in Int
      BY <2>1, <3>2
    <3> HIDE DEF q
    <3>4. q % ByteSize \in 0 .. ByteSize - 1
      BY <1>1, <3>3
    <3> QED
      BY <3>4 DEF q, g, Octet
  <2> QED
    BY <2>2
<1>5. y = Joined(m, x, i, t)
  <2>1. (CHOOSE k \in 0 .. Block - 1 : (Len(m) + 1 + k + 2 * W) % Block = 0) = i
    BY ZerosAre
  <2> HIDE DEF i
  <2> QED
    BY <2>1 DEF Padded, Joined
<1>6. \A k \in 1 .. j : t[k] = (b \div (ByteSize ^ (2 * W - k))) % ByteSize
  OBVIOUS
<1>7. l + 1 + i = e /\ l + 1 + i + j = e + j /\ e >= l + 1
  <2> DEFINE c == Block * d
             v == SizeOf(n)
  <2>1. c \in Int /\ v \in Int /\ n \in Int /\ l = c + n /\ e = c + v - 2 * W
    BY <1>1 DEF SizeOf
  <2>2. i = v - n - 1 - 2 * W
    OBVIOUS
  <2> HIDE DEF c, v, i
  <2> QED
    BY <1>1, <1>2, <2>1, <2>2
<1> HIDE DEF i, x, t
<1>8. /\ y \in Seq(Octet) /\ Len(y) = l + 1 + i + j
      /\ \A k \in 1 .. l : y[k] = m[k]
      /\ y[l + 1] = x
      /\ \A k \in l + 2 .. l + 1 + i : y[k] = 0
      /\ \A k \in 1 .. j : y[l + 1 + i + k] = t[k]
  <2> HIDE DEF j
  <2> DEFINE v == Joined(m, x, i, t)
  <2>1. IsJoined(v, m, x, i, j, t)
    BY ONLY <1>2, <1>3, <1>4, m \in Seq(Octet), JoinedIs, Zenon
  <2> HIDE DEF v
  <2>2. y = v /\ l = Len(m)
    BY <1>5 DEF v
  <2> QED
    BY ONLY <2>1, <2>2 DEF IsJoined
<1> QED
  BY <1>6, <1>7, <1>8 DEF x

\* The last blocks are the padded message from where the message's blocks ended.
LEMMA LastBlocksAre ==
  ASSUME NEW m \in Seq(Octet), Len(m) < WordSize, NEW d \in Nat, NEW l, l = Len(m),
         d * Block <= l, NEW r, r = SubSeq(m, d * Block + 1, l), Len(r) < Block,
         NEW y, y = Padded(m)
  PROVE  /\ d * Block <= Len(y)
         /\ LastBlocks(r, l) = SubSeq(y, d * Block + 1, Len(y))
<1> DEFINE W == WordBytes
           c == d * Block
           n == l - c
           size == SizeOf(n)
           e == Block * d + size - 2 * W
           b == l * 2 ^ LengthShift
           u == b % WordSize
           length == ts64(u)
           last == LastBlocks(r, l)
           at(k) == CASE k <= Len(r) -> r[k]
                      [] k = Len(r) + 1 -> ByteSize \div 2
                      [] k = size - W -> b \div WordSize
                      [] k > size - W -> length[k - size + W]
                      [] OTHER -> 0
<1>1. W \in Nat /\ W >= 1 /\ Block \in Nat /\ Block = 16 * W
  BY HashWidths
<1>2. c \in Nat /\ Block * d = c /\ d * Block = c /\ l \in Nat /\ n \in Nat /\ c + n = l
  <2>1. l \in Nat
    BY LenProperties
  <2> QED
    BY <1>1, <2>1
<1>3. r \in Seq(Octet) /\ Len(r) = n /\ \A k \in 1 .. n : r[k] = m[c + k]
  <2> HIDE DEF c, n
  <2>1. r = SubSeq(m, c + 1, c + n) /\ c + n <= Len(m)
    <3>1. c + n = l /\ d * Block = c /\ l \in Nat
      BY <1>2
    <3>2. r = SubSeq(m, c + 1, l)
      BY <3>1
    <3>3. l = Len(m) /\ l <= l
      BY <3>1
    <3>4. r = SubSeq(m, c + 1, c + n)
      BY ONLY <3>1, <3>2
    <3> QED
      BY ONLY <3>1, <3>3, <3>4
  <2>2. c \in Nat /\ n \in Nat
    BY <1>2
  <2> DEFINE t == SubSeq(m, c + 1, c + n)
  <2>3. t \in Seq(Octet) /\ Len(t) = n /\ \A k \in 1 .. n : t[k] = m[c + k]
    <3>1. m \in Seq(Octet) /\ c \in Nat /\ n \in Nat /\ c + n <= Len(m)
      BY <2>1, <2>2
    <3>2. t = SubSeq(m, c + 1, c + n)
      OBVIOUS
    <3> HIDE DEF t
    <3> QED
      BY ONLY <3>1, <3>2, SliceOf
  <2> HIDE DEF t
  <2>4. r = t
    BY <2>1 DEF t
  <2> QED
    BY <2>3, <2>4
<1>4. n \in 0 .. Block - 1 /\ l = Block * d + n
  BY <1>1, <1>2, <1>3
<1>5. size \in Nat /\ size >= n + 1 + 2 * W /\ e = c + size - 2 * W
  <2> HIDE DEF n, c
  <2>1. size = IF n < Block - 2 * W THEN Block ELSE 2 * Block
    BY DEF SizeOf
  <2>2. W \in Nat /\ W >= 1 /\ Block = 16 * W /\ n \in Nat /\ n <= Block - 1
    BY <1>1, <1>2, <1>4
  <2>3. e = c + size - 2 * W
    BY <1>2
  <2> HIDE DEF size
  <2>4. size \in Nat /\ size >= n + 1 + 2 * W
    BY ONLY <2>1, <2>2
  <2> QED
    BY <2>3, <2>4
<1>6. last = [k \in 1 .. size |-> at(k)]
  <2> DEFINE Ending(v) == [k \in 1 .. v |->
                             CASE k <= Len(r) -> r[k]
                               [] k = Len(r) + 1 -> ByteSize \div 2
                               [] k = v - W -> b \div WordSize
                               [] k > v - W -> length[k - v + W]
                               [] OTHER -> 0]
  <2>1. size = IF Len(r) < Block - 2 * W THEN Block ELSE 2 * Block
    BY <1>3 DEF SizeOf
  <2> HIDE DEF n, size
  <2>2. last = Ending(IF Len(r) < Block - 2 * W THEN Block ELSE 2 * Block)
    BY DEF LastBlocks
  <2>3. Ending(size) = [k \in 1 .. size |-> at(k)]
    OBVIOUS
  <2> HIDE DEF Ending, last
  <2> QED
    BY <2>1, <2>2, <2>3
<1> HIDE DEF n, c
<1>7. /\ y \in Seq(Octet) /\ Len(y) = e + 2 * W
      /\ \A k \in 1 .. l : y[k] = m[k]
      /\ y[l + 1] = ByteSize \div 2
      /\ \A k \in l + 2 .. e : y[k] = 0
      /\ \A k \in 1 .. 2 * W : y[e + k] = (b \div (ByteSize ^ (2 * W - k))) % ByteSize
  <2>1. e = Block * d + SizeOf(n) - 2 * W
    OBVIOUS
  <2> HIDE DEF e, size
  <2> QED
    BY ONLY <1>4, <2>1, m \in Seq(Octet), d \in Nat, l = Len(m), y = Padded(m), PaddedIs
<1> HIDE DEF size
<1>8. /\ b \in Nat
      /\ \A k \in 0 .. W - 1 : (u \div ByteSize ^ k) % ByteSize = (b \div ByteSize ^ k) % ByteSize
      /\ (b \div ByteSize ^ W) % ByteSize = b \div WordSize
      /\ \A k \in W + 1 .. 2 * W : (b \div ByteSize ^ k) % ByteSize = 0
  BY <1>2, LengthBytes
<1>9. \A k \in 1 .. W : length[k] = (u \div ByteSize ^ (W - k)) % ByteSize
  BY DEF ts64
<1> HIDE DEF b, c, e, length, u, last
<1>10. e \in Int
  BY <1>2, <1>5, <1>1
<1>11. ASSUME NEW k \in 1 .. size PROVE at(k) = y[c + k]
  <2>1. CASE k <= n
    <3>1. /\ c + k \in 1 .. l /\ k \in 1 .. n
          /\ k # n + 1 /\ k # size - W /\ ~(k > size - W)
      BY <1>1, <1>2, <1>5, <2>1
    <3>2. at(k) = r[k]
      BY <1>3, <2>1, <3>1
    <3> QED
      BY <1>3, <1>7, <3>1, <3>2
  <2>2. CASE k = n + 1
    <3>1. c + k = l + 1 /\ ~(k <= n) /\ k # size - W /\ ~(k > size - W)
      <4>1. /\ c \in Nat /\ n \in Nat /\ c + n = l /\ W \in Nat /\ W >= 1
            /\ size \in Nat /\ size >= n + 1 + 2 * W
        BY <1>1, <1>2, <1>5
      <4> QED
        BY ONLY <2>2, <4>1
    <3>2. at(k) = ByteSize \div 2
      BY <1>3, <2>2, <3>1
    <3> QED
      BY <1>7, <3>1, <3>2
  <2>3. CASE k > n + 1 /\ k <= size - 2 * W
    <3>1. c + k \in l + 2 .. e /\ ~(k <= n) /\ k # n + 1 /\ k # size - W /\ ~(k > size - W)
      BY <1>1, <1>2, <1>5, <2>3
    <3>2. at(k) = 0
      BY <1>3, <3>1
    <3> QED
      BY <1>7, <3>1, <3>2
  <2>4. CASE k > size - 2 * W
    <3> DEFINE j == k - (size - 2 * W)
    <3>1. /\ j \in 1 .. 2 * W /\ c + k = e + j /\ ~(k <= n) /\ k # n + 1
          /\ (k = size - W) <=> (j = W)
          /\ (k > size - W) <=> (j > W)
          /\ k - size + W = j - W
      BY <1>1, <1>2, <1>5, <2>4
    <3> HIDE DEF j
    <3>2. y[c + k] = (b \div (ByteSize ^ (2 * W - j))) % ByteSize
      BY <1>7, <3>1
    <3>3. CASE j = W
      <4>1. at(k) = b \div WordSize
        BY <1>3, <3>1, <3>3
      <4>2. 2 * W - j = W
        BY <1>1, <3>3
      <4> QED
        BY <1>8, <3>2, <4>1, <4>2
    <3>4. CASE j > W
      <4>1. at(k) = length[j - W]
        <5>1. k # size - W /\ k > size - W
          BY <1>1, <3>1, <3>4
        <5> QED
          BY <1>3, <3>1, <5>1
      <4>2. j - W \in 1 .. W /\ W - (j - W) = 2 * W - j /\ 2 * W - j \in 0 .. W - 1
        BY <1>1, <3>1, <3>4
      <4>3. length[j - W] = (u \div ByteSize ^ (2 * W - j)) % ByteSize
        BY <1>9, <4>2
      <4> QED
        BY <1>8, <3>2, <4>1, <4>2, <4>3
    <3>5. CASE j < W
      <4>1. at(k) = 0
        <5>1. k # size - W /\ ~(k > size - W)
          BY <1>1, <3>1, <3>5
        <5> QED
          BY <1>3, <3>1, <5>1
      <4>2. 2 * W - j \in W + 1 .. 2 * W
        BY <1>1, <3>1, <3>5
      <4> QED
        BY <1>8, <3>2, <4>1, <4>2
    <3> HIDE DEF at
    <3> QED
      BY <1>1, <3>1, <3>3, <3>4, <3>5
  <2> HIDE DEF at
  <2> QED
    BY <1>1, <1>2, <1>5, <2>1, <2>2, <2>3, <2>4
<1> HIDE DEF at
<1>12. Len(y) = c + size /\ c <= Len(y)
  BY <1>1, <1>2, <1>5, <1>7
<1>13. last = SubSeq(y, c + 1, c + size)
  <2> DEFINE t == SubSeq(y, c + 1, c + size)
  <2>1. c + size <= Len(y)
    BY <1>12, <1>2, <1>5
  <2>2. t \in Seq(Octet) /\ Len(t) = size /\ \A k \in 1 .. size : t[k] = y[c + k]
    BY ONLY <1>2, <1>5, <1>7, <2>1, t = SubSeq(y, c + 1, c + size), SliceOf
  <2> HIDE DEF t
  <2>3. t = [k \in 1 .. size |-> t[k]]
    BY <2>2
  <2>4. \A k \in 1 .. size : at(k) = t[k]
    BY <1>11, <2>2
  <2>5. last = t
    BY <1>6, <2>3, <2>4
  <2> QED
    BY <2>5 DEF t
<1> QED
  BY <1>12, <1>13 DEF last, c

-----------------------------------------------------------------------------
(***************************************************************************)
(* Block after block.                                                      *)
(***************************************************************************)

\* What d blocks leave of a byte string.
Left(s, d) == SubSeq(s, d * Block + 1, Len(s))

\* It shrinks by the next block, which is a block of the whole.
LEMMA LeftIs ==
  ASSUME NEW s \in Seq(Octet), NEW d \in Nat, d * Block <= Len(s)
  PROVE  /\ Left(s, d) \in Seq(Octet) /\ Len(Left(s, d)) = Len(s) - d * Block
         /\ Len(Left(s, d)) >= Block =>
              /\ (d + 1) * Block <= Len(s)
              /\ SubSeq(Left(s, d), 1, Block) = SubSeq(s, d * Block + 1, (d + 1) * Block)
              /\ SubSeq(Left(s, d), Block + 1, Len(Left(s, d))) = Left(s, d + 1)
<1> DEFINE c == d * Block
           n == Len(s) - c
           t == Left(s, d)
<1>1. Block \in Nat /\ Len(s) \in Nat
  BY HashWidths, LenProperties
<1>2. c \in Nat /\ n \in Nat /\ c + n = Len(s) /\ (d + 1) * Block = c + Block
  BY <1>1
<1>3. t = SubSeq(s, c + 1, Len(s)) /\ Left(s, d + 1) = SubSeq(s, (d + 1) * Block + 1, Len(s))
  BY DEF Left
<1> HIDE DEF c, n, t
<1>4. t = SubSeq(s, c + 1, c + n) /\ c + n <= Len(s)
  <2>1. c + n = Len(s) /\ Len(s) \in Nat /\ c \in Nat /\ n \in Nat
    BY <1>1, <1>2
  <2>2. t = SubSeq(s, c + 1, Len(s))
    BY <1>3
  <2> QED
    BY ONLY <2>1, <2>2
<1>5. t \in Seq(Octet) /\ Len(t) = n
  <2>1. SubSeq(s, c + 1, c + n) \in Seq(Octet) /\ Len(SubSeq(s, c + 1, c + n)) = n
    <3> DEFINE x == SubSeq(s, c + 1, c + n)
    <3>1. x \in Seq(Octet) /\ Len(x) = n /\ \A k \in 1 .. n : x[k] = s[c + k]
      BY <1>2, <1>4, SliceOf
    <3> QED
      BY <3>1
  <2> QED
    BY <1>4, <2>1
<1>6. ASSUME Len(t) >= Block
      PROVE  /\ (d + 1) * Block <= Len(s)
             /\ SubSeq(t, 1, Block) = SubSeq(s, c + 1, (d + 1) * Block)
             /\ SubSeq(t, Block + 1, Len(t)) = Left(s, d + 1)
  <2>1. n >= Block /\ n - Block \in Nat /\ Block + (n - Block) = n
    BY <1>1, <1>2, <1>5, <1>6
  <2>2. SubSeq(SubSeq(s, c + 1, c + n), 0 + 1, 0 + Block) = SubSeq(s, c + 0 + 1, c + 0 + Block)
    <3>1. 0 \in Nat /\ 0 + Block <= n
      BY <1>1, <2>1
    <3>2. SliceWithin(s, c, n, 0, Block)
      BY ONLY <1>1, <1>2, <1>4, <3>1, s \in Seq(Octet), SliceOfSlice, Zenon
    <3> QED
      BY ONLY <3>2 DEF SliceWithin
  <2>3. SubSeq(SubSeq(s, c + 1, c + n), Block + 1, Block + (n - Block))
          = SubSeq(s, c + Block + 1, c + Block + (n - Block))
    <3>1. Block + (n - Block) <= n
      BY <1>2, <2>1
    <3>2. SliceWithin(s, c, n, Block, n - Block)
      BY ONLY <1>1, <1>2, <1>4, <2>1, <3>1, s \in Seq(Octet), SliceOfSlice, Zenon
    <3> QED
      BY ONLY <3>2 DEF SliceWithin
  <2>4. /\ 0 + 1 = 1 /\ 0 + Block = Block /\ c + 0 + 1 = c + 1 /\ c + 0 + Block = (d + 1) * Block
        /\ c + Block + 1 = (d + 1) * Block + 1 /\ c + Block + (n - Block) = Len(s)
    BY <1>1, <1>2
  <2>5. SubSeq(t, 1, Block) = SubSeq(s, c + 1, (d + 1) * Block)
    BY <1>4, <2>2, <2>4
  <2>6. SubSeq(t, Block + 1, Len(t)) = SubSeq(s, (d + 1) * Block + 1, Len(s))
    BY <1>4, <1>5, <2>1, <2>3, <2>4
  <2>7. (d + 1) * Block <= Len(s)
    BY <1>1, <1>2, <2>1
  <2> QED
    BY <1>3, <2>5, <2>6, <2>7
<1> QED
  BY <1>5, <1>6 DEF c, n, t

\* A text is a byte string, and the beginning of its padded form.
LEMMA TextIs ==
  ASSUME NEW m \in Texts
  PROVE  /\ m \in Seq(Octet) /\ Len(m) \in Nat /\ Len(m) < WordSize
         /\ Padded(m) \in Seq(Octet) /\ Len(Padded(m)) \in Nat /\ Len(m) < Len(Padded(m))
         /\ \A k \in 1 .. Len(m) : Padded(m)[k] = m[k]
<1> DEFINE l == Len(m)
           d == l \div Block
           n == l % Block
           y == Padded(m)
           e == Block * d + SizeOf(n) - 2 * WordBytes
<1>1. m \in Seq(Octet) /\ l < WordSize
  BY HashAssumption
<1>2. /\ l \in Nat /\ Block \in Nat /\ Block >= 1
      /\ WordBytes \in Nat /\ WordBytes >= 1
  BY <1>1, HashWidths, LenProperties
<1>3. d \in Nat /\ n \in 0 .. Block - 1 /\ l = Block * d + n
  <2>1. d \in Int /\ n \in 0 .. Block - 1 /\ l = Block * d + n
    BY <1>2
  <2> HIDE DEF d, n, l
  <2>2. ASSUME d <= -1 PROVE FALSE
    <3>1. Block * (-1 - d) >= 0 /\ Block * (-1 - d) = -Block - Block * d /\ Block * d \in Int
      BY <1>2, <2>1, <2>2
    <3> QED
      BY <1>2, <2>1, <3>1
  <2> QED
    BY <2>1, <2>2
<1> HIDE DEF d, n
<1>4. /\ y \in Seq(Octet) /\ Len(y) = e + 2 * WordBytes /\ e >= l + 1
      /\ \A k \in 1 .. l : y[k] = m[k]
  <2>1. l = Len(m) /\ e = Block * d + SizeOf(n) - 2 * WordBytes /\ y = Padded(m)
    OBVIOUS
  <2> HIDE DEF l, e, y
  <2> QED
    BY ONLY <1>1, <1>3, <2>1, PaddedIs
<1>5. e \in Int
  <2>1. Block * d \in Int /\ SizeOf(n) \in Int
    BY <1>2, <1>3 DEF SizeOf
  <2> QED
    BY <1>2, <2>1
<1> HIDE DEF y, e
<1>6. Len(y) \in Nat /\ l < Len(y)
  BY <1>2, <1>4, <1>5
<1> QED
  BY <1>1, <1>2, <1>4, <1>6 DEF y

-----------------------------------------------------------------------------
(***************************************************************************)
(* The invariant.                                                          *)
(***************************************************************************)
Variables == [a : Word, b : Word, c : Word, d : Word, e : Word, f : Word, g : Word, h : Word]

History == [padded : Seq(Octet), taken : Nat, schedule : Seq(Word),
            chain : State, working : Variables]

\* What the call works through, and how many blocks of it are done.
Source == IF stage = "message" THEN text ELSE standard.padded

Done == IF round = -1 THEN standard.taken ELSE standard.taken - 1

Loaded ==
  \E v \in [1 .. 16 -> Word] :
    /\ standard.schedule = Schedule(v)
    /\ round < Rounds => /\ w \in [1 .. 16 -> Word]
                         /\ \A j \in 1 .. 16 : w[j] = standard.schedule[16 * (round \div 16) + j]

Running ==
  /\ out = <<>>
  /\ text \in Texts
  /\ standard \in History /\ standard.padded = Padded(text)
  /\ z \in State /\ standard.chain = z
  /\ a \in State /\ standard.working = Named(a)
  /\ Done \in Nat /\ Done * Block <= Len(Source) /\ rest = Left(Source, Done)
  /\ IF round = -1 THEN a = z ELSE Len(rest) >= Block /\ Loaded

\* A call is where the standard is: the same block, the same round, the same
\* state, the same words ahead.
HashInv ==
  /\ stage \in {"ready", "message", "tail"}
  /\ round \in -1 .. Rounds
  /\ IF stage = "ready" THEN round = -1 /\ DigestIsStandard ELSE Running

\* The invariant is stronger than the property.
LEMMA HashInvImplies == HashInv => HashIsStandard
<1> SUFFICES ASSUME HashInv PROVE HashIsStandard
  OBVIOUS
<1>1. ScheduleIsStandard
  <2> SUFFICES ASSUME round \in 0 .. Rounds - 1
               PROVE  \A j \in 1 .. 16 : w[j] = standard.schedule[16 * (round \div 16) + j]
    BY DEF ScheduleIsStandard
  <2>1. round # -1 /\ round < Rounds
    BY HashWidths
  <2>2. Loaded
    BY <2>1 DEF HashInv, Running
  <2> QED
    BY <2>1, <2>2 DEF Loaded
<1>2. PaddingIsStandard
  <2> SUFFICES ASSUME stage = "tail", round = -1
               PROVE  rest = SubSeq(standard.padded, Len(standard.padded) - Len(rest) + 1,
                                    Len(standard.padded))
    BY DEF PaddingIsStandard
  <2> DEFINE y == standard.padded
             d == standard.taken
             c == d * Block
  <2>1. Running
    BY DEF HashInv
  <2>2. /\ d \in Nat /\ c <= Len(y) /\ rest = Left(y, d) /\ y \in Seq(Octet)
    BY <2>1 DEF Running, Done, Source, History
  <2>3. Block \in Nat /\ Len(y) \in Nat
    BY <2>2, HashWidths, LenProperties
  <2> HIDE DEF y, d
  <2>4. Len(rest) = Len(y) - c
    BY <2>2, LeftIs
  <2>5. c \in Nat /\ rest = SubSeq(y, c + 1, Len(y))
    BY <2>2, <2>3 DEF Left
  <2> HIDE DEF c
  <2>6. Len(y) - Len(rest) + 1 = c + 1
    BY <2>3, <2>4, <2>5
  <2> QED
    BY <2>5, <2>6 DEF y
<1>3. DigestIsStandard
  BY DEF HashInv, Running, DigestIsStandard
<1> QED
  BY <1>1, <1>2, <1>3 DEF HashIsStandard

\* No call has been made: nothing to compare.
LEMMA HashInvInit == HashInit => HashInv
<1> SUFFICES ASSUME HashInit PROVE HashInv
  OBVIOUS
<1>1. -1 \in -1 .. Rounds
  BY HashWidths
<1> QED
  BY <1>1 DEF HashInit, HashInv, DigestIsStandard

\* The state by its names.
LEMMA NamedIs == ASSUME NEW y \in State PROVE Named(y) \in Variables
BY DEF State, Named, Variables

\* A call starts where the standard starts.
LEMMA CallKeeps ==
  ASSUME HashInv, NEW m \in Texts, crypto_hash(m)
  PROVE  HashInv'
<1> DEFINE y == Words(IV)
<1>1. y \in State
  <2>1. IV \in [1 .. 8 * WordBytes -> Octet] /\ 8 * WordBytes \in Nat /\ 8 \in Nat
    <3>1. IV \in [1 .. 8 * WordBytes -> Octet] /\ WordBytes \in Nat
      BY ONLY HashAssumption
    <3> QED
      BY <3>1
  <2>2. IV \in Seq(Octet) /\ Len(IV) = 8 * WordBytes
    BY ONLY <2>1, LengthIs
  <2> QED
    BY <2>1, <2>2, WordsAre DEF State
<1> HIDE DEF y
<1>2. /\ stage' = "message" /\ text' = m /\ out' = <<>> /\ round' = -1
      /\ z' = y /\ a' = y /\ rest' = m
      /\ standard' = [padded |-> Padded(m), taken |-> 0, schedule |-> <<>>,
                      chain |-> y, working |-> Named(y)]
  BY DEF crypto_hash, EnterHashBlocks, StandardStarts, HashInv, y
<1>3. /\ m \in Seq(Octet) /\ Len(m) \in Nat /\ Padded(m) \in Seq(Octet)
  BY TextIs
<1>4. standard' \in History
  BY <1>1, <1>2, <1>3, NamedIs DEF History
<1>5. 0 * Block = 0 /\ 0 + 1 = 1
  BY HashWidths
<1>6. Left(m, 0) = m
  <2>1. Left(m, 0) = SubSeq(m, 1, Len(m))
    BY <1>5 DEF Left
  <2>2. SubSeq(m, 1, Len(m)) = m
    BY <1>3
  <2> QED
    BY <2>1, <2>2
<1>7. Source' = m /\ Done' = 0
  BY <1>2 DEF Source, Done
<1>8. 0 * Block <= Len(m)
  BY <1>3, <1>5
<1>9. Running'
  BY <1>1, <1>2, <1>4, <1>6, <1>7, <1>8 DEF Running
<1>10. -1 \in -1 .. Rounds
  BY HashWidths
<1> QED
  BY <1>2, <1>9, <1>10 DEF HashInv

\* What is left of the text's blocks and of the padded message's are the same
\* blocks, as long as the text has them.
LEMMA BlockIs ==
  ASSUME Running, stage \in {"message", "tail"}, round = -1, Len(rest) >= Block,
         NEW d, d = standard.taken, NEW y, y = standard.padded
  PROVE  /\ Source \in Seq(Octet)
         /\ SubSeq(rest, 1, Block) = SubSeq(y, d * Block + 1, (d + 1) * Block)
         /\ SubSeq(rest, 1, Block) \in Seq(Octet) /\ Len(SubSeq(rest, 1, Block)) = Block
         /\ d \in Nat /\ d * Block # Len(y)
<1> DEFINE c == d * Block
           s == Source
           e == (d + 1) * Block
<1>1. /\ d \in Nat /\ c <= Len(s) /\ rest = Left(s, d) /\ text \in Texts /\ y = Padded(text)
  BY DEF Running, Done
<1>2. /\ text \in Seq(Octet) /\ y \in Seq(Octet) /\ Len(text) < Len(y)
      /\ Len(text) \in Nat /\ Len(y) \in Nat
      /\ \A k \in 1 .. Len(text) : y[k] = text[k]
  BY <1>1, TextIs
<1>3. s \in Seq(Octet) /\ (s = text \/ s = y)
  BY <1>2 DEF Source
<1>4. Block \in Nat /\ Block >= 1 /\ c \in Nat /\ e = c + Block
  <2>1. Block \in Nat /\ Block >= 1
    BY HashWidths
  <2> QED
    BY <1>1, <2>1
<1>5. /\ e <= Len(s)
      /\ SubSeq(rest, 1, Block) = SubSeq(s, c + 1, e)
  BY <1>1, <1>3, LeftIs
<1> HIDE DEF c, e, s
<1>6. c + Block <= Len(s) /\ c + Block <= Len(y) /\ Len(s) \in Nat
  BY <1>2, <1>3, <1>4, <1>5
<1>7. SubSeq(s, c + 1, c + Block) = SubSeq(y, c + 1, c + Block)
  <2>1. CASE s = y
    BY <2>1
  <2>2. CASE s = text
    <3>1. \A k \in 1 .. Block : c + k \in 1 .. Len(text)
      BY <1>4, <1>6, <2>2
    <3>2. \A k \in 1 .. Block : s[c + k] = y[c + k]
      BY <1>2, <2>2, <3>1
    <3>3. c \in Nat /\ Block \in Nat /\ s \in Seq(Octet) /\ y \in Seq(Octet)
      BY <1>2, <1>3, <1>4
    <3> DEFINE p == SubSeq(s, c + 1, c + Block)
               q == SubSeq(y, c + 1, c + Block)
    <3>4. p \in Seq(Octet) /\ Len(p) = Block /\ \A k \in 1 .. Block : p[k] = s[c + k]
      BY <1>6, <3>3, SliceOf
    <3>5. q \in Seq(Octet) /\ Len(q) = Block /\ \A k \in 1 .. Block : q[k] = y[c + k]
      BY <1>6, <3>3, SliceOf
    <3> HIDE DEF p, q
    <3>6. p = q
      BY <3>2, <3>4, <3>5, SeqEqual
    <3> QED
      BY <3>6 DEF p, q
  <2> QED
    BY <1>3, <2>1, <2>2
<1>8. /\ SubSeq(s, c + 1, c + Block) \in Seq(Octet)
      /\ Len(SubSeq(s, c + 1, c + Block)) = Block
  <2> DEFINE x == SubSeq(s, c + 1, c + Block)
  <2>1. x \in Seq(Octet) /\ Len(x) = Block /\ \A k \in 1 .. Block : x[k] = s[c + k]
    BY <1>3, <1>4, <1>6, SliceOf
  <2> QED
    BY <2>1
<1>9. c # Len(y)
  BY <1>2, <1>4, <1>6
<1>10. SubSeq(rest, 1, Block) = SubSeq(y, c + 1, e)
  BY <1>4, <1>5, <1>7
<1>11. SubSeq(rest, 1, Block) \in Seq(Octet) /\ Len(SubSeq(rest, 1, Block)) = Block
  BY <1>4, <1>5, <1>8
<1> QED
  BY <1>1, <1>3, <1>9, <1>10, <1>11 DEF c, e, s

\* A block loaded is the standard's next.
LEMMA LoadKeeps == ASSUME HashInv, LoadBlock PROVE HashInv'
<1> DEFINE d == standard.taken
           y == standard.padded
           x == SubSeq(rest, 1, Block)
           v == Words(x)
<1>1. /\ stage \in {"message", "tail"} /\ round = -1 /\ Len(rest) >= Block /\ Running
  BY DEF HashInv, LoadBlock
<1>2. /\ Source \in Seq(Octet) /\ x = SubSeq(y, d * Block + 1, (d + 1) * Block)
      /\ x \in Seq(Octet) /\ Len(x) = Block /\ d \in Nat /\ d * Block # Len(y)
  BY <1>1, BlockIs
<1>3. v \in [1 .. 16 -> Word]
  <2>1. Block = 16 * WordBytes /\ 16 \in Nat
    BY HashWidths
  <2> HIDE DEF x
  <2> QED
    BY <1>2, <2>1, WordsAre
<1>4. IsSchedule(Schedule(v), v, Rounds)
  <2> HIDE DEF v
  <2> QED
    BY <1>3, ScheduleIs
<1>5. standard \in History
  BY <1>1 DEF Running
<1>6. /\ w' = v /\ round' = 0
      /\ standard' = [standard EXCEPT !.taken = @ + 1, !.schedule = Schedule(v)]
      /\ UNCHANGED <<stage, text, rest, h, z, a, out>>
  BY <1>2 DEF LoadBlock, StandardLoads
<1> HIDE DEF x, v
<1>7. Schedule(v) \in Seq(Word)
  BY <1>4 DEF IsSchedule
<1>8. /\ standard' \in History /\ standard'.taken = d + 1 /\ standard'.schedule = Schedule(v)
      /\ standard'.padded = y /\ standard'.chain = standard.chain
      /\ standard'.working = standard.working
  <2> DEFINE v1 == Schedule(v)
             d1 == d + 1
  <2>0. d1 \in Nat
    <3>1. d \in Nat
      BY <1>2
    <3> QED
      BY ONLY <3>1
  <2>1. d1 \in Nat /\ v1 \in Seq(Word)
    BY <1>7, <2>0
  <2>2. standard' = [standard EXCEPT !.taken = d1, !.schedule = v1]
    BY <1>6
  <2> HIDE DEF v1, d1
  <2>3. /\ standard' \in History /\ standard'.taken = d1 /\ standard'.schedule = v1
        /\ standard'.padded = y /\ standard'.chain = standard.chain
        /\ standard'.working = standard.working
    BY <1>5, <2>1, <2>2 DEF History
  <2> QED
    BY <2>3 DEF v1, d1
<1>9. Source' = Source /\ Done' = d /\ Done = d
  <2>1. (d + 1) - 1 = d
    BY <1>2
  <2> HIDE DEF d
  <2> QED
    BY <1>1, <1>6, <1>8, <2>1 DEF Source, Done, d
<1>10. Loaded'
  <2>1. \A j \in 1 .. 16 : 16 * (0 \div 16) + j = j
    OBVIOUS
  <2>2. \A j \in 1 .. 16 : v[j] = Schedule(v)[j]
    BY <1>4 DEF IsSchedule
  <2>3. \A j \in 1 .. 16 : w'[j] = standard'.schedule[16 * (round' \div 16) + j]
    BY <1>6, <1>8, <2>1, <2>2
  <2> QED
    BY <1>3, <1>6, <1>8, <2>3 DEF Loaded
<1>11. round' # -1 /\ round' \in -1 .. Rounds
  BY <1>6, HashWidths
<1>12. Running'
  BY <1>1, <1>6, <1>8, <1>9, <1>10, <1>11 DEF Running
<1> QED
  BY <1>1, <1>6, <1>11, <1>12 DEF HashInv

\* A round of the code is one of the standard, on the word of that round.
LEMMA RoundKeeps == ASSUME HashInv, Round PROVE HashInv'
<1> DEFINE t == round + 1
           e == 16 * (round \div 16)
           k == (round % 16) + 1
           s == standard.schedule
<1>1. /\ round \in 0 .. Rounds - 1 /\ Running /\ stage \in {"message", "tail"}
      /\ round # -1 /\ round < Rounds
  <2>1. round \in 0 .. Rounds - 1
    BY DEF Round
  <2>2. round # -1 /\ round < Rounds
    BY <2>1, HashWidths
  <2> QED
    BY <2>1, <2>2 DEF HashInv
<1>2. PICK v \in [1 .. 16 -> Word] :
        /\ s = Schedule(v)
        /\ w \in [1 .. 16 -> Word] /\ \A j \in 1 .. 16 : w[j] = s[e + j]
  BY <1>1 DEF Running, Loaded
<1>3. IsSchedule(s, v, Rounds)
  BY <1>2, ScheduleIs
<1>4. Rounds \in Nat /\ Rounds % 16 = 0
  BY HashWidths
<1>5. /\ k \in 1 .. 16 /\ e + k = t /\ e \in Nat /\ t \in 1 .. Rounds
  BY <1>1, <1>4
<1> HIDE DEF k
<1>6. w[k] = s[t] /\ w[k] \in Word
  BY <1>2, <1>5
<1>7. /\ a \in State /\ standard.working = Named(a) /\ standard \in History
      /\ Done = standard.taken - 1
  BY <1>1 DEF Running, Done
<1>8. /\ a' = RoundState(a, round, w[k])
      /\ w' = IF round % 16 = 15 THEN Advance(w) ELSE w
      /\ round' = t
      /\ standard' = [standard EXCEPT !.working = StandardRound(@, t, s[t])]
      /\ UNCHANGED <<stage, text, rest, h, z, out>>
  BY DEF Round, StandardSteps, k
<1>9. a' \in State /\ Named(a') = StandardRound(Named(a), t, s[t])
  <2>1. RoundState(a, round, w[k]) \in State
        /\ Named(RoundState(a, round, w[k])) = StandardRound(Named(a), round + 1, w[k])
    BY <1>1, <1>6, <1>7, RoundIsStandard
  <2> QED
    BY <1>6, <1>8, <2>1
<1> HIDE DEF t, e
<1>10. /\ standard' \in History /\ standard'.taken = standard.taken /\ standard'.schedule = s
       /\ standard'.padded = standard.padded /\ standard'.chain = standard.chain
       /\ standard'.working = Named(a')
  <2>1. Named(a') \in Variables
    BY <1>9, NamedIs
  <2>2. standard' = [standard EXCEPT !.working = Named(a')]
    BY <1>7, <1>8, <1>9
  <2> QED
    BY <1>7, <2>1, <2>2 DEF History
<1>11. round' # -1 /\ round' \in -1 .. Rounds
  BY <1>4, <1>5, <1>8
<1>12. Source' = Source /\ Done' = Done
  BY <1>7, <1>8, <1>10, <1>11 DEF Source, Done
<1>13. Loaded'
  <2>1. CASE round' = Rounds
    <3>1. ~(round' < Rounds)
      BY <1>4, <2>1
    <3>2. standard'.schedule = Schedule(v)
      BY <1>2, <1>10
    <3> QED
      BY <3>1, <3>2 DEF Loaded
  <2>2. CASE round' # Rounds /\ round % 16 = 15
    <3>1. e + 32 <= Rounds /\ 16 * (t \div 16) = e + 16
      BY <1>1, <1>4, <1>8, <2>2 DEF t, e
    <3>2. /\ Advance(w) \in [1 .. 16 -> Word]
          /\ \A j \in 1 .. 16 : Advance(w)[j] = s[e + 16 + j]
      BY <1>2, <1>3, <1>5, <3>1, AdvanceIs
    <3>3. w' = Advance(w) /\ 16 * (round' \div 16) = e + 16
      BY <1>8, <2>2, <3>1
    <3>4. standard'.schedule = Schedule(v) /\ standard'.schedule = s
      BY <1>2, <1>10
    <3>5. \A j \in 1 .. 16 : w'[j] = standard'.schedule[16 * (round' \div 16) + j]
      BY <3>2, <3>3, <3>4
    <3> QED
      BY <3>2, <3>3, <3>4, <3>5 DEF Loaded
  <2>3. CASE round % 16 # 15
    <3>1. 16 * (t \div 16) = e
      BY <1>1, <1>4, <2>3 DEF t, e
    <3>2. w' = w /\ 16 * (round' \div 16) = e
      BY <1>8, <2>3, <3>1
    <3>3. standard'.schedule = Schedule(v) /\ standard'.schedule = s
      BY <1>2, <1>10
    <3>4. \A j \in 1 .. 16 : w'[j] = standard'.schedule[16 * (round' \div 16) + j]
      BY <1>2, <3>2, <3>3
    <3> QED
      BY <1>2, <3>2, <3>3, <3>4 DEF Loaded
  <2> QED
    BY <2>1, <2>2, <2>3
<1>14. Running'
  <2>1. Len(rest) >= Block
    BY <1>1 DEF Running
  <2> QED
    BY <1>1, <1>8, <1>9, <1>10, <1>11, <1>12, <1>13, <2>1 DEF Running
<1> QED
  BY <1>1, <1>8, <1>11, <1>14 DEF HashInv

\* The end of a block adds what the standard adds, and drops that block.
LEMMA EndKeeps == ASSUME HashInv, EndBlock PROVE HashInv'
<1> DEFINE d == Done
           sum == [i \in 1 .. 8 |-> (a[i] + z[i]) % WordSize]
<1>0. -1 \in -1 .. Rounds /\ Rounds # -1
  BY HashWidths
<1>1. /\ round = Rounds /\ Running /\ stage \in {"message", "tail"} /\ round # -1
  BY <1>0 DEF EndBlock, HashInv
<1>2. /\ a \in State /\ z \in State /\ standard \in History /\ text \in Texts
      /\ standard.chain = z /\ standard.working = Named(a) /\ standard.padded = Padded(text)
      /\ d \in Nat /\ d * Block <= Len(Source) /\ rest = Left(Source, d) /\ Len(rest) >= Block
      /\ d = standard.taken - 1
  BY <1>1 DEF Running, Done
<1>3. sum \in State /\ sum = [i \in 1 .. 8 |-> (z[i] + Listed(Named(a))[i]) % WordSize]
  BY <1>2, SumIs
<1>4. /\ a' = sum /\ z' = sum /\ round' = -1
      /\ rest' = SubSeq(rest, Block + 1, Len(rest))
      /\ standard' = [standard EXCEPT !.chain = sum, !.working = Named(sum)]
      /\ UNCHANGED <<stage, text, h, w, out>>
  BY <1>2, <1>3 DEF EndBlock, StandardAdds
<1> HIDE DEF sum
<1>5. /\ standard' \in History /\ standard'.taken = standard.taken
      /\ standard'.padded = standard.padded /\ standard'.chain = sum
      /\ standard'.working = Named(sum)
  BY <1>2, <1>3, <1>4, NamedIs DEF History
<1>6. Source \in Seq(Octet)
  BY <1>2, TextIs DEF Source
<1>7. Source' = Source
  BY <1>4, <1>5 DEF Source
<1>8. Done' = d + 1
  <2>1. standard.taken \in Nat
    BY <1>2 DEF History
  <2>2. d + 1 = standard.taken
    BY <1>2, <2>1
  <2> HIDE DEF d
  <2> QED
    BY <1>4, <1>5, <2>2 DEF Done
<1> HIDE DEF d
<1>9. (d + 1) * Block <= Len(Source) /\ rest' = Left(Source, d + 1)
  BY <1>2, <1>4, <1>6, LeftIs
<1>10. Running'
  <2>1. d + 1 \in Nat
    BY <1>2
  <2> QED
    BY <1>1, <1>2, <1>3, <1>4, <1>5, <1>7, <1>8, <1>9, <2>1 DEF Running
<1> QED
  BY <1>0, <1>1, <1>4, <1>10 DEF HashInv

\* The last blocks are where the padded message is.
LEMMA PadKeeps == ASSUME HashInv, Pad PROVE HashInv'
<1> DEFINE d == Done
           l == Len(text)
           y == standard.padded
<1>1. /\ stage = "message" /\ round = -1 /\ Len(rest) < Block /\ Running
  BY DEF Pad, HashInv
<1>2. /\ z \in State /\ a = z /\ text \in Texts /\ y = Padded(text)
      /\ d \in Nat /\ d * Block <= l /\ rest = SubSeq(text, d * Block + 1, l)
      /\ d = standard.taken
  BY <1>1 DEF Running, Done, Source, Left
<1>3. text \in Seq(Octet) /\ l < WordSize
  BY <1>2, TextIs
<1>4. Words(BytesOf(z)) = z
  BY <1>2, StateOfItsBytes
<1>5. /\ stage' = "tail" /\ z' = z /\ a' = z /\ rest' = LastBlocks(rest, l)
      /\ UNCHANGED <<text, w, round, out, standard>>
  BY <1>4 DEF Pad, EnterHashBlocks
<1>6. d * Block <= Len(y) /\ rest' = Left(y, d)
  <2>1. d * Block <= Len(y) /\ LastBlocks(rest, l) = SubSeq(y, d * Block + 1, Len(y))
    <3>1. d \in Nat /\ d * Block <= l /\ text \in Seq(Octet) /\ Len(text) < WordSize
      BY <1>2, <1>3
    <3>2. l = Len(text) /\ rest = SubSeq(text, d * Block + 1, l) /\ y = Padded(text)
      BY <1>2
    <3> HIDE DEF d, l, y
    <3> QED
      BY ONLY <1>1, <3>1, <3>2, LastBlocksAre
  <2> QED
    BY <1>5, <2>1 DEF Left
<1>7. Source' = y /\ Done' = d
  BY <1>1, <1>5 DEF Source, Done
<1> HIDE DEF d, l
<1>8. Running'
  BY <1>1, <1>2, <1>5, <1>6, <1>7 DEF Running
<1>9. round' \in -1 .. Rounds
  BY <1>5 DEF HashInv
<1> QED
  BY <1>5, <1>8, <1>9 DEF HashInv

\* The digest is the standard's, of the whole padded message.
LEMMA OutputKeeps == ASSUME HashInv, Output PROVE HashInv'
<1> DEFINE d == standard.taken
           y == standard.padded
<1>1. /\ stage = "tail" /\ round = -1 /\ rest = <<>> /\ Running
  BY DEF Output, HashInv
<1>2. /\ d \in Nat /\ y \in Seq(Octet) /\ d * Block <= Len(y) /\ rest = Left(y, d)
      /\ standard.chain = z
  BY <1>1 DEF Running, Done, Source, History
<1>3. d * Block = Len(y)
  <2>1. Len(rest) = Len(y) - d * Block /\ Len(rest) = 0
    BY <1>1, <1>2, LeftIs
  <2>2. Len(y) \in Nat /\ d * Block \in Int
    BY <1>2, HashWidths, LenProperties
  <2> QED
    BY <2>1, <2>2
<1>4. /\ stage' = "ready" /\ round' = -1 /\ out' = BytesOf(z) /\ standard' = standard
  BY <1>1 DEF Output
<1>5. DigestIsStandard'
  BY <1>2, <1>3, <1>4 DEF DigestIsStandard
<1>6. round' \in -1 .. Rounds
  BY <1>4, HashWidths
<1> QED
  BY <1>4, <1>5, <1>6 DEF HashInv

\* Every step keeps the code where the standard is.
LEMMA HashInvNext == HashInv /\ [HashNext]_hashVars => HashInv'
<1> SUFFICES ASSUME HashInv, [HashNext]_hashVars PROVE HashInv'
  OBVIOUS
<1>1. CASE \E m \in Texts : crypto_hash(m)
  BY <1>1, CallKeeps
<1>2. CASE LoadBlock
  BY <1>2, LoadKeeps
<1>3. CASE Round
  BY <1>3, RoundKeeps
<1>4. CASE EndBlock
  BY <1>4, EndKeeps
<1>5. CASE Pad
  BY <1>5, PadKeeps
<1>6. CASE Output
  BY <1>6, OutputKeeps
<1>7. CASE UNCHANGED hashVars
  <2>1. /\ stage' = stage /\ text' = text /\ rest' = rest /\ h' = h /\ z' = z /\ a' = a
        /\ w' = w /\ round' = round /\ out' = out /\ standard' = standard
    BY <1>7 DEF hashVars
  <2> QED
    BY <2>1 DEF HashInv, DigestIsStandard, Running, Done, Source, Loaded
<1> QED
  BY <1>1, <1>2, <1>3, <1>4, <1>5, <1>6, <1>7 DEF HashNext

\* crypto_hash is SHA-512, at every point of every run of calls: the words of its
\* schedule, its padding and its digest are those of FIPS 180-4.
THEOREM HashIsCorrect == HashSpec => []HashIsStandard
<1>1. HashInit => HashInv
  BY HashInvInit
<1>2. HashInv /\ [HashNext]_hashVars => HashInv'
  BY HashInvNext
<1>3. HashInv => HashIsStandard
  BY HashInvImplies
<1> QED
  BY <1>1, <1>2, <1>3, PTL DEF HashSpec

-----------------------------------------------------------------------------
(***************************************************************************)
(* The field on limbs: widths and weights.                                 *)
(***************************************************************************)

\* What a carry out of the top limb brings back, and what all limbs hold.
Wrap == 2 * Fold
Span == 2 ^ (Limbs * Width)

\* A limb counts its weight.
Weight == [k \in 0 .. Limbs |-> HalfLimb ^ (2 * k)]

LimbInts == [Limb -> Int]

\* What the first limbs stand for.
Worth(x) == PartialSums(Limbs, [k \in Limb |-> x[k] * Weight[k]])

\* A product with a factor that is not less is not less.
LEMMA Scaled ==
  ASSUME NEW m \in Nat, NEW i \in Int, NEW j \in Int, i <= j
  PROVE  m * i <= m * j /\ m * i \in Int /\ m * j \in Int /\ i * m = m * i
<1> DEFINE d == j - i
<1>1. d \in Nat /\ j = i + d
  OBVIOUS
<1> HIDE DEF d
<1>2. m * d \in Nat /\ m * j = m * i + m * d /\ m * i \in Int /\ i * m = m * i
  BY <1>1
<1> QED
  BY <1>2

\* Quotient and remainder.
LEMMA Parts ==
  ASSUME NEW v \in Int, NEW b \in Nat, b >= 1
  PROVE  v \div b \in Int /\ v % b \in 0 .. b - 1 /\ v = b * (v \div b) + (v % b)
OBVIOUS

\* Quotient and remainder are the only ones.
LEMMA PartsAre ==
  ASSUME NEW b \in Nat, b >= 1, NEW u \in Int, NEW r \in 0 .. b - 1, NEW v, v = b * u + r
  PROVE  v \div b = u /\ v % b = r
<1>1. v \in Int /\ b * u \in Int
  <2>1. b * u \in Int
    OBVIOUS
  <2> QED
    BY <2>1
<1>2. v \div b = u
  BY QuotientIs
<1>3. v = b * (v \div b) + (v % b) /\ v % b \in 0 .. b - 1
  BY <1>1, Parts
<1> QED
  BY <1>1, <1>2, <1>3

\* Powers of two, and of half a limb.
LEMMA Powers ==
  /\ Limbs * Width \in Nat
  /\ \A k \in 0 .. Limbs * Width + 1 : 2 ^ k \in Nat /\ 2 ^ k >= 1
  /\ \A i, j \in Nat : i + j <= Limbs * Width => 2 ^ (i + j) = 2 ^ i * 2 ^ j
<1> DEFINE m == Limbs * Width
           Good(k) == 2 ^ k \in Nat /\ 2 ^ k >= 1
           T == {k \in 0 .. m + 1 : Good(k)}
<1>1. m \in Nat
  BY LimbAssumption
<1>2. 2 ^ 0 = 1 /\ \A k \in 0 .. m : 2 ^ (k + 1) = 2 * 2 ^ k
  BY LimbPowersAssumption
<1> HIDE DEF m
<1>3. 0 \in T /\ \A k \in 0 .. m + 1 - 1 : k \in T => k + 1 \in T
  <2>1. Good(0) /\ 0 \in 0 .. m + 1
    BY <1>1, <1>2
  <2>2. ASSUME NEW k \in 0 .. m + 1 - 1, Good(k) PROVE Good(k + 1) /\ k + 1 \in 0 .. m + 1
    <3>1. k \in 0 .. m /\ 2 ^ (k + 1) = 2 * 2 ^ k
      BY <1>1, <1>2
    <3> QED
      BY <1>1, <2>2, <3>1
  <2> QED
    BY <2>1, <2>2
<1>4. \A k \in T : Good(k)
  OBVIOUS
<1> HIDE DEF T
<1>5. \A k \in 0 .. m + 1 : k \in T
  <2> DEFINE l == m + 1
  <2>1. l \in Nat /\ \A k \in 0 .. l - 1 : k \in T => k + 1 \in T
    BY <1>1, <1>3
  <2> HIDE DEF l
  <2>2. \A k \in 0 .. l : k \in T
    BY ONLY <2>1, <1>3, Upwards
  <2> QED
    BY <2>2 DEF l
<1>6. \A k \in 0 .. m + 1 : Good(k)
  BY <1>4, <1>5
<1>7. ASSUME NEW i \in Nat, NEW j \in Nat, i + j <= m PROVE 2 ^ (i + j) = 2 ^ i * 2 ^ j
  <2> DEFINE Holds(k) == 2 ^ (i + k) = 2 ^ i * 2 ^ k
             S_ == {k \in 0 .. j : Holds(k)}
  <2>1. Holds(0)
    <3>1. i + 0 = i /\ 2 ^ i \in Nat
      BY <1>1, <1>6, <1>7
    <3> QED
      BY <1>2, <3>1
  <2>2. ASSUME NEW k \in 0 .. j - 1, Holds(k) PROVE Holds(k + 1)
    <3>1. /\ i + k \in 0 .. m /\ k \in 0 .. m /\ i + (k + 1) = (i + k) + 1
          /\ i \in 0 .. m + 1 /\ k \in 0 .. m + 1
      BY <1>1, <1>7
    <3>2. 2 ^ ((i + k) + 1) = 2 * 2 ^ (i + k) /\ 2 ^ (k + 1) = 2 * 2 ^ k
      BY <1>2, <3>1
    <3> DEFINE u == 2 ^ i
               v == 2 ^ k
    <3>3. u \in Nat /\ v \in Nat
      BY <1>6, <3>1
    <3>4. 2 ^ (i + (k + 1)) = 2 * (u * v) /\ 2 ^ (k + 1) = 2 * v
      BY <2>2, <3>1, <3>2
    <3> HIDE DEF u, v
    <3>5. 2 * (u * v) = u * (2 * v)
      BY <3>3
    <3> QED
      BY <3>4, <3>5 DEF u
  <2>3. 0 \in S_ /\ \A k \in 0 .. j - 1 : k \in S_ => k + 1 \in S_
    <3> HIDE DEF Holds
    <3> QED
      BY <2>1, <2>2
  <2>4. j \in 0 .. j /\ \A k \in S_ : Holds(k)
    OBVIOUS
  <2> HIDE DEF S_, Holds
  <2>5. j \in S_
    BY ONLY j \in Nat, <2>3, <2>4, Upwards
  <2>6. Holds(j)
    BY <2>4, <2>5
  <2> QED
    BY <2>6 DEF Holds
<1> QED
  BY <1>1, <1>6, <1>7 DEF m

\* The limbs, the half limbs and what is wrapped around.
LEMMA LimbWidths ==
  /\ Limbs \in Nat /\ Limbs >= 2
  /\ HalfLimb \in Nat /\ HalfLimb >= 2
  /\ HalfLimb \div 2 \in Nat /\ HalfLimb \div 2 >= 1 /\ HalfLimb = 2 * (HalfLimb \div 2)
  /\ Base \in Nat /\ Base >= 4 /\ Base = HalfLimb * HalfLimb
  /\ Base \div 2 \in Nat /\ Base \div 2 >= 2 /\ Base = 2 * (Base \div 2)
  /\ Base \div 2 = HalfLimb * (HalfLimb \div 2)
  /\ Fold \in Nat /\ Wrap \in Nat /\ Wrap >= 4 /\ Wrap < Base /\ Wrap = 2 * Fold
<1> DEFINE c == Width \div 2
           m == Limbs * Width
           e == c - 1
           q == 2 ^ e
<1>1. Limbs \in Nat /\ Limbs >= 2 /\ c \in Nat /\ c >= 1 /\ Width = c + c /\ Width \in Nat
  BY LimbAssumption
<1>2. Width <= m /\ m \in Nat
  <2>1. 2 <= Limbs /\ Width * 2 <= Width * Limbs /\ Width * Limbs = m
    BY <1>1, Scaled
  <2> HIDE DEF m
  <2> QED
    BY <1>1, <2>1, Powers DEF m
<1>3. e \in 0 .. m /\ c \in 0 .. m + 1 /\ e + 1 = c /\ Width \in 0 .. m
  <2> HIDE DEF m, c
  <2> QED
    BY <1>1, <1>2
<1>4. q \in Nat /\ q >= 1 /\ 2 ^ c = 2 * q
  <2>1. 2 ^ (e + 1) = 2 * 2 ^ e
    BY <1>3, LimbPowersAssumption
  <2>2. e \in 0 .. m + 1
    <3> HIDE DEF m, e
    <3> QED
      BY <1>2, <1>3
  <2>3. 2 ^ e \in Nat /\ 2 ^ e >= 1
    <3> HIDE DEF e
    <3> QED
      BY <2>2, Powers DEF m
  <2> HIDE DEF c, e
  <2> QED
    BY <1>3, <2>1, <2>3
<1>5. 2 ^ Width = 2 ^ c * 2 ^ c
  <2>1. c + c <= m /\ 2 ^ (c + c) = 2 ^ c * 2 ^ c
    <3> HIDE DEF c
    <3> QED
      BY <1>1, <1>2, Powers DEF m
  <2> HIDE DEF c
  <2> QED
    BY <1>1, <2>1
<1>6. HalfLimb = 2 * q /\ Base = HalfLimb * HalfLimb
  <2>1. HalfLimb = 2 ^ c /\ Base = 2 ^ Width
    BY DEF HalfLimb, Base
  <2> HIDE DEF c, q
  <2> QED
    BY <1>4, <1>5, <2>1
<1> HIDE DEF q, c, e
<1>7. HalfLimb \in Nat /\ HalfLimb >= 2 /\ HalfLimb \div 2 = q
  BY <1>4, <1>6
<1>8. Base = 2 * (HalfLimb * q) /\ HalfLimb * q \in Nat
  BY <1>4, <1>6, <1>7
<1>9. HalfLimb * q >= 2
  <2>1. HalfLimb * 1 <= HalfLimb * q
    BY <1>4, <1>7, Scaled
  <2> QED
    BY <1>7, <1>8, <2>1
<1>10. Base \in Nat /\ Base >= 4 /\ Base \div 2 = HalfLimb * q
  <2> DEFINE t == HalfLimb * q
  <2>1. t \in Nat /\ t >= 2 /\ Base = 2 * t
    BY <1>8, <1>9
  <2> HIDE DEF t
  <2>2. Base \in Nat /\ Base >= 4 /\ Base \div 2 = t
    BY <2>1
  <2> QED
    BY <2>2 DEF t
<1>11. Fold \in Nat /\ Fold >= 2 /\ 2 * Fold < Base
  BY LimbAssumption
<1>12. Wrap \in Nat /\ Wrap >= 4 /\ Wrap < Base /\ Wrap = 2 * Fold
  BY <1>10, <1>11 DEF Wrap
<1> QED
  BY <1>1, <1>4, <1>6, <1>7, <1>8, <1>9, <1>10, <1>11, <1>12

\* Half limbs count powers of HalfLimb.
LEMMA HalfWeights ==
  /\ HalfLimb ^ 0 = 1 /\ HalfLimb ^ (2 * Limbs) = Span
  /\ \A k \in 0 .. 2 * Limbs - 1 : HalfLimb ^ (k + 1) = HalfLimb * HalfLimb ^ k
  /\ \A k \in 0 .. 2 * Limbs : HalfLimb ^ k \in Nat /\ HalfLimb ^ k >= 1
<1> DEFINE c == Width \div 2
           m == Limbs * Width
           n == 2 * Limbs
           Good(k) == HalfLimb ^ k = 2 ^ (k * c)
           T == {k \in 0 .. n : Good(k)}
<1>1. n \in Nat /\ c \in Nat /\ c >= 1 /\ Width = 2 * c /\ Limbs \in Nat /\ Width \in Nat
  BY LimbAssumption
<1>2. m = n * c /\ m \in Nat
  <2>1. Limbs * (2 * c) = (2 * Limbs) * c
    <3> HIDE DEF c
    <3> QED
      BY <1>1
  <2>2. m = Limbs * (2 * c)
    <3> HIDE DEF c
    <3> QED
      BY <1>1
  <2> HIDE DEF c
  <2> QED
    BY <2>1, <2>2, Powers
<1>3. HalfLimb ^ 0 = 1 /\ \A k \in 0 .. n : HalfLimb ^ (k + 1) = HalfLimb * HalfLimb ^ k
  BY LimbPowersAssumption
<1>4. HalfLimb = 2 ^ c
  BY DEF HalfLimb
<1>5. ASSUME NEW k \in 0 .. n PROVE k * c \in Nat /\ k * c <= m
  <2>1. c * k <= c * n /\ c * k \in Int /\ k * c = c * k /\ c * n = n * c
    <3> HIDE DEF c, n
    <3> QED
      BY <1>1, Scaled
  <2>2. c * k \in Nat
    <3> HIDE DEF c, n
    <3> QED
      BY <1>1
  <2> HIDE DEF m, c, n
  <2> QED
    BY <1>2, <2>1, <2>2
<1>6. Good(0)
  <2>1. 0 * c = 0
    BY <1>1
  <2>2. 2 ^ (0 * c) = 2 ^ 0
    <3> HIDE DEF c
    <3> QED
      BY <2>1
  <2>3. 2 ^ 0 = 1
    BY LimbPowersAssumption
  <2> HIDE DEF c
  <2> QED
    BY <1>3, <2>2, <2>3
<1>7. ASSUME NEW k \in 0 .. n - 1, Good(k) PROVE Good(k + 1)
  <2>1. k \in 0 .. n /\ k + 1 \in 0 .. n
    <3> HIDE DEF n
    <3> QED
      BY <1>1
  <2>2. (k + 1) * c = c + k * c /\ (k + 1) * c <= m /\ k * c \in Nat
    <3>1. (k + 1) * c <= m /\ k * c \in Nat
      <4> HIDE DEF n, m, c
      <4> QED
        BY <1>5, <2>1
    <3>2. (k + 1) * c = c + k * c
      <4> HIDE DEF n, c
      <4>1. k \in Int
        BY <1>1, <2>1
      <4> QED
        BY <1>1, <4>1
    <3> QED
      BY <3>1, <3>2
  <2> DEFINE j == k * c
  <2>3. j \in Nat /\ c + j <= m
    <3> HIDE DEF m, c, n
    <3> QED
      BY <2>2
  <2> HIDE DEF j
  <2>4. 2 ^ (c + j) = 2 ^ c * 2 ^ j
    <3> HIDE DEF c
    <3> QED
      BY <1>1, <2>3, Powers DEF m
  <2>5. HalfLimb ^ k = 2 ^ j /\ 2 ^ ((k + 1) * c) = 2 ^ (c + j)
    <3>1. (k + 1) * c = c + j
      BY <2>2 DEF j
    <3>2. HalfLimb ^ k = 2 ^ j
      BY <1>7 DEF j
    <3> HIDE DEF c
    <3> QED
      BY <3>1, <3>2
  <2>6. HalfLimb ^ (k + 1) = HalfLimb * HalfLimb ^ k
    BY <1>3, <2>1
  <2> HIDE DEF c, n
  <2> QED
    BY <1>4, <2>4, <2>5, <2>6
<1>8. 0 \in T /\ \A k \in 0 .. n - 1 : k \in T => k + 1 \in T
  <2> HIDE DEF Good, n
  <2> QED
    BY <1>1, <1>6, <1>7
<1>9. \A k \in T : Good(k)
  OBVIOUS
<1> HIDE DEF T
<1>10. \A k \in 0 .. n : Good(k)
  <2>1. \A k \in 0 .. n : k \in T
    <3> HIDE DEF n
    <3> QED
      BY ONLY <1>1, <1>8, Upwards
  <2> QED
    BY <1>9, <2>1
<1>11. ASSUME NEW k \in 0 .. n PROVE HalfLimb ^ k \in Nat /\ HalfLimb ^ k >= 1
  <2> DEFINE j == k * c
  <2>1. j \in Nat /\ j <= m
    BY <1>5
  <2> HIDE DEF j
  <2>2. j \in 0 .. m + 1
    <3> HIDE DEF m
    <3> QED
      BY <1>2, <2>1
  <2>3. 2 ^ j \in Nat /\ 2 ^ j >= 1
    BY <2>2, Powers
  <2>4. HalfLimb ^ k = 2 ^ j
    BY <1>10 DEF j
  <2> QED
    BY <2>3, <2>4
<1>12. HalfLimb ^ n = Span
  <2>1. n \in 0 .. n
    <3> HIDE DEF n
    <3> QED
      BY <1>1
  <2>2. HalfLimb ^ n = 2 ^ (n * c)
    BY <1>10, <2>1
  <2>3. Span = 2 ^ m
    BY DEF Span
  <2> HIDE DEF n, c, m
  <2> QED
    BY <1>2, <2>2, <2>3
<1>13. \A k \in 0 .. n - 1 : k \in 0 .. n
  <2> HIDE DEF n
  <2> QED
    BY <1>1
<1> QED
  BY <1>3, <1>11, <1>12, <1>13

\* Each limb weighs Base of the one below.
LEMMA LimbWeights ==
  /\ Weight[0] = 1 /\ Weight[Limbs] = Span
  /\ \A k \in 0 .. Limbs - 1 : Weight[k + 1] = Base * Weight[k]
  /\ \A k \in 0 .. Limbs : Weight[k] \in Nat /\ Weight[k] >= 1
<1>1. Limbs \in Nat /\ Limbs >= 2 /\ HalfLimb \in Nat /\ Base = HalfLimb * HalfLimb
  BY LimbWidths
<1>2. \A k \in 0 .. Limbs : 2 * k \in 0 .. 2 * Limbs /\ Weight[k] = HalfLimb ^ (2 * k)
  BY <1>1 DEF Weight
<1>3. ASSUME NEW k \in 0 .. Limbs - 1 PROVE Weight[k + 1] = Base * Weight[k]
  <2> DEFINE j == 2 * k
             u == HalfLimb ^ j
  <2>1. k + 1 \in 0 .. Limbs /\ k \in 0 .. Limbs /\ 2 * (k + 1) = (j + 1) + 1
        /\ j \in 0 .. 2 * Limbs - 1 /\ j + 1 \in 0 .. 2 * Limbs - 1 /\ j \in 0 .. 2 * Limbs
    BY <1>1
  <2>2. HalfLimb ^ ((j + 1) + 1) = HalfLimb * HalfLimb ^ (j + 1)
    <3> HIDE DEF j
    <3> QED
      BY <2>1, HalfWeights
  <2>3. HalfLimb ^ (j + 1) = HalfLimb * u /\ u \in Nat
    <3> HIDE DEF j
    <3> QED
      BY <2>1, HalfWeights
  <2>4. Weight[k + 1] = HalfLimb * (HalfLimb * u) /\ Weight[k] = u
    BY <1>2, <2>1, <2>2, <2>3
  <2> HIDE DEF u, j
  <2>5. HalfLimb * (HalfLimb * u) = (HalfLimb * HalfLimb) * u
    BY <1>1, <2>3
  <2> QED
    BY <1>1, <2>4, <2>5
<1>4. ASSUME NEW k \in 0 .. Limbs PROVE Weight[k] \in Nat /\ Weight[k] >= 1
  <2> DEFINE j == 2 * k
  <2>1. j \in 0 .. 2 * Limbs /\ Weight[k] = HalfLimb ^ j
    BY <1>2
  <2> HIDE DEF j
  <2> QED
    BY <2>1, HalfWeights
<1>5. Weight[0] = 1 /\ Weight[Limbs] = Span
  <2>1. 0 \in 0 .. Limbs /\ Limbs \in 0 .. Limbs /\ 2 * 0 = 0
    BY <1>1
  <2>2. Weight[0] = HalfLimb ^ 0 /\ Weight[Limbs] = HalfLimb ^ (2 * Limbs)
    BY <1>2, <2>1
  <2> QED
    BY <2>2, HalfWeights
<1> QED
  BY <1>3, <1>4, <1>5

\* The modulus, next to what the limbs hold.
LEMMA ModulusIs ==
  /\ Span \in Nat /\ Modulus \in Nat /\ Span = 2 * Modulus + Wrap /\ Modulus > Wrap
  /\ Span \div 2 = Modulus + Fold /\ Weight[Limbs - 1] * (Base \div 2) = Modulus + Fold
<1> DEFINE n == Limbs
           m == Limbs * Width
           e == m - 1
           q == 2 ^ e
           u == Weight[n - 2]
           v == Weight[n - 1]
           t == Base \div 2
<1>1. Base \in Nat /\ Base >= 4 /\ n \in Nat /\ n >= 2 /\ t \in Nat /\ Base = 2 * t
  BY LimbWidths
<1>2. m \in Nat /\ m >= 1
  <2>1. Width \in Nat /\ Width >= 1
    BY LimbAssumption
  <2>2. n * 1 <= n * Width
    BY <1>1, <2>1, Scaled
  <2> QED
    BY <1>1, <2>2, Powers
<1>3. Span = 2 * q /\ q \in Nat
  <2>1. e \in 0 .. m /\ e + 1 = m /\ e \in 0 .. m + 1
    <3> HIDE DEF m
    <3> QED
      BY <1>2
  <2>2. 2 ^ (e + 1) = 2 * 2 ^ e
    BY <2>1, LimbPowersAssumption
  <2>3. q \in Nat
    BY <2>1, Powers
  <2>4. Span = 2 ^ m
    BY DEF Span
  <2> HIDE DEF m, e
  <2> QED
    BY <2>1, <2>2, <2>3, <2>4
<1>4. Modulus = q - Fold
  BY DEF Modulus
<1>5. Fold \in Nat /\ Wrap = 2 * Fold /\ Wrap < Base /\ Wrap \in Nat
  BY LimbWidths
<1>6. u \in Nat /\ u >= 1 /\ v \in Nat /\ v = Base * u /\ Span = Base * v
  <2>1. n - 2 \in 0 .. n - 1 /\ n - 1 \in 0 .. n - 1 /\ n - 2 + 1 = n - 1 /\ n - 1 + 1 = n
        /\ n - 2 \in 0 .. n /\ n - 1 \in 0 .. n
    BY <1>1
  <2>2. Weight[n - 2 + 1] = Base * Weight[n - 2] /\ Weight[n - 1 + 1] = Base * Weight[n - 1]
    BY <2>1, LimbWeights
  <2> QED
    BY <2>1, <2>2, LimbWeights
<1>7. v * t = q
  <2> HIDE DEF v, t, q
  <2>1. Base * v = 2 * (v * t) /\ v * t \in Int
    BY <1>1, <1>6
  <2> QED
    BY <1>3, <1>6, <2>1
<1> HIDE DEF q, u, v, t
<1>8. v >= Base /\ Span >= 4 * v
  <2>1. Base * 1 <= Base * u /\ v * 4 <= v * Base /\ v * Base = Base * v
    BY <1>1, <1>6, Scaled
  <2> QED
    BY <1>1, <1>6, <2>1
<1>9. Span = 2 * Modulus + Wrap /\ Modulus > Wrap /\ Modulus \in Int /\ Span \div 2 = Modulus + Fold
  <2>1. Span >= 4 * Base
    BY <1>1, <1>3, <1>6, <1>8
  <2>2. q > 4 * Fold
    BY <1>1, <1>3, <1>5, <2>1
  <2>3. Modulus > Wrap /\ Modulus \in Int /\ Span = 2 * Modulus + Wrap
    BY <1>3, <1>4, <1>5, <2>2
  <2>4. Span \div 2 = q
    BY <1>3
  <2> QED
    BY <1>3, <1>4, <1>5, <2>3, <2>4
<1> QED
  BY <1>3, <1>4, <1>5, <1>7, <1>9 DEF v, t

-----------------------------------------------------------------------------
(***************************************************************************)
(* Sums, and what limbs stand for.                                         *)
(***************************************************************************)

\* Each partial sum is the one before and a term.
LEMMA SumsAre ==
  ASSUME NEW n \in Nat, NEW term, \A k \in 0 .. n - 1 : term[k] \in Int
  PROVE  /\ PartialSums(n, term)[0] = 0
         /\ \A k \in 0 .. n - 1 : PartialSums(n, term)[k + 1] = PartialSums(n, term)[k] + term[k]
         /\ \A k \in 0 .. n : PartialSums(n, term)[k] \in Int
<1> DEFINE p == PartialSums(n, term)
           Rec(f) == [k \in 0 .. n |-> IF k = 0 THEN 0 ELSE f[k - 1] + term[k - 1]]
           Values == Int
           F == [0 .. n -> Values]
           G == [1 .. n -> [Values -> Values]]
           first == 0
           step == [k \in 1 .. n |-> [v \in Values |-> v + term[k - 1]]]
<1>1. step \in G /\ first \in Values
  OBVIOUS
<1>2. \A k \in 1 .. n : \A v \in Values : step[k][v] = v + term[k - 1]
  OBVIOUS
<1> HIDE DEF step
<1>3. PICK f \in F : f[0] = 0 /\ \A k \in 1 .. n : f[k] = step[k][f[k - 1]]
  <2>1. n \in Nat /\ F = [0 .. n -> Values] /\ G = [1 .. n -> [Values -> Values]]
    OBVIOUS
  <2> HIDE DEF F, G, Values, first
  <2>2. \E f \in F : Steps(f, first, n, step)
    BY ONLY <2>1, <1>1, Recursion, Zenon
  <2> QED
    BY <2>2 DEF Steps, first
<1>4. ASSUME NEW k \in 0 .. n PROVE f[k] = Rec(f)[k]
  <2>1. CASE k = 0
    BY <1>3, <2>1
  <2>2. CASE k # 0
    <3>1. k \in 1 .. n /\ k - 1 \in 0 .. n
      BY <2>2
    <3>2. f[k] = f[k - 1] + term[k - 1]
      BY <1>2, <1>3, <3>1
    <3> QED
      BY <2>2, <3>2
  <2> QED
    BY <2>1, <2>2
<1>5. f = Rec(f)
  BY <1>4
<1>6. p = CHOOSE g : g = Rec(g)
  BY DEF PartialSums
<1> HIDE DEF Rec, p
<1>7. p = Rec(p)
  BY <1>5, <1>6
<1>8. p[0] = 0 /\ \A k \in 1 .. n : p[k] = p[k - 1] + term[k - 1]
  <2>1. 0 \in 0 .. n /\ \A k \in 1 .. n : k \in 0 .. n /\ k # 0
    OBVIOUS
  <2>2. Rec(p)[0] = 0 /\ \A k \in 1 .. n : Rec(p)[k] = p[k - 1] + term[k - 1]
    BY <2>1 DEF Rec
  <2> QED
    BY <1>7, <2>2
<1>9. \A k \in 0 .. n : p[k] \in Values
  <2>1. p[0] \in Values
    BY <1>8
  <2>2. ASSUME NEW k \in 1 .. n, p[k - 1] \in Values PROVE p[k] \in Values
    <3>1. p[k - 1] \in Int /\ term[k - 1] \in Int /\ p[k] = p[k - 1] + term[k - 1]
      BY <1>8, <2>2
    <3> QED
      BY <3>1
  <2> HIDE DEF Values
  <2> QED
    BY ONLY <2>1, <2>2, n \in Nat, StaysIn
<1>10. ASSUME NEW k \in 0 .. n - 1 PROVE p[k + 1] = p[k] + term[k]
  <2>1. k + 1 \in 1 .. n /\ (k + 1) - 1 = k
    OBVIOUS
  <2>2. p[k + 1] = p[(k + 1) - 1] + term[(k + 1) - 1]
    BY <1>8, <2>1
  <2> QED
    BY <2>1, <2>2
<1> QED
  BY <1>8, <1>9, <1>10 DEF p

\* The worth of limbs, from the lowest.
LEMMA WorthIs ==
  ASSUME NEW x \in LimbInts
  PROVE  /\ Worth(x)[0] = 0
         /\ \A k \in 0 .. Limbs - 1 : Worth(x)[k + 1] = Worth(x)[k] + x[k] * Weight[k]
         /\ \A k \in 0 .. Limbs : Worth(x)[k] \in Int
         /\ \A k \in 0 .. Limbs - 1 : /\ x[k] \in Int /\ Weight[k] \in Nat /\ k \in 0 .. Limbs
                                      /\ k + 1 \in 0 .. Limbs
<1> DEFINE term == [k \in Limb |-> x[k] * Weight[k]]
           n == Limbs
<1>1. n \in Nat /\ Limb = 0 .. n - 1
  BY LimbWidths DEF Limb
<1>2. \A k \in 0 .. n - 1 : k \in 0 .. n /\ k + 1 \in 0 .. n
  BY <1>1
<1>3. ASSUME NEW k \in 0 .. n - 1
      PROVE  x[k] \in Int /\ Weight[k] \in Nat /\ term[k] = x[k] * Weight[k] /\ term[k] \in Int
  <2>1. x[k] \in Int
    BY <1>1 DEF LimbInts
  <2>2. Weight[k] \in Nat
    BY <1>2, LimbWeights
  <2>3. term[k] = x[k] * Weight[k]
    BY <1>1
  <2> DEFINE u == x[k]
             v == Weight[k]
  <2>4. u * v \in Int
    <3> HIDE DEF u, v
    <3> QED
      BY <2>1, <2>2 DEF u, v
  <2> QED
    BY <2>1, <2>2, <2>3, <2>4
<1> HIDE DEF term
<1>4. /\ PartialSums(n, term)[0] = 0
      /\ \A k \in 0 .. n - 1 : PartialSums(n, term)[k + 1] = PartialSums(n, term)[k] + term[k]
      /\ \A k \in 0 .. n : PartialSums(n, term)[k] \in Int
  <2>1. \A k \in 0 .. n - 1 : term[k] \in Int
    BY <1>3
  <2> HIDE DEF n
  <2> QED
    BY ONLY <1>1, <2>1, SumsAre
<1>5. Worth(x) = PartialSums(n, term)
  BY DEF Worth, term
<1> QED
  BY <1>2, <1>3, <1>4, <1>5

\* What holds of no limbs, and of one more with each, holds of all.
LEMMA UpTo ==
  ASSUME NEW T, 0 \in T, \A k \in 0 .. Limbs - 1 : k \in T => k + 1 \in T
  PROVE  \A k \in 0 .. Limbs : k \in T
BY LimbWidths, Upwards

\* Worth is linear.
LEMMA WorthCombines ==
  ASSUME NEW x \in LimbInts, NEW y \in LimbInts, NEW r \in LimbInts,
         NEW c \in Int, NEW d \in Int, \A i \in Limb : r[i] = c * x[i] + d * y[i]
  PROVE  \A k \in 0 .. Limbs : Worth(r)[k] = c * Worth(x)[k] + d * Worth(y)[k]
<1> DEFINE Holds(k) == Worth(r)[k] = c * Worth(x)[k] + d * Worth(y)[k]
           T == {k \in 0 .. Limbs : Holds(k)}
<1>1. Holds(0) /\ 0 \in 0 .. Limbs
  <2>1. Worth(r)[0] = 0 /\ Worth(x)[0] = 0 /\ Worth(y)[0] = 0
    BY WorthIs
  <2> QED
    BY <2>1, LimbWidths
<1>2. ASSUME NEW k \in 0 .. Limbs - 1, Holds(k) PROVE Holds(k + 1)
  <2> DEFINE v == Weight[k]
             p == x[k]
             q == y[k]
             s == Worth(x)[k]
             t == Worth(y)[k]
  <2>1. /\ Worth(r)[k + 1] = Worth(r)[k] + r[k] * v
        /\ Worth(x)[k + 1] = s + p * v /\ Worth(y)[k + 1] = t + q * v
        /\ v \in Int /\ p \in Int /\ q \in Int /\ s \in Int /\ t \in Int
    BY WorthIs
  <2>2. r[k] = c * p + d * q
    BY DEF Limb
  <2>3. Worth(r)[k] = c * s + d * t
    BY <1>2
  <2>4. Worth(r)[k + 1] = (c * s + d * t) + (c * p + d * q) * v
    BY <2>1, <2>2, <2>3
  <2> HIDE DEF v, p, q, s, t
  <2>5. (c * s + d * t) + (c * p + d * q) * v = c * (s + p * v) + d * (t + q * v)
    <3>1. (c * p + d * q) * v = c * (p * v) + d * (q * v)
      BY <2>1
    <3> DEFINE g == p * v
               j == q * v
    <3>2. g \in Int /\ j \in Int
      BY <2>1
    <3> HIDE DEF g, j
    <3>3. c * (s + g) = c * s + c * g /\ d * (t + j) = d * t + d * j
          /\ c * s \in Int /\ c * g \in Int /\ d * t \in Int /\ d * j \in Int
      BY <2>1, <3>2
    <3>4. (c * s + d * t) + (c * g + d * j) = (c * s + c * g) + (d * t + d * j)
      BY <3>3
    <3>5. (c * s + d * t) + (c * g + d * j) = c * (s + g) + d * (t + j)
      BY <3>3, <3>4
    <3> QED
      BY <3>1, <3>5 DEF g, j
  <2> QED
    BY <2>1, <2>4, <2>5
<1>3. 0 \in T /\ \A k \in 0 .. Limbs - 1 : k \in T => k + 1 \in T
  <2>1. \A k \in 0 .. Limbs - 1 : k + 1 \in 0 .. Limbs
    BY LimbWidths
  <2> HIDE DEF Holds
  <2> QED
    BY <1>1, <1>2, <2>1
<1>4. \A k \in T : Holds(k)
  OBVIOUS
<1> HIDE DEF T, Holds
<1>5. \A k \in 0 .. Limbs : k \in T
  BY <1>3, UpTo
<1>6. \A k \in 0 .. Limbs : Holds(k)
  BY <1>4, <1>5
<1> QED
  BY <1>6 DEF Holds

\* Digits stand for less than the weight of the next.
LEMMA WorthOfDigits ==
  ASSUME NEW x \in LimbInts, NEW n \in 0 .. Limbs,
         \A j \in 0 .. n - 1 : x[j] \in 0 .. Base - 1
  PROVE  0 <= Worth(x)[n] /\ Worth(x)[n] <= Weight[n] - 1
<1> DEFINE Holds(k) == 0 <= Worth(x)[k] /\ Worth(x)[k] <= Weight[k] - 1
           T == {k \in 0 .. n : Holds(k)}
<1>1. Limbs \in Nat /\ n \in Nat /\ n <= Limbs /\ Base \in Nat
  BY LimbWidths
<1>2. Holds(0)
  BY WorthIs, LimbWeights
<1>3. ASSUME NEW k \in 0 .. n - 1, Holds(k) PROVE Holds(k + 1)
  <2> DEFINE v == Weight[k]
             p == x[k]
             s == Worth(x)[k]
  <2>1. k \in 0 .. Limbs - 1 /\ k \in 0 .. Limbs
    BY <1>1
  <2>2. Worth(x)[k + 1] = s + p * v /\ v \in Nat /\ s \in Int /\ Weight[k + 1] = Base * v
    BY <2>1, WorthIs, LimbWeights
  <2>3. p \in 0 .. Base - 1 /\ 0 <= s /\ s <= v - 1
    BY <1>3
  <2> HIDE DEF v, p, s
  <2>4. v * 0 <= v * p /\ v * p <= v * (Base - 1) /\ p * v = v * p /\ v * p \in Int
    BY <1>1, <2>2, <2>3, Scaled
  <2>5. v * (Base - 1) = Base * v - v /\ Base * v \in Int
    BY <1>1, <2>2
  <2>6. v * 0 = 0
    BY <2>2
  <2> DEFINE pv == p * v
             bv == Base * v
  <2>7. 0 <= pv /\ pv <= bv - v /\ pv \in Int /\ bv \in Int
    BY <2>4, <2>5, <2>6
  <2>8. Worth(x)[k + 1] = s + pv /\ Weight[k + 1] = bv
    BY <2>2
  <2> HIDE DEF pv, bv
  <2> QED
    BY <2>2, <2>3, <2>7, <2>8
<1>4. 0 \in T /\ \A k \in 0 .. n - 1 : k \in T => k + 1 \in T
  <2> HIDE DEF Holds
  <2> QED
    BY <1>1, <1>2, <1>3
<1>5. n \in 0 .. n /\ \A k \in T : Holds(k)
  BY <1>1
<1> HIDE DEF T, Holds
<1>6. n \in T
  BY ONLY <1>1, <1>4, <1>5, Upwards
<1>7. Holds(n)
  BY <1>5, <1>6
<1> QED
  BY <1>7 DEF Holds

\* What each limb gets from the one below and gives to the one above does not
\* change what they stand for, but for what leaves at the top.
LEMMA WorthCarried ==
  ASSUME NEW x \in LimbInts, NEW y \in LimbInts, NEW c, c[0] = 0,
         \A k \in 0 .. Limbs : c[k] \in Int,
         \A k \in Limb : y[k] = x[k] + c[k] - Base * c[k + 1]
  PROVE  \A k \in 0 .. Limbs : Worth(y)[k] + c[k] * Weight[k] = Worth(x)[k]
<1> DEFINE Holds(k) == Worth(y)[k] + c[k] * Weight[k] = Worth(x)[k]
           T == {k \in 0 .. Limbs : Holds(k)}
<1>1. Holds(0) /\ 0 \in 0 .. Limbs
  BY WorthIs, LimbWeights, LimbWidths
<1>2. ASSUME NEW k \in 0 .. Limbs - 1, Holds(k) PROVE Holds(k + 1)
  <2> DEFINE v == Weight[k]
             p == x[k]
             s == Worth(x)[k]
             t == Worth(y)[k]
             d == c[k]
             e == c[k + 1]
  <2>1. /\ Worth(x)[k + 1] = s + p * v /\ Worth(y)[k + 1] = t + y[k] * v
        /\ v \in Int /\ p \in Int /\ s \in Int /\ t \in Int /\ k \in 0 .. Limbs
        /\ k + 1 \in 0 .. Limbs
    BY WorthIs
  <2>2. d \in Int /\ e \in Int /\ y[k] = p + d - Base * e /\ t + d * v = s
        /\ Weight[k + 1] = Base * v /\ Base \in Int
    BY <1>2, <2>1, LimbWeights, LimbWidths DEF Limb
  <2>3. Worth(y)[k + 1] = t + (p + d - Base * e) * v
    BY <2>1, <2>2
  <2> HIDE DEF v, p, s, t, d, e
  <2>4. (p + d - Base * e) * v = p * v + d * v - e * (Base * v)
    BY <2>1, <2>2
  <2> DEFINE i == p * v
             j == d * v
             l == e * (Base * v)
             u == (p + d - Base * e) * v
  <2>5. i \in Int /\ j \in Int /\ l \in Int
    <3>1. Base * v \in Int
      BY <2>1, <2>2
    <3> QED
      BY <2>1, <2>2, <3>1
  <2>6. u = i + j - l /\ t + j = s /\ Worth(y)[k + 1] = t + u /\ Worth(x)[k + 1] = s + i
    BY <2>1, <2>2, <2>3, <2>4
  <2> HIDE DEF i, j, l, u
  <2>7. Worth(y)[k + 1] + l = Worth(x)[k + 1]
    BY <2>1, <2>5, <2>6
  <2> QED
    BY <2>2, <2>7 DEF l, e
<1>3. 0 \in T /\ \A k \in 0 .. Limbs - 1 : k \in T => k + 1 \in T
  <2>1. \A k \in 0 .. Limbs - 1 : k + 1 \in 0 .. Limbs
    BY LimbWidths
  <2> HIDE DEF Holds
  <2> QED
    BY <1>1, <1>2, <2>1
<1>4. \A k \in T : Holds(k)
  OBVIOUS
<1> HIDE DEF T, Holds
<1>5. \A k \in 0 .. Limbs : k \in T
  BY <1>3, UpTo
<1>6. \A k \in 0 .. Limbs : Holds(k)
  BY <1>4, <1>5
<1> QED
  BY <1>6 DEF Holds

\* Numbers a multiple of the modulus apart have the same residue.
LEMMA SameResidue ==
  ASSUME NEW u \in Int, NEW v \in Int, NEW q \in Int, u = Modulus * q + v
  PROVE  u % Modulus = v % Modulus /\ v % Modulus \in 0 .. Modulus - 1
<1> DEFINE m == Modulus
           d == v \div m
           r == v % m
<1>1. m \in Nat /\ m >= 1
  BY ModulusIs, LimbWidths
<1> HIDE DEF m
<1>2. d \in Int /\ r \in 0 .. m - 1 /\ v = m * d + r
  BY <1>1, Parts
<1> HIDE DEF d, r
<1> DEFINE e == q + d
<1>3. e \in Int /\ m * e = m * q + m * d
  BY <1>1, <1>2
<1>4. u = m * e + r
  <2>1. m * q \in Int /\ m * d \in Int /\ u = m * q + v
    BY <1>1, <1>2 DEF m
  <2> DEFINE i == m * q
             j == m * d
             l == m * e
  <2>2. i \in Int /\ j \in Int /\ u = i + v /\ v = j + r /\ l = i + j /\ r \in Int
    BY <1>2, <1>3, <2>1
  <2> HIDE DEF i, j, l
  <2>3. u = l + r
    BY <2>2
  <2> QED
    BY <2>3 DEF l
<1> HIDE DEF e
<1>5. u % m = r
  BY ONLY <1>1, <1>2, <1>3, <1>4, PartsAre
<1> QED
  BY <1>2, <1>5 DEF r, m

\* A residue is its own.
LEMMA ResidueOfResidue ==
  ASSUME NEW v \in 0 .. Modulus - 1
  PROVE  v % Modulus = v
BY ModulusIs

\* Residues of sums, differences and products.
LEMMA ResiduesCombine ==
  ASSUME NEW u \in Int, NEW v \in Int
  PROVE  /\ (u + v) % Modulus = ((u % Modulus) + (v % Modulus)) % Modulus
         /\ (u - v) % Modulus = ((u % Modulus) - (v % Modulus)) % Modulus
         /\ (u * v) % Modulus = ((u % Modulus) * (v % Modulus)) % Modulus
<1> DEFINE m == Modulus
           c == u \div m
           d == v \div m
           r == u % m
           s == v % m
<1>1. m \in Nat /\ m >= 1
  BY ModulusIs, LimbWidths
<1>2. c \in Int /\ d \in Int /\ r \in Int /\ s \in Int /\ u = m * c + r /\ v = m * d + s
  <2> HIDE DEF m
  <2> QED
    BY <1>1, Parts
<1> HIDE DEF m, c, d, r, s
<1>3. u + v = m * (c + d) + (r + s) /\ u - v = m * (c - d) + (r - s)
  <2>1. m * (c + d) = m * c + m * d /\ m * (c - d) = m * c - m * d /\ m * c \in Int /\ m * d \in Int
    BY <1>1, <1>2
  <2> QED
    BY <1>2, <2>1
<1> DEFINE e == c * v + r * d
<1>4. u * v = m * e + r * s /\ e \in Int /\ r * s \in Int /\ u * v \in Int
  <2>1. u * v = m * (c * v) + r * v
    <3>1. (m * c + r) * v = m * (c * v) + r * v
      BY <1>1, <1>2
    <3> QED
      BY <1>2, <3>1
  <2>2. r * v = m * (r * d) + r * s
    <3>1. r * (m * d + s) = m * (r * d) + r * s
      BY <1>1, <1>2
    <3> QED
      BY <1>2, <3>1
  <2> DEFINE i == c * v
             j == r * d
             l == r * s
  <2>3. i \in Int /\ j \in Int /\ l \in Int /\ u * v \in Int
    BY <1>2
  <2>4. u * v = m * i + (m * j + l) /\ e = i + j
    BY <2>1, <2>2
  <2> HIDE DEF i, j, l
  <2>5. m * (i + j) = m * i + m * j /\ m * i \in Int /\ m * j \in Int
    BY <1>1, <2>3
  <2>6. u * v = m * e + l
    BY <2>3, <2>4, <2>5
  <2> QED
    BY <2>3, <2>4, <2>6 DEF l
<1> HIDE DEF e
<1>5. (u + v) % m = (r + s) % m /\ (u - v) % m = (r - s) % m
  <2>1. c + d \in Int /\ c - d \in Int /\ r + s \in Int /\ r - s \in Int /\ u + v \in Int /\ u - v \in Int
    BY <1>2
  <2> QED
    BY <1>3, <2>1, SameResidue DEF m
<1>6. (u * v) % m = (r * s) % m
  <2> DEFINE i == u * v
             j == r * s
  <2>1. i \in Int /\ j \in Int /\ i = Modulus * e + j /\ e \in Int
    BY <1>4 DEF m
  <2> HIDE DEF i, j
  <2>2. i % Modulus = j % Modulus
    BY <2>1, SameResidue
  <2> QED
    BY <2>2 DEF i, j, m
<1> QED
  BY <1>5, <1>6 DEF r, s, m

-----------------------------------------------------------------------------
(***************************************************************************)
(* Carries.                                                                *)
(***************************************************************************)

\* What car25519 does at limb k.
CarryAt(v, k) ==
  LET c == (v[k] + Base) \div Base
      left == [v EXCEPT ![k] = @ + Base - c * Base]
  IN IF k < Limbs - 1 THEN [left EXCEPT ![k + 1] = @ + c - 1]
     ELSE [left EXCEPT ![0] = @ + 2 * Fold * (c - 1)]

\* The carry c[k] comes into limb k; the one out of the top limb is wrapped around.
Carries(x, y, c) ==
  /\ c[0] = 0 /\ \A k \in 0 .. Limbs : c[k] \in Int
  /\ \A k \in Limb : /\ x[k] + c[k] - Base * c[k + 1] \in 0 .. Base - 1
                     /\ y[k] = x[k] + c[k] - Base * c[k + 1] + (IF k = 0 THEN Wrap * c[Limbs] ELSE 0)

\* A limb keeps its remainder and passes on its quotient.
LEMMA CarryAtIs ==
  ASSUME NEW v \in LimbInts, NEW k \in Limb
  PROVE  /\ CarryAt(v, k) \in LimbInts
         /\ v[k] \in Int /\ v[k] \div Base \in Int /\ v[k] - Base * (v[k] \div Base) \in 0 .. Base - 1
         /\ \A j \in Limb : CarryAt(v, k)[j] =
              IF j = k THEN v[k] - Base * (v[k] \div Base)
              ELSE IF j = k + 1 THEN v[j] + v[k] \div Base
              ELSE IF k = Limbs - 1 /\ j = 0 THEN v[j] + Wrap * (v[k] \div Base)
              ELSE v[j]
<1> DEFINE q == v[k] \div Base
           c == (v[k] + Base) \div Base
           e == v[k] + Base - c * Base
           left == [v EXCEPT ![k] = e]
           rem == v[k] % Base
<1>1. /\ Base \in Nat /\ Base >= 1 /\ Limbs \in Nat /\ Limbs >= 2 /\ Wrap \in Nat
      /\ Limb = 0 .. Limbs - 1 /\ 0 \in Limb
  BY LimbWidths DEF Limb
<1>2. v \in [Limb -> Int] /\ v[k] \in Int /\ v[0] \in Int
  BY <1>1 DEF LimbInts
<1>3. q \in Int /\ v[k] = Base * q + rem /\ rem \in 0 .. Base - 1 /\ rem \in Int
  <2>1. q \in Int /\ v[k] = Base * q + rem /\ rem \in 0 .. Base - 1
    BY <1>1, <1>2, Parts
  <2> HIDE DEF q, rem
  <2> QED
    BY <1>1, <2>1
<1> HIDE DEF rem
<1>4. c = q + 1
  <2> DEFINE u == q + 1
             s == v[k] + Base
             bq == Base * q
  <2>1. u \in Int /\ Base * u = bq + Base /\ bq \in Int /\ v[k] = bq + rem
    <3> HIDE DEF q
    <3> QED
      BY <1>1, <1>3
  <2>2. s = Base * u + rem
    <3> HIDE DEF q, u, bq
    <3> QED
      BY <1>1, <1>2, <1>3, <2>1
  <2> HIDE DEF u, s
  <2>3. s \div Base = u
    BY ONLY <1>1, <1>3, <2>1, <2>2, PartsAre
  <2> QED
    BY <2>3 DEF u, s
<1> HIDE DEF q, c
<1>5. e = v[k] - Base * q /\ e \in 0 .. Base - 1 /\ e \in Int /\ c - 1 = q
  <2> DEFINE p == Base * q
  <2>1. c * Base = p + Base /\ p \in Int
    BY <1>1, <1>3, <1>4
  <2>2. v[k] = p + rem
    BY <1>3
  <2> HIDE DEF p
  <2>3. e = v[k] - p /\ e \in 0 .. Base - 1 /\ e \in Int /\ c - 1 = q
    BY <1>1, <1>2, <1>3, <1>4, <2>1, <2>2
  <2> QED
    BY <2>3 DEF p
<1>6. CarryAt(v, k) = IF k < Limbs - 1 THEN [left EXCEPT ![k + 1] = @ + c - 1]
                      ELSE [left EXCEPT ![0] = @ + 2 * Fold * (c - 1)]
  BY DEF CarryAt, c
<1> HIDE DEF e
<1>7. left \in [Limb -> Int] /\ \A j \in Limb : left[j] = IF j = k THEN e ELSE v[j]
  BY <1>2, <1>5
<1> HIDE DEF left
<1>8. CASE k < Limbs - 1
  <2>1. k + 1 \in Limb /\ k + 1 # k /\ left[k + 1] = v[k + 1] /\ v[k + 1] \in Int /\ k # Limbs - 1
    BY <1>1, <1>2, <1>7, <1>8
  <2>2. left[k + 1] + c - 1 = v[k + 1] + q
    BY <1>3, <1>4, <2>1
  <2>3. CarryAt(v, k) = [left EXCEPT ![k + 1] = v[k + 1] + q]
    BY <1>6, <1>8, <2>2
  <2>4. CarryAt(v, k) \in [Limb -> Int]
        /\ \A j \in Limb : CarryAt(v, k)[j] = IF j = k + 1 THEN v[k + 1] + q ELSE left[j]
    BY <1>3, <1>7, <2>1, <2>3
  <2> QED
    BY <1>2, <1>3, <1>5, <1>7, <2>1, <2>4 DEF LimbInts, q
<1>9. CASE ~(k < Limbs - 1)
  <2>1. k = Limbs - 1 /\ k # 0 /\ k + 1 \notin Limb /\ left[0] = v[0]
    BY <1>1, <1>7, <1>9
  <2>2. left[0] + 2 * Fold * (c - 1) = v[0] + Wrap * q /\ v[0] + Wrap * q \in Int
    <3>1. 2 * Fold = Wrap
      BY LimbWidths
    <3>2. 2 * Fold * (c - 1) = Wrap * q /\ Wrap * q \in Int
      BY <1>1, <1>3, <1>5, <3>1
    <3> QED
      BY <1>2, <2>1, <3>2
  <2>3. CarryAt(v, k) = [left EXCEPT ![0] = v[0] + Wrap * q]
    BY <1>6, <1>9, <2>2
  <2>4. CarryAt(v, k) \in [Limb -> Int]
        /\ \A j \in Limb : CarryAt(v, k)[j] = IF j = 0 THEN v[0] + Wrap * q ELSE left[j]
    BY <1>1, <1>7, <2>2, <2>3
  <2> QED
    BY <1>2, <1>3, <1>5, <1>7, <2>1, <2>4 DEF LimbInts, q
<1> QED
  BY <1>8, <1>9

\* The passes of car25519.
LEMMA CarSteps ==
  ASSUME NEW x \in LimbInts
  PROVE  \E f : /\ f[0] = x /\ \A i \in 0 .. Limbs : f[i] \in LimbInts
                /\ \A i \in Limb : f[i + 1] = CarryAt(f[i], i)
                /\ car25519(x) = f[Limbs]
<1> DEFINE S_ == LimbInts
           n == Limbs
           F == [0 .. n -> S_]
           G == [1 .. n -> [S_ -> S_]]
           Rec(f) == [i \in 0 .. n |-> IF i = 0 THEN x ELSE CarryAt(f[i - 1], i - 1)]
           p == CHOOSE f : f = Rec(f)
           step == [i \in 1 .. n |-> [v \in S_ |-> CarryAt(v, i - 1)]]
<1>1. car25519(x) = p[n]
  BY DEF car25519, CarryAt
<1>2. n \in Nat /\ Limb = 0 .. n - 1
  BY LimbWidths DEF Limb
<1>3. \A i \in 1 .. n : i - 1 \in Limb
  BY <1>2
<1>4. \A i \in 1 .. n : \A v \in S_ : CarryAt(v, i - 1) \in S_
  BY <1>3, CarryAtIs
<1> HIDE DEF S_, n
<1>5. step \in G /\ x \in S_
  BY <1>4 DEF S_
<1>6. \A i \in 1 .. n : \A v \in S_ : step[i][v] = CarryAt(v, i - 1)
  OBVIOUS
<1> HIDE DEF step
<1>7. PICK f \in F : f[0] = x /\ \A i \in 1 .. n : f[i] = step[i][f[i - 1]]
  <2>1. F = [0 .. n -> S_] /\ G = [1 .. n -> [S_ -> S_]]
    OBVIOUS
  <2> HIDE DEF F, G
  <2>2. \E f \in F : Steps(f, x, n, step)
    BY ONLY <1>2, <2>1, <1>5, Recursion, Zenon
  <2> QED
    BY <2>2 DEF Steps
<1>8. ASSUME NEW i \in 1 .. n PROVE f[i] = CarryAt(f[i - 1], i - 1)
  <2>1. i - 1 \in 0 .. n /\ f[i - 1] \in S_
    BY <1>2
  <2> QED
    BY <1>6, <1>7, <2>1
<1>9. f = Rec(f)
  <2>1. \A i \in 0 .. n : f[i] = Rec(f)[i]
    BY <1>2, <1>7, <1>8
  <2> QED
    BY <2>1
<1> HIDE DEF Rec
<1>10. p = Rec(p)
  BY <1>9
<1> HIDE DEF p
<1>11. \A i \in 1 .. n : p[i] = CarryAt(p[i - 1], i - 1)
  BY <1>2, <1>10 DEF Rec
<1>12. p[0] = x
  BY <1>2, <1>10 DEF Rec
<1>13. \A i \in 0 .. n : p[i] \in S_
  <2>1. p[0] \in S_ /\ \A i \in 1 .. n : p[i - 1] \in S_ => p[i] \in S_
    BY <1>4, <1>5, <1>11, <1>12
  <2> QED
    BY ONLY <1>2, <2>1, StaysIn
<1>14. ASSUME NEW i \in Limb PROVE p[i + 1] = CarryAt(p[i], i)
  <2>1. i + 1 \in 1 .. n /\ (i + 1) - 1 = i
    BY <1>2
  <2>2. p[i + 1] = CarryAt(p[(i + 1) - 1], (i + 1) - 1)
    BY <1>11, <2>1
  <2> QED
    BY <2>1, <2>2
<1>15. WITNESS p
<1> QED
  BY <1>1, <1>12, <1>13, <1>14 DEF S_, n

\* car25519 carries from limb to limb.
LEMMA CarIs ==
  ASSUME NEW x \in LimbInts
  PROVE  car25519(x) \in LimbInts /\ \E c : Carries(x, car25519(x), c)
<1>1. PICK f : /\ f[0] = x /\ \A i \in 0 .. Limbs : f[i] \in LimbInts
               /\ \A i \in Limb : f[i + 1] = CarryAt(f[i], i)
               /\ car25519(x) = f[Limbs]
  BY CarSteps
<1> DEFINE c == [k \in 0 .. Limbs |-> IF k = 0 THEN 0 ELSE f[k - 1][k - 1] \div Base]
           Kept(j) == x[j] + c[j] - Base * c[j + 1]
           Holds(i) ==
             \A j \in Limb :
               f[i][j] = IF j < i THEN Kept(j) + (IF i = Limbs /\ j = 0 THEN Wrap * c[Limbs] ELSE 0)
                         ELSE IF j = i THEN x[j] + c[j] ELSE x[j]
           T == {i \in 0 .. Limbs : Holds(i)}
<1>2. /\ Limbs \in Nat /\ Limbs >= 2 /\ Limb = 0 .. Limbs - 1 /\ 0 \in 0 .. Limbs
      /\ \A j \in Limb : j \in 0 .. Limbs /\ j + 1 \in 0 .. Limbs /\ j + 1 # 0 /\ (j + 1) - 1 = j
      /\ Base \in Nat /\ Wrap \in Nat
  BY LimbWidths DEF Limb
<1>3. ASSUME NEW j \in Limb
      PROVE  /\ x[j] \in Int /\ f[j] \in LimbInts /\ f[j][j] \in Int
             /\ c[j + 1] = f[j][j] \div Base /\ c[j + 1] \in Int
  <2>1. f[j] \in LimbInts
    BY <1>1, <1>2
  <2>2. c[j + 1] = f[j][j] \div Base
    BY <1>2
  <2>3. f[j][j] \in Int /\ f[j][j] \div Base \in Int
    BY <2>1, CarryAtIs
  <2> HIDE DEF c
  <2> QED
    BY <2>1, <2>2, <2>3 DEF LimbInts
<1>4. c[0] = 0 /\ \A k \in 0 .. Limbs : c[k] \in Int
  <2>1. c[0] = 0
    BY <1>2
  <2>2. ASSUME NEW k \in 0 .. Limbs, k # 0 PROVE c[k] \in Int
    <3>1. k - 1 \in Limb /\ (k - 1) + 1 = k
      BY <1>2, <2>2
    <3>2. c[(k - 1) + 1] \in Int
      BY <1>3, <3>1
    <3> HIDE DEF c
    <3> QED
      BY <3>1, <3>2
  <2> HIDE DEF c
  <2> QED
    BY <2>1, <2>2
<1> HIDE DEF c
<1>5. Holds(0)
  <2> SUFFICES ASSUME NEW j \in Limb
               PROVE  f[0][j] = IF j < 0 THEN Kept(j) + (IF 0 = Limbs /\ j = 0 THEN Wrap * c[Limbs] ELSE 0)
                                ELSE IF j = 0 THEN x[j] + c[j] ELSE x[j]
    OBVIOUS
  <2>1. ~(j < 0) /\ f[0][j] = x[j] /\ x[j] \in Int
    BY <1>1, <1>2, <1>3
  <2> QED
    BY <1>4, <2>1
<1>6. ASSUME NEW i \in 0 .. Limbs - 1, Holds(i) PROVE Holds(i + 1)
  <2>1. i \in Limb /\ i \in 0 .. Limbs - 1 /\ i # Limbs
    BY <1>2
  <2> DEFINE v == f[i]
             q == v[i] \div Base
  <2>2. v \in LimbInts /\ f[i + 1] = CarryAt(v, i) /\ c[i + 1] = q /\ q \in Int
    BY <1>1, <1>3, <2>1
  <2>3. v[i] = x[i] + c[i]
    BY <1>6, <2>1
  <2> SUFFICES ASSUME NEW j \in Limb
               PROVE  f[i + 1][j] =
                        IF j < i + 1 THEN Kept(j) + (IF i + 1 = Limbs /\ j = 0 THEN Wrap * c[Limbs] ELSE 0)
                        ELSE IF j = i + 1 THEN x[j] + c[j] ELSE x[j]
    OBVIOUS
  <2>4. f[i + 1][j] = IF j = i THEN v[i] - Base * q
                      ELSE IF j = i + 1 THEN v[j] + q
                      ELSE IF i = Limbs - 1 /\ j = 0 THEN v[j] + Wrap * q
                      ELSE v[j]
    <3>1. CarryAt(v, i)[j] = IF j = i THEN v[i] - Base * q
                             ELSE IF j = i + 1 THEN v[j] + q
                             ELSE IF i = Limbs - 1 /\ j = 0 THEN v[j] + Wrap * q
                             ELSE v[j]
      <4> HIDE DEF v
      <4> QED
        BY <2>1, <2>2, CarryAtIs
    <3> HIDE DEF v, q
    <3> QED
      BY <2>2, <3>1
  <2>5. v[j] = IF j < i THEN Kept(j) + 0 ELSE IF j = i THEN x[j] + c[j] ELSE x[j]
    BY <1>6, <2>1
  <2>6. Kept(j) \in Int /\ x[j] \in Int /\ c[j] \in Int /\ c[j + 1] \in Int
    <3>1. x[j] \in Int /\ c[j] \in Int /\ c[j + 1] \in Int
      BY <1>2, <1>3, <1>4
    <3> QED
      BY <1>2, <3>1
  <2>7. CASE j = i
    <3>1. j < i + 1 /\ ~(i + 1 = Limbs /\ j = 0)
      BY <1>2, <2>7
    <3>2. f[i + 1][j] = Kept(j)
      <4>1. f[i + 1][j] = v[i] - Base * q /\ q = c[j + 1] /\ v[i] = x[j] + c[j]
        <5> HIDE DEF v, q
        <5> QED
          BY <2>2, <2>3, <2>4, <2>7
      <4> DEFINE g == Base * c[j + 1]
      <4>2. g \in Int
        <5>1. Base \in Int /\ c[j + 1] \in Int
          BY <1>2, <2>6
        <5> HIDE DEF Kept
        <5> QED
          BY <5>1
      <4>3. f[i + 1][j] = v[i] - g /\ Kept(j) = x[j] + c[j] - g
        <5> HIDE DEF v, q
        <5> QED
          BY <4>1
      <4> HIDE DEF v, q, g, Kept
      <4> QED
        BY <2>6, <4>1, <4>2, <4>3
    <3> HIDE DEF Kept
    <3> QED
      BY <2>6, <3>1, <3>2
  <2>8. CASE j = i + 1
    <3>1. ~(j < i + 1) /\ j # i /\ ~(j < i)
      BY <2>8, <1>2
    <3>2. f[i + 1][j] = x[j] + c[j]
      <4> HIDE DEF v, q, Kept
      <4> QED
        BY <2>2, <2>4, <2>5, <2>8, <3>1
    <3> QED
      BY <2>8, <3>1, <3>2
  <2>9. CASE j # i /\ j # i + 1
    <3>1. (j < i + 1) <=> (j < i)
      BY <1>2, <2>9
    <3>2. CASE i = Limbs - 1 /\ j = 0
      <4>1. i + 1 = Limbs /\ j < i /\ j < i + 1 /\ c[Limbs] = q
        <5>1. i + 1 = Limbs /\ j < i /\ j < i + 1
          BY <1>2, <3>2
        <5> QED
          BY <2>2, <5>1
      <4>2. f[i + 1][j] = Kept(j) + Wrap * q
        <5> HIDE DEF v, q, Kept
        <5> QED
          BY <2>4, <2>5, <2>6, <2>9, <3>2, <4>1
      <4> HIDE DEF Kept, q, v
      <4> QED
        BY <3>2, <4>1, <4>2
    <3>3. CASE ~(i = Limbs - 1 /\ j = 0)
      <4>1. ~(i + 1 = Limbs /\ j = 0)
        BY <1>2, <3>3
      <4>2. f[i + 1][j] = v[j]
        BY <2>4, <2>9, <3>3
      <4> HIDE DEF Kept, v
      <4> QED
        BY <2>5, <2>6, <2>9, <3>1, <4>1, <4>2
    <3> QED
      BY <3>2, <3>3
  <2> QED
    BY <2>7, <2>8, <2>9
<1>7. 0 \in T /\ \A k \in 0 .. Limbs - 1 : k \in T => k + 1 \in T
  <2>1. \A k \in 0 .. Limbs - 1 : k + 1 \in 0 .. Limbs
    BY <1>2
  <2> HIDE DEF Holds
  <2> QED
    BY <1>2, <1>5, <1>6, <2>1
<1>8. \A k \in T : Holds(k)
  OBVIOUS
<1> HIDE DEF T, Holds
<1>9. \A k \in 0 .. Limbs : k \in T
  BY <1>7, UpTo
<1>10. \A k \in 0 .. Limbs : Holds(k)
  BY <1>8, <1>9
<1>11. ASSUME NEW j \in Limb
       PROVE  /\ Kept(j) \in 0 .. Base - 1
              /\ car25519(x)[j] = Kept(j) + (IF j = 0 THEN Wrap * c[Limbs] ELSE 0)
  <2>1. f[j][j] = x[j] + c[j]
    <3>1. Holds(j)
      BY <1>2, <1>10
    <3>2. ~(j < j)
      BY <1>2
    <3> QED
      BY <3>1, <3>2 DEF Holds
  <2>2. f[j][j] - Base * (f[j][j] \div Base) \in 0 .. Base - 1
    BY <1>3, CarryAtIs
  <2>3. Kept(j) \in 0 .. Base - 1
    <3> DEFINE g == Base * c[j + 1]
    <3>1. x[j] \in Int /\ c[j] \in Int /\ c[j + 1] \in Int /\ g \in Int
      <4>1. x[j] \in Int /\ c[j] \in Int /\ c[j + 1] \in Int
        BY <1>2, <1>3, <1>4
      <4> QED
        BY <1>2, <4>1
    <3>2. (x[j] + c[j]) - g \in 0 .. Base - 1
      BY <1>3, <2>1, <2>2
    <3> HIDE DEF g
    <3>3. x[j] + c[j] - g \in 0 .. Base - 1
      BY <3>1, <3>2
    <3> QED
      BY <3>3 DEF g
  <2>4. Holds(Limbs) /\ j < Limbs
    BY <1>2, <1>10
  <2>5. f[Limbs][j] = Kept(j) + (IF j = 0 THEN Wrap * c[Limbs] ELSE 0)
    <3> HIDE DEF Kept
    <3> QED
      BY <2>4 DEF Holds
  <2> QED
    BY <1>1, <2>3, <2>5
<1>12. Carries(x, car25519(x), c)
  BY <1>4, <1>11 DEF Carries
<1>13. car25519(x) \in LimbInts
  BY <1>1, <1>2
<1> QED
  BY <1>12, <1>13

\* One pass of car25519: digits d of what x stands for, but for q times what all
\* limbs hold; q comes back to the lowest limb.
IsPass(x, d, q) ==
  /\ \A k \in Limb : d[k] \in 0 .. Base - 1
  /\ 0 <= Worth(d)[Limbs] /\ Worth(d)[Limbs] < Span
  /\ Worth(x)[Limbs] = Span * q + Worth(d)[Limbs]
  /\ car25519(x) \in LimbInts
  /\ \A k \in Limb : car25519(x)[k] = d[k] + (IF k = 0 THEN Wrap * q ELSE 0)
  /\ Worth(car25519(x))[Limbs] = Worth(d)[Limbs] + Wrap * q

\* Small limbs have small carries.
LEMMA CarriesAreSmall ==
  ASSUME NEW x \in LimbInts, NEW y, NEW c, Carries(x, y, c),
         NEW b \in Nat, \A k \in Limb : -b <= x[k] /\ x[k] <= b,
         NEW m \in Nat, b + m <= Base * m
  PROVE  \A k \in 0 .. Limbs : -m <= c[k] /\ c[k] <= m
<1> DEFINE Holds(k) == -m <= c[k] /\ c[k] <= m
           T == {k \in 0 .. Limbs : Holds(k)}
<1>1. Holds(0) /\ 0 \in 0 .. Limbs
  BY LimbWidths DEF Carries
<1>2. ASSUME NEW k \in 0 .. Limbs - 1, Holds(k) PROVE Holds(k + 1)
  <2> DEFINE p == x[k]
             d == c[k]
             e == c[k + 1]
             g == Base * e
             l == Base * m
  <2>1. k \in Limb /\ k \in 0 .. Limbs /\ k + 1 \in 0 .. Limbs /\ Base \in Nat /\ Base >= 4
    BY LimbWidths DEF Limb
  <2>2. p \in Int /\ d \in Int /\ e \in Int /\ p + d - g \in 0 .. Base - 1
    BY <2>1 DEF Carries, LimbInts
  <2>3. -b <= p /\ p <= b /\ -m <= d /\ d <= m /\ b + m <= l
    BY <1>2, <2>1
  <2>4. g \in Int /\ l \in Int
    <3> HIDE DEF e
    <3> QED
      BY <2>1, <2>2
  <2>5. ASSUME m + 1 <= e PROVE FALSE
    <3>1. Base * (m + 1) <= g /\ Base * (m + 1) = l + Base
      <4> HIDE DEF e
      <4>1. Base * (m + 1) <= Base * e
        BY <2>1, <2>2, <2>5, Scaled
      <4> QED
        BY <2>1, <4>1
    <3> HIDE DEF g, l, p, d, e
    <3> QED
      BY <2>1, <2>2, <2>3, <2>4, <3>1
  <2>6. ASSUME e <= -m - 1 PROVE FALSE
    <3>1. g <= Base * (-m - 1) /\ Base * (-m - 1) = -l - Base
      <4> HIDE DEF e
      <4>1. Base * e <= Base * (-m - 1)
        BY <2>1, <2>2, <2>6, Scaled
      <4> QED
        BY <2>1, <4>1
    <3> HIDE DEF g, l, p, d, e
    <3> QED
      BY <2>1, <2>2, <2>3, <2>4, <3>1
  <2> HIDE DEF g, l, p, d
  <2> QED
    BY <2>2, <2>5, <2>6
<1>3. 0 \in T /\ \A k \in 0 .. Limbs - 1 : k \in T => k + 1 \in T
  <2>1. \A k \in 0 .. Limbs - 1 : k + 1 \in 0 .. Limbs
    BY LimbWidths
  <2> HIDE DEF Holds
  <2> QED
    BY <1>1, <1>2, <2>1
<1>4. \A k \in T : Holds(k)
  OBVIOUS
<1> HIDE DEF T, Holds
<1>5. \A k \in 0 .. Limbs : k \in T
  BY <1>3, UpTo
<1>6. \A k \in 0 .. Limbs : Holds(k)
  BY <1>4, <1>5
<1> QED
  BY <1>6 DEF Holds

\* What is added to the lowest limb is added to what the limbs stand for.
LEMMA LowestLimb ==
  ASSUME NEW x \in LimbInts, NEW y \in LimbInts, NEW q \in Int,
         \A k \in Limb : y[k] = x[k] + (IF k = 0 THEN q ELSE 0)
  PROVE  Worth(y)[Limbs] = Worth(x)[Limbs] + q
<1> DEFINE one == [k \in Limb |-> IF k = 0 THEN 1 ELSE 0]
           Holds(k) == k >= 1 => Worth(one)[k] = 1
           T == {k \in 0 .. Limbs : Holds(k)}
<1>1. one \in LimbInts /\ \A k \in Limb : one[k] = IF k = 0 THEN 1 ELSE 0
  BY DEF LimbInts
<1> HIDE DEF one
<1>2. Limbs \in Nat /\ Limbs >= 2 /\ Limb = 0 .. Limbs - 1 /\ Weight[0] = 1
  BY LimbWidths, LimbWeights DEF Limb
<1>3. ASSUME NEW k \in 0 .. Limbs - 1, Holds(k) PROVE Holds(k + 1)
  <2>1. Worth(one)[k + 1] = Worth(one)[k] + one[k] * Weight[k] /\ Weight[k] \in Nat /\ k \in Limb
    BY <1>1, <1>2, WorthIs
  <2>2. CASE k = 0
    <3>1. Worth(one)[0] = 0 /\ one[0] = 1
      BY <1>1, <2>1, <2>2, WorthIs
    <3> QED
      BY <1>2, <2>1, <2>2, <3>1
  <2>3. CASE k # 0
    <3>1. one[k] = 0 /\ Worth(one)[k] = 1
      BY <1>1, <1>2, <1>3, <2>1, <2>3
    <3> QED
      BY <2>1, <3>1
  <2> QED
    BY <2>2, <2>3
<1>4. 0 \in T /\ \A k \in 0 .. Limbs - 1 : k \in T => k + 1 \in T
  <2>1. Holds(0) /\ 0 \in 0 .. Limbs /\ \A k \in 0 .. Limbs - 1 : k + 1 \in 0 .. Limbs
    BY <1>2
  <2> HIDE DEF Holds
  <2> QED
    BY <1>3, <2>1
<1>5. \A k \in T : Holds(k)
  OBVIOUS
<1> HIDE DEF T
<1>6. Worth(one)[Limbs] = 1
  <2>1. Limbs \in 0 .. Limbs
    BY <1>2
  <2>2. Holds(Limbs)
    <3> HIDE DEF Holds
    <3> QED
      BY <1>4, <1>5, <2>1, UpTo
  <2> QED
    BY <1>2, <2>2
<1>7. \A i \in Limb : y[i] = 1 * x[i] + q * one[i]
  <2> SUFFICES ASSUME NEW i \in Limb PROVE y[i] = 1 * x[i] + q * one[i]
    OBVIOUS
  <2>1. x[i] \in Int
    BY DEF LimbInts
  <2> QED
    BY <1>1, <2>1
<1>8. \A k \in 0 .. Limbs : Worth(y)[k] = 1 * Worth(x)[k] + q * Worth(one)[k]
  BY <1>1, <1>7, WorthCombines
<1>9. Worth(x)[Limbs] \in Int /\ Worth(y)[Limbs] = 1 * Worth(x)[Limbs] + q * 1
  <2>1. Limbs \in 0 .. Limbs
    BY <1>2
  <2> QED
    BY <1>6, <1>8, <2>1, WorthIs
<1> QED
  BY <1>9

\* Each pass of car25519 is one; and small limbs wrap little around.
LEMMA PassIs ==
  ASSUME NEW x \in LimbInts
  PROVE  \E d \in LimbInts, q \in Int :
           /\ IsPass(x, d, q)
           /\ \A b, m \in Nat : (b + m <= Base * m /\ \A k \in Limb : -b <= x[k] /\ x[k] <= b)
                                  => -m <= q /\ q <= m
<1> DEFINE y == car25519(x)
           n == Limbs
<1>1. PICK c : Carries(x, y, c) /\ y \in LimbInts
  BY CarIs
<1> DEFINE d == [k \in Limb |-> x[k] + c[k] - Base * c[k + 1]]
           q == c[n]
           s == Worth(x)[n]
           t == Worth(d)[n]
<1>2. /\ n \in 0 .. n /\ Limb = 0 .. n - 1 /\ Base \in Nat /\ Wrap \in Nat /\ Span \in Nat
      /\ Weight[n] = Span
  BY LimbWidths, LimbWeights, ModulusIs DEF Limb
<1>3. \A k \in Limb : d[k] \in 0 .. Base - 1
  BY <1>1 DEF Carries
<1>4. d \in LimbInts
  <2>1. d \in [Limb -> 0 .. Base - 1]
    <3>1. d = [k \in Limb |-> d[k]]
      OBVIOUS
    <3> HIDE DEF d
    <3> QED
      BY <1>3, <3>1
  <2> HIDE DEF d
  <2> QED
    BY <1>2, <2>1 DEF LimbInts
<1>5. q \in Int /\ c[0] = 0 /\ \A k \in 0 .. Limbs : c[k] \in Int
  BY <1>1, <1>2 DEF Carries
<1>6. t + q * Span = s
  <2>1. \A k \in Limb : d[k] = x[k] + c[k] - Base * c[k + 1]
    OBVIOUS
  <2> HIDE DEF d
  <2>2. \A k \in 0 .. Limbs : Worth(d)[k] + c[k] * Weight[k] = Worth(x)[k]
    BY <1>4, <1>5, <2>1, WorthCarried
  <2> QED
    BY <1>2, <2>2
<1>7. \A k \in Limb : y[k] = d[k] + (IF k = 0 THEN Wrap * q ELSE 0)
  BY <1>1 DEF Carries
<1> HIDE DEF d
<1>8. 0 <= t /\ t <= Span - 1 /\ t \in Int /\ s \in Int
  <2>1. \A j \in 0 .. n - 1 : d[j] \in 0 .. Base - 1
    BY <1>2, <1>3
  <2>2. 0 <= t /\ t <= Weight[n] - 1
    BY <1>2, <1>4, <2>1, WorthOfDigits
  <2>3. t \in Int /\ s \in Int
    BY <1>2, <1>4, WorthIs
  <2> HIDE DEF t, s
  <2> QED
    BY <1>2, <2>2, <2>3
<1>9. Worth(y)[n] = t + Wrap * q
  <2> DEFINE u == Wrap * q
  <2>1. u \in Int
    <3> HIDE DEF q
    <3> QED
      BY <1>2, <1>5
  <2>2. \A k \in Limb : y[k] = d[k] + (IF k = 0 THEN u ELSE 0)
    BY <1>7
  <2> HIDE DEF u, y
  <2>3. Worth(y)[n] = Worth(d)[n] + u
    BY <1>1, <1>4, <2>1, <2>2, LowestLimb
  <2> QED
    BY <2>3 DEF u
<1>10. s = Span * q + t /\ t < Span
  <2> HIDE DEF s, q, t
  <2>1. q * Span = Span * q /\ Span * q \in Int
    BY <1>2, <1>5
  <2> QED
    BY <1>2, <1>6, <1>8, <2>1
<1>11. IsPass(x, d, q)
  BY <1>1, <1>3, <1>7, <1>8, <1>9, <1>10 DEF IsPass
<1>12. ASSUME NEW b \in Nat, NEW m \in Nat, b + m <= Base * m,
              \A k \in Limb : -b <= x[k] /\ x[k] <= b
       PROVE  -m <= q /\ q <= m
  <2>1. \A k \in 0 .. Limbs : -m <= c[k] /\ c[k] <= m
    BY <1>1, <1>12, CarriesAreSmall
  <2> QED
    BY <1>2, <2>1
<1> QED
  BY <1>4, <1>5, <1>11, <1>12

\* Room, and the most that limbs within it wrap around.
LEMMA RoomIs ==
  /\ Room \in Nat /\ Room >= 3 * (Base + Wrap)
  /\ \E m \in Nat : Room + m <= Base * m /\ Wrap * (m + 1) <= Span
<1> DEFINE g == (Base + Wrap) * (Base + Wrap)
           e == (Limbs - 1) * (Wrap * Base * Base)
           m == (2 * Room) \div Base + 1
<1>1. Base \in Nat /\ Base >= 4 /\ Wrap \in Nat /\ Wrap = 2 * Fold /\ Limbs - 1 \in Nat /\ Span \in Nat
  BY LimbWidths, ModulusIs
<1>2. Room = 9 * (g + e)
  BY <1>1 DEF Room
<1>3. g \in Nat /\ e \in Nat /\ g >= Base + Wrap
  <2>1. (Base + Wrap) * 1 <= (Base + Wrap) * (Base + Wrap)
    BY <1>1, Scaled
  <2>2. Wrap * Base * Base \in Nat
    <3>1. Wrap * Base \in Nat
      BY <1>1
    <3> QED
      BY <1>1, <3>1
  <2>3. e \in Nat
    <3> DEFINE u == Wrap * Base * Base
    <3> HIDE DEF u
    <3>1. u \in Nat
      BY <2>2 DEF u
    <3>2. (Limbs - 1) * u \in Nat
      BY <1>1, <3>1
    <3> QED
      BY <3>2 DEF u
  <2> QED
    BY <1>1, <2>1, <2>3
<1> HIDE DEF g, e
<1>4. Room \in Nat /\ Room >= 3 * (Base + Wrap)
  BY <1>1, <1>2, <1>3
<1>5. m \in Nat /\ 2 * Room <= Base * m - 1
  <2> DEFINE v == 2 * Room
             q == v \div Base
             r == v % Base
  <2>1. v \in Nat
    BY <1>4
  <2> HIDE DEF v
  <2>2. q \in Nat
    BY <1>1, <2>1
  <2>3. r \in 0 .. Base - 1 /\ v = Base * q + r
    BY <1>1, <2>1, Parts
  <2>4. m = q + 1
    BY DEF v
  <2> HIDE DEF q, r, m
  <2>5. Base * m = Base * q + Base /\ Base * q \in Int
    BY <1>1, <2>2, <2>4
  <2> QED
    BY <1>1, <2>2, <2>3, <2>4, <2>5 DEF v
<1>6. Wrap * (m + 1) <= Span
  <2>1. 2 * Fold * ((2 * Room) \div Base + 2) <= Span
    BY RoomAssumption DEF Span
  <2>2. m + 1 = (2 * Room) \div Base + 2
    <3>1. (2 * Room) \div Base \in Int
      <4>1. 2 * Room \in Int
        BY <1>4
      <4> QED
        BY <1>1, <4>1
    <3> QED
      BY <3>1
  <2> QED
    BY <1>1, <2>1, <2>2
<1> HIDE DEF m
<1>7. Room + m <= Base * m
  <2>1. m * 4 <= m * Base /\ m * Base = Base * m /\ Base * m \in Int
    BY <1>1, <1>5, Scaled
  <2> QED
    BY <1>4, <1>5, <2>1
<1> QED
  BY <1>4, <1>5, <1>6, <1>7

\* Within the room, a second pass wraps around at most once, and a third not at all.
LEMMA PassesAre ==
  ASSUME NEW x \in LimbInts, \A k \in Limb : -Room <= x[k] /\ x[k] <= Room,
         NEW y, y = car25519(car25519(x)), NEW r, r = car25519(y)
  PROVE  /\ y \in LimbInts /\ r \in LimbInts
         /\ \A k \in Limb : IF k = 0 THEN y[k] \in -Wrap .. Base - 1 + Wrap
                            ELSE y[k] \in 0 .. Base - 1
         /\ \A k \in Limb : r[k] \in 0 .. Base - 1
         /\ \E q \in Int : Worth(y)[Limbs] = Modulus * q + Worth(x)[Limbs]
         /\ Worth(r)[Limbs] = Worth(y)[Limbs]
<1>1. PICK m \in Nat : Room + m <= Base * m /\ Wrap * (m + 1) <= Span
  BY RoomIs
<1>2. PICK d1 \in LimbInts, q1 \in Int : IsPass(x, d1, q1) /\ -m <= q1 /\ q1 <= m
  BY <1>1, RoomIs, PassIs
<1> DEFINE x1 == car25519(x)
<1>3. x1 \in LimbInts
  BY <1>2 DEF IsPass
<1>4. PICK d2 \in LimbInts, q2 \in Int : IsPass(x1, d2, q2)
  <2> HIDE DEF x1
  <2> QED
    BY <1>3, PassIs
<1>5. y = car25519(x1) /\ y \in LimbInts
  BY <1>4 DEF IsPass
<1>6. PICK d3 \in LimbInts, q3 \in Int : IsPass(y, d3, q3)
  BY <1>5, PassIs
<1> DEFINE v0 == Worth(x)[Limbs]
           v1 == Worth(x1)[Limbs]
           v2 == Worth(y)[Limbs]
           v3 == Worth(r)[Limbs]
           t1 == Worth(d1)[Limbs]
           t2 == Worth(d2)[Limbs]
           t3 == Worth(d3)[Limbs]
           u1 == Wrap * q1
           u2 == Wrap * q2
           u3 == Wrap * q3
           s1 == Span * q1
           s2 == Span * q2
           s3 == Span * q3
           wm == Wrap * m
<1>7. /\ v0 = s1 + t1 /\ v1 = t1 + u1 /\ 0 <= t1 /\ t1 < Span
      /\ v1 = s2 + t2 /\ v2 = t2 + u2 /\ 0 <= t2 /\ t2 < Span
      /\ v2 = s3 + t3 /\ v3 = t3 + u3 /\ 0 <= t3 /\ t3 < Span
  <2>1. v0 = s1 + t1 /\ v1 = t1 + u1 /\ 0 <= t1 /\ t1 < Span
    BY <1>2 DEF IsPass
  <2>2. v1 = s2 + t2 /\ 0 <= t2 /\ t2 < Span /\ Worth(car25519(x1))[Limbs] = t2 + u2
    <3> HIDE DEF x1
    <3> QED
      BY <1>4 DEF IsPass
  <2>3. v2 = s3 + t3 /\ v3 = t3 + u3 /\ 0 <= t3 /\ t3 < Span
    BY <1>6 DEF IsPass
  <2>4. v2 = t2 + u2
    BY <1>5, <2>2
  <2> QED
    BY <2>1, <2>2, <2>3, <2>4
<1>8. /\ Span \in Nat /\ Wrap \in Nat /\ Wrap >= 4 /\ Span = 2 * Modulus + Wrap /\ Modulus \in Nat
      /\ Base \in Nat /\ Limbs \in 0 .. Limbs
  BY ModulusIs, LimbWidths
<1>9. v0 \in Int /\ t1 \in Int /\ t2 \in Int /\ t3 \in Int
  BY <1>2, <1>4, <1>6, <1>8, WorthIs
<1>10. /\ u1 \in Int /\ u2 \in Int /\ u3 \in Int /\ s1 \in Int /\ s2 \in Int /\ s3 \in Int /\ wm \in Int
       /\ -wm <= u1 /\ u1 <= wm /\ wm + Wrap <= Span
  <2>1. Wrap * (-m) <= u1 /\ u1 <= wm /\ u1 \in Int /\ wm \in Int
    BY <1>2, <1>8, Scaled
  <2>2. Wrap * (-m) = -wm /\ Wrap * (m + 1) = wm + Wrap
    BY <1>8
  <2>3. u2 \in Int /\ u3 \in Int /\ s1 \in Int /\ s2 \in Int /\ s3 \in Int
    BY <1>8
  <2> QED
    BY <1>1, <2>1, <2>2, <2>3
<1>11. q2 \in {-1, 0, 1}
  <2>1. -Span < v1 /\ v1 < 2 * Span /\ v1 \in Int
    <3> HIDE DEF v1, t1, u1, wm
    <3> QED
      BY <1>7, <1>8, <1>9, <1>10
  <2>2. ASSUME q2 >= 2 PROVE FALSE
    <3>1. Span * 2 <= s2
      BY <1>8, <2>2, Scaled
    <3> HIDE DEF v1, t2, s2
    <3> QED
      BY <1>7, <1>8, <1>9, <1>10, <2>1, <3>1
  <2>3. ASSUME q2 <= -2 PROVE FALSE
    <3>1. s2 <= Span * (-2) /\ Span * (-2) = -(2 * Span)
      BY <1>8, <2>3, Scaled
    <3> HIDE DEF v1, t2, s2
    <3> QED
      BY <1>7, <1>8, <1>9, <1>10, <2>1, <3>1
  <2> QED
    BY <2>2, <2>3
<1>12. (q2 = 0 /\ u2 = 0 /\ s2 = 0) \/ (q2 = 1 /\ u2 = Wrap /\ s2 = Span)
         \/ (q2 = -1 /\ u2 = -Wrap /\ s2 = -Span)
  BY <1>8, <1>11
<1>13. 0 <= v2 /\ v2 < Span /\ v2 \in Int
  <2> HIDE DEF v1, v2, t1, t2, u1, u2, s2, wm
  <2> QED
    BY <1>7, <1>8, <1>9, <1>10, <1>12
<1>14. q3 = 0 /\ u3 = 0 /\ s3 = 0
  <2>1. ASSUME q3 >= 1 PROVE FALSE
    <3>1. Span * 1 <= s3
      BY <1>8, <2>1, Scaled
    <3> HIDE DEF v2, t3, s3
    <3> QED
      BY <1>7, <1>8, <1>9, <1>10, <1>13, <3>1
  <2>2. ASSUME q3 <= -1 PROVE FALSE
    <3>1. s3 <= Span * (-1) /\ Span * (-1) = -Span
      BY <1>8, <2>2, Scaled
    <3> HIDE DEF v2, t3, s3
    <3> QED
      BY <1>7, <1>8, <1>9, <1>10, <1>13, <3>1
  <2>3. q3 = 0
    BY <2>1, <2>2
  <2> QED
    BY <1>8, <2>3
<1>15. v3 = v2
  <2> HIDE DEF v3, v2, t3, s3, u3
  <2> QED
    BY <1>7, <1>9, <1>14
<1>16. ASSUME NEW k \in Limb
       PROVE  /\ IF k = 0 THEN y[k] \in -Wrap .. Base - 1 + Wrap ELSE y[k] \in 0 .. Base - 1
              /\ r[k] \in 0 .. Base - 1
  <2>1. d2[k] \in 0 .. Base - 1 /\ y[k] = d2[k] + (IF k = 0 THEN u2 ELSE 0)
    <3> HIDE DEF x1
    <3> QED
      BY <1>4, <1>5 DEF IsPass
  <2>2. d3[k] \in 0 .. Base - 1 /\ r[k] = d3[k] + (IF k = 0 THEN u3 ELSE 0)
    BY <1>6 DEF IsPass
  <2> HIDE DEF u2, u3, s2, s3
  <2> QED
    BY <1>8, <1>12, <1>14, <2>1, <2>2
<1>17. \E q \in Int : v2 = Modulus * q + v0
  <2> DEFINE g == -(2 * q1) - 2 * q2
             i == Modulus * q1
             j == Modulus * q2
  <2>1. g \in Int /\ i \in Int /\ j \in Int
    BY <1>8
  <2>2. Modulus * g = -(2 * i) - 2 * j
    BY <1>8
  <2>3. s1 = 2 * i + u1 /\ s2 = 2 * j + u2
    <3>1. (2 * Modulus + Wrap) * q1 = 2 * i + u1 /\ (2 * Modulus + Wrap) * q2 = 2 * j + u2
      BY <1>8
    <3> QED
      BY <1>8, <3>1
  <2>4. v2 = Modulus * g + v0
    <3> DEFINE mg == Modulus * g
    <3>1. mg = -(2 * i) - 2 * j
      BY <2>2
    <3> HIDE DEF mg, g, i, j, s1, s2, u1, u2, v0, v1, v2, t1, t2
    <3>2. v2 = mg + v0
      BY <1>7, <1>9, <1>10, <2>1, <2>3, <3>1
    <3> QED
      BY <3>2 DEF mg
  <2> HIDE DEF g
  <2> QED
    BY <2>1, <2>4
<1>18. r \in LimbInts
  BY <1>6 DEF IsPass
<1> QED
  BY <1>5, <1>15, <1>16, <1>17, <1>18

-----------------------------------------------------------------------------
(***************************************************************************)
(* Packing.                                                                *)
(***************************************************************************)

\* The limbs of the modulus.
ModulusDigit(i) ==
  IF i = 0 THEN Base - Fold ELSE IF i < Limbs - 1 THEN Base - 1 ELSE Base \div 2 - 1

\* They stand for it.
LEMMA ModulusDigitsAre ==
  /\ [i \in Limb |-> ModulusDigit(i)] \in LimbInts
  /\ \A i \in Limb : ModulusDigit(i) \in 0 .. Base - 1
  /\ Worth([i \in Limb |-> ModulusDigit(i)])[Limbs] = Modulus
<1> DEFINE x == [i \in Limb |-> ModulusDigit(i)]
           n == Limbs
           Holds(k) == k >= 1 /\ k <= n - 1 => Worth(x)[k] = Weight[k] - Fold
           T == {k \in 0 .. n : Holds(k)}
           half == Base \div 2
           top == Weight[n - 1]
<1>1. /\ n \in Nat /\ n >= 2 /\ Limb = 0 .. n - 1 /\ Base \in Nat /\ Base >= 4
      /\ half \in Nat /\ half >= 2 /\ Base = 2 * half
      /\ Fold \in Nat /\ 2 * Fold < Base /\ Modulus \in Nat
      /\ Weight[0] = 1 /\ top * half = Modulus + Fold
  BY LimbWidths, LimbWeights, ModulusIs DEF Limb
<1> HIDE DEF half, top
<1>2. \A i \in Limb : ModulusDigit(i) \in 0 .. Base - 1
  <2>1. Base - Fold \in 0 .. Base - 1 /\ Base - 1 \in 0 .. Base - 1 /\ half - 1 \in 0 .. Base - 1
    <3>1. Fold >= 1
      BY LimbAssumption
    <3> QED
      BY <1>1, <3>1
  <2> QED
    BY <2>1 DEF ModulusDigit, half
<1>3. x \in LimbInts /\ \A i \in Limb : x[i] = ModulusDigit(i)
  <2>1. \A i \in Limb : ModulusDigit(i) \in Int
    BY <1>1, <1>2
  <2> QED
    BY <2>1 DEF LimbInts
<1> HIDE DEF x
<1>4. ASSUME NEW k \in 0 .. n - 1, Holds(k) PROVE Holds(k + 1)
  <2> SUFFICES ASSUME k + 1 <= n - 1 PROVE Worth(x)[k + 1] = Weight[k + 1] - Fold
    OBVIOUS
  <2> DEFINE v == Weight[k]
             bv == Base * v
  <2>1. Worth(x)[k + 1] = Worth(x)[k] + x[k] * v /\ v \in Nat /\ Weight[k + 1] = bv /\ k \in Limb
        /\ Worth(x)[0] = 0
    BY <1>1, <1>3, WorthIs, LimbWeights
  <2>2. CASE k = 0
    <3>1. x[k] = Base - Fold /\ v = 1 /\ Worth(x)[k] = 0
      BY <1>1, <1>3, <2>1, <2>2 DEF ModulusDigit
    <3> HIDE DEF v
    <3> QED
      BY <1>1, <2>1, <3>1
  <2>3. CASE k # 0
    <3>1. x[k] = Base - 1 /\ Worth(x)[k] = v - Fold
      BY <1>1, <1>3, <1>4, <2>1, <2>3 DEF ModulusDigit
    <3> HIDE DEF v
    <3>2. (Base - 1) * v = bv - v /\ bv \in Int
      BY <1>1, <2>1
    <3> DEFINE g == (Base - 1) * v
    <3>3. Worth(x)[k + 1] = (v - Fold) + g /\ g = bv - v
      BY <2>1, <3>1, <3>2
    <3> HIDE DEF g, bv
    <3> QED
      BY <1>1, <2>1, <3>2, <3>3
  <2> QED
    BY <2>2, <2>3
<1>5. 0 \in T /\ \A k \in 0 .. Limbs - 1 : k \in T => k + 1 \in T
  <2>1. Holds(0) /\ 0 \in 0 .. n /\ \A k \in 0 .. n - 1 : k + 1 \in 0 .. n
    BY <1>1
  <2> HIDE DEF Holds
  <2> QED
    BY <1>4, <2>1
<1>6. \A k \in T : Holds(k)
  OBVIOUS
<1> HIDE DEF T
<1>7. Worth(x)[n - 1] = top - Fold
  <2>1. n - 1 \in 0 .. n
    BY <1>1
  <2>2. Holds(n - 1)
    <3> HIDE DEF Holds
    <3> QED
      BY <1>5, <1>6, <2>1, UpTo
  <2> QED
    BY <1>1, <2>2 DEF top
<1>8. Worth(x)[n] = (top - Fold) + (half - 1) * top /\ top \in Nat
  <2>1. n - 1 \in 0 .. n - 1 /\ (n - 1) + 1 = n /\ n - 1 # 0 /\ ~(n - 1 < n - 1)
    BY <1>1
  <2>2. Worth(x)[(n - 1) + 1] = Worth(x)[n - 1] + x[n - 1] * Weight[n - 1] /\ Weight[n - 1] \in Nat
    BY <1>3, <2>1, WorthIs
  <2>3. x[n - 1] = half - 1
    BY <1>1, <1>3, <2>1 DEF ModulusDigit, half
  <2> QED
    BY <1>7, <2>1, <2>2, <2>3 DEF top
<1>9. (half - 1) * top = top * half - top /\ top * half \in Int
  BY <1>1, <1>8
<1> DEFINE g == (half - 1) * top
           l == top * half
<1>10. Worth(x)[n] = (top - Fold) + g /\ g = l - top /\ l = Modulus + Fold /\ l \in Int
  BY <1>1, <1>8, <1>9
<1> HIDE DEF g, l
<1>11. Worth(x)[n] = Modulus
  BY <1>1, <1>8, <1>10
<1> QED
  BY <1>2, <1>3, <1>11 DEF x

\* A borrow shows in the bit above the limb.
LEMMA BorrowBitIs ==
  ASSUME NEW v \in Int
  PROVE  /\ BorrowBit(v) \in {0, 1}
         /\ v \in -Base .. Base - 1 =>
              /\ BorrowBit(v) = IF v < 0 THEN 1 ELSE 0
              /\ v % Base = v + Base * BorrowBit(v)
              /\ v % Base \in 0 .. Base - 1
<1> DEFINE q == v \div Base
<1>1. Base \in Nat /\ Base >= 4
  BY LimbWidths
<1>2. q \in Int
  BY <1>1, Parts
<1>3. BorrowBit(v) = q % 2
  BY DEF BorrowBit
<1>4. BorrowBit(v) \in {0, 1}
  <2> HIDE DEF q
  <2> QED
    BY <1>2, <1>3
<1>5. ASSUME v \in 0 .. Base - 1 PROVE BorrowBit(v) = 0 /\ v % Base = v
  <2> DEFINE u == 0
  <2>1. v = Base * u + v /\ u \in Int
    BY <1>1, <1>5
  <2> HIDE DEF u
  <2>2. v \div Base = u /\ v % Base = v
    BY <1>1, <1>5, <2>1, PartsAre
  <2> QED
    BY <1>3, <2>2 DEF u
<1>6. ASSUME v \in -Base .. -1 PROVE BorrowBit(v) = 1 /\ v % Base = v + Base
  <2> DEFINE u == -1
             r == v + Base
  <2>1. v = Base * u + r /\ u \in Int /\ r \in 0 .. Base - 1
    BY <1>1, <1>6
  <2> HIDE DEF u, r
  <2>2. v \div Base = u /\ v % Base = r
    BY <1>1, <2>1, PartsAre
  <2>3. u % 2 = 1
    <3> DEFINE two == 2
               one == 1
    <3>1. two \in Nat /\ two >= 1 /\ u \in Int /\ one \in 0 .. two - 1 /\ u = two * u + one
      BY DEF u
    <3> HIDE DEF u, two, one
    <3>2. u % two = one
      BY ONLY <3>1, PartsAre
    <3> QED
      BY <3>2 DEF two, one
  <2> QED
    BY <1>3, <2>2, <2>3 DEF r
<1>7. ASSUME v \in -Base .. Base - 1
      PROVE  /\ BorrowBit(v) = IF v < 0 THEN 1 ELSE 0
             /\ v % Base = v + Base * BorrowBit(v)
             /\ v % Base \in 0 .. Base - 1
  <2>1. CASE v < 0
    <3>1. v \in -Base .. -1 /\ v + Base \in 0 .. Base - 1 /\ Base * 1 = Base
      BY <1>1, <1>7, <2>1
    <3> QED
      BY <1>6, <2>1, <3>1
  <2>2. CASE ~(v < 0)
    <3>1. v \in 0 .. Base - 1 /\ v + Base * 0 = v
      BY <1>1, <1>7, <2>2
    <3> QED
      BY <1>5, <2>2, <3>1
  <2> QED
    BY <2>1, <2>2
<1> QED
  BY <1>4, <1>7

\* The borrows of LessModulus, limb by limb.
LEMMA BorrowSteps ==
  ASSUME NEW x \in LimbInts
  PROVE  \E m : /\ \A i \in Limb : /\ m[i] \in Int
                                   /\ m[i] = x[i] - ModulusDigit(i)
                                               - (IF i = 0 THEN 0 ELSE BorrowBit(m[i - 1]))
                /\ LessModulus(x) =
                     IF 1 - BorrowBit(m[Limbs - 1]) = 1
                     THEN [i \in Limb |-> IF i < Limbs - 1 THEN m[i] % Base ELSE m[i]]
                     ELSE x
<1> DEFINE n == Limbs - 1
           Values == Int
           F == [0 .. n -> Values]
           G == [1 .. n -> [Values -> Values]]
           Rec(f) == [i \in Limb |-> x[i] - ModulusDigit(i) - IF i = 0 THEN 0 ELSE BorrowBit(f[i - 1])]
           p == CHOOSE f : f = Rec(f)
           start == x[0] - ModulusDigit(0) - 0
           step == [i \in 1 .. n |-> [v \in Values |-> x[i] - ModulusDigit(i) - BorrowBit(v)]]
           masked == [i \in Limb |-> IF i < Limbs - 1 THEN p[i] % Base ELSE p[i]]
<1>1. n \in Nat /\ Limb = 0 .. n /\ n = Limbs - 1
  BY LimbWidths DEF Limb
<1>2. LessModulus(x) = IF 1 - BorrowBit(p[n]) = 1 THEN masked ELSE x
  <2>1. LessModulus(x) = sel25519(<<x, masked>>, 1 - BorrowBit(p[n]))[1]
    BY DEF LessModulus, ModulusDigit
  <2> DEFINE b == 1 - BorrowBit(p[n])
  <2> HIDE DEF masked, p, b
  <2>2. sel25519(<<x, masked>>, b)[1] = IF b = 1 THEN masked ELSE x
    BY DEF sel25519
  <2> QED
    BY <2>1, <2>2 DEF b
<1>3. \A i \in Limb : x[i] \in Int /\ ModulusDigit(i) \in Int
  <2>1. Base \in Nat
    BY LimbWidths
  <2> QED
    BY <2>1, ModulusDigitsAre DEF LimbInts
<1>4. \A v \in Values : BorrowBit(v) \in Int
  BY BorrowBitIs
<1>5. start \in Values /\ \A i \in 1 .. n : \A v \in Values : x[i] - ModulusDigit(i) - BorrowBit(v) \in Values
  <2>1. 0 \in Limb /\ \A i \in 1 .. n : i \in Limb
    BY <1>1
  <2> QED
    BY <1>3, <1>4, <2>1
<1> HIDE DEF n
<1>6. step \in G
  BY <1>5
<1>7. \A i \in 1 .. n : \A v \in Values : step[i][v] = x[i] - ModulusDigit(i) - BorrowBit(v)
  OBVIOUS
<1> HIDE DEF step, start
<1>8. PICK f \in F : f[0] = start /\ \A i \in 1 .. n : f[i] = step[i][f[i - 1]]
  <2>1. F = [0 .. n -> Values] /\ G = [1 .. n -> [Values -> Values]]
    OBVIOUS
  <2> HIDE DEF F, G, Values
  <2>2. \E f \in F : Steps(f, start, n, step)
    BY ONLY <1>1, <1>5, <2>1, <1>6, Recursion, Zenon
  <2> QED
    BY <2>2 DEF Steps
<1>9. ASSUME NEW i \in Limb PROVE f[i] = Rec(f)[i]
  <2>1. CASE i = 0
    BY <1>8, <2>1 DEF start
  <2>2. CASE i # 0
    <3>1. i \in 1 .. n /\ i - 1 \in 0 .. n
      BY <1>1, <2>2
    <3>2. f[i] = x[i] - ModulusDigit(i) - BorrowBit(f[i - 1])
      BY <1>7, <1>8, <3>1
    <3> QED
      BY <2>2, <3>2
  <2> QED
    BY <2>1, <2>2
<1>10. f = Rec(f)
  <2>1. f = [i \in Limb |-> f[i]]
    BY <1>1
  <2>2. Rec(f) = [i \in Limb |-> Rec(f)[i]]
    OBVIOUS
  <2> HIDE DEF Rec
  <2>3. [i \in Limb |-> f[i]] = [i \in Limb |-> Rec(f)[i]]
    BY <1>9
  <2> QED
    BY <2>1, <2>2, <2>3
<1> HIDE DEF Rec
<1>11. p = Rec(p)
  BY <1>10
<1> HIDE DEF p
<1>12. \A i \in Limb : p[i] = x[i] - ModulusDigit(i) - (IF i = 0 THEN 0 ELSE BorrowBit(p[i - 1]))
  BY <1>11 DEF Rec
<1>13. \A i \in 0 .. n : p[i] \in Values
  <2>1. p[0] \in Values
    <3>1. 0 \in Limb
      BY <1>1
    <3> QED
      BY <1>3, <1>12, <3>1
  <2>2. ASSUME NEW i \in 1 .. n, p[i - 1] \in Values PROVE p[i] \in Values
    <3>1. i \in Limb /\ i # 0
      BY <1>1
    <3>2. BorrowBit(p[i - 1]) \in Int
      BY <1>4, <2>2
    <3>3. p[i] = x[i] - ModulusDigit(i) - BorrowBit(p[i - 1])
      BY <1>12, <3>1
    <3> QED
      BY <1>3, <3>1, <3>2, <3>3
  <2> HIDE DEF Values
  <2> QED
    BY ONLY <1>1, <2>1, <2>2, StaysIn
<1>14. WITNESS p
<1>15. ASSUME NEW i \in Limb
       PROVE  p[i] \in Int /\ p[i] = x[i] - ModulusDigit(i) - (IF i = 0 THEN 0 ELSE BorrowBit(p[i - 1]))
  BY <1>1, <1>12, <1>13
<1> QED
  BY <1>1, <1>2, <1>15

\* Digits that stand for at least the modulus lose it, others are kept.
LEMMA LessModulusIs ==
  ASSUME NEW x \in LimbInts, \A k \in Limb : x[k] \in 0 .. Base - 1
  PROVE  /\ LessModulus(x) \in LimbInts
         /\ \A k \in Limb : LessModulus(x)[k] \in 0 .. Base - 1
         /\ Worth(LessModulus(x))[Limbs] =
              IF Worth(x)[Limbs] < Modulus THEN Worth(x)[Limbs] ELSE Worth(x)[Limbs] - Modulus
<1>1. PICK m : /\ \A i \in Limb : /\ m[i] \in Int
                                  /\ m[i] = x[i] - ModulusDigit(i)
                                              - (IF i = 0 THEN 0 ELSE BorrowBit(m[i - 1]))
               /\ LessModulus(x) =
                    IF 1 - BorrowBit(m[Limbs - 1]) = 1
                    THEN [i \in Limb |-> IF i < Limbs - 1 THEN m[i] % Base ELSE m[i]]
                    ELSE x
  BY BorrowSteps
<1> DEFINE n == Limbs
           pd == [i \in Limb |-> ModulusDigit(i)]
           diff == [i \in Limb |-> x[i] - ModulusDigit(i)]
           y == [i \in Limb |-> m[i] % Base]
           c == [k \in 0 .. n |-> IF k = 0 THEN 0 ELSE -BorrowBit(m[k - 1])]
           b == BorrowBit(m[n - 1])
<1>2. /\ n \in Nat /\ n >= 2 /\ Limb = 0 .. n - 1 /\ n - 1 \in Limb /\ n \in 0 .. n
      /\ Base \in Nat /\ Base >= 4 /\ Span \in Nat /\ Modulus \in Nat /\ Weight[n] = Span
      /\ \A i \in Limb : i + 1 \in 0 .. n /\ i \in 0 .. n /\ i + 1 # 0 /\ (i + 1) - 1 = i
      /\ \A i \in Limb : i # 0 => i - 1 \in Limb
  BY LimbWidths, LimbWeights, ModulusIs DEF Limb
<1>3. \A i \in Limb : ModulusDigit(i) \in 0 .. Base - 1 /\ BorrowBit(m[i]) \in {0, 1}
  BY <1>1, BorrowBitIs, ModulusDigitsAre
<1>4. c[0] = 0 /\ (\A i \in Limb : c[i + 1] = -BorrowBit(m[i])) /\ \A k \in 0 .. n : c[k] \in Int
  <2>1. c[0] = 0 /\ \A i \in Limb : c[i + 1] = -BorrowBit(m[i])
    BY <1>2
  <2>2. ASSUME NEW k \in 0 .. n, k # 0 PROVE c[k] \in Int
    <3>1. k - 1 \in Limb /\ c[k] = -BorrowBit(m[k - 1])
      BY <1>2, <2>2
    <3>2. BorrowBit(m[k - 1]) \in Int
      BY <1>3, <3>1
    <3> HIDE DEF c
    <3> QED
      BY <3>1, <3>2
  <2> HIDE DEF c
  <2> QED
    BY <2>1, <2>2
<1>5. ASSUME NEW i \in Limb
      PROVE  /\ m[i] = x[i] - ModulusDigit(i) + c[i] /\ m[i] \in -Base .. Base - 1
             /\ c[i] \in Int /\ x[i] \in 0 .. Base - 1 /\ ModulusDigit(i) \in 0 .. Base - 1
  <2>1. x[i] \in 0 .. Base - 1 /\ ModulusDigit(i) \in 0 .. Base - 1
    BY <1>3
  <2>2. CASE i = 0
    <3>1. m[i] = x[i] - ModulusDigit(i) - 0 /\ c[i] = 0
      BY <1>1, <1>4, <2>2
    <3> HIDE DEF c
    <3> QED
      BY <1>2, <2>1, <3>1
  <2>3. CASE i # 0
    <3> DEFINE e == BorrowBit(m[i - 1])
    <3>1. m[i] = x[i] - ModulusDigit(i) - e /\ c[i] = -e /\ e \in {0, 1}
      BY <1>1, <1>2, <1>3, <2>3
    <3> HIDE DEF c, e
    <3> QED
      BY <1>2, <2>1, <3>1
  <2> QED
    BY <2>2, <2>3
<1> HIDE DEF c
<1>6. ASSUME NEW i \in Limb
      PROVE  /\ m[i] % Base = m[i] + Base * BorrowBit(m[i])
             /\ m[i] % Base \in 0 .. Base - 1
             /\ BorrowBit(m[i]) = IF m[i] < 0 THEN 1 ELSE 0
  BY <1>1, <1>5, BorrowBitIs
<1>7. y \in LimbInts /\ \A i \in Limb : y[i] = m[i] % Base /\ y[i] \in 0 .. Base - 1
  <2>1. \A i \in Limb : y[i] = m[i] % Base
    OBVIOUS
  <2>2. \A i \in Limb : y[i] \in 0 .. Base - 1
    BY <1>6, <2>1
  <2>3. y = [i \in Limb |-> y[i]]
    OBVIOUS
  <2> HIDE DEF y
  <2>4. \A i \in Limb : y[i] \in Int
    BY <1>2, <2>2
  <2>5. y \in [Limb -> Int]
    BY <2>3, <2>4
  <2> QED
    BY <2>1, <2>2, <2>5 DEF LimbInts
<1>8. diff \in LimbInts /\ \A i \in Limb : diff[i] = x[i] - ModulusDigit(i)
  <2>1. \A i \in Limb : x[i] - ModulusDigit(i) \in Int
    BY <1>2, <1>5
  <2> QED
    BY <2>1 DEF LimbInts
<1>9. ASSUME NEW i \in Limb PROVE y[i] = diff[i] + c[i] - Base * c[i + 1]
  <2> DEFINE e == BorrowBit(m[i])
             g == Base * e
  <2>1. e \in Int /\ g \in Int /\ c[i + 1] = -e
    BY <1>2, <1>3, <1>4
  <2>2. Base * c[i + 1] = -g
    <3> HIDE DEF e
    <3> QED
      BY <1>2, <2>1
  <2>3. y[i] = m[i] + g /\ m[i] = diff[i] + c[i]
    BY <1>5, <1>6, <1>7, <1>8
  <2>4. diff[i] \in Int /\ c[i] \in Int
    BY <1>2, <1>5, <1>8
  <2> HIDE DEF g, y, diff
  <2> QED
    BY <2>1, <2>2, <2>3, <2>4
<1> HIDE DEF y, diff
<1> DEFINE v == Worth(x)[n]
           d == Worth(y)[n]
<1>10. d + c[n] * Span = v - Modulus
  <2>1. \A k \in 0 .. Limbs : Worth(y)[k] + c[k] * Weight[k] = Worth(diff)[k]
    BY <1>4, <1>7, <1>8, <1>9, WorthCarried
  <2>2. pd \in LimbInts /\ Worth(pd)[n] = Modulus
    BY ModulusDigitsAre
  <2> DEFINE minus == -1
  <2>3. \A i \in Limb : diff[i] = 1 * x[i] + minus * pd[i]
    <3> SUFFICES ASSUME NEW i \in Limb PROVE diff[i] = 1 * x[i] + minus * pd[i]
      OBVIOUS
    <3>1. x[i] \in Int /\ ModulusDigit(i) \in Int /\ pd[i] = ModulusDigit(i)
      BY <1>2, <1>5
    <3> HIDE DEF pd
    <3> QED
      BY <1>8, <3>1
  <2>4. minus \in Int
    OBVIOUS
  <2> HIDE DEF pd, minus
  <2>5. \A k \in 0 .. Limbs : Worth(diff)[k] = 1 * Worth(x)[k] + minus * Worth(pd)[k]
    BY <1>8, <2>2, <2>3, <2>4, WorthCombines
  <2>6. Worth(diff)[n] = 1 * v + minus * Modulus /\ v \in Int
    BY <1>2, <2>2, <2>5, WorthIs
  <2>7. d + c[n] * Span = Worth(diff)[n]
    BY <1>2, <2>1
  <2> QED
    BY <1>2, <2>6, <2>7 DEF minus
<1>11. v \in Int /\ d \in Int /\ 0 <= d /\ d < Span
  <2>1. \A j \in 0 .. n - 1 : y[j] \in 0 .. Base - 1
    BY <1>2, <1>7
  <2>2. 0 <= d /\ d <= Weight[n] - 1
    BY <1>2, <1>7, <2>1, WorthOfDigits
  <2>3. v \in Int /\ d \in Int
    BY <1>2, <1>7, WorthIs
  <2> HIDE DEF v, d
  <2> QED
    BY <1>2, <2>2, <2>3
<1>12. b \in {0, 1} /\ (b = 0 => c[n] = 0) /\ (b = 1 => c[n] = -1)
  <2>1. c[(n - 1) + 1] = -BorrowBit(m[n - 1]) /\ (n - 1) + 1 = n
    BY <1>2, <1>4
  <2>2. c[n] = -b /\ b \in {0, 1}
    BY <1>2, <1>3, <2>1
  <2>3. c[n] = 0 - b
    <3>1. b \in Int
      BY <2>2
    <3> HIDE DEF b
    <3> QED
      BY <2>2, <3>1
  <2> HIDE DEF b
  <2> QED
    BY <2>2, <2>3
<1>13. CASE b = 0
  <2>1. LessModulus(x) = [i \in Limb |-> IF i < n - 1 THEN m[i] % Base ELSE m[i]]
    BY <1>1, <1>13
  <2>2. ASSUME NEW i \in Limb PROVE (IF i < n - 1 THEN m[i] % Base ELSE m[i]) = y[i]
    <3>1. CASE i < n - 1
      BY <1>7, <3>1
    <3>2. CASE ~(i < n - 1)
      <4>1. i = n - 1
        BY <1>2, <3>2
      <4>2. BorrowBit(m[i]) = 0
        BY <1>13, <4>1
      <4>3. m[i] % Base = m[i] + Base * 0 /\ m[i] \in Int
        BY <1>1, <1>6, <4>2
      <4>4. m[i] % Base = m[i]
        BY <1>2, <4>3
      <4> QED
        BY <1>7, <3>2, <4>4
    <3> QED
      BY <3>1, <3>2
  <2>3. LessModulus(x) = [i \in Limb |-> y[i]]
    BY <2>1, <2>2
  <2>4. [i \in Limb |-> y[i]] = y
    BY <1>7 DEF LimbInts
  <2>5. LessModulus(x) = y
    BY <2>3, <2>4
  <2>6. d = v - Modulus /\ ~(v < Modulus)
    <3>1. c[n] = 0
      <4> HIDE DEF b
      <4> QED
        BY <1>12, <1>13
    <3> HIDE DEF v, d
    <3> QED
      BY <1>2, <1>10, <1>11, <3>1
  <2> QED
    BY <1>7, <2>5, <2>6
<1>14. CASE b = 1
  <2>1. LessModulus(x) = x
    BY <1>1, <1>14
  <2>2. v < Modulus
    <3>1. c[n] = -1
      <4> HIDE DEF b
      <4> QED
        BY <1>12, <1>14
    <3> HIDE DEF v, d
    <3> QED
      BY <1>2, <1>10, <1>11, <3>1
  <2> QED
    BY <2>1, <2>2
<1> QED
  BY <1>12, <1>13, <1>14

\* The digits of what digits stand for.
LEMMA DigitsOf ==
  ASSUME NEW x \in LimbInts, \A k \in Limb : x[k] \in 0 .. Base - 1, NEW i \in Limb
  PROVE  \E q \in Int : Worth(x)[Limbs] \div Weight[i] = Base * q + x[i]
<1> DEFINE n == Limbs
           v == Worth(x)[n]
           Holds(j) == \E q \in Int : v = Worth(x)[n - j] + Weight[n - j] * q
           T == {j \in 0 .. n : Holds(j)}
<1>1. n \in Nat /\ n >= 2 /\ Limb = 0 .. n - 1 /\ Base \in Nat /\ Base >= 4
  BY LimbWidths DEF Limb
<1>2. Holds(0)
  <2> DEFINE q == 0
  <2>1. n - 0 = n /\ n \in 0 .. n
    BY <1>1
  <2>2. v \in Int /\ Weight[n] \in Nat
    BY <2>1, WorthIs, LimbWeights
  <2>3. v = v + Weight[n] * q
    <3> HIDE DEF v
    <3> QED
      BY <2>2
  <2>4. v = Worth(x)[n - 0] + Weight[n - 0] * q /\ q \in Int
    BY <2>1, <2>3
  <2> HIDE DEF v, q
  <2> QED
    BY <2>4
<1>3. ASSUME NEW j \in 0 .. n - 1, Holds(j) PROVE Holds(j + 1)
  <2> DEFINE l == n - (j + 1)
             u == Weight[l]
             s == Worth(x)[l]
             p == x[l]
  <2>1. l \in 0 .. n - 1 /\ l + 1 = n - j /\ l \in Limb /\ l \in 0 .. n
    BY <1>1
  <2>2. PICK q \in Int : v = Worth(x)[l + 1] + Weight[l + 1] * q
    BY <1>3, <2>1
  <2>3. Worth(x)[l + 1] = s + p * u /\ Weight[l + 1] = Base * u /\ u \in Nat /\ s \in Int /\ p \in Int
    BY <2>1, WorthIs, LimbWeights
  <2> DEFINE e == p + Base * q
  <2>4. e \in Int /\ u * e = p * u + (Base * u) * q /\ p * u \in Int /\ (Base * u) * q \in Int
    <3> HIDE DEF u, p
    <3>1. Base * q \in Int /\ Base * u \in Int
      BY <1>1, <2>3
    <3>2. u * (p + Base * q) = p * u + (Base * u) * q
      BY <1>1, <2>3
    <3> QED
      BY <2>3, <3>1, <3>2
  <2>5. v = s + u * e
    <3> DEFINE g == p * u
               f == (Base * u) * q
               ue == u * e
    <3>1. v = (s + g) + f /\ ue = g + f /\ g \in Int /\ f \in Int
      BY <2>2, <2>3, <2>4
    <3> HIDE DEF g, f, ue, s, v
    <3>2. v = s + ue
      BY <2>3, <3>1
    <3> QED
      BY <3>2 DEF ue
  <2> HIDE DEF e, u, s, v, l
  <2> QED
    BY <2>4, <2>5 DEF l, u, s
<1>4. 0 \in T /\ \A j \in 0 .. n - 1 : j \in T => j + 1 \in T
  <2>1. 0 \in 0 .. n /\ \A j \in 0 .. n - 1 : j + 1 \in 0 .. n
    BY <1>1
  <2> HIDE DEF Holds
  <2> QED
    BY <1>2, <1>3, <2>1
<1>5. \A j \in T : Holds(j)
  OBVIOUS
<1> HIDE DEF T
<1>6. PICK q \in Int : v = Worth(x)[i + 1] + Weight[i + 1] * q
  <2> DEFINE j == n - (i + 1)
  <2>1. j \in 0 .. n /\ n - j = i + 1
    BY <1>1
  <2>2. Holds(j)
    <3> HIDE DEF Holds, j
    <3> QED
      BY <1>4, <1>5, <2>1, UpTo
  <2> HIDE DEF v
  <2> QED
    BY <2>1, <2>2
<1> DEFINE u == Weight[i]
           s == Worth(x)[i]
           p == x[i]
           e == Base * q + p
<1>7. /\ Worth(x)[i + 1] = s + p * u /\ Weight[i + 1] = Base * u
      /\ u \in Nat /\ u >= 1 /\ s \in Int /\ p \in Int
  <2>1. i \in 0 .. Limbs - 1
    BY <1>1
  <2> QED
    BY <2>1, WorthIs, LimbWeights
<1>8. 0 <= s /\ s <= u - 1
  <2>1. i \in 0 .. Limbs /\ \A j \in 0 .. i - 1 : j \in Limb
    BY <1>1
  <2>2. \A j \in 0 .. i - 1 : x[j] \in 0 .. Base - 1
    BY <2>1
  <2> QED
    BY <2>1, <2>2, WorthOfDigits
<1>9. v = u * e + s /\ e \in Int
  <2> HIDE DEF u, p
  <2>1. e \in Int /\ u * e = (Base * u) * q + p * u /\ p * u \in Int /\ (Base * u) * q \in Int
    <3>1. Base * q \in Int /\ Base * u \in Int
      BY <1>1, <1>7
    <3>2. u * (Base * q + p) = (Base * u) * q + p * u
      BY <1>1, <1>7
    <3> QED
      BY <1>7, <3>1, <3>2
  <2> DEFINE g == p * u
             f == (Base * u) * q
             ue == u * e
  <2>2. v = (s + g) + f /\ ue = f + g /\ g \in Int /\ f \in Int
    BY <1>6, <1>7, <2>1
  <2> HIDE DEF g, f, ue, s, v
  <2>3. v = ue + s
    BY <1>7, <2>2
  <2> QED
    BY <2>1, <2>3 DEF ue
<1> HIDE DEF v, u, s, e
<1>10. s \in 0 .. u - 1
  BY <1>7, <1>8
<1>11. v \div u = e
  BY ONLY <1>7, <1>9, <1>10, PartsAre
<1> QED
  BY <1>11 DEF v, u, e

\* The bytes of digits are the bytes of what they stand for.
LEMMA BytesAre ==
  ASSUME NEW x \in LimbInts, \A k \in Limb : x[k] \in 0 .. Base - 1, NEW k \in 0 .. 2 * Limbs - 1
  PROVE  /\ (IF k % 2 = 0 THEN x[k \div 2] % HalfLimb ELSE x[k \div 2] \div HalfLimb)
              = (Worth(x)[Limbs] \div HalfLimb ^ k) % HalfLimb
         /\ (Worth(x)[Limbs] \div HalfLimb ^ k) % HalfLimb \in 0 .. HalfLimb - 1
<1> DEFINE i == k \div 2
           v == Worth(x)[Limbs]
           u == Weight[i]
           p == x[i]
           l == p % HalfLimb
           f == p \div HalfLimb
<1>1. /\ Limbs \in Nat /\ Base \in Nat /\ HalfLimb \in Nat /\ HalfLimb >= 2
      /\ Base = HalfLimb * HalfLimb /\ Limbs \in 0 .. Limbs
  BY LimbWidths
<1>2. i \in 0 .. Limbs - 1 /\ i \in 0 .. Limbs /\ (k % 2 = 0 \/ k % 2 = 1)
      /\ (k % 2 = 0 => k = 2 * i) /\ (k % 2 = 1 => k = 2 * i + 1)
  BY <1>1
<1>3. i \in Limb /\ p \in 0 .. Base - 1 /\ u \in Nat /\ u >= 1 /\ v \in Int
  <2> HIDE DEF i
  <2>1. i \in Limb
    BY <1>2 DEF Limb
  <2> QED
    BY <1>1, <1>2, <2>1, WorthIs, LimbWeights
<1>4. PICK q \in Int : v \div u = Base * q + p
  <2> HIDE DEF i
  <2> QED
    BY <1>3, DigitsOf
<1>5. HalfLimb ^ (2 * i) = u /\ (k % 2 = 1 => HalfLimb ^ k = u * HalfLimb)
  <2> HIDE DEF i
  <2>1. HalfLimb ^ (2 * i) = Weight[i]
    BY <1>2 DEF Weight
  <2>2. HalfLimb ^ (2 * i + 1) = HalfLimb * HalfLimb ^ (2 * i)
    <3> DEFINE j == 2 * i
    <3>1. j \in 0 .. 2 * Limbs - 1
      BY <1>1, <1>2
    <3> HIDE DEF j
    <3>2. HalfLimb ^ (j + 1) = HalfLimb * HalfLimb ^ j
      BY <3>1, HalfWeights
    <3> QED
      BY <3>2 DEF j
  <2>3. HalfLimb * u = u * HalfLimb
    BY <1>1, <1>3
  <2> QED
    BY <1>2, <2>1, <2>2, <2>3
<1> HIDE DEF u, v
<1>6. l \in 0 .. HalfLimb - 1 /\ f \in Int /\ p = HalfLimb * f + l /\ p \in Int
  <2>1. p \in Int
    BY <1>1, <1>3
  <2> HIDE DEF p
  <2> QED
    BY <1>1, <2>1, Parts
<1>7. f \in 0 .. HalfLimb - 1
  <2>1. f >= 0
    <3> SUFFICES ASSUME f <= -1 PROVE FALSE
      BY <1>6
    <3>1. HalfLimb * f <= HalfLimb * (-1) /\ HalfLimb * (-1) = -HalfLimb /\ HalfLimb * f \in Int
      <4> HIDE DEF f
      <4> QED
        BY <1>1, <1>6, Scaled
    <3> DEFINE g == HalfLimb * f
    <3>2. g <= -HalfLimb /\ g \in Int /\ p = g + l
      BY <1>6, <3>1
    <3> HIDE DEF g, l, p
    <3> QED
      BY <1>1, <1>3, <1>6, <3>2
  <2>2. f <= HalfLimb - 1
    <3> SUFFICES ASSUME f >= HalfLimb PROVE FALSE
      BY <1>1, <1>6
    <3>1. HalfLimb * HalfLimb <= HalfLimb * f /\ HalfLimb * f \in Int
      <4> HIDE DEF f
      <4> QED
        BY <1>1, <1>6, Scaled
    <3> DEFINE g == HalfLimb * f
    <3>2. Base <= g /\ g \in Int /\ p = g + l
      BY <1>1, <1>6, <3>1
    <3> HIDE DEF g, l, p
    <3> QED
      BY <1>1, <1>3, <1>6, <3>2
  <2> HIDE DEF f
  <2> QED
    BY <1>1, <1>6, <2>1, <2>2
<1> HIDE DEF l, f, p
<1> DEFINE s == f + HalfLimb * q
           e == v \div u
<1>8. s \in Int /\ e = HalfLimb * s + l /\ e \in Int
  <2>1. HalfLimb * q \in Int /\ (HalfLimb * HalfLimb) * q = HalfLimb * (HalfLimb * q)
    BY <1>1
  <2> DEFINE g == HalfLimb * q
             i1 == HalfLimb * f
             i2 == HalfLimb * g
  <2>2. g \in Int /\ i1 \in Int /\ i2 \in Int /\ Base * q = i2 /\ HalfLimb * (f + g) = i1 + i2
    <3>1. g \in Int
      BY <2>1
    <3>2. Base * q = i2
      BY <1>1, <2>1
    <3> HIDE DEF g
    <3> QED
      BY <1>1, <1>6, <3>1, <3>2
  <2>3. e = i2 + p /\ p = i1 + l
    BY <1>4, <1>6, <2>2
  <2> DEFINE hs == HalfLimb * s
  <2>4. hs = i1 + i2 /\ s = f + g
    BY <2>2
  <2> HIDE DEF g, i1, i2, e, hs
  <2>5. s \in Int /\ e = hs + l /\ e \in Int
    BY <1>1, <1>6, <2>2, <2>3, <2>4
  <2> QED
    BY <2>5 DEF hs
<1> HIDE DEF s
<1>9. e % HalfLimb = l /\ e \div HalfLimb = s
  <2> HIDE DEF e
  <2>1. HalfLimb >= 1
    BY <1>1
  <2> QED
    BY ONLY <1>1, <1>6, <1>8, <2>1, PartsAre
<1>10. s % HalfLimb = f
  <2>1. s = HalfLimb * q + f
    <3> DEFINE g == HalfLimb * q
    <3>1. g \in Int /\ f \in Int /\ s = f + g
      BY <1>1, <1>6 DEF s
    <3> HIDE DEF g
    <3>2. s = g + f
      BY <3>1
    <3> QED
      BY <3>2 DEF g
  <2>2. HalfLimb >= 1
    BY <1>1
  <2> QED
    BY ONLY <1>1, <1>7, <2>1, <2>2, PartsAre
<1>11. CASE k % 2 = 0
  <2>1. HalfLimb ^ k = u
    BY <1>2, <1>5, <1>11
  <2>2. (v \div HalfLimb ^ k) % HalfLimb = l
    BY <1>9, <2>1
  <2> QED
    BY <1>6, <1>11, <2>2 DEF p, l, v
<1>12. CASE k % 2 = 1
  <2>1. HalfLimb ^ k = u * HalfLimb
    BY <1>5, <1>12
  <2>2. v \div (u * HalfLimb) = e \div HalfLimb
    <3>1. u \in Nat /\ u >= 1 /\ v \in Int /\ HalfLimb \in Nat /\ HalfLimb >= 1
      BY <1>1, <1>3
    <3>2. v \div (u * HalfLimb) = (v \div u) \div HalfLimb
      BY ONLY <3>1, Divisions
    <3> QED
      BY <3>2
  <2>3. (v \div HalfLimb ^ k) % HalfLimb = f
    BY <1>9, <1>10, <2>1, <2>2
  <2> QED
    BY <1>7, <1>12, <2>3 DEF p, f, v
<1> QED
  BY <1>2, <1>11, <1>12

\* The bytes that limbs are cut into.
BytesOfLimbs(u) ==
  [k \in 0 .. 2 * Limbs - 1 |-> IF k % 2 = 0 THEN u[k \div 2] % HalfLimb ELSE u[k \div 2] \div HalfLimb]

\* Limbs within the room are packed to the bytes of their residue.
LEMMA PackIs ==
  ASSUME NEW x \in LimbInts, \A k \in Limb : -Room <= x[k] /\ x[k] <= Room,
         NEW v, v = Worth(x)[Limbs] % Modulus
  PROVE  /\ pack25519Limbs(x) = [k \in 0 .. 2 * Limbs - 1 |-> (v \div HalfLimb ^ k) % HalfLimb]
         /\ \A k \in 0 .. 2 * Limbs - 1 : pack25519Limbs(x)[k] \in 0 .. HalfLimb - 1
         /\ \E u \in LimbInts :
              /\ \A k \in Limb : u[k] \in 0 .. Base - 1
              /\ Worth(u)[Limbs] = v
              /\ pack25519Limbs(x) = BytesOfLimbs(u)
<1> DEFINE y == car25519(car25519(x))
           r == car25519(y)
           s == LessModulus(r)
           u == LessModulus(s)
<1>1. /\ r \in LimbInts /\ \A k \in Limb : r[k] \in 0 .. Base - 1
      /\ \E q \in Int : Worth(y)[Limbs] = Modulus * q + Worth(x)[Limbs]
      /\ Worth(r)[Limbs] = Worth(y)[Limbs]
  <2> HIDE DEF y, r
  <2>1. y = car25519(car25519(x)) /\ r = car25519(y)
    BY DEF y, r
  <2> QED
    BY <2>1, PassesAre
<1>2. Limbs \in 0 .. Limbs /\ Modulus \in Nat /\ Modulus > Wrap /\ Wrap \in Nat /\ Span = 2 * Modulus + Wrap
      /\ Limb = 0 .. Limbs - 1 /\ Weight[Limbs] = Span
  BY LimbWidths, LimbWeights, ModulusIs DEF Limb
<1> DEFINE t0 == Worth(x)[Limbs]
           t1 == Worth(r)[Limbs]
           t2 == Worth(s)[Limbs]
           t3 == Worth(u)[Limbs]
<1>3. t0 \in Int /\ t1 \in Int /\ 0 <= t1 /\ t1 < Span
  <2> HIDE DEF r
  <2>1. t0 \in Int /\ t1 \in Int
    BY <1>1, <1>2, WorthIs
  <2>2. \A j \in 0 .. Limbs - 1 : r[j] \in 0 .. Base - 1
    BY <1>1, <1>2
  <2>3. 0 <= t1 /\ t1 <= Weight[Limbs] - 1
    BY <1>1, <1>2, <2>2, WorthOfDigits
  <2> HIDE DEF t0, t1
  <2> QED
    BY <1>2, <2>1, <2>3
<1>4. t1 % Modulus = v
  <2>1. PICK q \in Int : t1 = Modulus * q + t0
    BY <1>1
  <2> HIDE DEF t0, t1
  <2>2. t1 % Modulus = t0 % Modulus
    BY <1>3, <2>1, SameResidue
  <2> QED
    BY <2>2 DEF t0
<1>5. /\ s \in LimbInts /\ \A k \in Limb : s[k] \in 0 .. Base - 1
      /\ t2 = IF t1 < Modulus THEN t1 ELSE t1 - Modulus
  <2> HIDE DEF r
  <2> QED
    BY <1>1, LessModulusIs
<1>6. /\ u \in LimbInts /\ \A k \in Limb : u[k] \in 0 .. Base - 1
      /\ t3 = IF t2 < Modulus THEN t2 ELSE t2 - Modulus
  <2> HIDE DEF s
  <2> QED
    BY <1>5, LessModulusIs
<1>7. t3 \in 0 .. Modulus - 1 /\ \E q \in {0, 1, 2} : t1 = Modulus * q + t3
  <2> HIDE DEF t1, t2, t3
  <2>1. CASE t1 < Modulus
    BY <1>2, <1>3, <1>5, <1>6, <2>1
  <2>2. CASE ~(t1 < Modulus) /\ t1 - Modulus < Modulus
    BY <1>2, <1>3, <1>5, <1>6, <2>2
  <2>3. CASE ~(t1 < Modulus) /\ ~(t1 - Modulus < Modulus)
    BY <1>2, <1>3, <1>5, <1>6, <2>3
  <2> QED
    BY <2>1, <2>2, <2>3
<1>8. t3 = v
  <2>1. PICK q \in {0, 1, 2} : t1 = Modulus * q + t3
    BY <1>7
  <2> HIDE DEF t1, t3
  <2>2. t3 \in Int /\ q \in Int
    BY <1>2, <1>7
  <2>3. t1 % Modulus = t3 % Modulus
    BY <1>3, <2>1, <2>2, SameResidue
  <2>4. t3 % Modulus = t3
    BY <1>7, ResidueOfResidue
  <2> QED
    BY <1>4, <2>3, <2>4
<1>9. pack25519Limbs(x) =
        [k \in 0 .. 2 * Limbs - 1 |-> IF k % 2 = 0 THEN u[k \div 2] % HalfLimb ELSE u[k \div 2] \div HalfLimb]
  BY DEF pack25519Limbs
<1> HIDE DEF u, y, r, s, t1, t2
<1>10. ASSUME NEW k \in 0 .. 2 * Limbs - 1
       PROVE  /\ (IF k % 2 = 0 THEN u[k \div 2] % HalfLimb ELSE u[k \div 2] \div HalfLimb)
                    = (v \div HalfLimb ^ k) % HalfLimb
              /\ (v \div HalfLimb ^ k) % HalfLimb \in 0 .. HalfLimb - 1
  <2>1. /\ (IF k % 2 = 0 THEN u[k \div 2] % HalfLimb ELSE u[k \div 2] \div HalfLimb)
              = (Worth(u)[Limbs] \div HalfLimb ^ k) % HalfLimb
        /\ (Worth(u)[Limbs] \div HalfLimb ^ k) % HalfLimb \in 0 .. HalfLimb - 1
    BY <1>6, BytesAre
  <2> QED
    BY <1>8, <2>1
<1>11. pack25519Limbs(x) = [k \in 0 .. 2 * Limbs - 1 |-> (v \div HalfLimb ^ k) % HalfLimb]
  BY <1>9, <1>10
<1>12. \A k \in 0 .. 2 * Limbs - 1 : pack25519Limbs(x)[k] \in 0 .. HalfLimb - 1
  BY <1>10, <1>11
<1>13. pack25519Limbs(x) = BytesOfLimbs(u)
  BY <1>9 DEF BytesOfLimbs
<1> QED
  BY <1>6, <1>8, <1>11, <1>12, <1>13

\* Digits with the same bytes are the same.
LEMMA BytesDecide ==
  ASSUME NEW x \in LimbInts, NEW y \in LimbInts,
         \A k \in Limb : x[k] \in 0 .. Base - 1 /\ y[k] \in 0 .. Base - 1,
         \A k \in 0 .. 2 * Limbs - 1 : BytesOfLimbs(x)[k] = BytesOfLimbs(y)[k]
  PROVE  x = y
<1>1. Limbs \in Nat /\ Limb = 0 .. Limbs - 1 /\ HalfLimb \in Nat /\ HalfLimb >= 2 /\ Base \in Nat
  BY LimbWidths DEF Limb
<1>2. ASSUME NEW i \in Limb PROVE x[i] = y[i]
  <2> DEFINE j == 2 * i
             l == 2 * i + 1
  <2>1. j \in 0 .. 2 * Limbs - 1 /\ l \in 0 .. 2 * Limbs - 1 /\ j % 2 = 0 /\ l % 2 = 1
        /\ j \div 2 = i /\ l \div 2 = i
    BY <1>1
  <2> HIDE DEF j, l
  <2>2. x[i] % HalfLimb = y[i] % HalfLimb
    <3>1. BytesOfLimbs(x)[j] = x[i] % HalfLimb /\ BytesOfLimbs(y)[j] = y[i] % HalfLimb
      BY ONLY <2>1 DEF BytesOfLimbs
    <3> QED
      BY <2>1, <3>1
  <2>3. x[i] \div HalfLimb = y[i] \div HalfLimb
    <3>1. ~(l % 2 = 0)
      BY <2>1
    <3>2. /\ BytesOfLimbs(x)[l] = x[i] \div HalfLimb
          /\ BytesOfLimbs(y)[l] = y[i] \div HalfLimb
      BY ONLY <2>1, <3>1 DEF BytesOfLimbs
    <3> QED
      BY <2>1, <3>2
  <2> DEFINE p == x[i]
             q == y[i]
  <2>4. p \in Int /\ q \in Int
    BY <1>1
  <2> HIDE DEF p, q
  <2>5. p = HalfLimb * (p \div HalfLimb) + (p % HalfLimb) /\ q = HalfLimb * (q \div HalfLimb) + (q % HalfLimb)
    BY <1>1, <2>4, Parts
  <2>6. p \div HalfLimb = q \div HalfLimb /\ p % HalfLimb = q % HalfLimb
    BY <2>2, <2>3 DEF p, q
  <2>7. p = q
    BY <2>5, <2>6
  <2> QED
    BY <2>7 DEF p, q
<1>3. x \in [Limb -> Int] /\ y \in [Limb -> Int]
  BY DEF LimbInts
<1> QED
  BY <1>2, <1>3

-----------------------------------------------------------------------------
(***************************************************************************)
(* Residues of digits.                                                     *)
(***************************************************************************)

\* The steps of Weighted: digits from the top, each time to the residue.
IsHorner(n, unit, digit, f) ==
  /\ f[0] = 0 /\ \A k \in 0 .. n : f[k] \in 0 .. Modulus - 1
  /\ \A k \in 1 .. n : f[k] = (unit * f[k - 1] + digit[n - k]) % Modulus

\* Digits, their weights and the weighted sums.
IsWeighing(n, unit, digit, wt, s) ==
  /\ wt[0] = 1 /\ s[0] = 0 /\ \A k \in 0 .. n : wt[k] \in Int /\ s[k] \in Int
  /\ \A k \in 0 .. n - 1 : /\ digit[k] \in Int /\ wt[k + 1] = unit * wt[k]
                            /\ s[k + 1] = s[k] + digit[k] * wt[k]

\* Weighted takes these steps.
LEMMA HornerIs ==
  ASSUME NEW n \in Nat, NEW unit \in Nat, NEW digit, \A k \in 0 .. n - 1 : digit[k] \in Int
  PROVE  \E f : IsHorner(n, unit, digit, f) /\ Weighted(n, digit, unit) = f[n]
<1> DEFINE Rec(f) == [k \in 0 .. n |-> IF k = 0 THEN 0 ELSE (unit * f[k - 1] + digit[n - k]) % Modulus]
           p == CHOOSE f : f = Rec(f)
           Values == 0 .. Modulus - 1
           F == [0 .. n -> Values]
           G == [1 .. n -> [Values -> Values]]
           first == 0
           step == [k \in 1 .. n |-> [v \in Values |-> (unit * v + digit[n - k]) % Modulus]]
<1>1. Modulus \in Nat /\ Modulus >= 1
  BY ModulusIs, LimbWidths
<1>2. ASSUME NEW k \in 1 .. n, NEW v \in Values PROVE (unit * v + digit[n - k]) % Modulus \in Values
  <2> DEFINE u == unit * v + digit[n - k]
  <2>1. n - k \in 0 .. n - 1 /\ v \in Int
    BY <1>1
  <2>2. u \in Int
    <3>1. unit * v \in Int /\ digit[n - k] \in Int
      BY <2>1
    <3> QED
      BY <3>1
  <2> HIDE DEF u
  <2>3. u % Modulus \in 0 .. Modulus - 1
    BY ONLY <1>1, <2>2, Parts
  <2> QED
    BY <2>3 DEF u
<1>3. Weighted(n, digit, unit) = p[n]
  BY DEF Weighted
<1> HIDE DEF Values
<1>4. step \in G
  BY <1>2
<1>5. \A k \in 1 .. n : \A v \in Values : step[k][v] = (unit * v + digit[n - k]) % Modulus
  OBVIOUS
<1>6. first \in Values
  BY <1>1 DEF Values
<1> HIDE DEF step
<1>7. PICK f \in F : f[0] = 0 /\ \A k \in 1 .. n : f[k] = step[k][f[k - 1]]
  <2>1. F = [0 .. n -> Values] /\ G = [1 .. n -> [Values -> Values]]
    OBVIOUS
  <2> HIDE DEF F, G, first
  <2>2. \E f \in F : Steps(f, first, n, step)
    BY ONLY n \in Nat, <2>1, <1>4, <1>6, Recursion, Zenon
  <2> QED
    BY <2>2 DEF Steps, first
<1>8. ASSUME NEW k \in 0 .. n PROVE f[k] = Rec(f)[k]
  <2>1. CASE k = 0
    BY <1>7, <2>1
  <2>2. CASE k # 0
    <3>1. k \in 1 .. n /\ k - 1 \in 0 .. n
      BY <2>2
    <3>2. f[k] = (unit * f[k - 1] + digit[n - k]) % Modulus
      BY <1>5, <1>7, <3>1
    <3> QED
      BY <2>2, <3>2
  <2> QED
    BY <2>1, <2>2
<1>9. f = Rec(f)
  <2>1. f = [k \in 0 .. n |-> f[k]]
    OBVIOUS
  <2>2. Rec(f) = [k \in 0 .. n |-> Rec(f)[k]]
    OBVIOUS
  <2> HIDE DEF Rec
  <2>3. [k \in 0 .. n |-> f[k]] = [k \in 0 .. n |-> Rec(f)[k]]
    BY <1>8
  <2> QED
    BY <2>1, <2>2, <2>3
<1> HIDE DEF Rec
<1>10. p = Rec(p)
  BY <1>9
<1> HIDE DEF p
<1>11. p[0] = 0
  BY <1>10 DEF Rec
<1>12. ASSUME NEW k \in 1 .. n PROVE p[k] = (unit * p[k - 1] + digit[n - k]) % Modulus
  <2>1. k \in 0 .. n /\ k # 0
    OBVIOUS
  <2>2. Rec(p)[k] = (unit * p[k - 1] + digit[n - k]) % Modulus
    BY <2>1 DEF Rec
  <2> QED
    BY <1>10, <2>2
<1>13. \A k \in 0 .. n : p[k] \in Values
  <2>1. p[0] \in Values /\ \A k \in 1 .. n : p[k - 1] \in Values => p[k] \in Values
    BY <1>2, <1>6, <1>11, <1>12
  <2> QED
    BY ONLY n \in Nat, <2>1, StaysIn
<1>14. WITNESS p
<1> QED
  BY <1>3, <1>11, <1>12, <1>13 DEF Values, IsHorner

\* It is the residue of the weighted sum.
LEMMA WeightedIs ==
  ASSUME NEW n \in Nat, NEW unit \in Nat, NEW digit, NEW wt, NEW s,
         IsWeighing(n, unit, digit, wt, s)
  PROVE  Weighted(n, digit, unit) = s[n] % Modulus
<1>0. /\ wt[0] = 1 /\ s[0] = 0 /\ \A k \in 0 .. n : wt[k] \in Int /\ s[k] \in Int
      /\ \A k \in 0 .. n - 1 : /\ digit[k] \in Int /\ wt[k + 1] = unit * wt[k]
                                /\ s[k + 1] = s[k] + digit[k] * wt[k]
  BY DEF IsWeighing
<1>1. PICK hn : /\ hn[0] = 0 /\ \A k \in 0 .. n : hn[k] \in 0 .. Modulus - 1
                /\ \A k \in 1 .. n : hn[k] = (unit * hn[k - 1] + digit[n - k]) % Modulus
                /\ Weighted(n, digit, unit) = hn[n]
  <2>1. \A k \in 0 .. n - 1 : digit[k] \in Int
    BY <1>0
  <2>2. PICK f : IsHorner(n, unit, digit, f) /\ Weighted(n, digit, unit) = f[n]
    BY <2>1, HornerIs
  <2> QED
    BY <2>2 DEF IsHorner
<1> DEFINE Holds(k) == \E q \in Int : s[n] = Modulus * q + (hn[k] * wt[n - k] + s[n - k])
           T == {k \in 0 .. n : Holds(k)}
<1>2. Modulus \in Nat /\ Modulus >= 1 /\ 0 \in 0 .. n /\ n \in 0 .. n
  BY ModulusIs, LimbWidths
<1>3. Holds(0)
  <2> DEFINE q == 0
  <2>1. n - 0 = n /\ s[n] \in Int /\ wt[n] \in Int
    BY <1>0, <1>2
  <2>2. s[n] = Modulus * q + (0 * wt[n] + s[n])
    BY <1>2, <2>1
  <2>3. s[n] = Modulus * q + (hn[0] * wt[n - 0] + s[n - 0]) /\ q \in Int
    BY <1>1, <2>1, <2>2
  <2> HIDE DEF q
  <2> QED
    BY <2>3
<1>4. ASSUME NEW k \in 0 .. n - 1, Holds(k) PROVE Holds(k + 1)
  <2> DEFINE l == n - (k + 1)
             x == hn[k]
             y == hn[k + 1]
             d == digit[l]
             g == wt[l]
             t == s[l]
             v == unit * x + d
             e == v \div Modulus
  <2>1. l \in 0 .. n - 1 /\ l + 1 = n - k /\ l \in 0 .. n /\ k + 1 \in 1 .. n /\ (k + 1) - 1 = k
        /\ k \in 0 .. n /\ k + 1 \in 0 .. n /\ n - (k + 1) = l
    OBVIOUS
  <2>2. PICK q \in Int : s[n] = Modulus * q + (x * wt[n - k] + s[n - k])
    BY <1>4
  <2>3. x \in Int /\ y \in Int /\ d \in Int /\ g \in Int /\ t \in Int /\ s[n] \in Int
    <3>1. hn[k] \in 0 .. Modulus - 1 /\ hn[k + 1] \in 0 .. Modulus - 1
      BY <1>1, <2>1
    <3>2. hn[k] \in Int /\ hn[k + 1] \in Int
      BY <1>2, <3>1
    <3> HIDE DEF l
    <3> QED
      BY <1>0, <1>2, <2>1, <3>2
  <2>4. wt[n - k] = unit * g /\ s[n - k] = t + d * g
    <3> HIDE DEF l
    <3>1. wt[l + 1] = unit * wt[l] /\ s[l + 1] = s[l] + digit[l] * wt[l]
      BY <1>0, <2>1
    <3> QED
      BY <2>1, <3>1
  <2>5. y = v % Modulus
    BY <1>1, <2>1
  <2> HIDE DEF l, x, y, d, g, t
  <2>6. v \in Int
    BY <2>3
  <2>7. e \in Int /\ v = Modulus * e + y
    <3> HIDE DEF v
    <3> QED
      BY <1>2, <2>5, <2>6, Parts
  <2>8. x * (unit * g) + d * g = v * g
    BY <2>3
  <2> HIDE DEF v, e
  <2> DEFINE j == q + e * g
  <2>9. v * g = Modulus * (e * g) + y * g /\ Modulus * j = Modulus * q + Modulus * (e * g) /\ j \in Int
    <3>1. (Modulus * e + y) * g = Modulus * (e * g) + y * g
      BY <1>2, <2>3, <2>7
    <3> DEFINE i == e * g
    <3>2. i \in Int
      BY <2>3, <2>7
    <3> HIDE DEF i
    <3>3. Modulus * (q + i) = Modulus * q + Modulus * i /\ q + i \in Int
      BY <1>2, <3>2
    <3> QED
      BY <2>7, <3>1, <3>3 DEF i
  <2> DEFINE a1 == Modulus * q
             a2 == Modulus * (e * g)
             a3 == y * g
             a4 == x * (unit * g)
             a5 == d * g
             a6 == Modulus * j
             a7 == v * g
  <2>10. a1 \in Int /\ a2 \in Int /\ a3 \in Int /\ a4 \in Int /\ a5 \in Int
    <3>1. e * g \in Int /\ unit * g \in Int
      BY <2>3, <2>7
    <3> QED
      BY <1>2, <2>3, <3>1
  <2>11. s[n] = a1 + (a4 + (t + a5)) /\ a4 + a5 = a7 /\ a7 = a2 + a3 /\ a6 = a1 + a2
    BY <2>2, <2>4, <2>8, <2>9
  <2>12. s[n] = a6 + (a3 + t)
    <3> HIDE DEF a1, a2, a3, a4, a5, a6, a7
    <3> QED
      BY <2>3, <2>10, <2>11
  <2> HIDE DEF j
  <2> QED
    BY <2>1, <2>9, <2>12 DEF y, g, t
<1>5. 0 \in T /\ \A k \in 0 .. n - 1 : k \in T => k + 1 \in T
  <2>1. \A k \in 0 .. n - 1 : k + 1 \in 0 .. n
    OBVIOUS
  <2> HIDE DEF Holds
  <2> QED
    BY <1>2, <1>3, <1>4, <2>1
<1>6. \A k \in T : Holds(k)
  OBVIOUS
<1> HIDE DEF T, Holds
<1>7. n \in T
  BY ONLY n \in Nat, <1>2, <1>5, Upwards
<1>8. PICK q \in Int : s[n] = Modulus * q + (hn[n] * wt[n - n] + s[n - n])
  BY <1>6, <1>7 DEF Holds
<1> DEFINE y == hn[n]
<1>9. y \in 0 .. Modulus - 1 /\ y \in Int /\ s[n] \in Int
  <2>1. y \in 0 .. Modulus - 1
    BY <1>1, <1>2
  <2> HIDE DEF y
  <2> QED
    BY <1>0, <1>2, <2>1
<1>10. s[n] = Modulus * q + (y * 1 + 0)
  <2>1. n - n = 0
    OBVIOUS
  <2> QED
    BY <1>0, <1>8, <2>1
<1> HIDE DEF y
<1>11. s[n] = Modulus * q + y
  BY <1>9, <1>10
<1>12. s[n] % Modulus = y % Modulus
  <2> DEFINE u == s[n]
  <2>1. u \in Int /\ u = Modulus * q + y
    BY <1>9, <1>11
  <2> HIDE DEF u
  <2>2. u % Modulus = y % Modulus
    BY <1>9, <2>1, SameResidue
  <2> QED
    BY <2>2 DEF u
<1>13. y % Modulus = y
  BY <1>9, ResidueOfResidue
<1> QED
  BY <1>1, <1>12, <1>13 DEF y

\* The residue of limbs is that of what they stand for.
LEMMA ResidueIs ==
  ASSUME NEW x \in LimbInts
  PROVE  ResidueOf(x) = Worth(x)[Limbs] % Modulus
<1> DEFINE n == Limbs
           s == Worth(x)
<1>1. n \in Nat /\ Base \in Nat /\ Weight[0] = 1 /\ s[0] = 0
  BY LimbWidths, LimbWeights, WorthIs
<1>2. \A k \in 0 .. n : Weight[k] \in Int /\ s[k] \in Int
  <2>1. \A k \in 0 .. n : Weight[k] \in Nat /\ s[k] \in Int
    BY LimbWeights, WorthIs
  <2> HIDE DEF s
  <2> QED
    BY <2>1
<1>3. \A k \in 0 .. n - 1 : /\ x[k] \in Int /\ Weight[k + 1] = Base * Weight[k]
                            /\ s[k + 1] = s[k] + x[k] * Weight[k]
  BY LimbWeights, WorthIs
<1>4. ResidueOf(x) = Weighted(n, x, Base)
  BY DEF ResidueOf
<1> HIDE DEF n, s
<1>5. IsWeighing(n, Base, x, Weight, s)
  BY <1>1, <1>2, <1>3 DEF IsWeighing
<1>6. Weighted(n, x, Base) = s[n] % Modulus
  BY ONLY <1>1, <1>5, WeightedIs
<1> QED
  BY <1>4, <1>6 DEF n, s

\* A pair of bytes is a limb; in the top limb the top bit does not count.
LEMMA LimbOfBytes ==
  ASSUME NEW p \in 0 .. HalfLimb - 1, NEW q \in 0 .. HalfLimb - 1
  PROVE  /\ p + q * HalfLimb \in 0 .. Base - 1
         /\ (p + q * HalfLimb) % (Base \div 2) = p + (q % (HalfLimb \div 2)) * HalfLimb
         /\ (p + q * HalfLimb) % (Base \div 2) \in 0 .. Base - 1
         /\ q % (HalfLimb \div 2) \in 0 .. HalfLimb - 1
<1> DEFINE b == HalfLimb
           t == HalfLimb \div 2
           m == Base \div 2
           d == q \div t
           r == q % t
           x == p + q * b
           y == r * b + p
<1>1. /\ b \in Nat /\ b >= 2 /\ t \in Nat /\ t >= 1 /\ b = 2 * t /\ m = b * t /\ m \in Nat
      /\ m >= 1 /\ Base \in Nat /\ Base = b * b /\ Base = 2 * m
  BY LimbWidths
<1> HIDE DEF b, t, m
<1>2. p \in Int /\ q \in Int /\ 0 <= p /\ p <= b - 1 /\ 0 <= q /\ q <= b - 1
  BY <1>1 DEF b
<1>3. d \in Int /\ r \in 0 .. t - 1 /\ q = t * d + r
  BY ONLY <1>1, <1>2, Parts
<1> HIDE DEF d, r
<1>4. r \in Int /\ 0 <= r /\ r <= t - 1
  BY <1>1, <1>3
<1>5. ASSUME NEW c \in Nat, NEW e \in Int, 0 <= e, e <= c - 1
      PROVE  e * b + p \in Int /\ 0 <= e * b + p /\ e * b + p <= b * c - 1
  <2>1. b * 0 <= b * e /\ b * e <= b * (c - 1) /\ e * b = b * e /\ b * e \in Int
    BY <1>1, <1>5, Scaled
  <2>2. b * (c - 1) = b * c - b /\ b * 0 = 0 /\ b * c \in Int
    BY <1>1
  <2> DEFINE i == b * e
             j == b * c
             l == e * b
  <2>3. 0 <= i /\ i <= j - b /\ l = i /\ i \in Int /\ j \in Int
    BY <2>1, <2>2
  <2> HIDE DEF i, j, l
  <2>4. l + p \in Int /\ 0 <= l + p /\ l + p <= j - 1
    BY <1>1, <1>2, <2>3
  <2> QED
    BY <2>4 DEF l, j
<1>6. q * b + p \in Int /\ 0 <= q * b + p /\ q * b + p <= b * b - 1
  BY <1>1, <1>2, <1>5
<1>7. y \in Int /\ 0 <= y /\ y <= b * t - 1
  BY <1>1, <1>4, <1>5
<1>8. x = q * b + p /\ x \in 0 .. Base - 1 /\ x \in Int
  <2> DEFINE i == q * b
  <2>1. i \in Int /\ 0 <= i + p /\ i + p <= Base - 1
    BY <1>1, <1>2, <1>6
  <2> HIDE DEF i
  <2>2. p + i = i + p /\ p + i \in 0 .. Base - 1 /\ p + i \in Int
    BY <1>1, <1>2, <2>1
  <2> QED
    BY <2>2 DEF i
<1>9. y \in 0 .. m - 1 /\ y \in 0 .. Base - 1
  <2> HIDE DEF y
  <2> QED
    BY <1>1, <1>7
<1>10. x = m * d + y
  <2>1. (t * d + r) * b = (b * t) * d + r * b
    BY <1>1, <1>3, <1>4
  <2> DEFINE i == m * d
             j == r * b
             l == q * b
  <2>2. l = i + j /\ i \in Int /\ j \in Int
    BY <1>1, <1>3, <1>4, <2>1
  <2>3. x = l + p /\ y = j + p
    BY <1>8
  <2> HIDE DEF i, j, l, x, y
  <2>4. x = i + y
    BY <1>2, <2>2, <2>3
  <2> QED
    BY <2>4 DEF i
<1>11. x % m = y
  <2> HIDE DEF x, y
  <2>1. m \in Nat /\ m >= 1 /\ d \in Int /\ y \in 0 .. m - 1 /\ x = m * d + y
    BY <1>1, <1>3, <1>9, <1>10
  <2> QED
    BY ONLY <2>1, PartsAre
<1>12. y = p + r * b
  <2> DEFINE j == r * b
  <2>1. j \in Int
    BY <1>1, <1>4
  <2> HIDE DEF j
  <2>2. j + p = p + j
    BY <1>2, <2>1
  <2> QED
    BY <2>2 DEF j
<1>13. r \in 0 .. b - 1
  BY <1>1, <1>4
<1> QED
  BY <1>8, <1>9, <1>11, <1>12, <1>13 DEF b, t, m, r

\* Loaded bytes stand for the residue of their number.
LEMMA UnpackIs ==
  ASSUME NEW e \in Encodings
  PROVE  /\ unpack25519Limbs(e) \in LimbInts
         /\ \A k \in Limb : unpack25519Limbs(e)[k] \in 0 .. Base - 1
         /\ ResidueOfBytes(e) = Worth(unpack25519Limbs(e))[Limbs] % Modulus
<1> DEFINE n == 2 * Limbs
           x == unpack25519Limbs(e)
           g == [e EXCEPT ![2 * Limbs - 1] = @ % (HalfLimb \div 2)]
           wt == [k \in 0 .. n |-> HalfLimb ^ k]
           term == [k \in 0 .. n - 1 |-> g[k] * wt[k]]
           s == PartialSums(n, term)
<1>1. /\ Limbs \in Nat /\ Limbs >= 2 /\ Limb = 0 .. Limbs - 1 /\ Base \in Nat /\ HalfLimb \in Nat
      /\ HalfLimb >= 2 /\ n \in Nat /\ n - 1 \in 0 .. n - 1
  BY LimbWidths DEF Limb
<1>2. e \in [0 .. n - 1 -> 0 .. HalfLimb - 1]
  BY LimbAssumption
<1>3. ASSUME NEW i \in Limb
      PROVE  /\ 2 * i \in 0 .. n - 1 /\ 2 * i + 1 \in 0 .. n - 1
             /\ e[2 * i] \in 0 .. HalfLimb - 1 /\ e[2 * i + 1] \in 0 .. HalfLimb - 1
  BY <1>1, <1>2
<1>4. ASSUME NEW k \in 0 .. n - 1
      PROVE  /\ g[k] = IF k = n - 1 THEN e[k] % (HalfLimb \div 2) ELSE e[k]
             /\ g[k] \in Int
  <2>1. g[k] = IF k = n - 1 THEN e[k] % (HalfLimb \div 2) ELSE e[k]
    BY <1>2
  <2>2. e[k] \in 0 .. HalfLimb - 1 /\ e[k] % (HalfLimb \div 2) \in 0 .. HalfLimb - 1
    BY <1>2, LimbOfBytes
  <2>3. g[k] \in 0 .. HalfLimb - 1
    BY <2>1, <2>2
  <2> HIDE DEF g, n
  <2> QED
    BY <1>1, <2>1, <2>3
<1> HIDE DEF g
<1>5. ASSUME NEW i \in Limb
      PROVE  x[i] \in 0 .. Base - 1 /\ x[i] \in Int /\ x[i] = g[2 * i] + g[2 * i + 1] * HalfLimb
  <2> DEFINE p == e[2 * i]
             q == e[2 * i + 1]
             l == p + q * HalfLimb
  <2>1. x[i] = IF i = Limbs - 1 THEN l % (Base \div 2) ELSE l
    BY DEF unpack25519Limbs
  <2>2. /\ l \in 0 .. Base - 1 /\ l % (Base \div 2) = p + (q % (HalfLimb \div 2)) * HalfLimb
        /\ l % (Base \div 2) \in 0 .. Base - 1
    BY <1>3, LimbOfBytes
  <2>3. g[2 * i] = p /\ g[2 * i + 1] = IF i = Limbs - 1 THEN q % (HalfLimb \div 2) ELSE q
    <3>1. 2 * i # n - 1 /\ (2 * i + 1 = n - 1 <=> i = Limbs - 1)
      BY <1>1
    <3> QED
      BY <1>3, <1>4, <3>1
  <2>4. x[i] \in 0 .. Base - 1
    BY <2>1, <2>2
  <2> HIDE DEF x, p, q
  <2> QED
    BY <1>1, <2>1, <2>2, <2>3, <2>4
<1>6. x \in LimbInts
  <2>1. x = [i \in Limb |-> x[i]]
    BY DEF unpack25519Limbs
  <2> HIDE DEF x
  <2>2. x \in [Limb -> Int]
    BY <1>5, <2>1
  <2> QED
    BY <2>2 DEF LimbInts
<1> HIDE DEF x
<1>7. ASSUME NEW k \in 0 .. n - 1
      PROVE  /\ k \in 0 .. n /\ k + 1 \in 0 .. n /\ wt[k + 1] = HalfLimb * wt[k] /\ wt[k] \in Int
             /\ term[k] = g[k] * wt[k] /\ term[k] \in Int
  <2>1. k \in 0 .. n /\ k + 1 \in 0 .. n
    <3> HIDE DEF n
    <3> QED
      BY <1>1
  <2>2. wt[k] = HalfLimb ^ k /\ wt[k + 1] = HalfLimb ^ (k + 1)
    BY <2>1
  <2>3. HalfLimb ^ (k + 1) = HalfLimb * HalfLimb ^ k /\ HalfLimb ^ k \in Nat
    BY <2>1, HalfWeights
  <2>4. wt[k] \in Int /\ wt[k + 1] = HalfLimb * wt[k]
    BY <2>2, <2>3
  <2>5. term[k] = g[k] * wt[k]
    OBVIOUS
  <2> HIDE DEF wt, term
  <2> QED
    BY <1>4, <2>1, <2>4, <2>5
<1>8. /\ s[0] = 0 /\ \A k \in 0 .. n - 1 : s[k + 1] = s[k] + term[k]
      /\ \A k \in 0 .. n : s[k] \in Int
  <2> HIDE DEF n, term
  <2>1. \A k \in 0 .. n - 1 : term[k] \in Int
    BY <1>7
  <2> QED
    BY <1>1, <2>1, SumsAre
<1>9. wt[0] = 1 /\ \A k \in 0 .. n : wt[k] \in Int /\ wt[k] = HalfLimb ^ k
  <2>1. 0 \in 0 .. n /\ \A k \in 0 .. n : HalfLimb ^ k \in Nat
    BY <1>1, HalfWeights
  <2>2. \A k \in 0 .. n : wt[k] = HalfLimb ^ k
    OBVIOUS
  <2> HIDE DEF wt
  <2> QED
    BY <2>1, <2>2, HalfWeights
<1> HIDE DEF s, wt, term
<1>10. IsWeighing(n, HalfLimb, g, wt, s)
  <2> HIDE DEF n
  <2> QED
    BY <1>4, <1>7, <1>8, <1>9 DEF IsWeighing
<1>11. ResidueOfBytes(e) = Weighted(n, g, HalfLimb)
  BY DEF ResidueOfBytes, g
<1>12. Weighted(n, g, HalfLimb) = s[n] % Modulus
  <2> HIDE DEF n
  <2> QED
    BY ONLY <1>1, <1>10, WeightedIs
<1> DEFINE Holds(k) == s[2 * k] = Worth(x)[k]
           T == {k \in 0 .. Limbs : Holds(k)}
<1>13. Holds(0) /\ 0 \in 0 .. Limbs
  <2>1. 2 * 0 = 0 /\ Worth(x)[0] = 0 /\ 0 \in 0 .. Limbs
    BY <1>1, <1>6, WorthIs
  <2> QED
    BY <1>8, <2>1
<1>14. ASSUME NEW k \in 0 .. Limbs - 1, Holds(k) PROVE Holds(k + 1)
  <2> DEFINE j == 2 * k
             l == 2 * k + 1
             p == g[j]
             q == g[l]
             u == wt[j]
             t == s[j]
  <2>1. k \in Limb /\ k \in 0 .. Limbs /\ j \in 0 .. n - 1 /\ l \in 0 .. n - 1 /\ 2 * (k + 1) = l + 1
        /\ j + 1 = l
    BY <1>1
  <2>2. x[k] = p + q * HalfLimb
    BY <1>5, <2>1
  <2>3. Worth(x)[k + 1] = Worth(x)[k] + x[k] * Weight[k] /\ Weight[k] = HalfLimb ^ j
    BY <1>6, <2>1, WorthIs DEF Weight
  <2> HIDE DEF j, l, n
  <2>4. wt[j] = HalfLimb ^ j /\ wt[l] = HalfLimb * u /\ u \in Int
    <3>1. wt[j + 1] = HalfLimb * wt[j] /\ wt[j] \in Int /\ j \in 0 .. n
      BY <1>7, <2>1
    <3> QED
      BY <1>9, <2>1, <3>1
  <2>5. s[l] = t + p * u /\ s[l + 1] = s[l] + q * wt[l] /\ t \in Int /\ p \in Int /\ q \in Int
    <3>1. s[j + 1] = s[j] + g[j] * wt[j] /\ s[l + 1] = s[l] + g[l] * wt[l] /\ s[j] \in Int
      BY <1>7, <1>8, <2>1
    <3> QED
      BY <1>4, <2>1, <3>1
  <2>6. s[2 * (k + 1)] = (t + p * u) + q * (HalfLimb * u)
    BY <2>1, <2>4, <2>5
  <2>7. Worth(x)[k + 1] = t + (p + q * HalfLimb) * u
    <3>1. t = Worth(x)[k]
      BY <1>14 DEF j
    <3> QED
      BY <2>2, <2>3, <2>4, <3>1
  <2> HIDE DEF p, q, u, t
  <2>8. (t + p * u) + q * (HalfLimb * u) = t + (p + q * HalfLimb) * u
    <3>1. (p + q * HalfLimb) * u = p * u + q * (HalfLimb * u)
      BY <1>1, <2>4, <2>5
    <3> DEFINE i1 == p * u
               i2 == q * (HalfLimb * u)
    <3>2. i1 \in Int /\ i2 \in Int
      <4>1. HalfLimb * u \in Int
        BY <1>1, <2>4
      <4> QED
        BY <2>4, <2>5, <4>1
    <3> HIDE DEF i1, i2
    <3>3. (t + i1) + i2 = t + (i1 + i2)
      BY <2>5, <3>2
    <3> QED
      BY <3>1, <3>3 DEF i1, i2
  <2> QED
    BY <2>6, <2>7, <2>8
<1>15. 0 \in T /\ \A k \in 0 .. Limbs - 1 : k \in T => k + 1 \in T
  <2>1. \A k \in 0 .. Limbs - 1 : k + 1 \in 0 .. Limbs
    BY <1>1
  <2> HIDE DEF Holds
  <2> QED
    BY <1>13, <1>14, <2>1
<1>16. Limbs \in 0 .. Limbs /\ \A k \in T : Holds(k)
  BY <1>1
<1> HIDE DEF T, Holds
<1>17. Holds(Limbs)
  BY <1>15, <1>16, UpTo
<1>18. s[n] = Worth(x)[Limbs]
  BY <1>17 DEF Holds
<1> QED
  BY <1>5, <1>6, <1>11, <1>12, <1>18 DEF x

-----------------------------------------------------------------------------
(***************************************************************************)
(* Products.                                                               *)
(***************************************************************************)

\* Limbs moved up k places; what leaves at the top comes back times Wrap.
Shifted(x, k) == [i \in Limb |-> IF i >= k THEN x[i - k] ELSE Wrap * x[i - k + Limbs]]

\* Moving up one place multiplies by Base, but for a multiple of the modulus.
LEMMA RotatedWorth ==
  ASSUME NEW x \in LimbInts, NEW y \in LimbInts, NEW top, top = x[Limbs - 1],
         y[0] = Wrap * top, \A i \in 1 .. Limbs - 1 : y[i] = x[i - 1]
  PROVE  Worth(y)[Limbs] = Modulus * (-2 * top) + Base * Worth(x)[Limbs]
<1> DEFINE n == Limbs
           c == Wrap * top
           Holds(k) == k < n => Worth(y)[k + 1] = c + Base * Worth(x)[k]
           T == {k \in 0 .. n : Holds(k)}
<1>1. /\ n \in Nat /\ n >= 2 /\ n - 1 \in 0 .. n - 1 /\ 0 \in 0 .. n - 1 /\ Base \in Nat /\ Wrap \in Nat
      /\ Modulus \in Nat /\ Span = 2 * Modulus + Wrap /\ 0 \in 0 .. n
  BY LimbWidths, ModulusIs
<1>2. top \in Int /\ c \in Int
  <2>1. top \in Int
    BY <1>1, WorthIs
  <2> QED
    BY <1>1, <2>1
<1> HIDE DEF c
<1>3. Holds(0)
  <2> DEFINE u == Weight[0]
             t == Worth(y)[0]
             s == Worth(x)[0]
  <2>1. Worth(y)[0 + 1] = t + y[0] * u /\ t = 0 /\ s = 0 /\ u = 1
    BY <1>1, WorthIs, LimbWeights
  <2>2. y[0] = c /\ 0 + 1 = 1
    BY DEF c
  <2> HIDE DEF u, t, s
  <2>3. t + y[0] * u = c /\ c + Base * s = c
    BY <1>1, <1>2, <2>1, <2>2
  <2> QED
    BY <2>1, <2>3 DEF s
<1>4. ASSUME NEW k \in 0 .. n - 1, Holds(k) PROVE Holds(k + 1)
  <2> SUFFICES ASSUME k + 1 < n PROVE Worth(y)[(k + 1) + 1] = c + Base * Worth(x)[k + 1]
    OBVIOUS
  <2> DEFINE l == k + 1
             p == x[k]
             u == Weight[k]
             s == Worth(x)[k]
             t == Worth(y)[l]
  <2>1. l \in 0 .. n - 1 /\ l \in 1 .. n - 1 /\ l - 1 = k /\ k < n
    BY <1>1
  <2>2. t = c + Base * s
    BY <1>4, <2>1
  <2>3. Worth(x)[l] = s + p * u /\ s \in Int /\ p \in Int /\ u \in Nat /\ Weight[l] = Base * u
    BY WorthIs, LimbWeights
  <2>4. y[l] = p
    BY <2>1
  <2> HIDE DEF l
  <2>5. Worth(y)[l + 1] = t + y[l] * Weight[l]
    BY <2>1, WorthIs
  <2> HIDE DEF p, u, s, t
  <2>6. Worth(y)[l + 1] = (c + Base * s) + p * (Base * u)
    BY <2>2, <2>3, <2>4, <2>5
  <2>7. (c + Base * s) + p * (Base * u) = c + Base * (s + p * u)
    <3> DEFINE g == p * u
    <3>1. p * (Base * u) = Base * g /\ g \in Int
      BY <1>1, <2>3
    <3> HIDE DEF g
    <3>2. Base * (s + g) = Base * s + Base * g /\ Base * s \in Int /\ Base * g \in Int
      BY <1>1, <2>3, <3>1
    <3>3. (c + Base * s) + Base * g = c + (Base * s + Base * g)
      BY <1>2, <3>2
    <3> QED
      BY <3>1, <3>2, <3>3 DEF g
  <2> QED
    BY <2>3, <2>6, <2>7 DEF l
<1>5. 0 \in T /\ \A k \in 0 .. Limbs - 1 : k \in T => k + 1 \in T
  <2>1. \A k \in 0 .. n - 1 : k + 1 \in 0 .. n
    BY <1>1
  <2> HIDE DEF Holds
  <2> QED
    BY <1>1, <1>3, <1>4, <2>1
<1>6. (\A k \in T : Holds(k)) /\ n - 1 \in 0 .. Limbs
  BY <1>1
<1> HIDE DEF T, Holds
<1>7. Holds(n - 1)
  <2>1. \A k \in 0 .. Limbs : k \in T
    BY <1>5, UpTo
  <2> QED
    BY <1>6, <2>1
<1> DEFINE k == n - 1
           u == Weight[k]
           s == Worth(x)[k]
           g == Base * s
           e == top * u
<1>8. k + 1 = n /\ k < n /\ k \in 0 .. n - 1
  BY <1>1
<1>9. Worth(y)[n] = c + g
  <2> HIDE DEF n
  <2> QED
    BY <1>7, <1>8 DEF Holds
<1>10. Worth(x)[n] = s + e /\ s \in Int /\ u \in Nat /\ Span = Base * u
  <2>1. Worth(x)[k + 1] = s + x[k] * u /\ s \in Int /\ u \in Nat /\ Weight[k + 1] = Base * u
    <3> HIDE DEF k
    <3> QED
      BY <1>8, WorthIs, LimbWeights
  <2>2. x[k] = top /\ Weight[n] = Span
    BY LimbWeights
  <2> HIDE DEF n, s, u
  <2> QED
    BY <1>8, <2>1, <2>2
<1> HIDE DEF k, u, s
<1>11. Base * (s + e) = g + Base * e /\ g \in Int /\ e \in Int /\ Base * e = top * Span
  <2>1. e \in Int
    BY <1>2, <1>10
  <2>2. Base * (top * u) = top * (Base * u)
    BY <1>1, <1>2, <1>10
  <2> HIDE DEF e
  <2>3. Base * (s + e) = Base * s + Base * e /\ Base * s \in Int
    BY <1>1, <1>10, <2>1
  <2> QED
    BY <1>10, <2>1, <2>2, <2>3 DEF e
<1>12. top * Span = 2 * (Modulus * top) + c /\ Modulus * top \in Int
       /\ Modulus * (-2 * top) = -2 * (Modulus * top)
  BY <1>1, <1>2 DEF c
<1> DEFINE mt == Modulus * top
           m2 == Modulus * (-2 * top)
           bx == Base * Worth(x)[n]
<1>13. bx = g + (2 * mt + c) /\ m2 = -2 * mt /\ mt \in Int /\ g \in Int
  BY <1>10, <1>11, <1>12
<1> HIDE DEF mt, m2, bx, g
<1>14. c + g = m2 + bx
  BY <1>2, <1>13
<1> QED
  BY <1>9, <1>14 DEF m2, bx

\* k places multiply by the weight of the k-th limb.
LEMMA ShiftedWorth ==
  ASSUME NEW x \in LimbInts
  PROVE  \A k \in Limb : /\ Shifted(x, k) \in LimbInts
                         /\ \E q \in Int : Worth(Shifted(x, k))[Limbs] = Modulus * q + Weight[k] * Worth(x)[Limbs]
<1> DEFINE n == Limbs
           v == Worth(x)[n]
           Holds(k) == k < n => \E q \in Int : Worth(Shifted(x, k))[n] = Modulus * q + Weight[k] * v
           T == {k \in 0 .. n : Holds(k)}
<1>1. /\ n \in Nat /\ n >= 2 /\ Limb = 0 .. n - 1 /\ Base \in Nat /\ Wrap \in Nat /\ Modulus \in Nat
      /\ Weight[0] = 1 /\ n \in 0 .. n
  BY LimbWidths, LimbWeights, ModulusIs DEF Limb
<1>2. v \in Int
  BY <1>1, WorthIs
<1> HIDE DEF v
<1>3. ASSUME NEW k \in Limb PROVE Shifted(x, k) \in LimbInts
  <2> SUFFICES ASSUME NEW i \in Limb PROVE (IF i >= k THEN x[i - k] ELSE Wrap * x[i - k + Limbs]) \in Int
    BY DEF LimbInts, Shifted
  <2>1. CASE i >= k
    <3>1. i - k \in Limb
      BY <1>1, <2>1
    <3> QED
      BY <2>1, <3>1 DEF LimbInts
  <2>2. CASE ~(i >= k)
    <3> DEFINE p == x[i - k + Limbs]
    <3>1. i - k + Limbs \in Limb
      BY <1>1, <2>2
    <3>2. p \in Int
      BY <3>1 DEF LimbInts
    <3> HIDE DEF p
    <3>3. Wrap * p \in Int
      BY <1>1, <3>2
    <3> QED
      BY <2>2, <3>3 DEF p
  <2> QED
    BY <2>1, <2>2
<1>4. Holds(0) /\ 0 \in 0 .. n
  <2> DEFINE q == 0
  <2>1. Shifted(x, 0) = [i \in Limb |-> x[i]]
    <3>1. \A i \in Limb : i >= 0 /\ i - 0 = i
      BY <1>1
    <3> QED
      BY <3>1 DEF Shifted
  <2>2. Shifted(x, 0) = x
    BY <2>1 DEF LimbInts
  <2>3. v = Modulus * q + Weight[0] * v
    BY <1>1, <1>2
  <2>4. Worth(Shifted(x, 0))[n] = Modulus * q + Weight[0] * v /\ q \in Int /\ 0 \in 0 .. n
    BY <1>1, <2>2, <2>3 DEF v
  <2> HIDE DEF q
  <2> QED
    BY <2>4
<1>5. ASSUME NEW k \in 0 .. n - 1, Holds(k) PROVE Holds(k + 1)
  <2> SUFFICES ASSUME k + 1 < n
               PROVE  \E q \in Int : Worth(Shifted(x, k + 1))[n] = Modulus * q + Weight[k + 1] * v
    OBVIOUS
  <2> DEFINE y == Shifted(x, k)
             z1 == Shifted(x, k + 1)
             top == y[Limbs - 1]
             u == Weight[k]
  <2>1. k < n /\ k \in Limb /\ k + 1 \in Limb /\ Limbs - 1 \in Limb /\ 0 \in Limb
    BY <1>1
  <2>2. PICK q \in Int : Worth(y)[n] = Modulus * q + u * v
    BY <1>5, <2>1
  <2>3. y \in LimbInts /\ z1 \in LimbInts
    BY <1>3, <2>1
  <2>4. z1[0] = Wrap * top
    <3>1. ~(0 >= k + 1) /\ Limbs - 1 >= k /\ 0 - (k + 1) + Limbs = Limbs - 1 - k
      BY <1>1, <2>1
    <3>2. z1[0] = Wrap * x[0 - (k + 1) + Limbs]
      BY <2>1, <3>1 DEF Shifted
    <3>3. top = x[Limbs - 1 - k]
      BY <2>1, <3>1 DEF Shifted
    <3> QED
      BY <3>1, <3>2, <3>3
  <2>5. ASSUME NEW i \in 1 .. Limbs - 1 PROVE z1[i] = y[i - 1]
    <3>1. /\ i \in Limb /\ i - 1 \in Limb /\ (i >= k + 1 <=> i - 1 >= k) /\ i - (k + 1) = i - 1 - k
          /\ i - (k + 1) + Limbs = i - 1 - k + Limbs
      BY <1>1, <2>1
    <3>2. z1[i] = IF i >= k + 1 THEN x[i - (k + 1)] ELSE Wrap * x[i - (k + 1) + Limbs]
      BY <3>1 DEF Shifted
    <3>3. y[i - 1] = IF i - 1 >= k THEN x[i - 1 - k] ELSE Wrap * x[i - 1 - k + Limbs]
      BY <3>1 DEF Shifted
    <3> QED
      BY <3>1, <3>2, <3>3
  <2>6. top \in Int
    BY <2>1, <2>3 DEF LimbInts
  <2> HIDE DEF y, z1
  <2>7. Worth(z1)[Limbs] = Modulus * (-2 * top) + Base * Worth(y)[Limbs]
    BY <2>3, <2>4, <2>5, RotatedWorth
  <2>8. u \in Nat /\ Weight[k + 1] = Base * u
    <3>1. k \in 0 .. Limbs - 1 /\ k \in 0 .. Limbs
      BY <1>1
    <3> HIDE DEF top
    <3> QED
      BY <3>1, LimbWeights
  <2> HIDE DEF top, u
  <2> DEFINE j == -2 * top
             l == j + Base * q
             uv == u * v
             i1 == Modulus * j
             i2 == Base * q
             i3 == Modulus * i2
             mq == Modulus * q
             ml == Modulus * l
  <2>9. uv \in Int /\ j \in Int /\ i2 \in Int /\ l = j + i2 /\ mq \in Int /\ Weight[k + 1] * v = Base * uv
    <3>1. (Base * u) * v = Base * (u * v)
      BY <1>1, <1>2, <2>8
    <3> QED
      BY <1>1, <1>2, <2>6, <2>8, <3>1
  <2>10. i1 \in Int /\ i3 \in Int /\ ml = i1 + i3 /\ Base * mq = i3 /\ l \in Int
    <3>1. Base * (Modulus * q) = Modulus * (Base * q)
      BY <1>1
    <3> HIDE DEF j, i2, l
    <3>2. Modulus * (j + i2) = Modulus * j + Modulus * i2 /\ Modulus * j \in Int /\ Modulus * i2 \in Int
      BY <1>1, <2>9
    <3> QED
      BY <2>9, <3>1, <3>2 DEF i2
  <2> HIDE DEF uv, mq
  <2>11. Base * (mq + uv) = i3 + Base * uv /\ Base * uv \in Int
    <3>1. Base * (mq + uv) = Base * mq + Base * uv /\ Base * uv \in Int
      BY <1>1, <2>9
    <3> QED
      BY <2>10, <3>1
  <2>12. Worth(z1)[n] = i1 + (i3 + Base * uv)
    BY <2>2, <2>7, <2>11 DEF mq, uv
  <2> DEFINE bu == Base * uv
  <2>13. Worth(z1)[n] = ml + Weight[k + 1] * v
    <3>1. Weight[k + 1] * v = bu /\ bu \in Int /\ Worth(z1)[n] = i1 + (i3 + bu)
      BY <2>9, <2>11, <2>12
    <3> HIDE DEF bu, ml, i1, i3
    <3> QED
      BY <2>10, <3>1
  <2> HIDE DEF l
  <2> QED
    BY <2>10, <2>13 DEF z1
<1>6. 0 \in T /\ \A k \in 0 .. Limbs - 1 : k \in T => k + 1 \in T
  <2>1. \A k \in 0 .. n - 1 : k + 1 \in 0 .. n
    BY <1>1
  <2> HIDE DEF Holds
  <2> QED
    BY <1>4, <1>5, <2>1
<1>7. \A k \in T : Holds(k)
  OBVIOUS
<1>8. \A k \in Limb : k \in 0 .. Limbs /\ k < n
  BY <1>1
<1> HIDE DEF T, Holds
<1>9. \A k \in 0 .. Limbs : k \in T
  BY <1>6, UpTo
<1>10. \A k \in Limb : Holds(k)
  BY <1>7, <1>8, <1>9
<1> QED
  BY <1>3, <1>8, <1>10 DEF Holds, v

\* Sums of terms that are sums.
LEMMA SumsCombine ==
  ASSUME NEW t1, NEW t2, NEW t3, NEW c \in Int,
         \A k \in Limb : t1[k] \in Int /\ t2[k] \in Int /\ t3[k] = t1[k] + c * t2[k]
  PROVE  /\ PartialSums(Limbs, t3)[Limbs] = PartialSums(Limbs, t1)[Limbs] + c * PartialSums(Limbs, t2)[Limbs]
         /\ PartialSums(Limbs, t1)[Limbs] \in Int /\ PartialSums(Limbs, t2)[Limbs] \in Int
<1> DEFINE n == Limbs
           s1 == PartialSums(n, t1)
           s2 == PartialSums(n, t2)
           s3 == PartialSums(n, t3)
           Holds(k) == s3[k] = s1[k] + c * s2[k]
           T == {k \in 0 .. n : Holds(k)}
<1>1. n \in Nat /\ Limb = 0 .. n - 1 /\ n \in 0 .. n /\ 0 \in 0 .. n
  BY LimbWidths DEF Limb
<1>2. \A k \in 0 .. n - 1 : t1[k] \in Int /\ t2[k] \in Int /\ t3[k] = t1[k] + c * t2[k]
  BY <1>1
<1>3. \A k \in 0 .. n - 1 : t3[k] \in Int
  <2> SUFFICES ASSUME NEW k \in 0 .. n - 1 PROVE t3[k] \in Int
    OBVIOUS
  <2> DEFINE p == t1[k]
             q == t2[k]
  <2>1. p \in Int /\ q \in Int /\ t3[k] = p + c * q
    BY <1>2
  <2> HIDE DEF p, q
  <2>2. c * q \in Int
    BY <2>1
  <2> QED
    BY <2>1, <2>2
<1> HIDE DEF n
<1>4. /\ s1[0] = 0 /\ \A k \in 0 .. n - 1 : s1[k + 1] = s1[k] + t1[k]
      /\ \A k \in 0 .. n : s1[k] \in Int
  BY <1>1, <1>2, SumsAre
<1>5. /\ s2[0] = 0 /\ \A k \in 0 .. n - 1 : s2[k + 1] = s2[k] + t2[k]
      /\ \A k \in 0 .. n : s2[k] \in Int
  BY <1>1, <1>2, SumsAre
<1>6. s3[0] = 0 /\ \A k \in 0 .. n - 1 : s3[k + 1] = s3[k] + t3[k]
  BY <1>1, <1>3, SumsAre
<1> HIDE DEF s1, s2, s3
<1>7. Holds(0)
  BY <1>4, <1>5, <1>6
<1>8. ASSUME NEW k \in 0 .. n - 1, Holds(k) PROVE Holds(k + 1)
  <2> DEFINE p == t1[k]
             q == t2[k]
             u == s1[k]
             v == s2[k]
  <2>1. k \in 0 .. n
    BY <1>1
  <2>2. p \in Int /\ q \in Int /\ u \in Int /\ v \in Int /\ t3[k] = p + c * q
    BY <1>2, <1>4, <1>5, <2>1
  <2>3. s3[k] = u + c * v
    BY <1>8
  <2>4. s3[k + 1] = (u + c * v) + (p + c * q) /\ s1[k + 1] = u + p /\ s2[k + 1] = v + q
    BY <1>4, <1>5, <1>6, <2>2, <2>3
  <2> HIDE DEF p, q, u, v
  <2>5. c * (v + q) = c * v + c * q /\ c * v \in Int /\ c * q \in Int
    BY <2>2
  <2>6. (u + c * v) + (p + c * q) = (u + p) + c * (v + q)
    BY <2>2, <2>5
  <2> QED
    BY <2>4, <2>6
<1>9. 0 \in T /\ \A k \in 0 .. n - 1 : k \in T => k + 1 \in T
  <2>1. \A k \in 0 .. n - 1 : k + 1 \in 0 .. n
    BY <1>1
  <2> HIDE DEF Holds
  <2> QED
    BY <1>1, <1>7, <1>8, <2>1
<1>10. \A k \in T : Holds(k)
  OBVIOUS
<1> HIDE DEF T, Holds
<1>11. n \in T
  BY ONLY <1>1, <1>9, Upwards
<1>12. Holds(n)
  BY <1>10, <1>11
<1> QED
  BY <1>1, <1>4, <1>5, <1>12 DEF Holds, s1, s2, s3, n

\* The terms of a folded column.
FoldedTerms(x, y, i) == [k \in Limb |-> x[k] * Shifted(y, k)[i]]

\* They are integers.
LEMMA FoldedTermsAre ==
  ASSUME NEW x \in LimbInts, NEW y \in LimbInts, NEW i \in Limb, NEW k \in Limb
  PROVE  /\ FoldedTerms(x, y, i)[k] = x[k] * Shifted(y, k)[i] /\ FoldedTerms(x, y, i)[k] \in Int
         /\ x[k] \in Int /\ Shifted(y, k)[i] \in Int
<1> DEFINE p == x[k]
           q == Shifted(y, k)[i]
<1>1. p \in Int /\ q \in Int
  <2>1. Shifted(y, k) \in LimbInts
    BY ShiftedWorth
  <2> QED
    BY <2>1 DEF LimbInts
<1>2. FoldedTerms(x, y, i)[k] = p * q
  BY DEF FoldedTerms
<1> HIDE DEF p, q
<1>3. p * q \in Int
  BY <1>1
<1> QED
  BY <1>1, <1>2, <1>3 DEF p, q

\* A folded column adds them up.
LEMMA FoldedIs ==
  ASSUME NEW x \in LimbInts, NEW y \in LimbInts, NEW i \in Limb
  PROVE  Folded(x, y)[i] = PartialSums(Limbs, FoldedTerms(x, y, i))[Limbs]
<1> DEFINE n == Limbs
           Term(t) == [k \in Limb |-> IF t - k \in Limb THEN x[k] * y[t - k] ELSE 0]
           t3 == FoldedTerms(x, y, i)
<1>1. /\ n \in Nat /\ n >= 2 /\ Limb = 0 .. n - 1 /\ Wrap \in Nat /\ 2 * Fold = Wrap
  BY LimbWidths DEF Limb
<1>2. ASSUME NEW t \in 0 .. 2 * n - 2 PROVE Columns(x, y)[t] = PartialSums(n, Term(t))[n]
  BY DEF Columns
<1>3. ASSUME NEW t \in Int, NEW k \in Limb
      PROVE  /\ Term(t)[k] = IF t - k \in Limb THEN x[k] * y[t - k] ELSE 0
             /\ Term(t)[k] \in Int
  <2>1. Term(t)[k] = IF t - k \in Limb THEN x[k] * y[t - k] ELSE 0
    OBVIOUS
  <2>2. CASE t - k \in Limb
    <3> DEFINE p == x[k]
               q == y[t - k]
    <3>1. p \in Int /\ q \in Int
      BY <2>2 DEF LimbInts
    <3> HIDE DEF p, q
    <3>2. p * q \in Int
      BY <3>1
    <3> QED
      BY <2>1, <2>2, <3>2 DEF p, q
  <2> HIDE DEF Term
  <2> QED
    BY <2>1, <2>2
<1>4. \A k \in Limb : t3[k] = x[k] * Shifted(y, k)[i] /\ t3[k] \in Int /\ x[k] \in Int
  BY FoldedTermsAre
<1>5. ASSUME NEW k \in Limb
      PROVE  Shifted(y, k)[i] = IF i >= k THEN y[i - k] ELSE Wrap * y[i - k + Limbs]
  BY DEF Shifted
<1> HIDE DEF Term, t3
<1>6. CASE i < n - 1
  <2> DEFINE l == i + n
             t1 == Term(i)
             t2 == Term(l)
  <2>1. i \in 0 .. 2 * n - 2 /\ l \in 0 .. 2 * n - 2 /\ i \in Int /\ l \in Int
    BY <1>1, <1>6
  <2>2. Folded(x, y)[i] = Columns(x, y)[i] + 2 * Fold * Columns(x, y)[l]
    BY <1>6 DEF Folded
  <2>3. ASSUME NEW k \in Limb PROVE t1[k] \in Int /\ t2[k] \in Int /\ t3[k] = t1[k] + Wrap * t2[k]
    <3>1. t1[k] \in Int /\ t2[k] \in Int
      BY <1>3, <2>1
    <3>2. CASE i >= k
      <4>1. i - k \in Limb /\ ~(l - k \in Limb)
        BY <1>1, <3>2
      <4>2. t1[k] = x[k] * y[i - k] /\ t2[k] = 0
        BY <1>3, <2>1, <4>1
      <4>3. t3[k] = t1[k]
        BY <1>4, <1>5, <3>2, <4>2
      <4> HIDE DEF t1, t2
      <4> QED
        BY <1>1, <3>1, <4>2, <4>3
    <3>3. CASE ~(i >= k)
      <4> DEFINE p == x[k]
                 j == i - k + Limbs
                 q == y[j]
      <4>1. l - k = j /\ j \in Limb /\ ~(i - k \in Limb)
        BY <1>1, <3>3
      <4>2. t1[k] = 0 /\ t2[k] = p * q
        BY <1>3, <2>1, <4>1
      <4>3. p \in Int /\ q \in Int
        BY <4>1 DEF LimbInts
      <4>4. t3[k] = p * (Wrap * q)
        BY <1>4, <1>5, <3>3
      <4> HIDE DEF p, q, t1, t2
      <4>5. p * (Wrap * q) = Wrap * (p * q)
        BY <1>1, <4>3
      <4> QED
        BY <1>1, <3>1, <4>2, <4>4, <4>5
    <3> QED
      BY <3>2, <3>3
  <2> HIDE DEF t1, t2
  <2>4. PartialSums(n, t3)[n] = PartialSums(n, t1)[n] + Wrap * PartialSums(n, t2)[n]
    BY <1>1, <2>3, SumsCombine
  <2>5. Columns(x, y)[i] = PartialSums(n, t1)[n] /\ Columns(x, y)[l] = PartialSums(n, t2)[n]
    BY <1>2, <2>1 DEF t1, t2
  <2> QED
    BY <1>1, <2>2, <2>4, <2>5 DEF t3
<1>7. CASE ~(i < n - 1)
  <2> DEFINE t1 == Term(i)
  <2>1. i \in 0 .. 2 * n - 2 /\ i \in Int
    BY <1>1, <1>7
  <2>2. Folded(x, y)[i] = Columns(x, y)[i]
    BY <1>7 DEF Folded
  <2>3. ASSUME NEW k \in Limb PROVE t1[k] = t3[k]
    <3>1. i >= k /\ i - k \in Limb
      BY <1>1, <1>7
    <3>2. t1[k] = x[k] * y[i - k]
      BY <1>3, <2>1, <3>1
    <3> QED
      BY <1>4, <1>5, <3>1, <3>2
  <2>4. t1 = [k \in Limb |-> t1[k]]
    BY DEF Term
  <2>5. t3 = [k \in Limb |-> t3[k]]
    BY DEF t3, FoldedTerms
  <2> HIDE DEF t1
  <2>6. [k \in Limb |-> t1[k]] = [k \in Limb |-> t3[k]]
    BY <2>3
  <2>7. t1 = t3
    BY <2>4, <2>5, <2>6
  <2>8. Columns(x, y)[i] = PartialSums(n, t1)[n]
    BY <1>2, <2>1 DEF t1
  <2> QED
    BY <2>2, <2>7, <2>8 DEF t3
<1> QED
  BY <1>6, <1>7

\* Folded columns stand for the product, but for a multiple of the modulus.
LEMMA FoldedWorth ==
  ASSUME NEW x \in LimbInts, NEW y \in LimbInts
  PROVE  /\ Folded(x, y) \in LimbInts
         /\ \E q \in Int : Worth(Folded(x, y))[Limbs] = Modulus * q + Worth(x)[Limbs] * Worth(y)[Limbs]
<1> DEFINE n == Limbs
           v == Worth(y)[n]
           Sums(i) == PartialSums(n, FoldedTerms(x, y, i))
           Upto(k) == [i \in Limb |-> Sums(i)[k]]
           Holds(k) == \E q \in Int : Worth(Upto(k))[n] = Modulus * q + Worth(x)[k] * v
           T == {k \in 0 .. n : Holds(k)}
<1>1. /\ n \in Nat /\ Limb = 0 .. n - 1 /\ n \in 0 .. n /\ 0 \in 0 .. n /\ Modulus \in Nat /\ 0 \in Limb
  BY LimbWidths, ModulusIs DEF Limb
<1>2. v \in Int
  BY <1>1, WorthIs
<1>3. ASSUME NEW i \in Limb
      PROVE  /\ Sums(i)[0] = 0
             /\ \A k \in 0 .. n - 1 : Sums(i)[k + 1] = Sums(i)[k] + x[k] * Shifted(y, k)[i]
             /\ \A k \in 0 .. n : Sums(i)[k] \in Int
  <2> DEFINE term == FoldedTerms(x, y, i)
  <2>1. \A k \in 0 .. n - 1 : term[k] = x[k] * Shifted(y, k)[i] /\ term[k] \in Int
    BY <1>1, FoldedTermsAre
  <2> HIDE DEF term, n
  <2>2. /\ PartialSums(n, term)[0] = 0
        /\ \A k \in 0 .. n - 1 : PartialSums(n, term)[k + 1] = PartialSums(n, term)[k] + term[k]
        /\ \A k \in 0 .. n : PartialSums(n, term)[k] \in Int
    BY <1>1, <2>1, SumsAre
  <2> QED
    BY <2>1, <2>2 DEF term
<1> HIDE DEF v, Sums
<1>4. ASSUME NEW k \in 0 .. n PROVE Upto(k) \in LimbInts /\ \A i \in Limb : Upto(k)[i] = Sums(i)[k]
  BY <1>3 DEF LimbInts
<1> HIDE DEF Upto
<1>5. Holds(0)
  <2> DEFINE none == 0
             p == Worth(x)[n]
             r == Worth(Upto(0))[n]
             g == Upto(0)
  <2>1. g \in LimbInts /\ \A i \in Limb : g[i] = 0
    BY <1>1, <1>3, <1>4
  <2>2. \A i \in Limb : x[i] \in Int
    BY DEF LimbInts
  <2>3. none \in Int
    OBVIOUS
  <2>4. p \in Int /\ Worth(x)[0] = 0
    BY <1>1, WorthIs
  <2>5. \A i \in Limb : g[i] = none * x[i] + none * x[i]
    <3> SUFFICES ASSUME NEW i \in Limb PROVE g[i] = none * x[i] + none * x[i]
      OBVIOUS
    <3> DEFINE xi == x[i]
    <3>1. xi \in Int /\ g[i] = 0
      BY <2>1, <2>2
    <3> HIDE DEF xi
    <3>2. none * xi + none * xi = 0
      BY <3>1
    <3> HIDE DEF g
    <3> QED
      BY <3>1, <3>2 DEF xi
  <2> HIDE DEF none, g
  <2>6. \A k \in 0 .. Limbs : Worth(g)[k] = none * Worth(x)[k] + none * Worth(x)[k]
    BY <2>1, <2>3, <2>5, WorthCombines
  <2>7. r = none * p + none * p
    BY <1>1, <2>6 DEF g
  <2> HIDE DEF p, r
  <2>8. r = Modulus * none + Worth(x)[0] * v
    BY <1>1, <1>2, <2>4, <2>7 DEF none
  <2> QED
    BY <2>3, <2>8 DEF r
<1>6. ASSUME NEW k \in 0 .. n - 1, Holds(k) PROVE Holds(k + 1)
  <2> DEFINE y1 == Shifted(y, k)
             g == Upto(k)
             r == Upto(k + 1)
             d == x[k]
             one == 1
             u == Weight[k]
             s == Worth(x)[k]
  <2>1. k \in Limb /\ k \in 0 .. n /\ k + 1 \in 0 .. n
    BY <1>1
  <2>2. /\ g \in LimbInts /\ r \in LimbInts /\ y1 \in LimbInts /\ one \in Int
        /\ \A i \in Limb : g[i] = Sums(i)[k] /\ r[i] = Sums(i)[k + 1] /\ y1[i] \in Int /\ Sums(i)[k] \in Int
    <3>1. y1 \in LimbInts /\ \A i \in Limb : y1[i] \in Int
      BY <2>1, ShiftedWorth DEF LimbInts
    <3> HIDE DEF y1
    <3> QED
      BY <1>3, <1>4, <2>1, <3>1
  <2>3. d \in Int /\ u \in Nat /\ s \in Int /\ Worth(x)[k + 1] = s + d * u
    <3> HIDE DEF n
    <3> QED
      BY <2>1, WorthIs DEF n
  <2>4. ASSUME NEW i \in Limb PROVE r[i] = one * g[i] + d * y1[i]
    <3> DEFINE p == g[i]
               q == y1[i]
    <3>1. r[i] = p + d * q /\ p \in Int /\ q \in Int
      BY <1>3, <2>2
    <3> HIDE DEF p, q, d
    <3>2. d * q \in Int
      BY <2>3, <3>1
    <3>3. one * p = p
      BY <3>1
    <3> QED
      BY <3>1, <3>2, <3>3 DEF p, q
  <2>5. PICK q1 \in Int : Worth(y1)[n] = Modulus * q1 + u * v
    BY <2>1, ShiftedWorth DEF v
  <2>6. PICK q2 \in Int : Worth(g)[n] = Modulus * q2 + s * v
    BY <1>6
  <2> HIDE DEF g, r, d, y1, one, u, s
  <2>7. \A j \in 0 .. Limbs : Worth(r)[j] = one * Worth(g)[j] + d * Worth(y1)[j]
    <3>1. /\ g \in LimbInts /\ r \in LimbInts /\ y1 \in LimbInts /\ one \in Int /\ d \in Int
          /\ \A i \in Limb : r[i] = one * g[i] + d * y1[i]
      BY <2>2, <2>3, <2>4
    <3> QED
      BY ONLY <3>1, WorthCombines
  <2>8. Worth(r)[n] = one * (Modulus * q2 + s * v) + d * (Modulus * q1 + u * v)
    BY <1>1, <2>5, <2>6, <2>7
  <2> DEFINE l == q2 + d * q1
  <2>9. l \in Int /\ d * (Modulus * q1 + u * v) = Modulus * (d * q1) + (d * u) * v
        /\ Modulus * l = Modulus * q2 + Modulus * (d * q1) /\ (s + d * u) * v = s * v + (d * u) * v
    <3>1. d * (Modulus * q1 + u * v) = Modulus * (d * q1) + (d * u) * v
      BY <1>1, <1>2, <2>3
    <3> DEFINE i1 == d * q1
               i2 == d * u
    <3>2. i1 \in Int /\ i2 \in Int
      BY <2>3
    <3> HIDE DEF i1, i2
    <3>3. Modulus * (q2 + i1) = Modulus * q2 + Modulus * i1 /\ q2 + i1 \in Int
      BY <1>1, <3>2
    <3>4. (s + i2) * v = s * v + i2 * v
      BY <1>2, <2>3, <3>2
    <3> QED
      BY <3>1, <3>3, <3>4 DEF i1, i2
  <2> DEFINE a1 == Modulus * q2
             a2 == s * v
             a3 == Modulus * (d * q1)
             a4 == (d * u) * v
             a5 == Modulus * l
             a6 == (s + d * u) * v
  <2>10. a1 \in Int /\ a2 \in Int /\ a3 \in Int /\ a4 \in Int
    <3>1. d * q1 \in Int /\ d * u \in Int
      BY <2>3
    <3> QED
      BY <1>1, <1>2, <2>3, <3>1
  <2>11. Worth(r)[n] = one * (a1 + a2) + (a3 + a4) /\ a5 = a1 + a3 /\ a6 = a2 + a4
    BY <2>8, <2>9
  <2>12. Worth(r)[n] = a5 + a6
    <3> HIDE DEF a1, a2, a3, a4, a5, a6
    <3> QED
      BY <2>10, <2>11 DEF one
  <2>13. Worth(r)[n] = Modulus * l + Worth(x)[k + 1] * v
    <3> HIDE DEF l
    <3> QED
      BY <2>3, <2>12
  <2> HIDE DEF l
  <2> QED
    BY <2>9, <2>13 DEF r
<1>7. 0 \in T /\ \A k \in 0 .. n - 1 : k \in T => k + 1 \in T
  <2>1. \A k \in 0 .. n - 1 : k + 1 \in 0 .. n
    BY <1>1
  <2> HIDE DEF Holds
  <2> QED
    BY <1>1, <1>5, <1>6, <2>1
<1>8. \A k \in T : Holds(k)
  OBVIOUS
<1> HIDE DEF T, Holds
<1>9. n \in T
  BY <1>1, <1>7, UpTo
<1>10. Holds(n)
  BY <1>8, <1>9
<1>11. Folded(x, y) = Upto(n)
  <2>1. \A i \in Limb : Folded(x, y)[i] = Upto(n)[i]
    BY <1>1, <1>4, FoldedIs DEF Sums
  <2>2. Folded(x, y) = [i \in Limb |-> Folded(x, y)[i]]
    BY DEF Folded
  <2>3. Upto(n) = [i \in Limb |-> Upto(n)[i]]
    BY DEF Upto
  <2>4. [i \in Limb |-> Folded(x, y)[i]] = [i \in Limb |-> Upto(n)[i]]
    BY <2>1
  <2> QED
    BY <2>2, <2>3, <2>4
<1>12. Upto(n) \in LimbInts
  BY <1>1, <1>4
<1> QED
  BY <1>10, <1>11, <1>12 DEF Holds, v

\* Limbs of a sum of c products or constants: the lowest may be a little more.
LimbBound(i) == IF i = 0 THEN Base + Wrap ELSE Base

WithinSums(x, c) == \A i \in Limb : -(c * LimbBound(i)) <= x[i] /\ x[i] <= c * LimbBound(i)

\* A product is bounded by that of the bounds.
LEMMA ProductWithin ==
  ASSUME NEW i \in Int, NEW j \in Int, NEW b \in Nat, NEW m \in Nat,
         -b <= i, i <= b, -m <= j, j <= m
  PROVE  i * j \in Int /\ -(b * m) <= i * j /\ i * j <= b * m /\ b * m \in Nat
<1> DEFINE p == IF i >= 0 THEN i ELSE -i
           q == IF j >= 0 THEN j ELSE -j
<1>1. p \in Nat /\ p <= b /\ q \in Nat /\ q <= m
  OBVIOUS
<1>2. p * q \in Nat /\ p * q <= b * m /\ b * m \in Nat
  <2> HIDE DEF p, q
  <2>1. p * q <= p * m /\ p * q \in Int /\ p * m \in Int
    BY <1>1, Scaled
  <2>2. m * p <= m * b /\ m * p \in Int /\ m * b \in Int
    BY <1>1, Scaled
  <2>3. m * p = p * m /\ m * b = b * m /\ p * q \in Nat /\ b * m \in Nat
    BY <1>1
  <2> DEFINE a1 == p * q
             a2 == p * m
             a3 == b * m
  <2>4. a1 \in Nat /\ a2 \in Int /\ a3 \in Nat /\ a1 <= a2 /\ a2 <= a3
    BY <2>1, <2>2, <2>3
  <2> HIDE DEF a1, a2, a3
  <2>5. a1 <= a3
    BY <2>4
  <2> QED
    BY <2>4, <2>5 DEF a1, a3
<1>3. i * j = p * q \/ i * j = -(p * q)
  <2>1. CASE i >= 0 /\ j >= 0
    BY <2>1
  <2>2. CASE i >= 0 /\ ~(j >= 0)
    <3>1. i * (-j) = -(i * j) /\ i * j \in Int /\ p = i /\ q = -j
      BY <2>2
    <3> QED
      BY <3>1
  <2>3. CASE ~(i >= 0) /\ j >= 0
    <3>1. (-i) * j = -(i * j) /\ i * j \in Int /\ p = -i /\ q = j
      BY <2>3
    <3> QED
      BY <3>1
  <2>4. CASE ~(i >= 0) /\ ~(j >= 0)
    <3>1. (-i) * (-j) = i * j /\ p = -i /\ q = -j
      BY <2>4
    <3> QED
      BY <3>1
  <2> QED
    BY <2>1, <2>2, <2>3, <2>4
<1> DEFINE v == i * j
           s == p * q
           t == b * m
<1>4. v \in Int /\ s \in Nat /\ t \in Nat /\ s <= t /\ (v = s \/ v = -s)
  BY <1>2, <1>3
<1> HIDE DEF v, s, t
<1>5. v \in Int /\ -t <= v /\ v <= t
  BY <1>4
<1> QED
  BY <1>4, <1>5 DEF v, t

\* The bounds of the terms of a folded column, and of their sum.
LEMMA TermBounds ==
  /\ Base + Wrap \in Nat /\ 3 * (Base + Wrap) \in Nat /\ 3 * Base \in Nat /\ 3 * (Wrap * Base) \in Nat
  /\ 3 * Base <= 3 * (Base + Wrap) /\ 3 * (Base + Wrap) <= 3 * (Wrap * Base)
  /\ Wrap * (3 * Base) = 3 * (Wrap * Base)
  /\ (3 * (Base + Wrap)) * (3 * (Base + Wrap)) \in Nat /\ (3 * Base) * (3 * (Wrap * Base)) \in Nat
  /\ Room = (3 * (Base + Wrap)) * (3 * (Base + Wrap)) + (Limbs - 1) * ((3 * Base) * (3 * (Wrap * Base)))
<1> DEFINE s == Base + Wrap
           t == Wrap * Base
<1>1. Base \in Nat /\ Base >= 4 /\ Wrap \in Nat /\ Wrap >= 4 /\ Wrap < Base /\ Wrap = 2 * Fold /\ Limbs - 1 \in Nat
  BY LimbWidths
<1>2. s \in Nat /\ t \in Nat /\ s <= t
  <2>1. Base * 2 <= Base * Wrap /\ Base * Wrap = t /\ t \in Nat
    BY <1>1, Scaled
  <2> HIDE DEF t
  <2> QED
    BY <1>1, <2>1
<1>3. Room = 9 * (s * s + (Limbs - 1) * (t * Base))
  BY <1>1 DEF Room
<1>4. Wrap * (3 * Base) = 3 * t
  BY <1>1
<1> HIDE DEF s, t
<1>5. (3 * s) * (3 * s) = 9 * (s * s) /\ s * s \in Nat
  BY <1>2
<1>6. (3 * Base) * (3 * t) = 9 * (t * Base) /\ t * Base \in Nat
  BY <1>1, <1>2
<1>7. (Limbs - 1) * (9 * (t * Base)) = 9 * ((Limbs - 1) * (t * Base)) /\ (Limbs - 1) * (t * Base) \in Nat
  BY <1>1, <1>6
<1> DEFINE i1 == s * s
           i2 == (Limbs - 1) * (t * Base)
<1>8. Room = 9 * (i1 + i2) /\ i1 \in Nat /\ i2 \in Nat
  BY <1>3, <1>5, <1>7
<1>9. (3 * s) * (3 * s) = 9 * i1 /\ (Limbs - 1) * ((3 * Base) * (3 * t)) = 9 * i2
  BY <1>5, <1>6, <1>7
<1>10. (3 * s) * (3 * s) \in Nat /\ (3 * Base) * (3 * t) \in Nat
  BY <1>5, <1>6
<1> HIDE DEF i1, i2
<1>11. Room = (3 * s) * (3 * s) + (Limbs - 1) * ((3 * Base) * (3 * t))
  BY <1>8, <1>9
<1>12. 3 * s \in Nat /\ 3 * Base \in Nat /\ 3 * t \in Nat /\ 3 * Base <= 3 * s /\ 3 * s <= 3 * t
  <2>1. Base <= s
    BY <1>1 DEF s
  <2> QED
    BY <1>1, <1>2, <2>1
<1> QED
  BY <1>2, <1>4, <1>10, <1>11, <1>12 DEF s, t

\* So are the limbs.
LEMMA LimbBounds ==
  ASSUME NEW x \in LimbInts, WithinSums(x, 3), NEW i \in Limb
  PROVE  /\ x[i] \in Int /\ -(3 * (Base + Wrap)) <= x[i] /\ x[i] <= 3 * (Base + Wrap)
         /\ i # 0 => -(3 * Base) <= x[i] /\ x[i] <= 3 * Base
<1> DEFINE v == x[i]
           s == 3 * (Base + Wrap)
           b == 3 * Base
<1>1. v \in Int
  BY DEF LimbInts
<1>2. s \in Nat /\ b \in Nat /\ b <= s
  BY TermBounds
<1>3. IF i = 0 THEN -s <= v /\ v <= s ELSE -b <= v /\ v <= b
  BY DEF WithinSums, LimbBound
<1> HIDE DEF v, s, b
<1>4. -s <= v /\ v <= s /\ (i # 0 => -b <= v /\ v <= b)
  BY <1>1, <1>2, <1>3
<1> QED
  BY <1>1, <1>4 DEF v, s, b

\* A folded column of sums of at most three keeps within the room.
LEMMA FoldedIsSmall ==
  ASSUME NEW x \in LimbInts, NEW y \in LimbInts, WithinSums(x, 3), WithinSums(y, 3), NEW i \in Limb
  PROVE  -Room <= Folded(x, y)[i] /\ Folded(x, y)[i] <= Room
<1> DEFINE n == Limbs
           s == 3 * (Base + Wrap)
           b == 3 * Base
           m == 3 * (Wrap * Base)
           first == s * s
           more == b * m
           term == FoldedTerms(x, y, i)
           sum == PartialSums(n, term)
           Within(v, k) == -(first + k * more) <= v /\ v <= first + k * more
           Holds(k) == k >= 1 => Within(sum[k], k - 1)
           T == {k \in 0 .. n : Holds(k)}
<1>1. /\ n \in Nat /\ n >= 2 /\ Limb = 0 .. n - 1 /\ n \in 0 .. n /\ 0 \in Limb
      /\ Wrap \in Nat /\ Wrap >= 4 /\ Base \in Nat
  BY LimbWidths DEF Limb
<1>2. /\ s \in Nat /\ b \in Nat /\ m \in Nat /\ b <= s /\ s <= m /\ Wrap * b = m
      /\ first \in Nat /\ more \in Nat /\ Room = first + (n - 1) * more
  BY TermBounds
<1> HIDE DEF b, s, m
<1>3. ASSUME NEW k \in Limb
      PROVE  /\ term[k] \in Int
             /\ IF k = 0 THEN -first <= term[k] /\ term[k] <= first ELSE -more <= term[k] /\ term[k] <= more
  <2> DEFINE p == x[k]
             q == Shifted(y, k)[i]
  <2>1. term[k] = p * q /\ p \in Int /\ q \in Int
    BY FoldedTermsAre
  <2>2. -s <= p /\ p <= s /\ (k # 0 => -b <= p /\ p <= b)
    BY LimbBounds DEF s, b
  <2>3. q = IF i >= k THEN y[i - k] ELSE Wrap * y[i - k + Limbs]
    BY DEF Shifted
  <2>4. CASE k = 0
    <3>1. i >= k /\ i - k = i
      BY <1>1, <2>4
    <3>2. q = y[i]
      BY <2>3, <3>1
    <3>3. -s <= q /\ q <= s
      BY <3>2, LimbBounds DEF s
    <3> HIDE DEF p, q
    <3>4. p * q \in Int /\ -first <= p * q /\ p * q <= first
      BY ONLY <1>2, <2>1, <2>2, <3>3, ProductWithin
    <3> QED
      BY <2>1, <2>4, <3>4
  <2>5. CASE k # 0
    <3>1. -m <= q /\ q <= m
      <4>1. CASE i >= k
        <5> DEFINE v == y[i - k]
        <5>1. i - k \in Limb
          BY <1>1, <4>1
        <5>2. v \in Int /\ -s <= v /\ v <= s
          BY <5>1, LimbBounds DEF s
        <5> HIDE DEF v
        <5>3. -m <= v /\ v <= m
          BY <1>2, <5>2
        <5> QED
          BY <2>3, <4>1, <5>3 DEF v
      <4>2. CASE ~(i >= k)
        <5> DEFINE v == y[i - k + Limbs]
        <5>1. i - k + Limbs \in Limb /\ i - k + Limbs # 0
          BY <1>1, <2>5, <4>2
        <5>2. v \in Int /\ -b <= v /\ v <= b
          BY <5>1, LimbBounds DEF b
        <5> HIDE DEF v
        <5>3. -(Wrap * b) <= Wrap * v /\ Wrap * v <= Wrap * b
          <6>1. -Wrap <= Wrap /\ Wrap <= Wrap
            BY <1>1
          <6> QED
            BY <1>1, <1>2, <5>2, <6>1, ProductWithin
        <5> QED
          BY <1>2, <2>3, <4>2, <5>3 DEF v
      <4> HIDE DEF q
      <4> QED
        BY <4>1, <4>2
    <3>2. -b <= p /\ p <= b
      BY <2>2, <2>5
    <3> HIDE DEF p, q
    <3>3. p * q \in Int /\ -more <= p * q /\ p * q <= more
      BY ONLY <1>2, <2>1, <3>1, <3>2, ProductWithin
    <3> QED
      BY <2>1, <2>5, <3>3
  <2> QED
    BY <2>4, <2>5
<1> HIDE DEF term
<1>4. /\ sum[0] = 0 /\ \A k \in 0 .. n - 1 : sum[k + 1] = sum[k] + term[k]
      /\ \A k \in 0 .. n : sum[k] \in Int
  <2>1. \A k \in 0 .. n - 1 : term[k] \in Int
    BY <1>1, <1>3
  <2> HIDE DEF n
  <2> QED
    BY <1>1, <2>1, SumsAre
<1> HIDE DEF sum, first, more
<1>5. Holds(0) /\ 0 \in 0 .. n
  BY <1>1
<1>6. ASSUME NEW k \in 0 .. n - 1, Holds(k) PROVE Holds(k + 1)
  <2>1. k \in Limb /\ k + 1 - 1 = k /\ k \in 0 .. n
    BY <1>1
  <2>2. sum[k + 1] = sum[k] + term[k] /\ sum[k] \in Int /\ term[k] \in Int
    BY <1>3, <1>4, <2>1
  <2> DEFINE u == sum[k]
             v == term[k]
             w2 == k * more
  <2>3. CASE k = 0
    <3>1. u = 0 /\ -first <= v /\ v <= first
      BY <1>3, <1>4, <2>1, <2>3
    <3>2. w2 = 0
      BY <1>2, <2>3
    <3> HIDE DEF u, v, w2
    <3>3. -(first + w2) <= u + v /\ u + v <= first + w2
      BY <1>2, <2>2, <3>1, <3>2 DEF v
    <3> QED
      BY <2>1, <2>2, <3>3 DEF u, v, w2
  <2>4. CASE k # 0
    <3> DEFINE w1 == (k - 1) * more
    <3>1. -(first + w1) <= u /\ u <= first + w1
      <4>1. k >= 1
        BY <1>1, <2>4
      <4> QED
        BY <1>6, <4>1
    <3>2. -more <= v /\ v <= more
      BY <1>3, <2>1, <2>4
    <3>3. w2 = w1 + more /\ w1 \in Int
      BY <1>2
    <3>4. u \in Int /\ v \in Int
      BY <2>2
    <3> HIDE DEF u, v, w1, w2
    <3>5. -(first + w2) <= u + v /\ u + v <= first + w2
      BY <1>2, <3>1, <3>2, <3>3, <3>4
    <3> QED
      BY <2>1, <2>2, <3>5 DEF u, v, w2
  <2> QED
    BY <2>3, <2>4
<1>7. 0 \in T /\ \A k \in 0 .. n - 1 : k \in T => k + 1 \in T
  <2>1. \A k \in 0 .. n - 1 : k + 1 \in 0 .. n
    BY <1>1
  <2> HIDE DEF Holds
  <2> QED
    BY <1>1, <1>5, <1>6, <2>1
<1>8. \A k \in T : Holds(k)
  OBVIOUS
<1> HIDE DEF T, Holds
<1>9. n \in T
  BY <1>1, <1>7, UpTo
<1>10. Within(sum[n], n - 1)
  BY <1>1, <1>8, <1>9 DEF Holds
<1>11. Folded(x, y)[i] = sum[n]
  BY FoldedIs DEF sum, term
<1> QED
  BY <1>2, <1>10, <1>11

\* A product of sums of at most three is the product of what they stand for.
LEMMA ProductIs ==
  ASSUME NEW x \in LimbInts, NEW y \in LimbInts, WithinSums(x, 3), WithinSums(y, 3)
  PROVE  /\ ProductLimbs(x, y) \in LimbInts /\ WithinSums(ProductLimbs(x, y), 1)
         /\ Worth(ProductLimbs(x, y))[Limbs] % Modulus = (Worth(x)[Limbs] * Worth(y)[Limbs]) % Modulus
<1> DEFINE g == Folded(x, y)
           r == ProductLimbs(x, y)
           u == Worth(r)[Limbs]
           v == Worth(x)[Limbs] * Worth(y)[Limbs]
<1>1. g \in LimbInts /\ \E q \in Int : Worth(g)[Limbs] = Modulus * q + v
  BY FoldedWorth
<1>2. \A k \in Limb : -Room <= g[k] /\ g[k] <= Room
  BY FoldedIsSmall
<1>3. r = car25519(car25519(g))
  BY DEF ProductLimbs
<1> HIDE DEF g, r
<1>4. /\ r \in LimbInts
      /\ \A k \in Limb : IF k = 0 THEN r[k] \in -Wrap .. Base - 1 + Wrap ELSE r[k] \in 0 .. Base - 1
      /\ \E q \in Int : Worth(r)[Limbs] = Modulus * q + Worth(g)[Limbs]
  <2> DEFINE e == car25519(r)
  <2>1. e = car25519(r)
    OBVIOUS
  <2> HIDE DEF e
  <2> QED
    BY <1>1, <1>2, <1>3, <2>1, PassesAre
<1>5. Base \in Nat /\ Wrap \in Nat /\ Modulus \in Nat /\ Limbs \in 0 .. Limbs
  BY LimbWidths, ModulusIs
<1>6. WithinSums(r, 1)
  <2>1. ASSUME NEW k \in Limb PROVE -(1 * LimbBound(k)) <= r[k] /\ r[k] <= 1 * LimbBound(k)
    <3>1. CASE k = 0
      BY <1>4, <1>5, <3>1 DEF LimbBound
    <3>2. CASE k # 0
      BY <1>4, <1>5, <3>2 DEF LimbBound
    <3> QED
      BY <3>1, <3>2
  <2> QED
    BY <2>1 DEF WithinSums
<1>7. u % Modulus = v % Modulus
  <2> DEFINE t == Worth(g)[Limbs]
  <2>1. PICK q1 \in Int : t = Modulus * q1 + v
    BY <1>1
  <2>2. PICK q2 \in Int : u = Modulus * q2 + t
    BY <1>4
  <2>3. u \in Int /\ t \in Int /\ v \in Int
    <3>1. u \in Int /\ t \in Int /\ Worth(x)[Limbs] \in Int /\ Worth(y)[Limbs] \in Int
      BY <1>1, <1>4, <1>5, WorthIs
    <3> QED
      BY <3>1
  <2> HIDE DEF t, u, v
  <2> QED
    BY <2>1, <2>2, <2>3, SameResidue
<1> QED
  BY <1>4, <1>6, <1>7 DEF r

-----------------------------------------------------------------------------
(***************************************************************************)
(* The inductive invariant of the field machine, and its steps.            *)
(***************************************************************************)

FieldInv ==
  /\ gf \in [Registers -> LimbInts]
  /\ value \in [Registers -> 0 .. Modulus - 1]
  /\ summands \in [Registers -> 1 .. 3]
  /\ \A r \in Registers : WithinSums(gf[r], summands[r]) /\ Worth(gf[r])[Limbs] % Modulus = value[r]

\* What the invariant says of one register.
LEMMA FieldSays ==
  ASSUME FieldInv, NEW r \in Registers
  PROVE  /\ gf[r] \in LimbInts /\ WithinSums(gf[r], summands[r]) /\ WithinSums(gf[r], 3)
         /\ summands[r] \in 1 .. 3 /\ value[r] \in 0 .. Modulus - 1 /\ value[r] \in Int
         /\ Worth(gf[r])[Limbs] \in Int /\ Worth(gf[r])[Limbs] % Modulus = value[r]
         /\ \A k \in Limb : -Room <= gf[r][k] /\ gf[r][k] <= Room
<1> DEFINE x == gf[r]
           c == summands[r]
           s == 3 * (Base + Wrap)
<1>1. /\ x \in LimbInts /\ WithinSums(x, c) /\ c \in 1 .. 3 /\ value[r] \in 0 .. Modulus - 1
      /\ Worth(x)[Limbs] % Modulus = value[r]
  BY DEF FieldInv
<1> HIDE DEF x, c
<1>2. Base \in Nat /\ Wrap \in Nat /\ Modulus \in Nat /\ Limbs \in 0 .. Limbs
  BY LimbWidths, ModulusIs
<1>3. WithinSums(x, 3)
  <2> SUFFICES ASSUME NEW i \in Limb PROVE -(3 * LimbBound(i)) <= x[i] /\ x[i] <= 3 * LimbBound(i)
    BY DEF WithinSums
  <2> DEFINE u == LimbBound(i)
             v == x[i]
             l == c * u
  <2>1. u \in Nat /\ v \in Int
    BY <1>1, <1>2 DEF LimbBound, LimbInts
  <2>2. -l <= v /\ v <= l
    BY <1>1 DEF WithinSums
  <2> HIDE DEF u, v
  <2>3. l \in Int /\ l <= 3 * u
    BY <1>1, <2>1
  <2> HIDE DEF l
  <2>4. -(3 * u) <= v /\ v <= 3 * u
    BY <2>1, <2>2, <2>3
  <2> QED
    BY <2>4 DEF u, v
<1>4. ASSUME NEW k \in Limb PROVE -Room <= x[k] /\ x[k] <= Room
  <2> DEFINE v == x[k]
  <2>1. v \in Int /\ -s <= v /\ v <= s
    BY <1>1, <1>3, LimbBounds
  <2>2. s \in Int /\ Room \in Nat /\ Room >= s
    BY <1>2, RoomIs
  <2> HIDE DEF v, s
  <2>3. -Room <= v /\ v <= Room
    BY <2>1, <2>2
  <2> QED
    BY <2>3 DEF v
<1>5. Worth(x)[Limbs] \in Int /\ value[r] \in Int
  BY <1>1, <1>2, WorthIs
<1> QED
  BY <1>1, <1>3, <1>4, <1>5 DEF x, c

\* A register that becomes what it should keeps the invariant.
LEMMA BecomesKeeps ==
  ASSUME FieldInv, NEW r \in Registers, NEW o \in LimbInts, NEW v \in Int, NEW s \in 1 .. 3,
         WithinSums(o, s), Worth(o)[Limbs] % Modulus = v % Modulus, Becomes(r, o, v, s)
  PROVE  FieldInv'
<1>1. gf' = [gf EXCEPT ![r] = o] /\ value' = [value EXCEPT ![r] = v % Modulus] /\ summands' = [summands EXCEPT ![r] = s]
  BY DEF Becomes
<1>2. v % Modulus \in 0 .. Modulus - 1
  <2>1. Modulus \in Nat /\ Modulus >= 1
    BY ModulusIs, LimbWidths
  <2> QED
    BY <2>1, Parts
<1>3. gf' \in [Registers -> LimbInts]
  BY <1>1 DEF FieldInv
<1>4. value' \in [Registers -> 0 .. Modulus - 1]
  <2> DEFINE u == v % Modulus
             Values == 0 .. Modulus - 1
  <2>1. value \in [Registers -> Values] /\ u \in Values /\ value' = [value EXCEPT ![r] = u]
    BY <1>1, <1>2 DEF FieldInv
  <2> HIDE DEF u, Values
  <2>2. value' \in [Registers -> Values]
    BY <2>1
  <2> QED
    BY <2>2 DEF Values
<1>5. summands' \in [Registers -> 1 .. 3]
  BY <1>1 DEF FieldInv
<1>6. ASSUME NEW i \in Registers
      PROVE  WithinSums(gf'[i], summands'[i]) /\ Worth(gf'[i])[Limbs] % Modulus = value'[i]
  <2>1. CASE i = r
    <3>1. gf'[i] = o /\ summands'[i] = s /\ value'[i] = v % Modulus
      BY <1>1, <2>1 DEF FieldInv
    <3> QED
      BY <3>1
  <2>2. CASE i # r
    <3>1. gf'[i] = gf[i] /\ summands'[i] = summands[i] /\ value'[i] = value[i]
      BY <1>1, <2>2 DEF FieldInv
    <3> QED
      BY <3>1, FieldSays
  <2> QED
    BY <2>1, <2>2
<1> QED
  BY <1>3, <1>4, <1>5, <1>6 DEF FieldInv

\* The registers start with zero.
LEMMA FieldInvInit == GfInit => FieldInv
<1> DEFINE none == [i \in Limb |-> 0]
           zero == 0
<1> SUFFICES ASSUME GfInit PROVE FieldInv
  OBVIOUS
<1>1. gf = [r \in Registers |-> none] /\ value = [r \in Registers |-> 0] /\ summands = [r \in Registers |-> 1]
  BY DEF GfInit
<1>2. none \in LimbInts /\ \A i \in Limb : none[i] = 0
  BY DEF LimbInts
<1> HIDE DEF none
<1>3. /\ Base \in Nat /\ Wrap \in Nat /\ Modulus \in Nat /\ Modulus >= 1 /\ Limbs \in 0 .. Limbs
      /\ 0 \in 0 .. Modulus - 1
  BY LimbWidths, ModulusIs
<1>4. WithinSums(none, 1)
  <2> SUFFICES ASSUME NEW i \in Limb PROVE -(1 * LimbBound(i)) <= none[i] /\ none[i] <= 1 * LimbBound(i)
    BY DEF WithinSums
  <2>1. LimbBound(i) \in Nat
    BY <1>3 DEF LimbBound
  <2> QED
    BY <1>2, <2>1
<1>5. Worth(none)[Limbs] % Modulus = 0
  <2> DEFINE v == Worth(none)[Limbs]
  <2>1. zero \in Int /\ \A i \in Limb : none[i] = zero * none[i] + zero * none[i]
    BY <1>2
  <2> HIDE DEF zero
  <2>2. \A k \in 0 .. Limbs : Worth(none)[k] = zero * Worth(none)[k] + zero * Worth(none)[k]
    BY <1>2, <2>1, WorthCombines
  <2>3. v \in Int /\ v = zero * v + zero * v
    BY <1>2, <1>3, <2>2, WorthIs
  <2> HIDE DEF v
  <2>4. v = 0
    BY <2>3 DEF zero
  <2>5. 0 % Modulus = 0
    BY <1>3, ResidueOfResidue
  <2> QED
    BY <2>4, <2>5 DEF v
<1>6. gf \in [Registers -> LimbInts] /\ value \in [Registers -> 0 .. Modulus - 1] /\ summands \in [Registers -> 1 .. 3]
  BY <1>1, <1>2, <1>3
<1>7. ASSUME NEW r \in Registers
      PROVE  WithinSums(gf[r], summands[r]) /\ Worth(gf[r])[Limbs] % Modulus = value[r]
  BY <1>1, <1>4, <1>5
<1> QED
  BY <1>6, <1>7 DEF FieldInv

\* Loaded bytes.
LEMMA UnpackKeeps ==
  ASSUME FieldInv, NEW r \in Registers, NEW e \in Encodings, Unpack(r, e)
  PROVE  FieldInv'
<1> DEFINE o == unpack25519Limbs(e)
           u == Worth(o)[Limbs]
           v == ResidueOfBytes(e)
<1>1. o \in LimbInts /\ (\A k \in Limb : o[k] \in 0 .. Base - 1) /\ v = u % Modulus
  BY UnpackIs
<1>2. Becomes(r, o, v, 1)
  BY DEF Unpack
<1> HIDE DEF o, v
<1>3. Base \in Nat /\ Wrap \in Nat /\ Modulus \in Nat /\ Modulus >= 1 /\ Limbs \in 0 .. Limbs
  BY LimbWidths, ModulusIs
<1>4. WithinSums(o, 1)
  <2> SUFFICES ASSUME NEW i \in Limb PROVE -(1 * LimbBound(i)) <= o[i] /\ o[i] <= 1 * LimbBound(i)
    BY DEF WithinSums
  <2>1. o[i] \in 0 .. Base - 1 /\ LimbBound(i) \in Nat /\ LimbBound(i) >= Base
    BY <1>1, <1>3 DEF LimbBound
  <2> QED
    BY <1>3, <2>1
<1>5. u % Modulus = v % Modulus /\ v \in Int
  <2>1. u \in Int
    BY <1>1, <1>3, WorthIs
  <2> HIDE DEF u
  <2>2. v \in 0 .. Modulus - 1
    BY <1>1, <1>3, <2>1, Parts
  <2> QED
    BY <1>1, <1>3, <2>2, ResidueOfResidue
<1> QED
  BY <1>1, <1>2, <1>4, <1>5, BecomesKeeps

\* Sums and differences: bounds and residues.
LEMMA CombinedIs ==
  ASSUME NEW x \in LimbInts, NEW y \in LimbInts, NEW c \in 1 .. 3, NEW d \in 1 .. 3,
         WithinSums(x, c), WithinSums(y, d)
  PROVE  /\ SumLimbs(x, y) \in LimbInts /\ WithinSums(SumLimbs(x, y), c + d)
         /\ Worth(SumLimbs(x, y))[Limbs] = Worth(x)[Limbs] + Worth(y)[Limbs]
         /\ DifferenceLimbs(x, y) \in LimbInts /\ WithinSums(DifferenceLimbs(x, y), c + d)
         /\ Worth(DifferenceLimbs(x, y))[Limbs] = Worth(x)[Limbs] - Worth(y)[Limbs]
<1> DEFINE s == SumLimbs(x, y)
           t == DifferenceLimbs(x, y)
           one == 1
           minus == -1
           u == Worth(x)[Limbs]
           v == Worth(y)[Limbs]
<1>1. Base \in Nat /\ Wrap \in Nat /\ Limbs \in 0 .. Limbs
  BY LimbWidths
<1>2. \A i \in Limb : x[i] \in Int /\ y[i] \in Int /\ s[i] = x[i] + y[i] /\ t[i] = x[i] - y[i]
  BY DEF LimbInts, SumLimbs, DifferenceLimbs
<1>3. s \in LimbInts /\ t \in LimbInts
  BY <1>2 DEF LimbInts, SumLimbs, DifferenceLimbs
<1> HIDE DEF s, t
<1>4. ASSUME NEW i \in Limb
      PROVE  /\ -((c + d) * LimbBound(i)) <= s[i] /\ s[i] <= (c + d) * LimbBound(i)
             /\ -((c + d) * LimbBound(i)) <= t[i] /\ t[i] <= (c + d) * LimbBound(i)
  <2> DEFINE b == LimbBound(i)
             p == x[i]
             q == y[i]
             l == c * b
             g == d * b
             e == (c + d) * b
  <2>1. b \in Nat
    BY <1>1 DEF LimbBound
  <2>2. -l <= p /\ p <= l /\ -g <= q /\ q <= g /\ p \in Int /\ q \in Int
    BY <1>2 DEF WithinSums
  <2> HIDE DEF b
  <2>3. l \in Int /\ g \in Int /\ e = l + g
    BY <2>1
  <2>4. s[i] = p + q /\ t[i] = p - q
    BY <1>2
  <2> HIDE DEF p, q, l, g, e
  <2>5. -e <= s[i] /\ s[i] <= e /\ -e <= t[i] /\ t[i] <= e
    BY <2>2, <2>3, <2>4
  <2> QED
    BY <2>5 DEF e, b
<1>5. WithinSums(s, c + d) /\ WithinSums(t, c + d)
  BY <1>4 DEF WithinSums
<1>6. \A i \in Limb : s[i] = one * x[i] + one * y[i] /\ t[i] = one * x[i] + minus * y[i]
  <2> SUFFICES ASSUME NEW i \in Limb PROVE s[i] = one * x[i] + one * y[i] /\ t[i] = one * x[i] + minus * y[i]
    OBVIOUS
  <2> DEFINE p == x[i]
             q == y[i]
  <2>1. p \in Int /\ q \in Int /\ s[i] = p + q /\ t[i] = p - q
    BY <1>2
  <2> HIDE DEF p, q
  <2>2. s[i] = one * p + one * q /\ t[i] = one * p + minus * q
    BY <2>1
  <2> QED
    BY <2>2 DEF p, q
<1>7. one \in Int /\ minus \in Int
  OBVIOUS
<1> HIDE DEF one, minus
<1>8. \A k \in 0 .. Limbs : Worth(s)[k] = one * Worth(x)[k] + one * Worth(y)[k]
  <2>1. /\ x \in LimbInts /\ y \in LimbInts /\ s \in LimbInts /\ one \in Int
        /\ \A i \in Limb : s[i] = one * x[i] + one * y[i]
    BY <1>3, <1>6, <1>7
  <2> QED
    BY ONLY <2>1, WorthCombines
<1>9. \A k \in 0 .. Limbs : Worth(t)[k] = one * Worth(x)[k] + minus * Worth(y)[k]
  <2>1. /\ x \in LimbInts /\ y \in LimbInts /\ t \in LimbInts /\ one \in Int /\ minus \in Int
        /\ \A i \in Limb : t[i] = one * x[i] + minus * y[i]
    BY <1>3, <1>6, <1>7
  <2> QED
    BY ONLY <2>1, WorthCombines
<1>10. u \in Int /\ v \in Int /\ Worth(s)[Limbs] = one * u + one * v /\ Worth(t)[Limbs] = one * u + minus * v
  BY <1>1, <1>8, <1>9, WorthIs
<1> HIDE DEF u, v
<1>11. Worth(s)[Limbs] = u + v /\ Worth(t)[Limbs] = u - v
  BY <1>10 DEF one, minus
<1> QED
  BY <1>3, <1>5, <1>11 DEF s, t, u, v

\* A sum.
LEMMA SumKeeps ==
  ASSUME FieldInv, NEW r1 \in Registers, NEW r2 \in Registers, Sum(r1, r2)
  PROVE  FieldInv'
<1> DEFINE x == gf[r1]
           y == gf[r2]
           c == summands[r1]
           d == summands[r2]
           u == Worth(x)[Limbs]
           v == Worth(y)[Limbs]
           p == value[r1]
           q == value[r2]
           o == SumLimbs(x, y)
           e == p + q
           s == c + d
<1>1. /\ x \in LimbInts /\ WithinSums(x, c) /\ c \in 1 .. 3 /\ p \in Int /\ u \in Int /\ u % Modulus = p
      /\ y \in LimbInts /\ WithinSums(y, d) /\ d \in 1 .. 3 /\ q \in Int /\ v \in Int /\ v % Modulus = q
  BY FieldSays
<1>2. s <= 3 /\ Becomes("p", o, e, s)
  BY DEF Sum
<1> HIDE DEF x, y, c, d, p, q
<1>3. s \in 1 .. 3 /\ e \in Int
  BY <1>1, <1>2
<1>4. o \in LimbInts /\ WithinSums(o, s) /\ Worth(o)[Limbs] = u + v
  BY <1>1, CombinedIs
<1>5. Worth(o)[Limbs] % Modulus = e % Modulus
  <2> HIDE DEF u, v, o
  <2>1. (u + v) % Modulus = ((u % Modulus) + (v % Modulus)) % Modulus
    BY <1>1, ResiduesCombine
  <2> QED
    BY <1>1, <1>4, <2>1
<1> HIDE DEF o, e, s
<1>6. "p" \in Registers
  BY DEF Registers
<1> QED
  BY <1>2, <1>3, <1>4, <1>5, <1>6, BecomesKeeps

\* A difference.
LEMMA DifferenceKeeps ==
  ASSUME FieldInv, NEW r1 \in Registers, NEW r2 \in Registers, Difference(r1, r2)
  PROVE  FieldInv'
<1> DEFINE x == gf[r1]
           y == gf[r2]
           c == summands[r1]
           d == summands[r2]
           u == Worth(x)[Limbs]
           v == Worth(y)[Limbs]
           p == value[r1]
           q == value[r2]
           o == DifferenceLimbs(x, y)
           e == p - q
           s == c + d
<1>1. /\ x \in LimbInts /\ WithinSums(x, c) /\ c \in 1 .. 3 /\ p \in Int /\ u \in Int /\ u % Modulus = p
      /\ y \in LimbInts /\ WithinSums(y, d) /\ d \in 1 .. 3 /\ q \in Int /\ v \in Int /\ v % Modulus = q
  BY FieldSays
<1>2. s <= 3 /\ Becomes("p", o, e, s)
  BY DEF Difference
<1> HIDE DEF x, y, c, d, p, q
<1>3. s \in 1 .. 3 /\ e \in Int
  BY <1>1, <1>2
<1>4. o \in LimbInts /\ WithinSums(o, s) /\ Worth(o)[Limbs] = u - v
  BY <1>1, CombinedIs
<1>5. Worth(o)[Limbs] % Modulus = e % Modulus
  <2> HIDE DEF u, v, o
  <2>1. (u - v) % Modulus = ((u % Modulus) - (v % Modulus)) % Modulus
    BY <1>1, ResiduesCombine
  <2> QED
    BY <1>1, <1>4, <2>1
<1> HIDE DEF o, e, s
<1>6. "p" \in Registers
  BY DEF Registers
<1> QED
  BY <1>2, <1>3, <1>4, <1>5, <1>6, BecomesKeeps

\* A product.
LEMMA ProductKeeps ==
  ASSUME FieldInv, NEW r1 \in Registers, NEW r2 \in Registers, Product(r1, r2)
  PROVE  FieldInv'
<1> DEFINE x == gf[r1]
           y == gf[r2]
           u == Worth(x)[Limbs]
           v == Worth(y)[Limbs]
           p == value[r1]
           q == value[r2]
           o == ProductLimbs(x, y)
           e == p * q
<1>1. /\ x \in LimbInts /\ WithinSums(x, 3) /\ p \in Int /\ u \in Int /\ u % Modulus = p
      /\ y \in LimbInts /\ WithinSums(y, 3) /\ q \in Int /\ v \in Int /\ v % Modulus = q
  BY FieldSays
<1>2. Becomes("p", o, e, 1)
  BY DEF Product
<1> HIDE DEF x, y, p, q
<1>3. e \in Int
  BY <1>1
<1>4. o \in LimbInts /\ WithinSums(o, 1) /\ Worth(o)[Limbs] % Modulus = (u * v) % Modulus
  BY <1>1, ProductIs
<1>5. Worth(o)[Limbs] % Modulus = e % Modulus
  <2> HIDE DEF u, v, o
  <2>1. (u * v) % Modulus = ((u % Modulus) * (v % Modulus)) % Modulus
    BY <1>1, ResiduesCombine
  <2> QED
    BY <1>1, <1>4, <2>1
<1> HIDE DEF o, e
<1>6. "p" \in Registers
  BY DEF Registers
<1> QED
  BY <1>2, <1>3, <1>4, <1>5, <1>6, BecomesKeeps

\* The exchange of the registers, or none.
LEMMA SelectKeeps ==
  ASSUME FieldInv, NEW bit \in {0, 1}, Select(bit)
  PROVE  FieldInv'
<1> DEFINE other == [p |-> "q", q |-> "p"]
           From(r) == IF bit = 1 THEN other[r] ELSE r
<1>1. Registers = {"p", "q"} /\ other["p"] = "q" /\ other["q"] = "p"
  BY DEF Registers
<1>2. \A r \in Registers : From(r) \in Registers
  BY <1>1
<1>3. /\ value' = [r \in Registers |-> value[From(r)]]
      /\ summands' = [r \in Registers |-> summands[From(r)]]
  BY DEF Select
<1>4. gf' = [p |-> gf[From("p")], q |-> gf[From("q")]]
  <2>1. gf' = [p |-> sel25519(<<gf["p"], gf["q"]>>, bit)[1], q |-> sel25519(<<gf["p"], gf["q"]>>, bit)[2]]
    BY DEF Select
  <2>2. CASE bit = 1
    <3>1. sel25519(<<gf["p"], gf["q"]>>, bit) = <<gf["q"], gf["p"]>>
      BY <2>2 DEF sel25519
    <3>2. From("p") = "q" /\ From("q") = "p"
      BY <1>1, <2>2
    <3> QED
      BY <2>1, <3>1, <3>2
  <2>3. CASE bit # 1
    <3>1. sel25519(<<gf["p"], gf["q"]>>, bit) = <<gf["p"], gf["q"]>>
      BY <2>3 DEF sel25519
    <3>2. From("p") = "p" /\ From("q") = "q"
      BY <2>3
    <3> QED
      BY <2>1, <3>1, <3>2
  <2> QED
    BY <2>2, <2>3
<1> HIDE DEF From, other
<1>5. gf' = [r \in Registers |-> gf[From(r)]]
  <2>1. DOMAIN gf' = Registers
    BY <1>1, <1>4
  <2>2. gf'["p"] = gf[From("p")] /\ gf'["q"] = gf[From("q")]
    BY <1>4
  <2>3. gf' = [r \in Registers |-> gf'[r]]
    BY <1>1, <1>4
  <2>4. \A r \in Registers : gf'[r] = gf[From(r)]
    BY <1>1, <2>2
  <2> QED
    BY <2>3, <2>4
<1>6. gf' \in [Registers -> LimbInts] /\ summands' \in [Registers -> 1 .. 3]
  BY <1>2, <1>3, <1>5 DEF FieldInv
<1>7. value' \in [Registers -> 0 .. Modulus - 1]
  <2> DEFINE Values == 0 .. Modulus - 1
  <2>1. value \in [Registers -> Values]
    BY DEF FieldInv
  <2> HIDE DEF Values
  <2>2. value' \in [Registers -> Values]
    BY <1>2, <1>3, <2>1
  <2> QED
    BY <2>2 DEF Values
<1>8. ASSUME NEW r \in Registers
      PROVE  WithinSums(gf'[r], summands'[r]) /\ Worth(gf'[r])[Limbs] % Modulus = value'[r]
  <2> DEFINE i == From(r)
  <2>1. i \in Registers /\ gf'[r] = gf[i] /\ summands'[r] = summands[i] /\ value'[r] = value[i]
    BY <1>2, <1>3, <1>5
  <2> HIDE DEF i
  <2>2. WithinSums(gf[i], summands[i]) /\ Worth(gf[i])[Limbs] % Modulus = value[i]
    BY <2>1, FieldSays
  <2> QED
    BY <2>1, <2>2
<1> QED
  BY <1>6, <1>7, <1>8 DEF FieldInv

\* Every step keeps the invariant.
LEMMA FieldInvNext == FieldInv /\ [GfNext]_gfVars => FieldInv'
<1> SUFFICES ASSUME FieldInv, [GfNext]_gfVars PROVE FieldInv'
  OBVIOUS
<1>1. ASSUME NEW r \in Registers, NEW e \in Encodings, Unpack(r, e) PROVE FieldInv'
  BY <1>1, UnpackKeeps
<1>2. ASSUME NEW r1 \in Registers, NEW r2 \in Registers, Sum(r1, r2) PROVE FieldInv'
  BY <1>2, SumKeeps
<1>3. ASSUME NEW r1 \in Registers, NEW r2 \in Registers, Difference(r1, r2) PROVE FieldInv'
  BY <1>3, DifferenceKeeps
<1>4. ASSUME NEW r1 \in Registers, NEW r2 \in Registers, Product(r1, r2) PROVE FieldInv'
  BY <1>4, ProductKeeps
<1>5. ASSUME NEW bit \in {0, 1}, Select(bit) PROVE FieldInv'
  BY <1>5, SelectKeeps
<1>6. CASE UNCHANGED gfVars
  BY <1>6 DEF gfVars, FieldInv
<1> QED
  BY <1>1, <1>2, <1>3, <1>4, <1>5, <1>6 DEF GfNext

\* What is packed from a register are the bytes of digits that stand for its value.
LEMMA RegisterPacks ==
  ASSUME FieldInv, NEW r \in Registers
  PROVE  \E u \in LimbInts :
           /\ \A k \in Limb : u[k] \in 0 .. Base - 1
           /\ Worth(u)[Limbs] = value[r]
           /\ pack25519Limbs(gf[r]) = BytesOfLimbs(u)
<1> DEFINE v == value[r]
           g == gf[r]
<1>1. g \in LimbInts /\ (\A k \in Limb : -Room <= g[k] /\ g[k] <= Room) /\ v = Worth(g)[Limbs] % Modulus
  BY FieldSays
<1> HIDE DEF v, g
<1>2. \E u \in LimbInts :
        /\ \A k \in Limb : u[k] \in 0 .. Base - 1
        /\ Worth(u)[Limbs] = v
        /\ pack25519Limbs(g) = BytesOfLimbs(u)
  BY ONLY <1>1, PackIs
<1> QED
  BY <1>2 DEF v, g

\* Registers with the same packed bytes stand for the same residue.
LEMMA PackedDecide ==
  ASSUME FieldInv, NEW r1 \in Registers, NEW r2 \in Registers,
         \A k \in 0 .. 2 * Limbs - 1 : pack25519Limbs(gf[r1])[k] = pack25519Limbs(gf[r2])[k]
  PROVE  value[r1] = value[r2]
<1>1. PICK x \in LimbInts :
        /\ \A k \in Limb : x[k] \in 0 .. Base - 1
        /\ Worth(x)[Limbs] = value[r1]
        /\ pack25519Limbs(gf[r1]) = BytesOfLimbs(x)
  BY RegisterPacks
<1>2. PICK y \in LimbInts :
        /\ \A k \in Limb : y[k] \in 0 .. Base - 1
        /\ Worth(y)[Limbs] = value[r2]
        /\ pack25519Limbs(gf[r2]) = BytesOfLimbs(y)
  BY RegisterPacks
<1>3. \A k \in Limb : x[k] \in 0 .. Base - 1 /\ y[k] \in 0 .. Base - 1
  BY <1>1, <1>2
<1>4. \A k \in 0 .. 2 * Limbs - 1 : BytesOfLimbs(x)[k] = BytesOfLimbs(y)[k]
  BY <1>1, <1>2
<1>5. x = y
  <2>1. x \in LimbInts /\ y \in LimbInts
    OBVIOUS
  <2> QED
    BY ONLY <1>3, <1>4, <2>1, BytesDecide
<1> QED
  BY <1>1, <1>2, <1>5

\* The invariant says that the field is exact.
LEMMA FieldInvImplies == FieldInv => FieldIsExact
<1> SUFFICES ASSUME FieldInv PROVE FieldIsExact
  OBVIOUS
<1>1. LimbsKeepResidue
  <2>1. ASSUME NEW r \in Registers PROVE ResidueOf(gf[r]) = value[r]
    <3>1. gf[r] \in LimbInts /\ Worth(gf[r])[Limbs] % Modulus = value[r]
      BY FieldSays
    <3> QED
      BY <3>1, ResidueIs
  <2> QED
    BY <2>1 DEF LimbsKeepResidue
<1>2. ASSUME NEW r \in Registers
      PROVE  /\ \A k \in 0 .. 2 * Limbs - 1 : pack25519Limbs(gf[r])[k] \in 0 .. HalfLimb - 1
             /\ pack25519Limbs(gf[r]) = [k \in 0 .. 2 * Limbs - 1 |-> (value[r] \div HalfLimb ^ k) % HalfLimb]
             /\ par25519Limbs(gf[r]) = value[r] % 2
  <2> DEFINE v == value[r]
             x == gf[r]
             t == HalfLimb \div 2
             two == 2
  <2>1. /\ x \in LimbInts /\ (\A k \in Limb : -Room <= x[k] /\ x[k] <= Room)
        /\ v = Worth(x)[Limbs] % Modulus /\ v \in Int
    BY FieldSays
  <2> HIDE DEF v, x
  <2>2. /\ pack25519Limbs(x) = [k \in 0 .. 2 * Limbs - 1 |-> (v \div HalfLimb ^ k) % HalfLimb]
        /\ \A k \in 0 .. 2 * Limbs - 1 : pack25519Limbs(x)[k] \in 0 .. HalfLimb - 1
    BY ONLY <2>1, PackIs
  <2>3. /\ Limbs \in Nat /\ Limbs >= 2 /\ HalfLimb = two * t /\ t \in Nat /\ t >= 1 /\ two \in Nat /\ two >= 1
        /\ HalfLimb ^ 0 = 1 /\ 0 \in 0 .. 2 * Limbs - 1
    BY LimbWidths, HalfWeights
  <2>4. pack25519Limbs(x)[0] = v % HalfLimb
    <3>1. v \div 1 = v
      BY <2>1
    <3>2. pack25519Limbs(x)[0] = (v \div HalfLimb ^ 0) % HalfLimb
      BY <2>2, <2>3
    <3> QED
      BY <2>3, <3>1, <3>2
  <2>5. (v % HalfLimb) % two = v % two
    <3> HIDE DEF t, two
    <3>1. (v % (two * t)) % two = v % two
      BY ONLY <2>1, <2>3, Divisions
    <3> QED
      BY <2>3, <3>1
  <2>6. par25519Limbs(x) = v % 2
    BY <2>4, <2>5 DEF par25519Limbs
  <2> QED
    BY <2>2, <2>6 DEF v, x
<1>3. neq25519(gf["p"], gf["q"]) <=> value["p"] # value["q"]
  <2> DEFINE r1 == "p"
             r2 == "q"
             Same == \A k \in 0 .. 2 * Limbs - 1 : pack25519Limbs(gf[r1])[k] = pack25519Limbs(gf[r2])[k]
  <2>1. r1 \in Registers /\ r2 \in Registers
    BY DEF Registers
  <2>2. neq25519(gf[r1], gf[r2]) <=> ~Same
    BY DEF neq25519
  <2> HIDE DEF r1, r2
  <2>3. Same => value[r1] = value[r2]
    BY <2>1, PackedDecide
  <2>4. value[r1] = value[r2] => Same
    <3>1. value[r1] = value[r2] => pack25519Limbs(gf[r1]) = pack25519Limbs(gf[r2])
      BY <1>2, <2>1
    <3> QED
      BY <3>1
  <2> HIDE DEF Same
  <2> QED
    BY <2>2, <2>3, <2>4 DEF r1, r2
<1>4. PackIsCanonical
  BY <1>2, <1>3 DEF PackIsCanonical
<1>5. Base \in Nat /\ Wrap \in Nat /\ 2 * Fold = Wrap /\ Wrap = 2 * Fold
  BY LimbWidths
<1>6. ASSUME NEW r \in Registers, NEW i \in Limb
      PROVE  gf[r][i] \in -(summands[r] * (Base + 2 * Fold)) .. summands[r] * (Base + 2 * Fold)
  <2> DEFINE v == gf[r][i]
             c == summands[r]
             b == LimbBound(i)
             s == Base + 2 * Fold
             cb == c * b
             cs == c * s
  <2>1. v \in Int /\ c \in 1 .. 3 /\ -cb <= v /\ v <= cb
    <3>1. gf[r] \in LimbInts /\ WithinSums(gf[r], c) /\ c \in 1 .. 3
      BY FieldSays
    <3>2. v \in Int
      BY <3>1 DEF LimbInts
    <3>3. -cb <= v /\ v <= cb
      BY <3>1 DEF WithinSums
    <3> QED
      BY <3>1, <3>2, <3>3
  <2>2. b \in Nat /\ s \in Nat /\ b <= s
    BY <1>5 DEF LimbBound
  <2> HIDE DEF v, c, b, s
  <2>3. cb \in Int /\ cs \in Int /\ cb <= cs
    <3>1. c \in Nat
      BY <2>1
    <3> QED
      BY <2>2, <3>1, Scaled
  <2> HIDE DEF cb, cs
  <2>4. v \in -cs .. cs
    BY <2>1, <2>3
  <2> QED
    BY <2>4 DEF v, c, s, cs
<1>7. ASSUME NEW r1 \in Registers, NEW r2 \in Registers, NEW i \in Limb
      PROVE  Folded(gf[r1], gf[r2])[i] \in -(2 ^ (4 * Width - 1)) .. 2 ^ (4 * Width - 1) - 1
  <2> DEFINE x == gf[r1]
             y == gf[r2]
             v == Folded(x, y)[i]
             m == 2 ^ (4 * Width - 1)
  <2>1. x \in LimbInts /\ y \in LimbInts /\ WithinSums(x, 3) /\ WithinSums(y, 3)
    BY FieldSays
  <2> HIDE DEF x, y
  <2>2. -Room <= v /\ v <= Room
    BY <2>1, FoldedIsSmall
  <2>3. v \in Int
    BY <2>1, FoldedWorth DEF LimbInts
  <2>4. m \in Nat /\ Room < m /\ Room \in Nat
    BY RoomAssumption, LimbPowersAssumption, RoomIs
  <2> HIDE DEF v, m
  <2>5. v \in -m .. m - 1
    BY <2>2, <2>3, <2>4
  <2> QED
    BY <2>5 DEF v, m, x, y
<1>8. LimbsFit
  BY <1>6, <1>7 DEF LimbsFit
<1> QED
  BY <1>1, <1>4, <1>8 DEF FieldIsExact

\* Whatever is loaded and computed, the limbs stand for the residue the operations
\* should have computed, they are packed to the bytes of the least residue, and no
\* column of a product passes the integers it is added up in.
THEOREM FieldIsCorrect == GfSpec => []FieldIsExact
<1>1. GfInit => FieldInv
  BY FieldInvInit
<1>2. FieldInv /\ [GfNext]_gfVars => FieldInv'
  BY FieldInvNext
<1>3. FieldInv => FieldIsExact
  BY FieldInvImplies
<1> QED
  BY <1>1, <1>2, <1>3, PTL DEF GfSpec
=============================================================================
