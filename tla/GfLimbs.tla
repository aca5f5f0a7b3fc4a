-------------------------------- MODULE GfLimbs --------------------------------
(***************************************************************************)
(* The field arithmetic of the vendored TweetNaCl (src/c/tweetnacl.c) on   *)
(* its limbs: 16 signed integers worth 16 bits each in C, Limbs of Width   *)
(* bits here, modulo 2^(all bits - 1) - Fold, where Fold is 19 in C.       *)
(* Sums are not carried and a product carries twice; the machine computes  *)
(* on two registers as the curve formulas do, where a factor is a sum of   *)
(* at most three products.                                                 *)
(***************************************************************************)
EXTENDS Integers

CONSTANTS
  Limbs,     \* 16 in C
  Width,     \* 16 in C
  Fold,      \* 19 in C
  Encodings, \* byte strings to load, each a function on 0 .. 2 * Limbs - 1
  MaxOps     \* bound of the exploration

Base == 2 ^ Width
Modulus == 2 ^ (Limbs * Width - 1) - Fold
Limb == 0 .. Limbs - 1
HalfLimb == 2 ^ (Width \div 2)

ASSUME LimbAssumption ==
  /\ Limbs \in Nat /\ Limbs >= 2
  /\ Width \in Nat \ {0} /\ Width % 2 = 0
  /\ Fold \in Nat /\ Fold >= 2 /\ 2 * Fold < Base
  /\ Encodings \subseteq [0 .. 2 * Limbs - 1 -> 0 .. HalfLimb - 1]

\* The most a folded column of a product of sums of three can be.
Room ==
  9 * ((Base + 2 * Fold) * (Base + 2 * Fold) + (Limbs - 1) * (2 * Fold * Base * Base))

\* A column has room in 4 limbs less a bit, the 63 bits of i64; and what two carries
\* bring back to the lowest limb is less than the limbs hold.
ASSUME RoomAssumption ==
  /\ Room < 2 ^ (4 * Width - 1)
  /\ 2 * Fold * ((2 * Room) \div Base + 2) <= 2 ^ (Limbs * Width)

\* What the provers do not know of powers.
ASSUME LimbPowersAssumption ==
  /\ 2 ^ 0 = 1 /\ \A k \in 0 .. Limbs * Width : 2 ^ (k + 1) = 2 * 2 ^ k
  /\ HalfLimb ^ 0 = 1 /\ \A k \in 0 .. 2 * Limbs : HalfLimb ^ (k + 1) = HalfLimb * HalfLimb ^ k
  /\ 2 ^ (4 * Width - 1) \in Nat

VARIABLES
  gf,        \* the registers "p" and "q"
  value,     \* history: the residue each stands for
  summands,  \* history: how many products or constants it is a sum of
  ops        \* how many operations have been done

gfVars == <<gf, value, summands, ops>>

-----------------------------------------------------------------------------
\* Carries go up; from the top limb they come back to the lowest, times 2 * Fold.
car25519(o) ==
  LET pass[i \in 0 .. Limbs] ==
        IF i = 0 THEN o
        ELSE LET k == i - 1
                 c == (pass[k][k] + Base) \div Base
                 left == [pass[k] EXCEPT ![k] = @ + Base - c * Base]
             IN IF k < Limbs - 1 THEN [left EXCEPT ![k + 1] = @ + c - 1]
                ELSE [left EXCEPT ![0] = @ + 2 * Fold * (c - 1)]
  IN pass[Limbs]

SumLimbs(a, b) == [i \in Limb |-> a[i] + b[i]]

DifferenceLimbs(a, b) == [i \in Limb |-> a[i] - b[i]]

\* The sums of the first terms of a function on 0 .. count - 1.
PartialSums(count, term) ==
  LET sum[k \in 0 .. count] == IF k = 0 THEN 0 ELSE sum[k - 1] + term[k - 1]
  IN sum

\* The schoolbook products, uncarried, and their upper half folded down.
Columns(a, b) ==
  [t \in 0 .. 2 * Limbs - 2 |->
     PartialSums(Limbs, [k \in Limb |-> IF t - k \in Limb THEN a[k] * b[t - k] ELSE 0])[Limbs]]

Folded(a, b) ==
  LET t == Columns(a, b)
  IN [i \in Limb |-> IF i < Limbs - 1 THEN t[i] + 2 * Fold * t[i + Limbs] ELSE t[i]]

ProductLimbs(a, b) == car25519(car25519(Folded(a, b)))

\* A pair is exchanged when the bit is set.
sel25519(pair, b) == IF b = 1 THEN <<pair[2], pair[1]>> ELSE pair

BorrowBit(x) == (x \div Base) % 2

\* One of the two rounds of pack25519: take the modulus off, limb by limb, and
\* keep the difference unless the top limb had to borrow.
LessModulus(t) ==
  LET digit(i) == IF i = 0 THEN Base - Fold ELSE IF i < Limbs - 1 THEN Base - 1 ELSE Base \div 2 - 1
      m[i \in Limb] == t[i] - digit(i) - IF i = 0 THEN 0 ELSE BorrowBit(m[i - 1])
      b == BorrowBit(m[Limbs - 1])
      masked == [i \in Limb |-> IF i < Limbs - 1 THEN m[i] % Base ELSE m[i]]
  IN sel25519(<<t, masked>>, 1 - b)[1]

\* Mutant of pack25519Limbs: the modulus is taken off once.
pack25519Once(n) ==
  LET t == LessModulus(car25519(car25519(car25519(n))))
  IN [k \in 0 .. 2 * Limbs - 1 |->
        IF k % 2 = 0 THEN t[k \div 2] % HalfLimb ELSE t[k \div 2] \div HalfLimb]

pack25519Limbs(n) ==
  LET t == LessModulus(LessModulus(car25519(car25519(car25519(n)))))
  IN [k \in 0 .. 2 * Limbs - 1 |->
        IF k % 2 = 0 THEN t[k \div 2] % HalfLimb ELSE t[k \div 2] \div HalfLimb]

unpack25519Limbs(n) ==
  [i \in Limb |->
     LET limb == n[2 * i] + n[2 * i + 1] * HalfLimb
     IN IF i = Limbs - 1 THEN limb % (Base \div 2) ELSE limb]

\* neq25519 and par25519 look at the packed bytes.
neq25519(a, b) == \E k \in 0 .. 2 * Limbs - 1 : pack25519Limbs(a)[k] # pack25519Limbs(b)[k]

par25519Limbs(a) == pack25519Limbs(a)[0] % 2

-----------------------------------------------------------------------------
(***************************************************************************)
(* The machine.                                                            *)
(***************************************************************************)
Registers == {"p", "q"}

Weighted(count, digit, unit) ==
  LET horner[k \in 0 .. count] ==
        IF k = 0 THEN 0 ELSE (unit * horner[k - 1] + digit[count - k]) % Modulus
  IN horner[count]

ResidueOf(o) == Weighted(Limbs, o, Base)

\* The top bit of the top byte does not count.
ResidueOfBytes(n) ==
  Weighted(2 * Limbs, [n EXCEPT ![2 * Limbs - 1] = @ % (HalfLimb \div 2)], HalfLimb)

Becomes(r, o, v, s) ==
  /\ gf' = [gf EXCEPT ![r] = o]
  /\ value' = [value EXCEPT ![r] = v % Modulus]
  /\ summands' = [summands EXCEPT ![r] = s]
  /\ ops' = ops + 1

\* The operands are loaded first, one register each.
Unpack(r, n) ==
  /\ ops = IF r = "p" THEN 0 ELSE 1
  /\ Becomes(r, unpack25519Limbs(n), ResidueOfBytes(n), 1)

Ready == 2 <= ops /\ ops < MaxOps + 2

Sum(a, b) ==
  /\ Ready
  /\ summands[a] + summands[b] <= 3
  /\ Becomes("p", SumLimbs(gf[a], gf[b]), value[a] + value[b], summands[a] + summands[b])

Difference(a, b) ==
  /\ Ready
  /\ summands[a] + summands[b] <= 3
  /\ Becomes("p", DifferenceLimbs(gf[a], gf[b]), value[a] - value[b],
             summands[a] + summands[b])

Product(a, b) ==
  /\ Ready
  /\ Becomes("p", ProductLimbs(gf[a], gf[b]), value[a] * value[b], 1)

Select(b) ==
  /\ Ready
  /\ LET pair == sel25519(<<gf["p"], gf["q"]>>, b)
         other == [p |-> "q", q |-> "p"]
     IN /\ gf' = [p |-> pair[1], q |-> pair[2]]
        /\ value' = [r \in Registers |-> value[IF b = 1 THEN other[r] ELSE r]]
        /\ summands' = [r \in Registers |-> summands[IF b = 1 THEN other[r] ELSE r]]
  /\ ops' = ops + 1

GfInit ==
  /\ gf = [r \in Registers |-> [i \in Limb |-> 0]]
  /\ value = [r \in Registers |-> 0]
  /\ summands = [r \in Registers |-> 1]
  /\ ops = 0

GfNext ==
  \/ \E r \in Registers, n \in Encodings : Unpack(r, n)
  \/ \E a, b \in Registers : Sum(a, b) \/ Difference(a, b) \/ Product(a, b)
  \/ \E b \in {0, 1} : Select(b)

GfSpec == GfInit /\ [][GfNext]_gfVars

-----------------------------------------------------------------------------
(***************************************************************************)
(* Properties.                                                             *)
(***************************************************************************)

\* The limbs stand for the residue the operations should have computed.
LimbsKeepResidue == \A r \in Registers : ResidueOf(gf[r]) = value[r]

\* Packing gives the bytes of the least residue, whatever the signs of the limbs
\* and however large the sum; so comparisons and parities are of the residues.
PackIsCanonical ==
  /\ \A r \in Registers :
       /\ \A k \in 0 .. 2 * Limbs - 1 : pack25519Limbs(gf[r])[k] \in 0 .. HalfLimb - 1
       /\ pack25519Limbs(gf[r])
            = [k \in 0 .. 2 * Limbs - 1 |-> (value[r] \div HalfLimb ^ k) % HalfLimb]
       /\ par25519Limbs(gf[r]) = value[r] % 2
  /\ neq25519(gf["p"], gf["q"]) <=> value["p"] # value["q"]

\* A carried product fits its limbs but for a small excess, and no column of a
\* product of sums of three passes the integers it is added up in: 4 limbs wide
\* less a bit, the 63 bits of i64.
LimbsFit ==
  /\ \A r \in Registers, i \in Limb :
       gf[r][i] \in -(summands[r] * (Base + 2 * Fold)) .. summands[r] * (Base + 2 * Fold)
  /\ \A a, b \in Registers, i \in Limb :
       Folded(gf[a], gf[b])[i] \in -(2 ^ (4 * Width - 1)) .. 2 ^ (4 * Width - 1) - 1

\* The field operations are those of the integers modulo the prime: in value, in
\* the bytes they are packed to and in the room their intermediate sums take.
FieldIsExact == LimbsKeepResidue /\ PackIsCanonical /\ LimbsFit
=============================================================================
