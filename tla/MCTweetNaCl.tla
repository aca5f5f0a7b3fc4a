----------------------------- MODULE MCTweetNaCl -----------------------------
(***************************************************************************)
(* A miniature of the C leaf: bytes of 4 bits, scalars and points of 4     *)
(* bytes, the field of 2^15 - 19 elements, and a curve over it with a base *)
(* point of the prime order 2^12 + 31 and cofactor 8: every width of the   *)
(* C code divided, every relation between the widths kept.  The hash, the  *)
(* limbs and the reduction have miniatures of their own; the four run one  *)
(* at a time, whichever starts.                                            *)
(***************************************************************************)
EXTENDS Ed25519, ScalarReduction, Sha512, GfLimbs, FiniteSets

-----------------------------------------------------------------------------
\* 4127 = 2^12 + 31.
GroupOrder == <<15, 1, 0, 1>>

\* A hash of 2 * N bytes: eight polynomials of the input.
MixHash(b) ==
  LET acc[c \in 0 .. 2 * N, k \in 0 .. Len(b)] ==
        IF k = 0 THEN 17 + c ELSE (acc[c, k - 1] * (31 + 2 * c) + 7 * b[k] + 3) % 8191
  IN [k \in 1 .. 2 * N |-> (acc[k, Len(b)] \div 32) % Radix]

OneSeed == {<<3, 1, 4, 1>>}

TwoMessages == {<<>>, <<2, 7>>}

\* The same S modulo the order, in another encoding.
Raised(sig, times) ==
  LET n == Number(Half(sig, 2)) + times * Order
  IN Half(sig, 1) \o [k \in 1 .. N |-> (n \div Radix ^ (k - 1)) % Radix]

Bump(b, k, by) == [b EXCEPT ![k] = (@ + by) % Radix]

\* The neutral point as a key: the neutral R with an S of 0 goes with it.
Neutrally(s, key) == [s EXCEPT !.pk = key, !.sig = <<1, 0, 0, 0, 0, 0, 0, 0>>]

\* In its own encoding, with a sign, and with P added to its y.
NeutralKeys(s) ==
  {Neutrally(s, key) : key \in {<<1, 0, 0, 0>>, <<1, 0, 0, 8>>, <<14, 14, 15, 7>>}}

\* What was signed; another encoding of S, the order itself; a byte changed in R,
\* in S or in the key, the key's sign, another message; arrays of wrong lengths;
\* a key with both a y beyond P and a sign for an x of 0.
Variants(s) ==
  {s} \cup
  IF s.msg = <<>> THEN {}
  ELSE {Neutrally(s, <<14, 14, 15, 15>>),
        [s EXCEPT !.sig = Raised(s.sig, 1)],
        [s EXCEPT !.sig = Half(@, 1) \o L],
        [s EXCEPT !.sig = Bump(@, 1, 1)],
        [s EXCEPT !.sig = Bump(@, N + 1, 1)],
        [s EXCEPT !.pk = Bump(@, 1, 1)],
        [s EXCEPT !.pk = Bump(@, 1, 2)],
        [s EXCEPT !.pk = Bump(@, N, Radix \div 2)],
        [s EXCEPT !.msg = <<2>>],
        [s EXCEPT !.sig = SubSeq(@, 1, N)],
        [s EXCEPT !.sig = Append(@, 0)],
        [s EXCEPT !.pk = SubSeq(@, 1, N - 1)]}

-----------------------------------------------------------------------------
(***************************************************************************)
(* The laws the theorems suppose, on samples.                              *)
(***************************************************************************)
Doubled == add(BasePoint, BasePoint)

\* Keys around zero, around one and around the modulus, and some between.
SomeKeys ==
  {<<low, 0, 0, high>> : low \in 0 .. 2, high \in {0, 8}} \cup
  {<<low, mid, 3, high>> : low \in {9, 14}, mid \in {4, 7}, high \in {1, 12}} \cup
  {<<low, 14, 15, high>> : low \in 11 .. 15, high \in {7, 15}}

\* Points of every kind: neutral, of the small orders 2 and 4, of the order of
\* the base point, some with a z of their own, and what keys decode to.
SomePoints ==
  {Neutral, BasePoint, Doubled, add(Doubled, BasePoint),
   [x |-> 0, y |-> P - 1, z |-> 1, t |-> 0],
   [x |-> I, y |-> 0, z |-> 1, t |-> 0]} \cup
  ({unpackneg(b) : b \in SomeKeys} \ {NoPoint})

\* A prime of which this multiple is neutral is the order.
BasePointHasOrder ==
  /\ <<X, Y>> # Zero
  /\ Multiple(Order, <<X, Y>>) = Zero
  /\ \A n \in 2 .. 64 : Order % n # 0
  /\ Order < 65 * 65

ASSUME LawsAssumption ==
  /\ SomePoints \subseteq Points
  /\ GroupLaw({Affine(p) : p \in SomePoints})
  /\ AdditionLaw(SomePoints)
  /\ DecodingLaw(SomeKeys)
  /\ KeyLaw(SomeKeys)
  /\ EncodingLaw(SomePoints)
  /\ BasePointHasOrder
  /\ InputsAreBytes
  /\ DigestLaw(Messages)

-----------------------------------------------------------------------------
\* Digests and scalars of extreme digits.
ExtremeDigests == [1 .. 2 * N -> {0, 15}]

ExtremeScalars ==
  {<<0, 0, 0, 0>>} \cup
  {s \in [1 .. N -> {1, 15}] : Cardinality({k \in 1 .. N : s[k] = 15}) # 2}

-----------------------------------------------------------------------------
\* The high bytes of the constants of the C code; words of two bytes of 4 bits.
RoundConstants ==
  <<66, 113, 181, 233, 57, 89, 146, 171, 216, 18, 36, 85, 114, 128, 155, 193,
    228, 239, 15, 36, 45, 74, 92, 118, 152, 168, 176, 191, 198, 213, 6, 20,
    39, 46, 77, 83, 101, 118, 129, 146, 162, 168, 194, 199, 209, 214, 244, 16,
    25, 30, 39, 52, 57, 78, 91, 104, 116, 120, 132, 140, 144, 164, 190, 198,
    202, 209, 234, 245, 6, 10, 17, 27, 40, 50, 60, 67, 76, 89, 95, 108>>

StartBytes == <<6, 10, 11, 11, 3, 12, 10, 5, 5, 1, 9, 11, 1, 15, 5, 11>>

RotateA == <<2, 3, 7>>
RotateE == <<4, 5, 1>>
Expand15 == <<1, 6, 5>>
Expand2 == <<3, 7, 2>>

Text(n) == [k \in 1 .. n |-> (5 * k + n) % 16]

\* Around one block less the length, one block, and more bits than a word counts.
Lengths == {0, 27, 28, 31, 32, 60, 65}

SomeTexts == {Text(n) : n \in Lengths}

-----------------------------------------------------------------------------
\* Around zero, around the modulus, and the largest encoding.
Encode(v) == [k \in 0 .. 2 * Limbs - 1 |-> (v \div HalfLimb ^ k) % HalfLimb]

SomeEncodings ==
  {Encode(v) : v \in {0, 2, Modulus - 1, Modulus + 1, 2 * Modulus + 3, 1365}}

-----------------------------------------------------------------------------
LeafInit == Init /\ ReductionInit /\ HashInit /\ GfInit

VerifierIdle == signed = {}
ReductionIdle == digits = Empty
HashIdle == h = <<>>
LimbsIdle == ops = 0

LeafNext ==
  \/ /\ ReductionIdle /\ HashIdle /\ LimbsIdle
     /\ Next
     /\ UNCHANGED <<reductionVars, hashVars, gfVars>>
  \/ /\ VerifierIdle /\ HashIdle /\ LimbsIdle
     /\ ReductionNext
     /\ UNCHANGED <<vars, hashVars, gfVars>>
  \/ /\ VerifierIdle /\ ReductionIdle /\ LimbsIdle
     /\ HashNext
     /\ UNCHANGED <<vars, reductionVars, gfVars>>
  \/ /\ VerifierIdle /\ ReductionIdle /\ HashIdle
     /\ GfNext
     /\ UNCHANGED <<vars, reductionVars, hashVars>>

LeafSpec == LeafInit /\ [][LeafNext]_<<vars, reductionVars, hashVars, gfVars>>
=============================================================================
