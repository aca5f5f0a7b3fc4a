----------------------------- MODULE EdwardsCurve -----------------------------
(***************************************************************************)
(* The twisted Edwards curve -x^2 + y^2 = 1 + D x^2 y^2 of the vendored    *)
(* TweetNaCl (src/c/tweetnacl.c), on residues modulo P: what a limb vector *)
(* stands for is its residue (GfLimbs shows the limb operations keep it).  *)
(* The field keeps the form of 2^255 - 19 and its constants; only its size *)
(* is a parameter.                                                         *)
(***************************************************************************)
EXTENDS ScalarModL

CONSTANTS
  FieldBits,   \* P = 2 ^ FieldBits - 19: 255 bits in C
  D,           \* the curve constant
  X, Y,        \* the base point
  I            \* a square root of -1

P == 2 ^ FieldBits - 19

D2 == (2 * D) % P

ASSUME FieldAssumption ==
  /\ FieldBits = N * ByteBits - 1
  /\ D \in 0 .. P - 1 /\ X \in 0 .. P - 1 /\ Y \in 0 .. P - 1 /\ I \in 0 .. P - 1
  /\ (I * I) % P = P - 1

-----------------------------------------------------------------------------
(***************************************************************************)
(* The field.                                                              *)
(***************************************************************************)
A(a, b) == (a + b) % P

Z(a, b) == (a - b) % P

M(a, b) == (a * b) % P

S(a) == M(a, a)

\* Square for every bit from `top` down, and multiply but at the bits skipped.
PowerSkipping(x, top, skipped) ==
  LET c[k \in 0 .. top + 1] ==
        IF k = 0 THEN x
        ELSE With(c[k - 1], LAMBDA y : IF top + 1 - k \in skipped THEN S(y) ELSE M(S(y), x))
  IN c[top + 1]

inv25519(x) == PowerSkipping(x, FieldBits - 2, {2, 4})

pow2523(x) == PowerSkipping(x, FieldBits - 5, {1})

\* The N bytes of the least residue.
pack25519(a) == [i \in 1 .. N |-> (a \div Radix ^ (i - 1)) % Radix]

\* The top bit is dropped; a number of P or more is accepted and reduced.
unpack25519(b) ==
  Residue(LAMBDA i : IF i = N - 1 THEN b[N] % (Radix \div 2) ELSE b[i + 1], N, P)

par25519(a) == a % 2

SignBit(b) == b[N] \div (Radix \div 2)

-----------------------------------------------------------------------------
(***************************************************************************)
(* Points in extended coordinates: x = x/z, y = y/z, t = xy/z.             *)
(***************************************************************************)
Neutral == [x |-> 0, y |-> 1, z |-> 1, t |-> 0]

BasePoint == [x |-> X, y |-> Y, z |-> 1, t |-> M(X, Y)]

add(p, q) ==
  LET a == M(Z(p.y, p.x), Z(q.y, q.x))
      b == M(A(p.x, p.y), A(q.x, q.y))
      c == M(M(p.t, q.t), D2)
      d == A(M(p.z, q.z), M(p.z, q.z))
      e == Z(b, a)
      f == Z(d, c)
      g == A(d, c)
      h == A(b, a)
  IN [x |-> M(e, f), y |-> M(h, g), z |-> M(g, f), t |-> M(e, h)]

\* Mutant of cswap: the loop over the coordinates leaves out the last.
cswapThree(pair, b) ==
  IF b = 1
    THEN <<[pair[2] EXCEPT !.t = pair[1].t], [pair[1] EXCEPT !.t = pair[2].t]>>
    ELSE pair

\* A pair of points; cswap exchanges them when the bit is set.
cswap(pair, b) == IF b = 1 THEN <<pair[2], pair[1]>> ELSE pair

Bit(s, i) == (s[i \div ByteBits + 1] \div 2 ^ (i % ByteBits)) % 2

\* Mutant of LadderTurn: the pair is not exchanged back.
LadderTurnStays(pair, b) ==
  LET swapped == cswap(pair, b)
  IN <<add(swapped[1], swapped[1]), add(swapped[2], swapped[1])>>

\* One turn of the loop of scalarmult: q takes p + q, p is doubled.
LadderTurn(pair, b) ==
  LET swapped == cswap(pair, b)
      sum == add(swapped[2], swapped[1])
  IN cswap(<<add(swapped[1], swapped[1]), sum>>, b)

Bits == N * ByteBits

scalarmult(q, s) ==
  LET ladder[k \in 0 .. Bits] ==
        IF k = 0 THEN <<Neutral, q>>
        ELSE With(ladder[k - 1], LAMBDA pair : LadderTurn(pair, Bit(s, Bits - k)))
  IN ladder[Bits][1]

scalarbase(s) == scalarmult(BasePoint, s)

\* The bytes of y, the parity of x in the top bit.
pack(p) ==
  LET zi == inv25519(p.z)
      bytes == pack25519(M(p.y, zi))
  IN [bytes EXCEPT ![N] = (@ + par25519(M(p.x, zi)) * (Radix \div 2)) % Radix]

-----------------------------------------------------------------------------
(***************************************************************************)
(* unpackneg: the negative of the point a byte string encodes, or NoPoint. *)
(***************************************************************************)
CONSTANT NoPoint

unpackneg(b) ==
  LET y == unpack25519(b)
      num == Z(S(y), 1)
      den == A(1, M(S(y), D))
      den6 == M(S(S(den)), S(den))
      t == pow2523(M(M(den6, num), den))
      r == M(M(M(M(t, num), den), den), den)
      x == IF M(S(r), den) = num THEN r ELSE M(r, I)
      signed == IF par25519(x) = SignBit(b) THEN Z(0, x) ELSE x
  IN IF M(S(x), den) # num THEN NoPoint
     ELSE [x |-> signed, y |-> y, z |-> 1, t |-> M(signed, y)]

-----------------------------------------------------------------------------
(***************************************************************************)
(* Reference: the group in affine coordinates, as RFC 8032 defines it.     *)
(***************************************************************************)
Power(x, n) ==
  LET power[k \in 0 .. n] ==
        IF k = 0 THEN 1
        ELSE IF k % 2 = 1 THEN With(power[k - 1], LAMBDA y : M(x, y))
             ELSE With(power[k \div 2], S)
  IN power[n]

Quotient(a, b) == M(a, Power(b, P - 2))

Affine(p) == <<Quotient(p.x, p.z), Quotient(p.y, p.z)>>

OnCurve(p) ==
  LET x2 == S(p[1])
      y2 == S(p[2])
  IN Z(y2, x2) = A(1, M(D, M(x2, y2)))

AffineSum(p, q) ==
  LET u == M(D, M(M(p[1], q[1]), M(p[2], q[2])))
  IN <<Quotient(A(M(p[1], q[2]), M(p[2], q[1])), A(1, u)),
       Quotient(A(M(p[2], q[2]), M(p[1], q[1])), Z(1, u))>>

Opposite(p) == <<Z(0, p[1]), p[2]>>

\* n times p.
Multiple(n, p) ==
  LET multiple[k \in 0 .. n] ==
        IF k = 0 THEN <<0, 1>>
        ELSE With(With(multiple[k \div 2], LAMBDA q : AffineSum(q, q)),
                  LAMBDA even : IF k % 2 = 1 THEN AffineSum(even, p) ELSE even)
  IN multiple[n]

\* The square of the x coordinate that goes with y.
XSquared(y) == Quotient(Z(S(y), 1), A(M(D, S(y)), 1))

\* A square root of a square; P is 5 modulo 8.
Root(a) ==
  LET c == Power(a, (P + 3) \div 8)
  IN  IF S(c) = a THEN c ELSE M(c, I)

\* RFC 8032, 5.1.3: the point a byte string encodes, or NoPoint.  Decoding fails
\* if y is not a residue, if no x goes with it, and if x is 0 and its sign bit 1.
Decode(b) ==
  LET y == Number(b) % 2 ^ FieldBits
      x == Root(XSquared(y))
  IN IF y >= P \/ S(x) # XSquared(y) \/ (x = 0 /\ SignBit(b) = 1) THEN NoPoint
     ELSE <<IF par25519(x) = SignBit(b) THEN x ELSE Z(0, x), y>>

\* The same key with y reduced, and no sign for an x of 0.
Reencoded(b) ==
  LET y == (Number(b) % 2 ^ FieldBits) % P
      sign == IF XSquared(y) = 0 THEN 0 ELSE SignBit(b)
  IN [pack25519(y) EXCEPT ![N] = @ + sign * (Radix \div 2)]

Canonical(b) == Reencoded(b) = b

-----------------------------------------------------------------------------
(***************************************************************************)
(* What is known of the curve, and what theorems about the code suppose:   *)
(* each law is stated over a set of points, keys or numbers.               *)
(***************************************************************************)
Residues == 0 .. P - 1

Zero == <<0, 1>>

Curve == {a \in Residues \X Residues : OnCurve(a)}

\* The points the code may hold, in extended coordinates.
Points ==
  {p \in [x : Residues, y : Residues, z : Residues, t : Residues] :
     p.z # 0 /\ M(p.t, p.z) = M(p.x, p.y) /\ OnCurve(Affine(p))}

\* The curve is a commutative group.
GroupLaw(G) ==
  \A a, b, c \in G :
    /\ AffineSum(a, b) \in Curve
    /\ AffineSum(a, b) = AffineSum(b, a)
    /\ AffineSum(AffineSum(a, b), c) = AffineSum(a, AffineSum(b, c))
    /\ AffineSum(a, Zero) = a
    /\ Opposite(a) \in Curve /\ AffineSum(a, Opposite(a)) = Zero

\* The formula of `add` is complete: it has no exceptions.
AdditionLaw(G) ==
  \A p, q \in G :
    add(p, q) \in Points /\ Affine(add(p, q)) = AffineSum(Affine(p), Affine(q))

\* What a key decodes to is on the curve.
DecodingLaw(K) == \A b \in K : unpackneg(b) # NoPoint => unpackneg(b) \in Points

\* No multiple of the base point below `bound` is neutral.
OrderLaw(bound) == \A n \in 1 .. bound - 1 : Multiple(n, <<X, Y>>) # Zero
=============================================================================
