------------------------------ MODULE ScalarModL ------------------------------
(***************************************************************************)
(* Scalars of the vendored TweetNaCl (src/c/tweetnacl.c): the reduction    *)
(* modulo the group order on digits of one byte, and the sum of products   *)
(* that a signer reduces.                                                  *)
(*                                                                         *)
(* The widths are parameters.  The C program has bytes of 8 bits, 32 of    *)
(* them to a scalar, and an order 2^252 + delta whose delta has 16 digits  *)
(* and is swept with 4 digits to spare; a small instance scales all of     *)
(* that down together and keeps every step.  A byte string is a sequence:  *)
(* index i of the C array is element i + 1.                                *)
(***************************************************************************)
EXTENDS Integers, Sequences

CONSTANTS
  ByteBits,   \* the bits of a byte: 8 in C
  N,          \* the bytes of a scalar and of an encoded point: 32 in C
  L,          \* the order of the base point, N bytes, least significant first
  Low         \* how many digits of L an elimination sweeps: 20 in C

Radix == 2 ^ ByteBits

ASSUME WidthAssumption ==
  /\ ByteBits \in Nat /\ ByteBits >= 4
  /\ N \in Nat \ {0}

\* The top digit of the order is 2^252 / 2^248, the low ones are delta.
ASSUME OrderAssumption ==
  /\ L \in [1 .. N -> 0 .. Radix - 1]
  /\ Low \in 1 .. N - 1
  /\ L[N] = Radix \div 16
  /\ \A k \in Low + 1 .. N - 1 : L[k] = 0

\* The digits to spare: the sweep passes delta by a digit, and delta is so small
\* next to it, that a digit of a product leaves less than half a carry; and what
\* is added above the sweep is little next to a byte.
ASSUME SpareAssumption ==
  /\ Low >= 3 /\ N < 2 * Low /\ L[Low] = 0
  /\ 2 * N * (L[Low - 1] + 1) <= Radix
  /\ Low = N - 1 \/ Radix >= 128

\* What the provers do not know of powers.
ASSUME PowersAssumption ==
  2 ^ 0 = 1 /\ \A k \in 0 .. N * ByteBits : 2 ^ (k + 1) = 2 * 2 ^ k

Byte == 0 .. Radix - 1

Digit == 0 .. 2 * N - 1

\* Op(v), with v evaluated first: a long recursion stays shallow for TLC.
With(v, Op(_)) == CHOOSE result \in {Op(w) : w \in {v}} : TRUE

-----------------------------------------------------------------------------
(***************************************************************************)
(* modL.  Digits are signed and may be any integers.                       *)
(***************************************************************************)

\* Digit i is worth 16 times the order, N places down: subtract that multiple.
\* Each digit passed is left rounded to the nearest, in -Radix/2 .. Radix/2 - 1.
Eliminate(x, i) ==
  LET sweep[k \in 0 .. Low] ==
        IF k = 0 THEN [x |-> x, carry |-> 0]
        ELSE LET j == i - N + k - 1
                 v == sweep[k - 1].x[j] + sweep[k - 1].carry - 16 * x[i] * L[k]
                 c == (v + Radix \div 2) \div Radix
             IN [x |-> [sweep[k - 1].x EXCEPT ![j] = v - c * Radix], carry |-> c]
  IN [sweep[Low].x EXCEPT ![i - N + Low] = @ + sweep[Low].carry, ![i] = 0]

\* The digits after k of the upper ones have been eliminated, the highest first.
Eliminated(x) ==
  LET after[k \in 0 .. N] ==
        IF k = 0 THEN x ELSE With(after[k - 1], LAMBDA y : Eliminate(y, 2 * N - k))
  IN after

\* Mutant of Settle: below zero, the order is not put back.
SettleOnce(x) ==
  LET quotient == x[N - 1] \div (Radix \div 16)
      down[j \in 0 .. N] ==
        IF j = 0 THEN [x |-> x, carry |-> 0]
        ELSE LET v == down[j - 1].x[j - 1] + down[j - 1].carry - quotient * L[j]
             IN [x |-> [down[j - 1].x EXCEPT ![j - 1] = v % Radix], carry |-> v \div Radix]
  IN down[N].x

\* What is left is below 16 times the order: take its quotient off, and once
\* more the order if that went below zero.
Settle(x) ==
  LET quotient == x[N - 1] \div (Radix \div 16)
      down[j \in 0 .. N] ==
        IF j = 0 THEN [x |-> x, carry |-> 0]
        ELSE LET v == down[j - 1].x[j - 1] + down[j - 1].carry - quotient * L[j]
             IN [x |-> [down[j - 1].x EXCEPT ![j - 1] = v % Radix], carry |-> v \div Radix]
  IN [i \in Digit |-> IF i < N THEN down[N].x[i] - down[N].carry * L[i + 1] ELSE 0]

\* Signed digits made bytes.
Carry(x) ==
  LET sum[i \in 0 .. N - 1] == x[i] + IF i = 0 THEN 0 ELSE sum[i - 1] \div Radix
  IN [i \in 1 .. N |-> sum[i - 1] % Radix]

modL(x) == Carry(Settle(Eliminated(x)[N]))

-----------------------------------------------------------------------------
\* reduce: a digest of 2 * N bytes.  Its upper bytes become zero, so only the
\* lower N are kept here.
reduce(r) == modL([i \in Digit |-> r[i + 1]])

\* The digits of r + h * d as crypto_sign adds them up, uncarried.
SignDigits(r, h, d) ==
  LET products[c \in 0 .. N * N] ==
        IF c = 0 THEN [i \in Digit |-> IF i < N THEN r[i + 1] ELSE 0]
        ELSE LET i == (c - 1) \div N
                 j == (c - 1) % N
             IN [products[c - 1] EXCEPT ![i + j] = @ + h[i + 1] * d[j + 1]]
  IN products[N * N]

-----------------------------------------------------------------------------
(***************************************************************************)
(* Reference.                                                              *)
(***************************************************************************)

\* The number a byte string or a digit function stands for, modulo `modulus`.
Residue(digit(_), count, modulus) ==
  LET horner[k \in 0 .. count] ==
        IF k = 0 THEN 0 ELSE (Radix * horner[k - 1] + digit(count - k)) % modulus
  IN horner[count]

Number(b) ==
  LET value[k \in 0 .. Len(b)] ==
        IF k = 0 THEN 0 ELSE Radix * value[k - 1] + b[Len(b) - k + 1]
  IN value[Len(b)]

Order == Number(L)

DigitsModOrder(x) == Residue(LAMBDA i : x[i], 2 * N, Order)
=============================================================================
