---------------------------- MODULE ScalarReduction ----------------------------
(***************************************************************************)
(* modL of src/c/tweetnacl.c run row by row on the digits that occur: the  *)
(* bytes of a digest (reduce), and the sums of products a signer reduces   *)
(* (crypto_sign).                                                          *)
(***************************************************************************)
EXTENDS ScalarModL

CONSTANTS
  Digests,   \* byte strings of 2 * N bytes
  Scalars    \* byte strings of N bytes

ASSUME DigestAssumption ==
  Digests \subseteq [1 .. 2 * N -> Byte] /\ Scalars \subseteq [1 .. N -> Byte]

VARIABLES
  digits,    \* the array x, or Empty
  row,       \* how many of the upper digits have been eliminated
  residue,   \* history: what x stood for at the start, modulo the order
  reduced    \* the result r, or Empty

reductionVars == <<digits, row, residue, reduced>>

Empty == <<>>

Load(x) ==
  /\ digits = Empty
  /\ digits' = x
  /\ residue' = DigitsModOrder(x)
  /\ UNCHANGED <<row, reduced>>

LoadDigest == \E d \in Digests : Load([i \in Digit |-> d[i + 1]])

LoadProducts == \E r, h, d \in Scalars : Load(SignDigits(r, h, d))

EliminateRow ==
  /\ digits # Empty
  /\ row < N
  /\ digits' = Eliminate(digits, 2 * N - 1 - row)
  /\ row' = row + 1
  /\ UNCHANGED <<residue, reduced>>

Finish ==
  /\ row = N
  /\ reduced = Empty
  /\ reduced' = Carry(Settle(digits))
  /\ UNCHANGED <<digits, row, residue>>

ReductionInit == digits = Empty /\ row = 0 /\ residue = 0 /\ reduced = Empty

ReductionNext == LoadDigest \/ LoadProducts \/ EliminateRow \/ Finish

ReductionSpec == ReductionInit /\ [][ReductionNext]_reductionVars

-----------------------------------------------------------------------------
(***************************************************************************)
(* Properties.                                                             *)
(***************************************************************************)

\* The bound on a digit while rows remain: a sum of N products, and a carry of
\* each row below it.  In C it is 2^21 and 2^25, in integers of 2^63.
DigitBound == 2 * N * Radix * Radix

\* A row leaves the residue alone, the digit it eliminates at zero and the others
\* within their bound; and what modL passes on is the residue itself: N bytes,
\* below the order, for every digest and every sum of products a signer makes.
ReductionIsExact ==
  /\ digits # Empty =>
       /\ DigitsModOrder(digits) = residue
       /\ \A i \in 2 * N - row .. 2 * N - 1 : digits[i] = 0
       /\ \A i \in Digit : digits[i] \in -DigitBound .. DigitBound
  /\ reduced # Empty => reduced \in [1 .. N -> Byte] /\ Number(reduced) = residue
=============================================================================
