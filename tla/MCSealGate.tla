----------------------------- MODULE MCSealGate -----------------------------
(***************************************************************************)
(* Small instances of SealGate for TLC.                                    *)
(***************************************************************************)
EXTENDS SealGate, TLC

CONSTANTS t1, t2

Symmetry == Permutations({t1, t2})

MintOrNot == {NoTime, 1}
NoMint    == {NoTime}
=============================================================================
