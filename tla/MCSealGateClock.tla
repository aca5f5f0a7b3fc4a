-------------------------- MODULE MCSealGateClock --------------------------
(***************************************************************************)
(* SealGateClock for TLC: one run, in two corners of the bounds.           *)
(***************************************************************************)
EXTENDS MCSealGate, SealGateClock

\* Every kind of edit of the file in FileOps, and a restart: lines that name no mint
\* time, and a clock that is at the start or at the deadline.
FilesCorner ==
  /\ clock \in {0, TtlMs} /\ ~setBack
  /\ \A i \in DOMAIN file : file[i].issuedAt = NoTime

\* Every clock and mint time, set back too: one process, two served calls, and a
\* file that is only appended to, with whole lines.
ClockCorner ==
  /\ epoch <= 1 /\ Len(served) <= 2
  /\ ~edited /\ fileKind # "symlink"
  /\ \A i \in DOMAIN file : file[i].target \in Target

Corners == FilesCorner \/ ClockCorner
=============================================================================
