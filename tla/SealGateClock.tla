--------------------------- MODULE SealGateClock ---------------------------
(***************************************************************************)
(* What the prune at the end of every call means for later decisions.  The *)
(* gate runs beside a twin of its approval map that is never pruned, and a *)
(* record of the approvals some call has found past their deadline.        *)
(***************************************************************************)
EXTENDS SealGate

VARIABLES
  unpruned,  \* history: `approved` as it would be without prune
  expired    \* history: ids of the approvals that were seen expired

clockVars == <<vars, unpruned, expired>>

ClockInit == Init /\ unpruned = EmptyState /\ expired = {}

\* The twin follows the ingest and the step of the gate, not its prune.
TwinFollows ==
  unpruned' = IF pc' = "down" THEN EmptyState
              ELSE IF pc = "ingest" /\ pc' = "decide" /\ fileKind = "regular"
                THEN WithApprovals(unpruned)
              ELSE IF pc = "decide" /\ pc' # "decide"
                THEN StepState(now, unpruned, line.event)
              ELSE unpruned

\* The standing approvals that are past their deadline at this call.
FoundExpired == {ticket[t].id : t \in {u \in DOMAIN approved : now >= approved[u]}}

ExpiryNoted ==
  expired' = IF pc' = "down" THEN {}
             ELSE IF pc = "decide" /\ pc' # "decide" THEN expired \cup FoundExpired
             ELSE expired

ClockNext == Next /\ TwinFollows /\ ExpiryNoted

ClockSpec == ClockInit /\ [][ClockNext]_clockVars

-----------------------------------------------------------------------------
\* SealCore/Automaton.lean on prune: "Memory hygiene only: lazy `live` already
\* refuses expired entries, so pruning changes no decision."  When a call is
\* about to be decided, a target is live in the pruned map exactly if it is
\* live in the map that was never pruned; as long as the wall clock, which both
\* maps are read at, was not set back.
PruneChangesNoDecision ==
  pc = "decide" /\ ~setBack =>
    \A t \in Target : Live(approved, t, now) <=> Live(unpruned, t, now)

\* An approval some call has found expired is never the one that lets a later
\* call through, even if the wall clock is set back before its deadline.  (A
\* line ahead of those the process has read makes it read the approval again.)
ExpiredStaysExpired ==
  pc = "forward" /\ inHand # NoTicket /\ Undisturbed => inHand.id \notin expired

\* In a file that is only appended to, an approval that was taken from the
\* file is accounted for: it stands, it is in hand, it was used, it was found
\* expired, or a later line for its target replaced it.
EveryApprovalAccountedFor ==
  \A i \in ingested :
    \/ \E t \in DOMAIN approved : ticket[t].id = i
    \/ inHand.id = i
    \/ \E n \in DOMAIN served :
         served[n].ticket.id = i /\ served[n].ticket.epoch = epoch
    \/ i \in expired
    \/ \E j \in ingested : j > i /\ file[j].target = file[i].target

\* "Each record is ingested exactly once (the seen counter)" (Main.lean): the map
\* after an ingest is the fold of `step` over the fresh lines; and as long as the
\* file is only appended to, no line of it is passed over, and no approval that was
\* taken from it gets lost before it is used, found expired or replaced.
IngestLosesNothing ==
  /\ IngestIsTheFold
  /\ ~edited => NothingSkipped /\ EveryApprovalAccountedFor
=============================================================================
