--------------------------- MODULE SealAutomaton ---------------------------
(***************************************************************************)
(* The v1 decision core (SealCore/Event.lean, SealCore/Automaton.lean): a  *)
(* map from approved targets to absolute expiry deadlines, and the pure    *)
(* transition the host folds over approvals and applies to each call.      *)
(*                                                                         *)
(* The Lean HashMap is a function whose domain is the set of its keys.     *)
(* Operators marked "mutant" are wrong on purpose: each stands for a       *)
(* plausible slip in the operator it precedes, and some property of the    *)
(* project must notice when it takes its place.                            *)
(***************************************************************************)
EXTENDS Naturals

CONSTANT Target    \* the target commitments (64-hex digests in the code)

\* The values of State.approved.
IsState(s) == DOMAIN s \subseteq Target /\ s \in [DOMAIN s -> Nat]

EmptyState == [t \in {} |-> 0]

-----------------------------------------------------------------------------

\* The events the host feeds to the automaton.
Approval(t, d) == [type |-> "approval", target |-> t, deadline |-> d]
Guarded(t)     == [type |-> "guarded", target |-> t]
Benign         == [type |-> "benign"]
DefaultDeny    == [type |-> "defaultDeny"]

-----------------------------------------------------------------------------

\* Mutant of Live: the deadline itself still counts.
LiveInclusive(s, t, now) == t \in DOMAIN s /\ now <= s[t]

\* A target is live strictly before its deadline.
Live(s, t, now) == t \in DOMAIN s /\ now < s[t]

\* Mutants of Prune: one millisecond early, and not at all.
PruneEarly(now, s) == [t \in {u \in DOMAIN s : now + 1 < s[u]} |-> s[t]]
PruneNothing(now, s) == s

\* The entries that are still live at `now`.
Prune(now, s) == [t \in {u \in DOMAIN s : now < s[u]} |-> s[t]]

\* HashMap.insert: a later deadline for the same target replaces the former.
Insert(s, t, d) == [u \in DOMAIN s \cup {t} |-> IF u = t THEN d ELSE s[u]]

\* HashMap.erase.
Erase(s, t) == [u \in DOMAIN s \ {t} |-> s[u]]

\* The decision half of `step`.
Allows(now, s, e) ==
  \/ e.type \in {"approval", "benign"}
  \/ e.type = "guarded" /\ Live(s, e.target, now)

\* Mutant of StepState: an allowed call consumes nothing.
StepStateKeeps(now, s, e) ==
  IF e.type = "approval" THEN Insert(s, e.target, e.deadline) ELSE s

\* The state half of `step`: only an approval and an allowed guarded call
\* change the map; a blocked call leaves it as it was.
StepState(now, s, e) ==
  IF e.type = "approval" THEN Insert(s, e.target, e.deadline)
  ELSE IF e.type = "guarded" /\ Live(s, e.target, now) THEN Erase(s, e.target)
  ELSE s
=============================================================================
