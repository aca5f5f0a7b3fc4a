-------------------------- MODULE OneShotApprovals --------------------------
(***************************************************************************)
(* What the approval lifecycle promises (docs/POLICY.md, "Approvals file", *)
(* and SealCore/Safety.lean), free of files, maps and clocks: approvals    *)
(* come and go as they like, but one that was used is never offered again, *)
(* and a use is for the approval's own target, before its expiry.  The     *)
(* promise is made to each process until it is void for it: see `displaced` *)
(* in SealGate.                                                            *)
(***************************************************************************)
EXTENDS Naturals, Sequences

CONSTANTS
  Target,
  Times    \* the instants at which a use may happen

VARIABLES
  open,   \* the approvals a call could use
  used,   \* the uses, in order
  void    \* the processes for which the promise is void

\* No use of this approval is on record.
Unused(a) == \A i \in DOMAIN used :
               used[i].epoch # a.epoch \/ used[i].id # a.id

Init == open = {} /\ used = <<>> /\ void = {}

\* Approvals are issued, replaced, expire or are forgotten.
Change == /\ void \subseteq void'
          /\ \A a \in open' : a.epoch \in void' \/ Unused(a)
          /\ UNCHANGED used

\* One open approval is used; others may lapse in the same step.
Consume(a) ==
  /\ a \in open
  /\ a.epoch \in void \/ Unused(a)
  /\ \E now \in Times :
       /\ now < a.deadline
       /\ used' = Append(used, [id |-> a.id, epoch |-> a.epoch,
                                target |-> a.target, at |-> now])
  /\ open' \subseteq open
  /\ \A b \in open' : a.epoch \in void \/ b.epoch # a.epoch \/ b.id # a.id
  /\ UNCHANGED void

Next == Change \/ \E a \in open : Consume(a)

Spec == Init /\ [][Next]_<<open, used, void>>
=============================================================================
