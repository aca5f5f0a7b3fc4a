-------------------------- MODULE SingleUseTokens --------------------------
(***************************************************************************)
(* What the v2 session promises about signed approvals, whoever calls it   *)
(* with whatever idea of the time: a token that was used in the life of a  *)
(* session is not used again in that life, unless some use in between was  *)
(* at a time past the token's expiry.  So a second use takes a caller      *)
(* whose time has gone back.                                               *)
(***************************************************************************)
EXTENDS Naturals, Sequences

CONSTANTS
  Token,   \* records with at least a field expiresAt
  Times    \* the times a caller may name

VARIABLES
  life,   \* the life of the session: it ends when the session is replaced or lost
  used    \* the uses so far, in order

Init == life = 0 /\ used = <<>>

\* Token k may be used at time t.
Usable(k, t) ==
  /\ t <= k.expiresAt
  /\ \A i \in DOMAIN used :
       used[i].token = k /\ used[i].life = life =>
         \E j \in i + 1 .. Len(used) :
           used[j].life = life /\ used[j].at > k.expiresAt

Use(k, t) ==
  /\ Usable(k, t)
  /\ used' = Append(used, [token |-> k, at |-> t, life |-> life])
  /\ UNCHANGED life

NewLife == life' = life + 1 /\ UNCHANGED used

Next == NewLife \/ \E k \in Token, t \in Times : Use(k, t)

Spec == Init /\ [][Next]_<<life, used>>
=============================================================================
