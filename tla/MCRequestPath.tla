---------------------------- MODULE MCRequestPath ----------------------------
(***************************************************************************)
(* A request on its way through v1: the gates on its raw line, and the     *)
(* rules on what is parsed from it.  The two run one at a time: a line     *)
(* that passes the gates is any request of RuleResolution.                 *)
(***************************************************************************)
EXTENDS MCRuleResolution, WireScan

Letter(c)  == [escape |-> FALSE, char |-> c, means |-> c]
Escape(c)  == [escape |-> TRUE, char |-> c, means |-> c]

\* An "a" written plainly and escaped, quotes, the look of a number and of a
\* structure, and the empty string.
SomeStrings ==
  {<<Letter("a")>>, <<Escape("a")>>, <<>>,
   <<Escape("\""), Letter("}"), Letter(","), Escape("\\")>>,
   <<Letter("1"), Letter("e"), Letter("1"), Letter("1")>>}

Digits(negative, whole, fraction, sign, exponent) ==
  [negative |-> negative, whole |-> whole, fraction |-> fraction,
   sign |-> sign, exponent |-> exponent]

Odd == Digits(TRUE, 1, 1, "-", 1)

SomeNumbers ==
  {Digits(FALSE, 2, 0, "none", 0), Digits(TRUE, 1, 2, "none", 0),
   Digits(FALSE, 1, 0, "+", 1), Digits(FALSE, 1, 0, "none", 2), Odd}

OddOne == {Written(Odd)}

-----------------------------------------------------------------------------
PathInit == Init /\ WireInit

PathNext ==
  \/ tokens = 0 /\ Next /\ UNCHANGED wireVars
  \/ outcome = NoAnswer /\ policy = NotRunning /\ WireNext /\ UNCHANGED vars

PathSpec == PathInit /\ [][PathNext]_<<vars, wireVars>>
=============================================================================
