-------------------------- MODULE MCReplaySession --------------------------
(***************************************************************************)
(* Small instances of ReplaySession for TLC: one tool call, two sessions'  *)
(* worth of configuration, and tokens that are good, expire early or are   *)
(* good for nothing.                                                       *)
(***************************************************************************)
EXTENDS ReplaySession, TLC

CONSTANTS h1, h2, r1, n1, n2

C(policy) == [session |-> "s", publicKey |-> "key", policyVersion |-> policy,
              manifestDigest |-> "m", maxApprovalTtl |-> 2, tools |-> {r1}]

K(n, expiry, key) ==
  [target |-> [request |-> r1, manifest |-> "m"], session |-> "s", nonce |-> n,
   issuedAt |-> 0, expiresAt |-> expiry, signedBy |-> key]

OneConfig  == {C("p1")}
TwoConfigs == {C("p1"), C("p2")}

EarlyAndLate == {K(n1, 1, "key"), K(n2, 2, "key")}
Assorted     == {K(n1, 1, "key"), K(n2, 2, "key"), K(n2, 2, "other"), K(n1, 3, "key")}
SameNonce    == {K(n1, 1, "key"), K(n1, 2, "key")}

Hosts == Permutations({h1, h2})
=============================================================================
