--------------------------- MODULE MCEffectLedger ---------------------------
(***************************************************************************)
(* A small instance of EffectLedger: two principals that chose the same    *)
(* nonce, one that used a nonce twice, and envelopes no gate should pass.  *)
(***************************************************************************)
EXTENDS EffectLedger

Mcp == [type |-> "mcp", version |-> "1"]

Keys == [alice |-> "ka", bob |-> "kb"]

Config == [session |-> "s", policyVersion |-> "p", maxApprovalTtl |-> 1]

Env(id, key, issued, expiry) ==
  [keyId |-> id, signedBy |-> key, nonce |-> 1, issuedAt |-> issued,
   expiresAt |-> expiry, line |-> "call", adapter |-> Mcp, session |-> "s",
   policyVersion |-> "p", claim |-> "call"]

\* alice's second is issued when her first is about to expire; bob's outlives
\* the longest age the configuration accepts.
Good == {Env("alice", "ka", 0, 1), Env("alice", "ka", 1, 2), Env("bob", "kb", 0, 2)}

\* Forged, and with a claim its line does not bear out.
Bad == {Env("bob", "ka", 0, 1), [Env("bob", "kb", 0, 1) EXCEPT !.claim = "harmless"]}

Envelopes == Good \cup Bad
=============================================================================
