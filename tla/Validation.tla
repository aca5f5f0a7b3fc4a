------------------------------ MODULE Validation ------------------------------
(***************************************************************************)
(* The replay-protected validation of v2 (SealV2/Validation.lean) and the  *)
(* ApprovalState it reads and replaces, for every module that keeps one.   *)
(*                                                                         *)
(* Parsing, canonical bytes and Ed25519 are abstracted: a request names a  *)
(* tool call or is malformed, a token is its signed content and the key    *)
(* that signed it.                                                         *)
(***************************************************************************)
EXTENDS Naturals, Sequences

CONSTANTS
  Request,    \* the requests that parse to a tools/call
  NoRequest,  \* a request that does not
  Config,     \* the session configurations the host may load
  Token,      \* the approval tokens the host may receive
  NoNow,      \* a clock text that is no decimal number
  NoSession,  \* no state, before the first configuration
  MaxClock    \* bound of the exploration

-----------------------------------------------------------------------------
Clock == 0 .. MaxClock

Target == [request : Request, manifest : {c.manifestDigest : c \in Config}]

\* ConsumedNonce.
Entries ==
  [ns : [publicKey : {c.publicKey : c \in Config},
         target : Target,
         session : {c.session : c \in Config},
         policyVersion : {c.policyVersion : c \in Config}],
   nonce : {k.nonce : k \in Token}, expiresAt : Nat]

\* ApprovalState.
States == [config : Config, approvals : Seq(Token), consumed : SUBSET Entries, now : Clock]

ASSUME NoSessionAssumption == NoSession \notin States

\* targetFor: what the signer signs for.  The tool's version and the manifest
\* digest come from the state, the rest from the request.
TargetFor(st, r) == [request |-> r, manifest |-> st.config.manifestDigest]

\* replayNamespace: a nonce is spent for one target, key, session and policy.
Namespace(st, t) ==
  [publicKey |-> st.config.publicKey, target |-> t,
   session |-> st.config.session, policyVersion |-> st.config.policyVersion]

\* Mutant of PruneConsumed: a token is forgotten in its last instant.
PruneConsumedEarly(now, es) == {e \in es : now < e.expiresAt}

PruneConsumed(now, es) == {e \in es : now <= e.expiresAt}

Contains(es, ns, nonce) == \E e \in es : e.ns = ns /\ e.nonce = nonce

NonceConsumed(st, t, k) ==
  Contains(PruneConsumed(st.now, st.consumed), Namespace(st, t), k.nonce)

TtlWithinCap(st, k) ==
  /\ k.issuedAt <= k.expiresAt
  /\ k.expiresAt - k.issuedAt <= st.config.maxApprovalTtl

ApprovalLiveFor(st, t, k) ==
  /\ k.target = t
  /\ k.session = st.config.session
  /\ st.now <= k.expiresAt
  /\ TtlWithinCap(st, k)
  /\ ~NonceConsumed(st, t, k)
  /\ k.signedBy = st.config.publicKey

\* Mutant of Candidates: every approval for the target, whatever its state.
CandidatesByTarget(st, t) ==
  {i \in DOMAIN st.approvals : st.approvals[i].target = t}

\* findApproval takes the first approval of the list that is live.
Candidates(st, t) ==
  {i \in DOMAIN st.approvals : ApprovalLiveFor(st, t, st.approvals[i])}

FindApproval(st, t) ==
  st.approvals[CHOOSE i \in Candidates(st, t) : \A j \in Candidates(st, t) : i <= j]

Entry(st, k) ==
  [ns |-> Namespace(st, k.target), nonce |-> k.nonce, expiresAt |-> k.expiresAt]

\* validate, then the store is pruned and asked again.
Validates(st, r) ==
  /\ r \in st.config.tools
  /\ LET t == TargetFor(st, r) IN
       /\ Candidates(st, t) # {}
       /\ ApprovalLiveFor(st, t, FindApproval(st, t))
       /\ ~Contains(PruneConsumed(st.now, st.consumed), Namespace(st, t),
                    FindApproval(st, t).nonce)

\* insertConsumed on the pruned store; the clock is kept with it.
Consume(st, k) ==
  [st EXCEPT !.consumed = PruneConsumed(st.now, st.consumed) \cup {Entry(st, k)}]

-----------------------------------------------------------------------------
\* Mutant of Opened: the clock is left unset.
OpenedUnset(c) == [config |-> c, approvals |-> <<>>, consumed |-> {}, now |-> NoNow]

\* parseConfig: a fresh state, whatever there was before.
Opened(c) == [config |-> c, approvals |-> <<>>, consumed |-> {}, now |-> 0]

\* (nowText.toNat?).getD st0.now.
AtClock(st, n) == [st EXCEPT !.now = IF n = NoNow THEN st.now ELSE n]
=============================================================================
