---------------------------- MODULE EffectLedger ----------------------------
(***************************************************************************)
(* The ledgered judgment of signed effect envelopes: the gates of          *)
(* SealV2/EffectEnvelope.lean behind the generation gate and the consumed  *)
(* nonces of SealV2/NonceLedger.lean, and the executor that checks the     *)
(* fence of what it is handed.                                             *)
(*                                                                         *)
(* The repository specifies the steps; the host that keeps the stores is   *)
(* outside.  Here it may mount any store or none, prune at the true time,  *)
(* and deliver a decision late, twice or never; the authority may re-sign  *)
(* the configuration at the next generation.  A store is never rolled back *)
(* within its generation, the limit the module's header states.            *)
(*                                                                         *)
(* Wire widths, hexadecimal and Ed25519 are one question: by whose key an  *)
(* envelope is signed.  A line stands for its parse.                       *)
(***************************************************************************)
EXTENDS Naturals, Sequences

CONSTANTS
  Envelope,       \* signed records; an absent string or claim is None
  Registry,       \* the keys by key id: a function
  Allowed,        \* the lines `decide` allows
  Mediator,       \* the adapter that mediates: [type, version]
  SignedConfig,   \* session, policyVersion, maxApprovalTtl
  None, Unavailable, NoAnswer,
  MaxClock, MaxGeneration, MaxReleased, MaxExecuted   \* bounds of the exploration

ASSUME LedgerAssumption ==
  /\ \A e \in Envelope : e.issuedAt \in Nat /\ e.expiresAt \in Nat
  /\ SignedConfig.maxApprovalTtl \in Nat
  /\ Unavailable \notin Nat
  /\ MaxClock \in Nat /\ MaxGeneration \in Nat
  /\ MaxReleased \in Nat /\ MaxExecuted \in Nat

VARIABLES
  clock,       \* the true time, in seconds
  generation,  \* the ledgerGeneration of the signed configuration; 0 = none
  stores,      \* the consumed entries of the store of each generation
  mounted,     \* the generation of the store the judge sees, or Unavailable
  answer,      \* the last answer of effectStepLedgered, or NoAnswer
  released,    \* history: the Allows released, with time and fence
  executed     \* history: the decisions executed, as indices of `released`

vars == <<clock, generation, stores, mounted, answer, released, executed>>

-----------------------------------------------------------------------------
Generation == 0 .. MaxGeneration

Entries == [keyId : {e.keyId : e \in Envelope}, nonce : {e.nonce : e \in Envelope},
            expiresAt : {e.expiresAt : e \in Envelope}]

Answers == [envelope : Envelope, allow : BOOLEAN, generation : Generation]

VerifyEffect(e) == e.keyId \in DOMAIN Registry /\ e.signedBy = Registry[e.keyId]

AdapterGate(e) == e.adapter = Mediator

SessionGate(e) == e.session # None /\ e.session = SignedConfig.session

PolicyVersionGate(e) ==
  e.policyVersion # None /\ e.policyVersion = SignedConfig.policyVersion

ExpiryGate(e) == e.expiresAt # 0 /\ clock <= e.expiresAt

IssuedAtGate(e) ==
  e.issuedAt <= clock /\ clock - e.issuedAt <= SignedConfig.maxApprovalTtl

\* No claim, or under MCP the claim that the line derives.
EffectGate(e) == e.claim # None => Mediator.type = "mcp" /\ e.claim = e.line

EffectStep(e) ==
  /\ VerifyEffect(e)
  /\ AdapterGate(e) /\ SessionGate(e) /\ EffectGate(e)
  /\ ExpiryGate(e) /\ IssuedAtGate(e) /\ PolicyVersionGate(e)
  /\ e.line \in Allowed

\* Mutant of GenerationGate: the unconfigured 0 matches a store of 0.
GenerationGateZero(g) == g = generation
GenerationGate(g)     == generation # 0 /\ g = generation

\* Mutant of EntryMatches: the nonce alone is the key.
EntryMatchesNonce(en, e) == en.nonce = e.nonce
EntryMatches(en, e)      == en.keyId = e.keyId /\ en.nonce = e.nonce

MintedEntry(e) == [keyId |-> e.keyId, nonce |-> e.nonce, expiresAt |-> e.expiresAt]

Consumed(es, e) == \E en \in es : EntryMatches(en, e)

\* Mutant of PruneLedger: an entry goes in its last second.
PruneLedgerEarly(now, es) == {en \in es : now < en.expiresAt}
PruneLedger(now, es)      == {en \in es : now <= en.expiresAt}

-----------------------------------------------------------------------------
Init ==
  /\ clock = 0 /\ generation = 0
  /\ stores = [g \in Generation |-> {}]
  /\ mounted = Unavailable
  /\ answer = NoAnswer
  /\ released = <<>> /\ executed = <<>>

Tick ==
  /\ clock < MaxClock /\ clock' = clock + 1
  /\ answer' = NoAnswer
  /\ UNCHANGED <<generation, stores, mounted, released, executed>>

\* The authority endorses the next store.
Resign ==
  /\ generation < MaxGeneration /\ generation' = generation + 1
  /\ answer' = NoAnswer
  /\ UNCHANGED <<clock, stores, mounted, released, executed>>

\* The host attaches a store, also one of an old or a future generation.
Mount(g) ==
  /\ mounted' = g /\ answer' = NoAnswer
  /\ UNCHANGED <<clock, generation, stores, released, executed>>

Unmount ==
  /\ mounted' = Unavailable /\ answer' = NoAnswer
  /\ UNCHANGED <<clock, generation, stores, released, executed>>

\* The host prunes the mounted store at the true time.
Prune ==
  /\ mounted # Unavailable
  /\ stores' = [stores EXCEPT ![mounted] = PruneLedger(clock, @)]
  /\ answer' = NoAnswer
  /\ UNCHANGED <<clock, generation, mounted, released, executed>>

Answered(e, allow, g) ==
  answer' = [envelope |-> e, allow |-> allow, generation |-> g]

\* No store, or one of another generation: refused with the fence 0.
RefuseStore(e) ==
  /\ mounted = Unavailable \/ ~GenerationGate(mounted)
  /\ Answered(e, FALSE, 0)
  /\ UNCHANGED <<clock, generation, stores, mounted, released, executed>>

\* Mutant of RefuseEnvelope: the nonce is consumed before the envelope is
\* judged.
RefuseAndBurn(e) ==
  /\ mounted # Unavailable /\ GenerationGate(mounted)
  /\ ~EffectStep(e) \/ Consumed(stores[mounted], e)
  /\ stores' = [stores EXCEPT ![mounted] = @ \cup {MintedEntry(e)}]
  /\ Answered(e, FALSE, generation)
  /\ UNCHANGED <<clock, generation, mounted, released, executed>>

\* A gate or the ledger says no; the ledger stays as it is.
RefuseEnvelope(e) ==
  /\ mounted # Unavailable /\ GenerationGate(mounted)
  /\ ~EffectStep(e) \/ Consumed(stores[mounted], e)
  /\ Answered(e, FALSE, generation)
  /\ UNCHANGED <<clock, generation, stores, mounted, released, executed>>

\* Mutant of Release: the new ledger is dropped.
ReleaseUnrecorded(e) ==
  /\ mounted # Unavailable /\ GenerationGate(mounted)
  /\ EffectStep(e) /\ ~Consumed(stores[mounted], e)
  /\ Len(released) < MaxReleased
  /\ released' = Append(released, [token |-> e, at |-> clock, life |-> generation])
  /\ Answered(e, TRUE, generation)
  /\ UNCHANGED <<clock, generation, stores, mounted, executed>>

\* The Allow and the ledger that records its nonce are one step.
Release(e) ==
  /\ mounted # Unavailable /\ GenerationGate(mounted)
  /\ EffectStep(e) /\ ~Consumed(stores[mounted], e)
  /\ Len(released) < MaxReleased
  /\ stores' = [stores EXCEPT ![mounted] = @ \cup {MintedEntry(e)}]
  /\ released' = Append(released, [token |-> e, at |-> clock, life |-> generation])
  /\ Answered(e, TRUE, generation)
  /\ UNCHANGED <<clock, generation, mounted, executed>>

\* Mutant of ExecutorAccepts: any fence but 0.
ExecutorAcceptsAny(fd) == fd.life # 0
ExecutorAccepts(fd)    == fd.life # 0 /\ fd.life = generation

\* A released decision reaches the executor, whenever and however often.
Execute(i) ==
  /\ ExecutorAccepts(released[i])
  /\ Len(executed) < MaxExecuted
  /\ executed' = Append(executed, i)
  /\ answer' = NoAnswer
  /\ UNCHANGED <<clock, generation, stores, mounted, released>>

Judge(e) == RefuseStore(e) \/ RefuseEnvelope(e) \/ Release(e)

Next ==
  \/ Tick \/ Resign \/ Unmount \/ Prune
  \/ \E g \in Generation : Mount(g)
  \/ \E e \in Envelope : Judge(e)
  \/ \E i \in DOMAIN released : Execute(i)

Spec == Init /\ [][Next]_vars

-----------------------------------------------------------------------------
TypeOK ==
  /\ clock \in 0 .. MaxClock /\ generation \in Generation
  /\ stores \in [Generation -> SUBSET Entries]
  /\ mounted \in Generation \cup {Unavailable}
  /\ answer \in Answers \cup {NoAnswer}
  /\ released \in Seq([token : Envelope, at : Nat, life : Generation \ {0}])
  /\ executed \in Seq(DOMAIN released)

\* NonceLedger.lean: "No replay within the live authority domain", and the
\* window a rotation opens is bounded by min(issuedAt + maxApprovalTtl,
\* expiresAt).  An envelope is released a second time only under a later
\* generation and within that window.
ReplayNeedsRotation ==
  \A i, j \in DOMAIN released :
    i < j /\ released[i].token = released[j].token =>
      /\ released[i].life < released[j].life
      /\ released[j].at <= released[j].token.expiresAt
      /\ released[j].at <= released[j].token.issuedAt + SignedConfig.maxApprovalTtl

\* NonceLedger.lean: "an Allow minted under N is dead once the authority
\* re-signs at N+1".  However decisions are delayed, repeated and reordered on
\* their way to the executor, their generations never go back there.
ExecutionsFollowGenerations ==
  \A i, j \in DOMAIN executed :
    i <= j => released[executed[i]].life <= released[executed[j]].life

\* A principal's envelope is not refused for what others did: when the store of
\* the live generation is there, an envelope that passes the gates and whose
\* key id and nonce were not released under this generation is released.
FreshEnvelopeServes ==
  [][ \A e \in Envelope :
        /\ answer' # answer /\ answer' # NoAnswer /\ answer'.envelope = e
        /\ generation # 0 /\ mounted = generation /\ EffectStep(e)
        /\ \A i \in DOMAIN released :
             released[i].life = generation =>
               \/ released[i].token.keyId # e.keyId
               \/ released[i].token.nonce # e.nonce
        => answer'.allow ]_vars

\* effectStepLedgered: "a blocked envelope burns nothing".  What a store holds
\* was released under its generation.
RefusalsBurnNothing ==
  \A g \in Generation : \A en \in stores[g] :
    \E i \in DOMAIN released :
      released[i].life = g /\ MintedEntry(released[i].token) = en

-----------------------------------------------------------------------------
(***************************************************************************)
(* What the invariants above need to be inductive.                         *)
(***************************************************************************)

\* A release lies in the past and in the window of its envelope, and under a
\* generation that was live.
ReleasesAreInTime ==
  \A i \in DOMAIN released :
    /\ released[i].life <= generation
    /\ released[i].at <= clock
    /\ released[i].at <= released[i].token.expiresAt
    /\ released[i].at <= released[i].token.issuedAt + SignedConfig.maxApprovalTtl

\* Pruning forgets no envelope that could still pass the expiry gate.
RememberedWhileGood ==
  \A i \in DOMAIN released :
    clock <= released[i].token.expiresAt =>
      MintedEntry(released[i].token) \in stores[released[i].life]

\* No execution under a generation that is not live yet.
ExecutedIsPast ==
  \A i \in DOMAIN executed : released[executed[i]].life <= generation

LedgerInv == ReleasesAreInTime /\ RememberedWhileGood /\ ExecutedIsPast

\* The lives of the abstract specification are the generations.
Abstract == INSTANCE SingleUseTokens
              WITH Token <- Envelope, Times <- 0 .. MaxClock,
                   used <- released, life <- generation

\* Within a generation an envelope is used once.
ImplementsSingleUse == Abstract!Spec
=============================================================================
