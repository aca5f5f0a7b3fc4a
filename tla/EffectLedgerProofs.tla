------------------------- MODULE EffectLedgerProofs -------------------------
(***************************************************************************)
(* Proofs about the ledgered judgment, for any envelopes, registry and     *)
(* number of generations.                                                  *)
(***************************************************************************)
EXTENDS EffectLedger, SequenceTheorems, TLAPS

Release3 == [token : Envelope, at : Nat, life : Generation \ {0}]

\* Appending to a history keeps what was there.
LEMMA Appended ==
  ASSUME NEW S, NEW s \in Seq(S), NEW x \in S
  PROVE  /\ Append(s, x) \in Seq(S)
         /\ Len(s) \in Nat /\ DOMAIN s = 1 .. Len(s)
         /\ DOMAIN Append(s, x) = 1 .. Len(s) + 1
         /\ Append(s, x)[Len(s) + 1] = x
         /\ \A i \in DOMAIN s : Append(s, x)[i] = s[i]
  OBVIOUS

\* What the time gates of effectStep say together.
LEMMA GatesBoundTheTime ==
  ASSUME TypeOK, NEW e \in Envelope, EffectStep(e)
  PROVE  /\ clock <= e.expiresAt
         /\ clock <= e.issuedAt + SignedConfig.maxApprovalTtl
<1>1. clock \in Nat /\ e.issuedAt \in Nat /\ SignedConfig.maxApprovalTtl \in Nat
  BY LedgerAssumption DEF TypeOK
<1>2. clock <= e.expiresAt
  BY DEF EffectStep, ExpiryGate
<1>3. e.issuedAt <= clock /\ clock - e.issuedAt <= SignedConfig.maxApprovalTtl
  BY DEF EffectStep, IssuedAtGate
<1> QED
  BY <1>1, <1>2, <1>3

\* Every step keeps the types.
LEMMA TypeStep ==
  ASSUME TypeOK, [Next]_vars
  PROVE  TypeOK'
<1> USE LedgerAssumption
<1>0. /\ clock \in Nat /\ generation \in Nat /\ Generation \subseteq Nat
      /\ stores \in [Generation -> SUBSET Entries]
      /\ mounted # Unavailable => mounted \in Generation
  BY DEF TypeOK, Generation
<1>1. CASE Tick
  BY <1>1 DEF TypeOK, Tick
<1>2. CASE Resign
  BY <1>2 DEF TypeOK, Resign, Generation
<1>3. CASE Unmount \/ \E g \in Generation : Mount(g)
  BY <1>3 DEF TypeOK, Unmount, Mount
<1>4. CASE Prune
  <2>1. stores' \in [Generation -> SUBSET Entries]
    BY <1>0, <1>4 DEF Prune, PruneLedger
  <2> QED
    BY <1>4, <2>1 DEF Prune, TypeOK
<1>5. ASSUME NEW e \in Envelope, RefuseStore(e) \/ RefuseEnvelope(e) PROVE TypeOK'
  <2>1. answer' \in Answers
    <3>1. generation \in Generation /\ 0 \in Generation
      BY DEF TypeOK, Generation
    <3>2. PICK g \in Generation : answer' = [envelope |-> e, allow |-> FALSE, generation |-> g]
      BY <1>5, <3>1 DEF RefuseStore, RefuseEnvelope, Answered
    <3> QED
      BY <3>2 DEF Answers
  <2>2. UNCHANGED <<clock, generation, stores, mounted, released, executed>>
    BY <1>5 DEF RefuseStore, RefuseEnvelope
  <2> QED
    BY <2>1, <2>2 DEF TypeOK
<1>6. ASSUME NEW e \in Envelope, Release(e) PROVE TypeOK'
  <2>1. generation \in Generation \ {0}
    BY <1>6 DEF Release, GenerationGate, TypeOK
  <2>2. answer' \in Answers
    BY <1>6, <2>1 DEF Release, Answered, Answers
  <2>3. MintedEntry(e) \in Entries
    BY DEF MintedEntry, Entries
  <2>4. stores' \in [Generation -> SUBSET Entries]
    BY <1>0, <1>6, <2>3 DEF Release
  <2> DEFINE r == [token |-> e, at |-> clock, life |-> generation]
  <2>5. r \in Release3
    BY <1>0, <2>1 DEF Release3
  <2>6. released \in Seq(Release3) /\ released' = Append(released, r)
    BY <1>6 DEF Release, TypeOK, Release3
  <2> HIDE DEF r
  <2>7. released' \in Seq(Release3) /\ DOMAIN released \subseteq DOMAIN released'
    BY <2>5, <2>6, Appended
  <2>8. executed' \in Seq(DOMAIN released')
    <3>1. executed' = executed /\ executed \in Seq(DOMAIN released)
      BY <1>6 DEF Release, TypeOK
    <3> QED
      BY <2>7, <3>1
  <2>9. UNCHANGED <<clock, generation, mounted>>
    BY <1>6 DEF Release
  <2> QED
    BY <2>2, <2>4, <2>7, <2>8, <2>9 DEF TypeOK, Release3
<1>7. ASSUME NEW i \in DOMAIN released, Execute(i) PROVE TypeOK'
  <2>1. executed' \in Seq(DOMAIN released)
    BY <1>7, Appended DEF Execute, TypeOK
  <2>2. UNCHANGED <<clock, generation, stores, mounted, released>> /\ answer' = NoAnswer
    BY <1>7 DEF Execute
  <2> QED
    BY <2>1, <2>2 DEF TypeOK
<1>8. CASE UNCHANGED vars
  BY <1>8 DEF vars, TypeOK
<1> QED
  BY <1>1, <1>2, <1>3, <1>4, <1>5, <1>6, <1>7, <1>8 DEF Next, Judge

\* Type correctness of the ledgered judgment: no store ever holds anything but
\* entries minted from envelopes, and no fence is 0.
THEOREM LedgerTypeCorrect == Spec => []TypeOK
<1>1. Init => TypeOK
  BY LedgerAssumption DEF Init, TypeOK, Generation
<1> QED
  BY <1>1, TypeStep, PTL DEF Spec

-----------------------------------------------------------------------------
Inv == /\ LedgerInv
       /\ ReplayNeedsRotation /\ ExecutionsFollowGenerations /\ RefusalsBurnNothing

\* The steps of the host and the authority, which release and execute nothing.
LEMMA OutsideKeeps ==
  ASSUME TypeOK, Inv,
         \/ Tick \/ Resign \/ Unmount \/ Prune
         \/ \E g \in Generation : Mount(g)
  PROVE  Inv'
<1>1. /\ UNCHANGED <<released, executed>>
      /\ clock \in Nat /\ clock' \in Nat /\ clock <= clock'
      /\ generation \in Nat /\ generation' \in Nat /\ generation <= generation'
  BY LedgerAssumption DEF Tick, Resign, Unmount, Prune, Mount, TypeOK, Generation
<1>2. released \in Seq(Release3) /\ executed \in Seq(DOMAIN released)
  BY DEF TypeOK, Release3
<1>3. \A i \in DOMAIN released :
        /\ released[i].token \in Envelope /\ released[i].at \in Nat
        /\ released[i].life \in Generation /\ released[i].life \in Nat
        /\ released[i].token.expiresAt \in Nat
  <2> SUFFICES ASSUME NEW i \in DOMAIN released
               PROVE  /\ released[i].token \in Envelope /\ released[i].at \in Nat
                      /\ released[i].life \in Generation /\ released[i].life \in Nat
                      /\ released[i].token.expiresAt \in Nat
    OBVIOUS
  <2>1. released[i] \in Release3
    BY <1>2
  <2> QED
    BY <2>1, LedgerAssumption DEF Release3, Generation
<1>4. \A g \in Generation :
        /\ stores'[g] \subseteq stores[g]
        /\ \A en \in stores[g] : clock <= en.expiresAt => en \in stores'[g]
  BY DEF Tick, Resign, Unmount, Prune, Mount, PruneLedger, TypeOK
<1>5. ReleasesAreInTime'
  BY <1>1, <1>3 DEF Inv, LedgerInv, ReleasesAreInTime
<1>6. RememberedWhileGood'
  <2> SUFFICES ASSUME NEW i \in DOMAIN released, clock' <= released[i].token.expiresAt
               PROVE  MintedEntry(released[i].token) \in stores'[released[i].life]
    BY <1>1 DEF RememberedWhileGood
  <2>1. clock <= released[i].token.expiresAt
    BY <1>1, <1>3
  <2>2. MintedEntry(released[i].token) \in stores[released[i].life]
    BY <2>1 DEF Inv, LedgerInv, RememberedWhileGood
  <2>3. MintedEntry(released[i].token).expiresAt = released[i].token.expiresAt
    BY DEF MintedEntry
  <2> QED
    BY <1>3, <1>4, <2>1, <2>2, <2>3
<1>7. ExecutedIsPast'
  <2>1. \A i \in DOMAIN executed : executed[i] \in DOMAIN released
    BY <1>2
  <2> QED
    BY <1>1, <1>3, <2>1 DEF Inv, LedgerInv, ExecutedIsPast
<1>8. ReplayNeedsRotation' /\ ExecutionsFollowGenerations'
  BY <1>1 DEF Inv, ReplayNeedsRotation, ExecutionsFollowGenerations
<1>9. RefusalsBurnNothing'
  BY <1>1, <1>4 DEF Inv, RefusalsBurnNothing
<1> QED
  BY <1>5, <1>6, <1>7, <1>8, <1>9 DEF Inv, LedgerInv

\* A release is remembered, and it is none of an envelope that was released
\* under the live generation.
LEMMA ReleaseKeeps ==
  ASSUME TypeOK, Inv, NEW e \in Envelope, Release(e)
  PROVE  Inv'
<1> DEFINE r == [token |-> e, at |-> clock, life |-> generation]
           n == Len(released) + 1
<1>1. /\ clock \in Nat /\ generation \in Generation \ {0} /\ generation \in Nat
      /\ mounted = generation
  BY DEF Release, GenerationGate, TypeOK, Generation
<1>2. /\ r \in Release3 /\ r.token = e /\ r.at = clock /\ r.life = generation
  BY <1>1 DEF Release3
<1>3. /\ released \in Seq(Release3) /\ released' = Append(released, r)
      /\ UNCHANGED <<clock, generation, executed>>
  BY DEF Release, TypeOK, Release3
<1> HIDE DEF r
<1>4. /\ Len(released) \in Nat /\ DOMAIN released = 1 .. Len(released)
      /\ DOMAIN released' = 1 .. n /\ released'[n] = r
      /\ \A i \in DOMAIN released : released'[i] = released[i]
  BY <1>2, <1>3, Appended
<1>5. \A i \in DOMAIN released :
        /\ released[i].token \in Envelope /\ released[i].at \in Nat
        /\ released[i].life \in Generation /\ released[i].life \in Nat
  <2> SUFFICES ASSUME NEW i \in DOMAIN released
               PROVE  /\ released[i].token \in Envelope /\ released[i].at \in Nat
                      /\ released[i].life \in Generation /\ released[i].life \in Nat
    OBVIOUS
  <2>1. released[i] \in Release3
    BY <1>3
  <2> QED
    BY <2>1 DEF Release3, Generation
<1>6. \A i \in DOMAIN released' : (i \in DOMAIN released /\ i < n) \/ i = n
  BY <1>4
<1>7. /\ MintedEntry(e) \in stores'[generation]
      /\ \A g \in Generation : stores[g] \subseteq stores'[g]
      /\ \A g \in Generation : \A en \in stores'[g] :
           en \in stores[g] \/ (g = generation /\ en = MintedEntry(e))
  <2> DEFINE m == MintedEntry(e)
  <2>1. stores' = [stores EXCEPT ![generation] = @ \cup {m}]
    BY <1>1 DEF Release
  <2>2. stores \in [Generation -> SUBSET Entries]
    BY DEF TypeOK
  <2> HIDE DEF m
  <2>3. /\ m \in stores'[generation]
        /\ \A g \in Generation : stores[g] \subseteq stores'[g]
        /\ \A g \in Generation : \A en \in stores'[g] :
             en \in stores[g] \/ (g = generation /\ en = m)
    <3>1. stores'[generation] = stores[generation] \cup {m}
      BY <1>1, <2>1, <2>2
    <3>2. \A g \in Generation : g # generation => stores'[g] = stores[g]
      BY <2>1, <2>2
    <3> QED
      BY <3>1, <3>2
  <2> QED
    BY <2>3 DEF m
<1>8. /\ clock <= e.expiresAt
      /\ clock <= e.issuedAt + SignedConfig.maxApprovalTtl
  BY GatesBoundTheTime DEF Release
<1> HIDE DEF n
<1>9. \A i \in DOMAIN released :
        released[i].token = e => released[i].life < generation
  <2> SUFFICES ASSUME NEW i \in DOMAIN released, released[i].token = e,
                      ~(released[i].life < generation)
               PROVE  FALSE
    OBVIOUS
  <2>1. released[i].life = generation
    BY <1>1, <1>5 DEF Inv, LedgerInv, ReleasesAreInTime
  <2>2. MintedEntry(e) \in stores[generation]
    BY <1>8, <2>1 DEF Inv, LedgerInv, RememberedWhileGood
  <2>3. EntryMatches(MintedEntry(e), e)
    BY DEF EntryMatches, MintedEntry
  <2> QED
    BY <1>1, <2>2, <2>3 DEF Release, Consumed
<1>10. ReleasesAreInTime'
  <2> SUFFICES ASSUME NEW i \in DOMAIN released'
               PROVE  /\ released'[i].life <= generation
                      /\ released'[i].at <= clock
                      /\ released'[i].at <= released'[i].token.expiresAt
                      /\ released'[i].at <= released'[i].token.issuedAt
                                             + SignedConfig.maxApprovalTtl
    BY <1>3 DEF ReleasesAreInTime
  <2>1. CASE i \in DOMAIN released
    BY <1>4, <2>1 DEF Inv, LedgerInv, ReleasesAreInTime
  <2>2. CASE i = n
    BY <1>1, <1>2, <1>4, <1>8, <2>2
  <2> QED
    BY <1>6, <2>1, <2>2
<1>11. RememberedWhileGood'
  <2> SUFFICES ASSUME NEW i \in DOMAIN released', clock <= released'[i].token.expiresAt
               PROVE  MintedEntry(released'[i].token) \in stores'[released'[i].life]
    BY <1>3 DEF RememberedWhileGood
  <2>1. CASE i \in DOMAIN released
    <3>1. MintedEntry(released[i].token) \in stores[released[i].life]
      BY <1>4, <2>1 DEF Inv, LedgerInv, RememberedWhileGood
    <3> QED
      BY <1>4, <1>5, <1>7, <2>1, <3>1
  <2>2. CASE i = n
    BY <1>2, <1>4, <1>7, <2>2
  <2> QED
    BY <1>6, <2>1, <2>2
<1>12. \A k \in DOMAIN executed : executed[k] \in DOMAIN released
  BY DEF TypeOK
<1>13. ExecutedIsPast' /\ ExecutionsFollowGenerations'
  BY <1>3, <1>4, <1>12
     DEF Inv, LedgerInv, ExecutedIsPast, ExecutionsFollowGenerations
<1>14. ReplayNeedsRotation'
  <2> SUFFICES ASSUME NEW i \in DOMAIN released', NEW j \in DOMAIN released', i < j,
                      released'[i].token = released'[j].token
               PROVE  released'[i].life < released'[j].life
    BY <1>3, <1>10 DEF ReplayNeedsRotation, ReleasesAreInTime
  <2>1. i \in DOMAIN released /\ released'[i] = released[i]
    BY <1>4, <1>6
  <2>2. CASE j \in DOMAIN released
    BY <1>4, <2>1, <2>2 DEF Inv, ReplayNeedsRotation
  <2>3. CASE j = n
    BY <1>2, <1>4, <1>9, <2>1, <2>3
  <2> QED
    BY <1>6, <2>2, <2>3
<1>15. RefusalsBurnNothing'
  <2> SUFFICES ASSUME NEW g \in Generation, NEW en \in stores'[g]
               PROVE  \E i \in DOMAIN released' :
                        released'[i].life = g /\ MintedEntry(released'[i].token) = en
    BY DEF RefusalsBurnNothing
  <2>1. CASE en \in stores[g]
    <3>1. PICK i \in DOMAIN released :
            released[i].life = g /\ MintedEntry(released[i].token) = en
      BY <2>1 DEF Inv, RefusalsBurnNothing
    <3>2. i \in DOMAIN released' /\ released'[i] = released[i]
      BY <1>4 DEF n
    <3> QED
      BY <3>1, <3>2
  <2>2. CASE g = generation /\ en = MintedEntry(e)
    <3>1. n \in DOMAIN released'
      BY <1>4 DEF n
    <3> QED
      BY <1>2, <1>4, <2>2, <3>1
  <2> QED
    BY <1>7, <2>1, <2>2
<1> QED
  BY <1>10, <1>11, <1>13, <1>14, <1>15 DEF Inv, LedgerInv

\* The executor takes nothing but the live generation, which nothing it took
\* before can exceed.
LEMMA ExecuteKeeps ==
  ASSUME TypeOK, Inv, NEW i \in DOMAIN released, Execute(i)
  PROVE  Inv'
<1> DEFINE n == Len(executed) + 1
<1>1. UNCHANGED <<clock, generation, stores, released>> /\ released[i].life = generation
  BY DEF Execute, ExecutorAccepts
<1>2. /\ Len(executed) \in Nat /\ DOMAIN executed = 1 .. Len(executed)
      /\ DOMAIN executed' = 1 .. n /\ executed'[n] = i
      /\ \A k \in DOMAIN executed : executed'[k] = executed[k]
  <2>1. executed \in Seq(DOMAIN released) /\ executed' = Append(executed, i)
    BY DEF Execute, TypeOK
  <2> QED
    BY <2>1, Appended
<1>3. \A k \in DOMAIN executed' : (k \in DOMAIN executed /\ k < n) \/ k = n
  BY <1>2
<1>4. generation \in Nat
  BY DEF TypeOK, Generation
<1> HIDE DEF n
<1>5. ExecutedIsPast'
  BY <1>1, <1>2, <1>3, <1>4 DEF Inv, LedgerInv, ExecutedIsPast
<1>6. ExecutionsFollowGenerations'
  <2> SUFFICES ASSUME NEW j \in DOMAIN executed', NEW k \in DOMAIN executed', j <= k
               PROVE  released[executed'[j]].life <= released[executed'[k]].life
    BY <1>1 DEF ExecutionsFollowGenerations
  <2>1. CASE k = n
    BY <1>1, <1>2, <1>5, <2>1 DEF ExecutedIsPast
  <2>2. CASE k \in DOMAIN executed /\ k < n
    <3>1. j \in DOMAIN executed
      BY <1>2, <2>2, <1>3 DEF n
    <3> QED
      BY <1>2, <2>2, <3>1 DEF Inv, ExecutionsFollowGenerations
  <2> QED
    BY <1>3, <2>1, <2>2
<1>7. ReleasesAreInTime' /\ RememberedWhileGood' /\ ReplayNeedsRotation' /\ RefusalsBurnNothing'
  BY <1>1 DEF Inv, LedgerInv, ReleasesAreInTime, RememberedWhileGood,
              ReplayNeedsRotation, RefusalsBurnNothing
<1> QED
  BY <1>5, <1>6, <1>7 DEF Inv, LedgerInv

\* Every step keeps the invariant.
LEMMA InvStep ==
  ASSUME TypeOK, Inv, [Next]_vars
  PROVE  Inv'
<1>1. CASE \/ Tick \/ Resign \/ Unmount \/ Prune
           \/ \E g \in Generation : Mount(g)
  BY <1>1, OutsideKeeps
<1>2. CASE \E e \in Envelope : Release(e)
  BY <1>2, ReleaseKeeps
<1>3. CASE \E i \in DOMAIN released : Execute(i)
  BY <1>3, ExecuteKeeps
<1>4. CASE \/ \E e \in Envelope : RefuseStore(e) \/ RefuseEnvelope(e)
           \/ UNCHANGED vars
  <2>1. UNCHANGED <<clock, generation, stores, released, executed>>
    BY <1>4 DEF RefuseStore, RefuseEnvelope, vars
  <2> QED
    BY <2>1 DEF Inv, LedgerInv, ReleasesAreInTime, RememberedWhileGood, ExecutedIsPast,
                ReplayNeedsRotation, ExecutionsFollowGenerations, RefusalsBurnNothing
<1> QED
  BY <1>1, <1>2, <1>3, <1>4 DEF Next, Judge

\* The invariant of the ledgered judgment.
LEMMA LedgerInvariant == Spec => [](TypeOK /\ Inv)
<1>1. Init => TypeOK /\ Inv
  <2>1. Init => TypeOK
    BY LedgerAssumption DEF Init, TypeOK, Generation
  <2>2. Init => Inv
    BY DEF Init, Inv, LedgerInv, ReleasesAreInTime, RememberedWhileGood, ExecutedIsPast,
           ReplayNeedsRotation, ExecutionsFollowGenerations, RefusalsBurnNothing
  <2> QED
    BY <2>1, <2>2
<1>2. TypeOK /\ Inv /\ [Next]_vars => (TypeOK /\ Inv)'
  BY TypeStep, InvStep
<1> QED
  BY <1>1, <1>2, PTL DEF Spec

\* "No replay within the live authority domain": a signed envelope is released
\* again only under a later generation, and never past its window.
THEOREM ReplaysNeedRotation == Spec => []ReplayNeedsRotation
<1>1. Inv => ReplayNeedsRotation
  BY DEF Inv
<1> QED
  BY <1>1, LedgerInvariant, PTL

\* What the executor runs never goes back to an earlier generation.
THEOREM FencesHold == Spec => []ExecutionsFollowGenerations
<1>1. Inv => ExecutionsFollowGenerations
  BY DEF Inv
<1> QED
  BY <1>1, LedgerInvariant, PTL

-----------------------------------------------------------------------------
\* The ledgered judgment keeps the promise of SingleUseTokens, with the
\* generations as the lives.
THEOREM LedgerImplementsSingleUse == Spec => ImplementsSingleUse
<1>1. Init => Abstract!Init
  BY DEF Init, Abstract!Init
<1>2. TypeOK /\ Inv /\ [Next]_vars => [Abstract!Next]_<<generation, released>>
  <2> SUFFICES ASSUME TypeOK, Inv, [Next]_vars
               PROVE  [Abstract!Next]_<<generation, released>>
    OBVIOUS
  <2>1. CASE Resign
    BY <2>1 DEF Resign, Abstract!Next, Abstract!NewLife
  <2>2. ASSUME NEW e \in Envelope, Release(e)
        PROVE  Abstract!Next
    <3>1. clock \in 0 .. MaxClock /\ clock <= e.expiresAt
      BY <2>2, GatesBoundTheTime DEF Release, TypeOK
    <3>2. mounted = generation /\ ~Consumed(stores[mounted], e)
      BY <2>2 DEF Release, GenerationGate
    <3>3. EntryMatches(MintedEntry(e), e)
      BY DEF EntryMatches, MintedEntry
    <3>4. \A i \in DOMAIN released :
            ~(released[i].token = e /\ released[i].life = generation)
      BY <3>1, <3>2, <3>3 DEF Inv, LedgerInv, RememberedWhileGood, Consumed
    <3>5. Abstract!Usable(e, clock)
      BY <3>1, <3>4 DEF Abstract!Usable
    <3>6. /\ released' = Append(released, [token |-> e, at |-> clock, life |-> generation])
          /\ UNCHANGED generation
      BY <2>2 DEF Release
    <3>7. Abstract!Use(e, clock)
      BY <3>5, <3>6 DEF Abstract!Use
    <3> QED
      BY <3>1, <3>7 DEF Abstract!Next
  <2>3. CASE \/ Tick \/ Unmount \/ Prune
             \/ \E g \in Generation : Mount(g)
             \/ \E e \in Envelope : RefuseStore(e) \/ RefuseEnvelope(e)
             \/ \E i \in DOMAIN released : Execute(i)
             \/ UNCHANGED vars
    BY <2>3 DEF Tick, Unmount, Prune, Mount, RefuseStore, RefuseEnvelope, Execute, vars
  <2> QED
    BY <2>1, <2>2, <2>3 DEF Next, Judge
<1> QED
  BY <1>1, <1>2, LedgerInvariant, PTL DEF Spec, ImplementsSingleUse, Abstract!Spec

-----------------------------------------------------------------------------
\* "A blocked envelope burns nothing": what a store holds was released.
THEOREM RefusalsLeaveTheLedger == Spec => []RefusalsBurnNothing
<1>1. Inv => RefusalsBurnNothing
  BY DEF Inv
<1> QED
  BY <1>1, LedgerInvariant, PTL

\* An envelope that passes the gates and was not released under the live
\* generation is not refused by its store, whatever other principals released.
THEOREM FreshEnvelopesServe == Spec => FreshEnvelopeServes
<1>1. ASSUME TypeOK, Inv, [Next]_vars, NEW e \in Envelope,
             answer' # answer, answer' # NoAnswer, answer'.envelope = e,
             generation # 0, mounted = generation, EffectStep(e),
             \A i \in DOMAIN released :
               released[i].life = generation =>
                 released[i].token.keyId # e.keyId \/ released[i].token.nonce # e.nonce
      PROVE  answer'.allow
  <2>1. PICK f \in Envelope : Judge(f)
    BY <1>1 DEF Next, Tick, Resign, Unmount, Prune, Mount, Execute, vars
  <2>2. f = e
    BY <1>1, <2>1 DEF Judge, RefuseStore, RefuseEnvelope, Release, Answered
  <2>3. generation \in Generation /\ mounted # Unavailable /\ GenerationGate(mounted)
    BY <1>1, LedgerAssumption DEF TypeOK, Generation, GenerationGate
  <2>4. ~Consumed(stores[mounted], e)
    <3> SUFFICES ASSUME NEW en \in stores[generation], EntryMatches(en, e) PROVE FALSE
      BY <1>1 DEF Consumed
    <3>1. PICK i \in DOMAIN released :
            released[i].life = generation /\ MintedEntry(released[i].token) = en
      BY <1>1, <2>3 DEF Inv, RefusalsBurnNothing
    <3> QED
      BY <1>1, <3>1 DEF EntryMatches, MintedEntry
  <2>5. Release(e)
    BY <1>1, <2>1, <2>2, <2>3, <2>4 DEF Judge, RefuseStore, RefuseEnvelope
  <2> QED
    BY <2>5 DEF Release, Answered
<1>2. TypeOK /\ Inv /\ [Next]_vars =>
        [ \A e \in Envelope :
            /\ answer' # answer /\ answer' # NoAnswer /\ answer'.envelope = e
            /\ generation # 0 /\ mounted = generation /\ EffectStep(e)
            /\ \A i \in DOMAIN released :
                 released[i].life = generation =>
                   \/ released[i].token.keyId # e.keyId
                   \/ released[i].token.nonce # e.nonce
            => answer'.allow ]_vars
  BY <1>1
<1> QED
  BY <1>2, LedgerInvariant, PTL DEF Spec, FreshEnvelopeServes
=============================================================================
