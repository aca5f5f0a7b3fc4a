--------------------------- MODULE ServePathProofs ---------------------------
(***************************************************************************)
(* Theorems about the two hosts of the v2 validation: ReplaySession, for   *)
(* any number of threads, configurations and tokens and callers with any   *)
(* idea of the time, and SealTransport, for any lines, reads, tokens and   *)
(* bounds.                                                                 *)
(***************************************************************************)
EXTENDS ReplaySession, SealTransport, WellFoundedInduction, TLAPS

\* Among the candidates of findApproval there is a first one.
LEMMA FirstCandidate ==
  ASSUME NEW S, S \subseteq Nat, S # {}
  PROVE  (CHOOSE i \in S : \A j \in S : i <= j) \in S
<1>1. PICK i \in S : \A j \in S : ~(<<j, i>> \in OpToRel(<, Nat))
  BY NatLessThanWellFounded, WFMin
<1>2. \A j \in S : i <= j
  <2> SUFFICES ASSUME NEW j \in S, j < i PROVE FALSE
    OBVIOUS
  <2>1. <<j, i>> \in OpToRel(<, Nat)
    BY DEF OpToRel
  <2> QED
    BY <1>1, <2>1
<1> QED
  BY <1>2

\* What validation has found when it lets a request through.
LEMMA Found ==
  ASSUME NEW st \in States, NEW r, Validates(st, r)
  PROVE  LET k == FindApproval(st, TargetFor(st, r)) IN
           /\ k \in Token /\ k.target \in Target
           /\ st.now <= k.expiresAt
           /\ ~NonceConsumed(st, k.target, k)
<1> DEFINE t == TargetFor(st, r)
           S == Candidates(st, t)
<1>1. st.approvals \in Seq(Token) /\ st.config \in Config
  BY DEF States
<1>2. S \subseteq DOMAIN st.approvals /\ S # {}
  BY DEF Candidates, Validates
<1>3. S \subseteq Nat
  BY <1>1, <1>2
<1>4. (CHOOSE i \in S : \A j \in S : i <= j) \in S
  <2> HIDE DEF S
  <2> QED
    BY <1>2, <1>3, FirstCandidate
<1>5. FindApproval(st, t) \in Token
  BY <1>1, <1>2, <1>4 DEF FindApproval
<1>6. t \in Target
  BY <1>1, SessionAssumption DEF TargetFor, Target, Validates
<1>7. ApprovalLiveFor(st, t, FindApproval(st, t))
  BY DEF Validates
<1> QED
  BY <1>5, <1>6, <1>7 DEF ApprovalLiveFor

\* What is recorded of it belongs in the store.
LEMMA EntryType ==
  ASSUME NEW st \in States, NEW k \in Token, k.target \in Target
  PROVE  Entry(st, k) \in Entries
<1>1. st.config \in Config
  BY DEF States
<1>2. Namespace(st, k.target) \in
        [publicKey : {c.publicKey : c \in Config}, target : Target,
         session : {c.session : c \in Config},
         policyVersion : {c.policyVersion : c \in Config}]
  BY <1>1 DEF Namespace
<1>3. k.expiresAt \in Nat
  BY SessionAssumption
<1> QED
  BY <1>2, <1>3 DEF Entry, Entries

LEMMA ConsumeType ==
  ASSUME NEW st \in States, NEW k \in Token, k.target \in Target
  PROVE  /\ Consume(st, k) \in States
         /\ Consume(st, k).config = st.config /\ Consume(st, k).approvals = st.approvals
         /\ Consume(st, k).consumed =
              {e \in st.consumed : st.now <= e.expiresAt} \cup {Entry(st, k)}
<1> DEFINE store == PruneConsumed(st.now, st.consumed) \cup {Entry(st, k)}
<1>1. store \subseteq Entries
  BY EntryType DEF PruneConsumed, States
<1>2. st = [config |-> st.config, approvals |-> st.approvals,
            consumed |-> st.consumed, now |-> st.now]
  BY DEF States
<1>3. Consume(st, k) = [config |-> st.config, approvals |-> st.approvals,
                        consumed |-> store, now |-> st.now]
  BY <1>2 DEF Consume
<1>4. Consume(st, k) \in States
  BY <1>1, <1>3 DEF States
<1> QED
  BY <1>3, <1>4 DEF PruneConsumed

LEMMA AtClockType ==
  ASSUME NEW st \in States, NEW n \in Clock \cup {NoNow}
  PROVE  /\ AtClock(st, n) \in States
         /\ AtClock(st, n).config = st.config /\ AtClock(st, n).approvals = st.approvals
         /\ AtClock(st, n).consumed = st.consumed
  BY DEF AtClock, States

LEMMA AddType ==
  ASSUME NEW st \in States, NEW k \in Token
  PROVE  LET new == [st EXCEPT !.approvals = Append(@, k)] IN
           /\ new \in States /\ new.config = st.config /\ new.consumed = st.consumed
           /\ new.approvals = Append(st.approvals, k)
<1> DEFINE new == [st EXCEPT !.approvals = Append(@, k)]
<1>1. st = [config |-> st.config, approvals |-> st.approvals,
            consumed |-> st.consumed, now |-> st.now]
  BY DEF States
<1>2. new = [config |-> st.config, approvals |-> Append(st.approvals, k),
             consumed |-> st.consumed, now |-> st.now]
  BY <1>1
<1> HIDE DEF new
<1>3. /\ new \in States /\ new.config = st.config /\ new.consumed = st.consumed
      /\ new.approvals = Append(st.approvals, k)
  BY <1>2 DEF States
<1> QED
  BY <1>3 DEF new

LEMMA OpFields ==
  ASSUME TypeOK, NEW h \in Thread
  PROVE  /\ op[h].kind = "decide" => op[h].now \in Clock \cup {NoNow}
         /\ op[h].kind = "init" => op[h].config \in Config \cup {NoConfig}
         /\ op[h].kind = "add_approval" => op[h].token \in Token \cup {NoToken}
<1>1. op[h] \in Ops \cup {NoOp}
  BY DEF TypeOK
<1> QED
  BY <1>1 DEF Ops, NoOp

-----------------------------------------------------------------------------
\* One decide either leaves the session and the history alone or extends both
\* with a token that is good in the snapshot.
LEMMA Decided ==
  ASSUME TypeOK, NEW h \in Thread, RunDecide(h)
  PROVE  \/ UNCHANGED <<session, allowed>>
         \/ \E st \in States, k \in Token :
              /\ snap[h] \in States
              /\ st.config = snap[h].config /\ st.consumed = snap[h].consumed
              /\ st.approvals = snap[h].approvals
              /\ k.target \in Target /\ st.now <= k.expiresAt /\ st.now \in Clock
              /\ op[h].now # NoNow => st.now = op[h].now
              /\ ~NonceConsumed(st, k.target, k)
              /\ session' = Consume(st, k)
              /\ allowed' = Append(allowed, [token |-> k, at |-> st.now, life |-> life])
<1> DEFINE st == AtClock(snap[h], op[h].now)
           k  == FindApproval(st, TargetFor(st, op[h].request))
<1>1. CASE UNCHANGED <<session, allowed>>
  BY <1>1
<1>2. CASE ~UNCHANGED <<session, allowed>>
  <2>1. /\ snap[h] # NoSession /\ Validates(st, op[h].request)
        /\ session' = Consume(st, k)
        /\ allowed' = Append(allowed, [token |-> k, at |-> st.now, life |-> life])
    BY <1>2 DEF RunDecide
  <2>2. snap[h] \in States
    BY <2>1 DEF TypeOK
  <2>3. op[h].now \in Clock \cup {NoNow}
    BY OpFields DEF RunDecide, Runs
  <2>4. /\ st \in States /\ st.config = snap[h].config
        /\ st.consumed = snap[h].consumed /\ st.approvals = snap[h].approvals
    BY <2>2, <2>3, AtClockType
  <2>5. op[h].now # NoNow => st.now = op[h].now
    <3>1. snap[h] = [config |-> snap[h].config, approvals |-> snap[h].approvals,
                     consumed |-> snap[h].consumed, now |-> snap[h].now]
      BY <2>2 DEF States
    <3> QED
      BY <3>1 DEF AtClock
  <2> HIDE DEF st
  <2>6. /\ k \in Token /\ k.target \in Target /\ st.now <= k.expiresAt
        /\ ~NonceConsumed(st, k.target, k)
    BY <2>1, <2>4, Found
  <2>7. st.now \in Clock
    BY <2>4 DEF States
  <2> HIDE DEF k
  <2> QED
    BY <2>1, <2>2, <2>4, <2>6, <2>7, <2>5
<1> QED
  BY <1>1, <1>2

-----------------------------------------------------------------------------
\* Type correctness of the session: whatever is stored is an ApprovalState, so
\* a malformed clock never becomes the clock of the session.
THEOREM SessionTypeCorrect == Spec => []TypeOK
<1> USE SessionAssumption DEF Clock
<1>1. Init => TypeOK
  BY DEF Init, TypeOK
<1>2. TypeOK /\ [Next]_vars => TypeOK'
  <2> SUFFICES ASSUME TypeOK, [Next]_vars PROVE TypeOK'
    OBVIOUS
  <2> USE DEF TypeOK, threadVars
  <2>1. CASE Tick
    BY <2>1 DEF Tick
  <2>2. CASE Crash
    BY <2>2 DEF Crash
  <2>3. ASSUME NEW h \in Thread, Step(h) PROVE TypeOK'
    <3>1. CASE Lock(h)
      BY <3>1 DEF Lock
    <3>2. CASE Get(h)
      BY <3>2 DEF Get
    <3>3. CASE RunInit(h)
      <4>1. CASE op[h].config = NoConfig
        BY <3>3, <4>1 DEF RunInit, Runs
      <4>2. CASE op[h].config # NoConfig
        <5>1. op[h].config \in Config
          BY <3>3, <4>2, OpFields DEF RunInit, Runs
        <5>2. Opened(op[h].config) \in States
          BY <5>1 DEF Opened, States
        <5> QED
          BY <3>3, <4>2, <5>2 DEF RunInit, Runs
      <4> QED
        BY <4>1, <4>2
    <3>4. CASE RunAddApproval(h)
      <4>1. CASE snap[h] = NoSession \/ op[h].token = NoToken
        BY <3>4, <4>1 DEF RunAddApproval, Runs
      <4>2. CASE ~(snap[h] = NoSession \/ op[h].token = NoToken)
        <5>1. op[h].token \in Token /\ snap[h] \in States
          BY <3>4, <4>2, OpFields DEF RunAddApproval, Runs
        <5>2. [snap[h] EXCEPT !.approvals = Append(@, op[h].token)] \in States
          BY <5>1, AddType
        <5> QED
          BY <3>4, <4>2, <5>1, <5>2 DEF RunAddApproval, Runs
      <4> QED
        BY <4>1, <4>2
    <3>5. CASE RunDecide(h)
      <4>1. session' \in States \cup {NoSession}
        <5>1. CASE UNCHANGED <<session, allowed>>
          BY <5>1
        <5>2. CASE ~UNCHANGED <<session, allowed>>
          <6>1. PICK st \in States, k \in Token :
                  k.target \in Target /\ session' = Consume(st, k)
            BY <3>5, <5>2, Decided
          <6> QED
            BY <6>1, ConsumeType
        <5> QED
          BY <5>1, <5>2
      <4>2. allowed' \in Seq([token : Token, at : Clock, life : Nat])
        <5>1. CASE UNCHANGED allowed
          BY <5>1
        <5>2. CASE ~UNCHANGED allowed
          <6>1. PICK k \in Token, t \in Clock :
                  allowed' = Append(allowed, [token |-> k, at |-> t, life |-> life])
            BY <3>5, <5>2, Decided
          <6> QED
            BY <6>1
        <5> QED
          BY <5>1, <5>2
      <4> QED
        BY <3>5, <4>1, <4>2 DEF RunDecide, Runs
    <3>6. CASE RunChallenge(h)
      BY <3>6 DEF RunChallenge, Runs
    <3>7. CASE Unlock(h)
      BY <3>7 DEF Unlock, Released
    <3> QED
      BY <2>3, <3>1, <3>2, <3>3, <3>4, <3>5, <3>6, <3>7 DEF Step
  <2>4. ASSUME NEW h \in Thread, NEW o \in Calls, Call(h, o) PROVE TypeOK'
    <3>1. o \in Ops
      BY DEF Calls, Ops, Nows
    <3> QED
      BY <2>4, <3>1 DEF Call
  <2>5. CASE UNCHANGED vars
    BY <2>5 DEF vars
  <2> QED
    BY <2>1, <2>2, <2>3, <2>4, <2>5 DEF Next, Rest
<1> QED
  BY <1>1, <1>2, PTL DEF Spec

-----------------------------------------------------------------------------
(***************************************************************************)
(* Single use.  TypeOK /\ SessionInv is inductive: the mutex makes every    *)
(* snapshot current, and an Allow forgets only what its own time is past.  *)
(***************************************************************************)

\* The entry of a token depends on the configuration of the session alone.
LEMMA SameEntry ==
  ASSUME NEW a, NEW b, a.config = b.config, NEW k
  PROVE  Entry(a, k) = Entry(b, k)
  BY DEF Entry, Namespace

LEMMA AllowedEntries ==
  ASSUME TypeOK, NEW i \in DOMAIN allowed
  PROVE  /\ allowed[i].token \in Token /\ allowed[i].token.expiresAt \in Nat
         /\ allowed[i].at \in Clock /\ allowed[i].life \in Nat
<1> DEFINE S == [token : Token, at : Clock, life : Nat]
<1>1. allowed \in Seq(S)
  BY DEF TypeOK
<1> HIDE DEF S
<1>2. allowed[i] \in S
  BY <1>1
<1>3. allowed[i].token \in Token /\ allowed[i].at \in Clock /\ allowed[i].life \in Nat
  BY <1>2 DEF S
<1> QED
  BY <1>3, SessionAssumption

\* An Allow keeps every token of this life remembered until it is expired.
LEMMA DecideRemembers ==
  ASSUME TypeOK, SessionInv, NEW h \in Thread, RunDecide(h)
  PROVE  RememberedUntilExpiry' /\ NoFutureLife'
<1>1. CASE UNCHANGED <<session, allowed>>
  BY <1>1 DEF RunDecide, SessionInv, RememberedUntilExpiry, NoFutureLife
<1>2. CASE ~UNCHANGED <<session, allowed>>
  <2>1. PICK st \in States, k \in Token :
          /\ snap[h] \in States
          /\ st.config = snap[h].config /\ st.consumed = snap[h].consumed
          /\ k.target \in Target /\ st.now <= k.expiresAt /\ st.now \in Clock
          /\ session' = Consume(st, k)
          /\ allowed' = Append(allowed, [token |-> k, at |-> st.now, life |-> life])
    BY <1>2, Decided
  <2>2. snap[h] = session /\ life' = life
    BY DEF RunDecide, Runs, SessionInv, SnapshotIsCurrent
  <2>3. /\ session' \in States /\ session' # NoSession
        /\ session'.config = session.config
        /\ session'.consumed =
             {e \in session.consumed : st.now <= e.expiresAt} \cup {Entry(session, k)}
    <3>1. Entry(st, k) = Entry(session, k)
      BY <2>1, <2>2, SameEntry
    <3> QED
      BY <2>1, <2>2, <3>1, ConsumeType, NoSessionAssumption
  <2> DEFINE new == [token |-> k, at |-> st.now, life |-> life]
             n == Len(allowed)
  <2>4. /\ n \in Nat /\ DOMAIN allowed = 1 .. n
        /\ Len(allowed') = n + 1 /\ DOMAIN allowed' = 1 .. n + 1
        /\ \A i \in 1 .. n : allowed'[i] = allowed[i]
        /\ allowed'[n + 1] = new
    <3> HIDE DEF new
    <3>1. new \in [token : Token, at : Clock, life : Nat]
      BY <2>1 DEF new, TypeOK
    <3>2. allowed \in Seq([token : Token, at : Clock, life : Nat])
      BY DEF TypeOK
    <3>3. allowed' = Append(allowed, new)
      BY <2>1 DEF new
    <3> QED
      BY <3>1, <3>2, <3>3
  <2>5. new.token = k /\ new.at = st.now /\ new.life = life
    OBVIOUS
  <2> HIDE DEF n, new
  <2>6. ASSUME NEW i \in 1 .. n + 1, allowed'[i].life = life
        PROVE  \/ Entry(session', allowed'[i].token) \in session'.consumed
               \/ \E j \in i + 1 .. n + 1 :
                    allowed'[j].life = life /\ allowed'[j].at > allowed'[i].token.expiresAt
    <3>1. CASE i = n + 1
      <4>1. Entry(session', k) = Entry(session, k)
        BY <2>3, SameEntry
      <4> QED
        BY <2>3, <2>4, <2>5, <3>1, <4>1
    <3>2. CASE i \in 1 .. n
      <4> DEFINE x == allowed[i].token
      <4>1. allowed'[i] = allowed[i] /\ x \in Token /\ x.expiresAt \in Nat
        BY <2>4, <3>2, AllowedEntries
      <4>2. Entry(session', x) = Entry(session, x)
        BY <2>3, SameEntry
      <4>3. Entry(session, x).expiresAt = x.expiresAt
        BY DEF Entry
      <4>4. \/ Entry(session, x) \in session.consumed
            \/ \E j \in i + 1 .. n : allowed[j].life = life /\ allowed[j].at > x.expiresAt
        BY <2>4, <2>6, <3>2, <4>1 DEF SessionInv, RememberedUntilExpiry, n
      <4>5. CASE /\ Entry(session, x) \in session.consumed
                 /\ st.now <= x.expiresAt
        BY <2>3, <4>1, <4>2, <4>3, <4>5
      <4>6. CASE ~(st.now <= x.expiresAt)
        <5>1. st.now > x.expiresAt
          BY <2>1, <4>1, <4>6, SessionAssumption DEF Clock
        <5>2. n + 1 \in i + 1 .. n + 1
          BY <2>4, <3>2
        <5> QED
          BY <2>4, <2>5, <4>1, <5>1, <5>2
      <4>7. CASE \E j \in i + 1 .. n : allowed[j].life = life /\ allowed[j].at > x.expiresAt
        <5>1. PICK j \in i + 1 .. n : allowed[j].life = life /\ allowed[j].at > x.expiresAt
          BY <4>7
        <5>2. j \in i + 1 .. n + 1 /\ j \in 1 .. n
          BY <2>4, <3>2
        <5> QED
          BY <2>4, <4>1, <5>1, <5>2
      <4> QED
        BY <4>4, <4>5, <4>6, <4>7
    <3> QED
      BY <2>4, <3>1, <3>2
  <2>7. RememberedUntilExpiry'
    BY <2>2, <2>3, <2>4, <2>6 DEF RememberedUntilExpiry
  <2>8. NoFutureLife'
    BY <2>2, <2>4, <2>5 DEF NoFutureLife, SessionInv, TypeOK
  <2> QED
    BY <2>7, <2>8
<1> QED
  BY <1>1, <1>2

\* A new life owes nothing to the uses of the former ones.
LEMMA NewLifeRemembers ==
  ASSUME TypeOK, SessionInv, life' = life + 1, UNCHANGED allowed
  PROVE  RememberedUntilExpiry' /\ NoFutureLife'
<1>1. \A i \in DOMAIN allowed : allowed[i].life \in Nat /\ allowed[i].life <= life
  BY AllowedEntries DEF SessionInv, NoFutureLife
<1>2. \A i \in DOMAIN allowed : allowed[i].life # life' /\ allowed[i].life <= life'
  BY <1>1 DEF TypeOK
<1> QED
  BY <1>2 DEF RememberedUntilExpiry, NoFutureLife

\* A step that keeps the configuration and the store keeps what they remember.
LEMMA QuietRemembers ==
  ASSUME SessionInv, UNCHANGED <<life, allowed>>,
         session # NoSession => /\ session' # NoSession
                                /\ session'.config = session.config
                                /\ session'.consumed = session.consumed
  PROVE  RememberedUntilExpiry' /\ NoFutureLife'
<1>1. ASSUME NEW i \in DOMAIN allowed, allowed[i].life = life
      PROVE  /\ session' # NoSession
             /\ \/ Entry(session', allowed[i].token) \in session'.consumed
                \/ \E j \in i + 1 .. Len(allowed) :
                     allowed[j].life = life /\ allowed[j].at > allowed[i].token.expiresAt
  <2>1. session # NoSession
    BY <1>1 DEF SessionInv, RememberedUntilExpiry
  <2>2. Entry(session', allowed[i].token) = Entry(session, allowed[i].token)
    BY <2>1, SameEntry
  <2> QED
    BY <1>1, <2>1, <2>2 DEF SessionInv, RememberedUntilExpiry
<1>2. RememberedUntilExpiry'
  BY <1>1 DEF RememberedUntilExpiry
<1> QED
  BY <1>2 DEF SessionInv, NoFutureLife

\* A step under the mutex: no other thread is between Lock and Unlock.
LEMMA MutexKeeps ==
  ASSUME TypeOK, SessionInv, NEW h \in Thread, Step(h)
  PROVE  MutexHeld' /\ SnapshotIsCurrent'
<1> USE SessionAssumption DEF TypeOK, SessionInv, MutexHeld, SnapshotIsCurrent
<1>1. CASE Lock(h)
  BY <1>1 DEF Lock, LockFree
<1>2. CASE Get(h)
  BY <1>2 DEF Get
<1>3. CASE \E kind \in {"init", "add_approval", "decide", "challenge"} : Runs(h, kind)
  BY <1>3 DEF Runs
<1>4. CASE Unlock(h)
  BY <1>4 DEF Unlock, Released, NoOp
<1> QED
  BY <1>1, <1>2, <1>3, <1>4 DEF Step, RunInit, RunAddApproval, RunDecide, RunChallenge

LEMMA SessionInvInductive ==
  ASSUME TypeOK, SessionInv, [Next]_vars
  PROVE  SessionInv'
<1>1. CASE Tick \/ Rest \/ UNCHANGED vars
  <2>1. UNCHANGED <<session, threadVars, life, allowed>>
    BY <1>1 DEF Tick, Rest, vars
  <2> QED
    BY <2>1 DEF threadVars, SessionInv, MutexHeld, SnapshotIsCurrent,
                RememberedUntilExpiry, NoFutureLife
<1>2. CASE Crash
  <2>1. MutexHeld' /\ SnapshotIsCurrent'
    BY <1>2, SessionAssumption DEF Crash, MutexHeld, SnapshotIsCurrent
  <2>2. RememberedUntilExpiry' /\ NoFutureLife'
    BY <1>2, NewLifeRemembers DEF Crash
  <2> QED
    BY <2>1, <2>2 DEF SessionInv
<1>3. ASSUME NEW h \in Thread, Step(h) PROVE SessionInv'
  <2>1. MutexHeld' /\ SnapshotIsCurrent'
    BY <1>3, MutexKeeps
  <2>2. RememberedUntilExpiry' /\ NoFutureLife'
    <3>1. CASE Lock(h) \/ Get(h) \/ RunChallenge(h) \/ Unlock(h)
      <4>1. UNCHANGED <<session, life, allowed>>
        BY <3>1 DEF Lock, Get, RunChallenge, Unlock
      <4> QED
        BY <4>1, QuietRemembers
    <3>2. CASE RunInit(h)
      <4>1. CASE op[h].config = NoConfig
        BY <3>2, <4>1, QuietRemembers DEF RunInit
      <4>2. CASE op[h].config # NoConfig
        BY <3>2, <4>2, NewLifeRemembers DEF RunInit
      <4> QED
        BY <4>1, <4>2
    <3>3. CASE RunAddApproval(h)
      <4>1. CASE snap[h] = NoSession \/ op[h].token = NoToken
        BY <3>3, <4>1, QuietRemembers DEF RunAddApproval
      <4>2. CASE ~(snap[h] = NoSession \/ op[h].token = NoToken)
        <5>1. op[h].token \in Token /\ snap[h] \in States /\ snap[h] = session
          BY <3>3, <4>2, OpFields
          DEF RunAddApproval, Runs, TypeOK, SessionInv, SnapshotIsCurrent
        <5>2. session' = [session EXCEPT !.approvals = Append(@, op[h].token)]
          BY <3>3, <4>2, <5>1 DEF RunAddApproval
        <5>3. /\ session' \in States /\ session'.config = session.config
              /\ session'.consumed = session.consumed
          BY <5>1, <5>2, AddType
        <5>4. session' # NoSession
          BY <5>3, NoSessionAssumption
        <5> QED
          BY <3>3, <5>3, <5>4, QuietRemembers DEF RunAddApproval
      <4> QED
        BY <4>1, <4>2
    <3>4. CASE RunDecide(h)
      BY <3>4, DecideRemembers
    <3> QED
      BY <1>3, <3>1, <3>2, <3>3, <3>4 DEF Step
  <2> QED
    BY <2>1, <2>2 DEF SessionInv
<1>4. ASSUME NEW h \in Thread, NEW o \in Calls, Call(h, o) PROVE SessionInv'
  <2>1. MutexHeld' /\ SnapshotIsCurrent'
    BY <1>4 DEF Call, TypeOK, SessionInv, MutexHeld, SnapshotIsCurrent
  <2>2. RememberedUntilExpiry' /\ NoFutureLife'
    BY <1>4, QuietRemembers DEF Call
  <2> QED
    BY <2>1, <2>2 DEF SessionInv
<1> QED
  BY <1>1, <1>2, <1>3, <1>4 DEF Next

\* Under the mutex what a call has read is what its write replaces, and a used
\* token is remembered until a later use was past its expiry.
THEOREM SessionInvariant == Spec => []SessionInv
<1>1. Init => SessionInv
  BY SessionAssumption DEF Init, SessionInv, MutexHeld, SnapshotIsCurrent,
     RememberedUntilExpiry, NoFutureLife
<1>2. TypeOK /\ SessionInv /\ [Next]_vars => SessionInv'
  BY SessionInvInductive
<1> QED
  BY <1>1, <1>2, SessionTypeCorrect, PTL DEF Spec

-----------------------------------------------------------------------------
\* The history of an Allow in full: the token is one that may be used.
LEMMA AllowIsUse ==
  ASSUME TypeOK, SessionInv, NEW h \in Thread, RunDecide(h), ~UNCHANGED allowed
  PROVE  \E k \in Token, t \in Clock :
           /\ Abstract!Use(k, t)
           /\ op[h].now # NoNow => t = op[h].now
<1>1. PICK st \in States, k \in Token :
        /\ st.config = snap[h].config /\ st.consumed = snap[h].consumed
        /\ st.now <= k.expiresAt /\ st.now \in Clock
        /\ op[h].now # NoNow => st.now = op[h].now
        /\ ~NonceConsumed(st, k.target, k)
        /\ allowed' = Append(allowed, [token |-> k, at |-> st.now, life |-> life])
  BY Decided
<1>2. snap[h] = session /\ life' = life
  BY DEF RunDecide, Runs, SessionInv, SnapshotIsCurrent
<1>3. Entry(session, k) \notin session.consumed
  <2> SUFFICES ASSUME Entry(session, k) \in session.consumed PROVE FALSE
    OBVIOUS
  <2>1. Entry(st, k) = Entry(session, k)
    BY <1>1, <1>2, SameEntry
  <2>2. Entry(st, k) \in PruneConsumed(st.now, st.consumed)
    BY <1>1, <1>2, <2>1 DEF PruneConsumed, Entry
  <2> QED
    BY <1>1, <2>2 DEF NonceConsumed, Contains, Entry
<1>4. ASSUME NEW i \in DOMAIN allowed, allowed[i].token = k, allowed[i].life = life
      PROVE  \E j \in i + 1 .. Len(allowed) :
               allowed[j].life = life /\ allowed[j].at > k.expiresAt
  BY <1>3, <1>4 DEF SessionInv, RememberedUntilExpiry
<1>5. Abstract!Use(k, st.now)
  BY <1>1, <1>2, <1>4 DEF Abstract!Use, Abstract!Usable
<1> QED
  BY <1>1, <1>5

\* However many threads call and whatever time they name, the session keeps
\* the promise of SingleUseTokens.
THEOREM SessionImplementsSingleUse == Spec => ImplementsSingleUse
<1>1. Init => Abstract!Init
  BY DEF Init, Abstract!Init
<1>2. TypeOK /\ SessionInv /\ [Next]_vars
        => [Abstract!Next]_<<life, allowed>>
  <2> SUFFICES ASSUME TypeOK, SessionInv, [Next]_vars
               PROVE  Abstract!Next \/ UNCHANGED <<life, allowed>>
    OBVIOUS
  <2>1. CASE Tick \/ Rest \/ UNCHANGED vars
    BY <2>1 DEF Tick, Rest, vars
  <2>2. CASE Crash
    BY <2>2 DEF Crash, Abstract!Next, Abstract!NewLife
  <2>3. ASSUME NEW h \in Thread, Step(h)
        PROVE  Abstract!Next \/ UNCHANGED <<life, allowed>>
    <3>1. CASE Lock(h) \/ Get(h) \/ RunAddApproval(h) \/ RunChallenge(h) \/ Unlock(h)
      BY <3>1 DEF Lock, Get, RunAddApproval, RunChallenge, Unlock
    <3>2. CASE RunInit(h)
      BY <3>2 DEF RunInit, Abstract!Next, Abstract!NewLife
    <3>3. CASE RunDecide(h) /\ UNCHANGED allowed
      BY <3>3 DEF RunDecide
    <3>4. CASE RunDecide(h) /\ ~UNCHANGED allowed
      BY <3>4, AllowIsUse DEF Abstract!Next
    <3> QED
      BY <2>3, <3>1, <3>2, <3>3, <3>4 DEF Step
  <2>4. ASSUME NEW h \in Thread, NEW o \in Calls, Call(h, o)
        PROVE  UNCHANGED <<life, allowed>>
    BY <2>4 DEF Call
  <2> QED
    BY <2>1, <2>2, <2>3, <2>4 DEF Next
<1> QED
  BY <1>1, <1>2, SessionTypeCorrect, SessionInvariant, PTL
  DEF Spec, ImplementsSingleUse, Abstract!Spec

-----------------------------------------------------------------------------
(***************************************************************************)
(* One thread with an honest clock, as in serve: its `now` never goes back *)
(* between two decides, so the second use never comes.                     *)
(***************************************************************************)
TimeAdvances ==
  /\ \A i \in DOMAIN allowed : allowed[i].at <= clock
  /\ \A h \in Thread : op[h].kind = "decide" =>
       /\ op[h].now \in Clock /\ op[h].now <= clock
       /\ \A i \in DOMAIN allowed : allowed[i].at <= op[h].now

LEMMA SerialInductive ==
  ASSUME HonestClock, \A g, h \in Thread : g = h,
         TypeOK, SessionInv, TimeAdvances, SingleUse, [Next]_vars
  PROVE  TimeAdvances' /\ SingleUse'
<1> USE SessionAssumption DEF Clock
<1>0. NoNow \notin Clock
  OBVIOUS
<1>1. CASE UNCHANGED allowed
  <2>1. SingleUse'
    BY <1>1 DEF SingleUse
  <2>2. \A i \in DOMAIN allowed : allowed[i].at \in Clock
    BY AllowedEntries
  <2>3. clock \in Clock /\ clock' \in Clock /\ clock <= clock'
    <3>1. Tick \/ UNCHANGED clock
      BY Zenon DEF Next, Crash, Rest, Step, Lock, Get, RunInit, RunAddApproval,
         RunDecide, RunChallenge, Unlock, Runs, Call, vars
    <3> QED
      BY <3>1 DEF TypeOK, Tick
  <2>4. ASSUME NEW h \in Thread, op'[h].kind = "decide"
        PROVE  \/ op'[h] = op[h]
               \/ op'[h].now = clock
    <3>1. CASE UNCHANGED op
      BY <3>1
    <3>2. ASSUME NEW g \in Thread, NEW o \in Calls, Call(g, o)
          PROVE  op'[h] = op[h] \/ op'[h].now = clock
      <4>1. op'[h] = op[h] \/ op'[h] = o
        BY <3>2 DEF Call, TypeOK
      <4>2. o.kind = "decide" => o.now = clock
        BY DEF Calls, Nows
      <4> QED
        BY <2>4, <4>1, <4>2
    <3>3. ASSUME NEW g \in Thread, Unlock(g)
          PROVE  op'[h] = op[h]
      BY <2>4, <3>3 DEF Unlock, TypeOK, NoOp
    <3>4. CASE Crash
      BY <2>4, <3>4 DEF Crash, NoOp
    <3>5. \/ Crash \/ UNCHANGED op
          \/ \E g \in Thread : Unlock(g) \/ \E o \in Calls : Call(g, o)
      BY Zenon DEF Next, Tick, Rest, Step, Lock, Get, RunInit, RunAddApproval,
         RunDecide, RunChallenge, Runs, vars, threadVars
    <3> QED
      BY <3>1, <3>2, <3>3, <3>4, <3>5
  <2>5. TimeAdvances'
    BY <1>1, <2>2, <2>3, <2>4 DEF TimeAdvances
  <2> QED
    BY <2>1, <2>5
<1>2. CASE ~UNCHANGED allowed
  <2>1. PICK h \in Thread : RunDecide(h)
    BY <1>2 DEF Next, Tick, Crash, Rest, Step, Lock, Get, RunInit, RunAddApproval,
       RunChallenge, Unlock, Runs, Call, vars
  <2>2. /\ op[h].now \in Clock /\ op[h].now <= clock /\ clock \in Clock
        /\ \A i \in DOMAIN allowed : allowed[i].at <= op[h].now
        /\ UNCHANGED <<clock, op>>
    BY <2>1 DEF TimeAdvances, RunDecide, Runs, TypeOK
  <2>3. PICK k \in Token : Abstract!Use(k, op[h].now)
    BY <1>0, <1>2, <2>1, <2>2, AllowIsUse
  <2> DEFINE n == Len(allowed)
             new == [token |-> k, at |-> op[h].now, life |-> life]
  <2>4. /\ n \in Nat /\ DOMAIN allowed = 1 .. n /\ DOMAIN allowed' = 1 .. n + 1
        /\ \A i \in 1 .. n : allowed'[i] = allowed[i]
        /\ allowed'[n + 1] = new
    <3>1. allowed' = Append(allowed, new)
      BY <2>3 DEF Abstract!Use
    <3> HIDE DEF new
    <3>2. allowed \in Seq([token : Token, at : Clock, life : Nat])
      BY DEF TypeOK
    <3>3. new \in [token : Token, at : Clock, life : Nat]
      BY <2>2 DEF new, TypeOK
    <3> QED
      BY <3>1, <3>2, <3>3
  <2>5. new.token = k /\ new.at = op[h].now /\ new.life = life
    OBVIOUS
  <2>6. ASSUME NEW i \in 1 .. n, allowed[i].life = life, allowed[i].token = k
        PROVE  FALSE
    <3>1. PICK j \in i + 1 .. n : allowed[j].at > k.expiresAt
      BY <2>3, <2>4, <2>6 DEF Abstract!Use, Abstract!Usable
    <3>2. op[h].now <= k.expiresAt /\ k.expiresAt \in Nat
      BY <2>3 DEF Abstract!Use, Abstract!Usable
    <3>3. j \in DOMAIN allowed /\ allowed[j].at \in Nat /\ op[h].now \in Nat
      BY <2>2, <2>4, AllowedEntries
    <3>4. allowed[j].at <= op[h].now
      BY <2>2, <3>3
    <3> QED
      BY <3>1, <3>2, <3>3, <3>4
  <2> HIDE DEF n, new
  <2>7. SingleUse'
    BY <2>4, <2>5, <2>6 DEF SingleUse
  <2>8. \A g \in Thread : g = h
    OBVIOUS
  <2>9. TimeAdvances'
    BY <2>2, <2>4, <2>5, <2>8 DEF TimeAdvances
  <2> QED
    BY <2>7, <2>9
<1> QED
  BY <1>1, <1>2

\* With one thread and an honest clock no token lets two requests through in
\* the life of a session.
THEOREM SerialSingleUse ==
  ASSUME HonestClock, \A g, h \in Thread : g = h
  PROVE  Spec => []SingleUse
<1>1. Init => TimeAdvances /\ SingleUse
  BY DEF Init, TimeAdvances, SingleUse, NoOp
<1>2. TypeOK /\ SessionInv /\ TimeAdvances /\ SingleUse /\ [Next]_vars
        => TimeAdvances' /\ SingleUse'
  BY SerialInductive
<1> QED
  BY <1>1, <1>2, SessionTypeCorrect, SessionInvariant, PTL DEF Spec

-----------------------------------------------------------------------------
(***************************************************************************)
(* What was acknowledged stays, and nothing but a use spends a nonce: both *)
(* need the snapshot to be current.                                        *)
(***************************************************************************)

\* Every entry of the store is that of a token used in this life.
SpentByUse ==
  session # NoSession =>
    \A en \in session.consumed :
      \E i \in DOMAIN allowed :
        allowed[i].life = life /\ Entry(session, allowed[i].token) = en

\* A decide keeps the list and adds the entry of its token.
LEMMA DecideKeeps ==
  ASSUME TypeOK, SessionInv, NoApprovalLost, SpentByUse, NEW h \in Thread, RunDecide(h)
  PROVE  NoApprovalLost' /\ SpentByUse'
<1>0. life' = life /\ granted' = granted
  BY DEF RunDecide
<1>1. CASE UNCHANGED <<session, allowed>>
  BY <1>0, <1>1 DEF NoApprovalLost, SpentByUse, Entry, Namespace
<1>2. CASE ~UNCHANGED <<session, allowed>>
  <2>1. PICK st \in States, k \in Token :
          /\ snap[h] \in States
          /\ st.config = snap[h].config /\ st.consumed = snap[h].consumed
          /\ st.approvals = snap[h].approvals
          /\ k.target \in Target /\ st.now \in Clock
          /\ session' = Consume(st, k)
          /\ allowed' = Append(allowed, [token |-> k, at |-> st.now, life |-> life])
    BY <1>2, Decided
  <2>2. snap[h] = session
    BY DEF RunDecide, Runs, SessionInv, SnapshotIsCurrent
  <2>3. session # NoSession
    BY <2>1, <2>2, NoSessionAssumption
  <2>4. /\ session' \in States
        /\ session'.config = session.config /\ session'.approvals = session.approvals
        /\ session'.consumed \subseteq session.consumed \cup {Entry(st, k)}
    BY <2>1, <2>2, ConsumeType
  <2>5. NoApprovalLost'
    BY <1>0, <2>4, NoSessionAssumption DEF NoApprovalLost
  <2>6. \A x : Entry(session', x) = Entry(session, x) /\ Entry(st, x) = Entry(session, x)
    BY <2>1, <2>2, <2>4 DEF Entry, Namespace
  <2> DEFINE new == [token |-> k, at |-> st.now, life |-> life]
  <2>7. /\ DOMAIN allowed \subseteq DOMAIN allowed'
        /\ \A i \in DOMAIN allowed : allowed'[i] = allowed[i]
        /\ \E i \in DOMAIN allowed' : allowed'[i] = new
    <3>1. allowed \in Seq([token : Token, at : Clock, life : Nat])
      BY DEF TypeOK
    <3>2. new \in [token : Token, at : Clock, life : Nat]
      BY <2>1 DEF TypeOK
    <3>3. allowed' = Append(allowed, new)
      BY <2>1
    <3> HIDE DEF new
    <3>4. Len(allowed) \in Nat /\ DOMAIN allowed = 1 .. Len(allowed)
          /\ DOMAIN allowed' = 1 .. Len(allowed) + 1
          /\ allowed'[Len(allowed) + 1] = new
          /\ \A i \in DOMAIN allowed : allowed'[i] = allowed[i]
      BY <3>1, <3>2, <3>3
    <3>5. Len(allowed) + 1 \in DOMAIN allowed'
      BY <3>4
    <3> QED
      BY <3>4, <3>5
  <2>8. SpentByUse'
    <3> SUFFICES ASSUME NEW en \in session'.consumed
                 PROVE  \E i \in DOMAIN allowed' :
                          allowed'[i].life = life' /\ Entry(session', allowed'[i].token) = en
      BY DEF SpentByUse, Entry, Namespace
    <3>1. CASE en \in session.consumed
      <4>1. PICK i \in DOMAIN allowed :
              allowed[i].life = life /\ Entry(session, allowed[i].token) = en
        BY <2>3, <3>1 DEF SpentByUse
      <4> QED
        BY <1>0, <2>6, <2>7, <4>1
    <3>2. CASE en = Entry(st, k)
      <4>1. PICK i \in DOMAIN allowed' : allowed'[i] = new
        BY <2>7
      <4>2. allowed'[i].life = life /\ allowed'[i].token = k
        BY <4>1
      <4> QED
        BY <1>0, <2>6, <3>2, <4>2
    <3> QED
      BY <2>4, <3>1, <3>2
  <2> QED
    BY <2>5, <2>8
<1> QED
  BY <1>1, <1>2

LEMMA KeptStep ==
  ASSUME TypeOK, SessionInv, NoApprovalLost, SpentByUse, [Next]_vars
  PROVE  NoApprovalLost' /\ SpentByUse'
<1>1. CASE UNCHANGED <<session, granted, life, allowed>>
  BY <1>1 DEF NoApprovalLost, SpentByUse, Entry, Namespace
<1>2. CASE Crash
  BY <1>2 DEF Crash, NoApprovalLost, SpentByUse
<1>3. ASSUME NEW h \in Thread, RunInit(h), op[h].config # NoConfig
      PROVE  NoApprovalLost' /\ SpentByUse'
  <2>1. granted' = {} /\ session'.consumed = {}
    BY <1>3 DEF RunInit, Opened
  <2> QED
    BY <2>1 DEF NoApprovalLost, SpentByUse
<1>4. ASSUME NEW h \in Thread, RunAddApproval(h), snap[h] # NoSession, op[h].token # NoToken
      PROVE  NoApprovalLost' /\ SpentByUse'
  <2>1. op[h].token \in Token /\ snap[h] \in States /\ snap[h] = session
    BY <1>4, OpFields DEF RunAddApproval, Runs, TypeOK, SessionInv, SnapshotIsCurrent
  <2>2. /\ session' = [session EXCEPT !.approvals = Append(@, op[h].token)]
        /\ granted' = granted \cup {op[h].token} /\ UNCHANGED <<life, allowed>>
    BY <1>4, <2>1 DEF RunAddApproval
  <2>3. /\ session' \in States /\ session'.config = session.config
        /\ session'.consumed = session.consumed
        /\ session'.approvals = Append(session.approvals, op[h].token)
    BY <2>1, <2>2, AddType
  <2>4. session # NoSession /\ session' # NoSession
    BY <2>1, <2>3, NoSessionAssumption
  <2>5. /\ DOMAIN session.approvals \subseteq DOMAIN session'.approvals
        /\ \A i \in DOMAIN session.approvals : session'.approvals[i] = session.approvals[i]
        /\ \E i \in DOMAIN session'.approvals : session'.approvals[i] = op[h].token
    <3>1. session.approvals \in Seq(Token)
      BY <2>1 DEF States
    <3>2. /\ Len(session.approvals) \in Nat
          /\ DOMAIN session.approvals = 1 .. Len(session.approvals)
          /\ DOMAIN session'.approvals = 1 .. Len(session.approvals) + 1
          /\ session'.approvals[Len(session.approvals) + 1] = op[h].token
          /\ \A i \in DOMAIN session.approvals : session'.approvals[i] = session.approvals[i]
      BY <2>1, <2>3, <3>1
    <3>3. Len(session.approvals) + 1 \in DOMAIN session'.approvals
      BY <3>2
    <3> QED
      BY <3>2, <3>3
  <2>6. NoApprovalLost'
    <3> SUFFICES ASSUME NEW k \in granted'
                 PROVE  \E i \in DOMAIN session'.approvals : session'.approvals[i] = k
      BY <2>4 DEF NoApprovalLost
    <3>1. CASE k \in granted
      BY <2>5, <3>1 DEF NoApprovalLost
    <3>2. CASE k = op[h].token
      BY <2>5, <3>2
    <3> QED
      BY <2>2, <3>1, <3>2
  <2>7. SpentByUse'
    BY <2>2, <2>3, <2>4 DEF SpentByUse, Entry, Namespace
  <2> QED
    BY <2>6, <2>7
<1>5. CASE \E h \in Thread : RunDecide(h)
  BY <1>5, DecideKeeps
<1>6. ASSUME NEW h \in Thread, Step(h) PROVE NoApprovalLost' /\ SpentByUse'
  <2>1. CASE Lock(h) \/ Get(h) \/ RunChallenge(h) \/ Unlock(h)
    BY <1>1, <2>1 DEF Lock, Get, RunChallenge, Unlock
  <2>2. CASE RunInit(h)
    BY <1>1, <1>3, <2>2 DEF RunInit
  <2>3. CASE RunAddApproval(h)
    BY <1>1, <1>4, <2>3 DEF RunAddApproval
  <2> QED
    BY <1>5, <1>6, <2>1, <2>2, <2>3 DEF Step
<1>7. CASE Tick \/ Rest \/ UNCHANGED vars \/ \E h \in Thread, o \in Calls : Call(h, o)
  BY <1>1, <1>7 DEF Tick, Rest, Call, vars
<1> QED
  BY <1>2, <1>6, <1>7 DEF Next

LEMMA Kept == Spec => [](NoApprovalLost /\ SpentByUse)
<1>1. Init => NoApprovalLost /\ SpentByUse
  BY DEF Init, NoApprovalLost, SpentByUse
<1>2. TypeOK /\ SessionInv /\ NoApprovalLost /\ SpentByUse /\ [Next]_vars
        => (NoApprovalLost /\ SpentByUse)'
  BY KeptStep
<1> QED
  BY <1>1, <1>2, SessionTypeCorrect, SessionInvariant, PTL DEF Spec

\* A token that was acknowledged is in the session for the rest of its life,
\* whichever threads write the session back.
THEOREM ApprovalsAreKept == Spec => []NoApprovalLost
<1>1. NoApprovalLost /\ SpentByUse => NoApprovalLost
  OBVIOUS
<1> QED
  BY <1>1, Kept, PTL

-----------------------------------------------------------------------------
\* An acknowledged token that is good and unused makes validation succeed.
LEMMA GoodTokenValidates ==
  ASSUME TypeOK, NoApprovalLost, SpentByUse, session # NoSession,
         NEW n \in Clock \cup {NoNow}, NEW r \in session.config.tools,
         NEW k \in granted,
         k.target = TargetFor(session, r), k.session = session.config.session,
         k.signedBy = session.config.publicKey, TtlWithinCap(session, k),
         AtClock(session, n).now <= k.expiresAt, ~UsedInThisLife(k)
  PROVE  Validates(AtClock(session, n), r)
<1> DEFINE st == AtClock(session, n)
           t  == TargetFor(st, r)
           S  == Candidates(st, t)
<1>1. session \in States
  BY DEF TypeOK
<1>2. /\ st \in States /\ st.config = session.config /\ st.consumed = session.consumed
      /\ st.approvals = session.approvals
  BY <1>1, AtClockType
<1>3. st.now <= k.expiresAt
  OBVIOUS
<1> HIDE DEF st
<1>4. k.target = t
  BY <1>2 DEF TargetFor
<1>5. ~NonceConsumed(st, t, k)
  <2> SUFFICES ASSUME NEW en \in session.consumed, en.ns = Namespace(st, t), en.nonce = k.nonce
               PROVE  FALSE
    BY <1>2 DEF NonceConsumed, Contains, PruneConsumed
  <2>1. PICK i \in DOMAIN allowed :
          allowed[i].life = life /\ Entry(session, allowed[i].token) = en
    BY DEF SpentByUse
  <2>2. allowed[i].token.nonce = k.nonce /\ Namespace(session, allowed[i].token.target) = en.ns
    BY <2>1 DEF Entry
  <2>3. allowed[i].token.target = k.target
    BY <1>4, <2>2 DEF Namespace
  <2> QED
    BY <2>1, <2>2, <2>3 DEF UsedInThisLife
<1>6. ApprovalLiveFor(st, t, k)
  BY <1>2, <1>3, <1>4, <1>5 DEF ApprovalLiveFor, TtlWithinCap
<1>7. PICK i \in DOMAIN st.approvals : st.approvals[i] = k
  BY <1>2 DEF NoApprovalLost
<1>8. S \subseteq Nat /\ i \in S
  BY <1>2, <1>6, <1>7 DEF Candidates, States
<1>9. (CHOOSE j \in S : \A l \in S : j <= l) \in S
  <2> HIDE DEF S
  <2> QED
    BY <1>8, FirstCandidate
<1>10. ApprovalLiveFor(st, t, FindApproval(st, t))
  BY <1>9 DEF FindApproval, Candidates
<1>11. Validates(st, r)
  BY <1>2, <1>8, <1>10 DEF Validates, ApprovalLiveFor, NonceConsumed
<1> QED
  BY <1>11 DEF st

\* Expired, forged, spent or foreign tokens in the list never get a good one
\* refused, whatever the threads do and whatever time they name.
THEOREM GoodTokensServe == Spec => GoodTokenServes
<1>1. ASSUME TypeOK, SessionInv, NoApprovalLost, SpentByUse, [Next]_vars,
             NEW h \in Thread, pc[h] = "run", pc'[h] = "unlock", op[h].kind = "decide",
             session # NoSession, op[h].request \in session.config.tools,
             NEW k \in granted,
             k.target = TargetFor(session, op[h].request),
             k.session = session.config.session,
             k.signedBy = session.config.publicKey, TtlWithinCap(session, k),
             AtClock(session, op[h].now).now <= k.expiresAt, ~UsedInThisLife(k)
      PROVE  Len(allowed') > Len(allowed)
  <2>1. RunDecide(h)
    <3>1. ASSUME NEW g \in Thread, Step(g) PROVE RunDecide(h)
      <4>1. CASE g = h
        BY <1>1, <3>1, <4>1 DEF Step, Lock, Get, RunInit, RunAddApproval, RunChallenge, Runs,
                                Unlock
      <4>2. CASE g # h
        BY <1>1, <3>1, <4>2 DEF Step, Lock, Get, RunInit, RunAddApproval, RunDecide,
                                RunChallenge, Runs, Unlock, TypeOK
      <4> QED
        BY <4>1, <4>2
    <3>2. ASSUME NEW g \in Thread, NEW o \in Calls, Call(g, o) PROVE FALSE
      BY <1>1, <3>2 DEF Call, TypeOK
    <3> QED
      BY <1>1, <3>1, <3>2 DEF Next, Tick, Crash, Rest, vars, threadVars
  <2>2. snap[h] = session
    BY <1>1 DEF SessionInv, SnapshotIsCurrent
  <2>3. op[h].now \in Clock \cup {NoNow}
    BY <1>1, OpFields
  <2>4. Validates(AtClock(session, op[h].now), op[h].request)
    BY <1>1, <2>3, GoodTokenValidates
  <2>5. allowed' # allowed /\ \E x : allowed' = Append(allowed, x)
    <3>1. \E x : allowed' = Append(allowed, x)
      BY <1>1, <2>1, <2>2, <2>4 DEF RunDecide
    <3> QED
      BY <3>1 DEF TypeOK
  <2> QED
    BY <2>5 DEF TypeOK
<1>2. TypeOK /\ SessionInv /\ NoApprovalLost /\ SpentByUse /\ [Next]_vars =>
        [ \A h \in Thread :
            /\ pc[h] = "run" /\ pc'[h] = "unlock" /\ op[h].kind = "decide"
            /\ session # NoSession /\ op[h].request \in session.config.tools
            /\ \E k \in granted :
                 /\ k.target = TargetFor(session, op[h].request)
                 /\ k.session = session.config.session
                 /\ k.signedBy = session.config.publicKey
                 /\ TtlWithinCap(session, k)
                 /\ AtClock(session, op[h].now).now <= k.expiresAt
                 /\ ~UsedInThisLife(k)
            => Len(allowed') > Len(allowed) ]_vars
  BY <1>1
<1> QED
  BY <1>2, SessionTypeCorrect, SessionInvariant, Kept, PTL DEF Spec, GoodTokenServes

-----------------------------------------------------------------------------
(***************************************************************************)
(* The transport.                                                          *)
(***************************************************************************)

Piece == [length : Nat, newline : Nat]

Answer == [line : Line, kind : {"seam", "refused", "forwarded", "allow", "block"},
           token : Token \cup {NoTokenUsed}, reads : Nat]

\* What the steps need of the types: the histories are sequences, the plane a record.
Shaped ==
  /\ reads \in Seq(Read) /\ relayed \in Seq(Piece) /\ answers \in Seq(Answer)
  /\ dead \in BOOLEAN
  /\ plane # NoSession =>
       /\ plane.approvals \in Seq(Token)
       /\ plane = [config |-> plane.config, approvals |-> plane.approvals,
                   consumed |-> plane.consumed, now |-> plane.now]

\* The client has every frame up to the first broken one, and the flag knows
\* whether there was one.
RelayIsPrefix ==
  /\ dead <=> ~WholeUpTo(Len(reads))
  /\ Len(relayed) <= Len(reads)
  /\ \A i \in DOMAIN reads : i <= Len(relayed) <=> WholeUpTo(i)
  /\ \A i \in DOMAIN relayed : relayed[i] = Frame(reads[i])

\* A line is answered by what was read before it, and a run that goes on has met
\* no broken frame.
AnswersFollowReads ==
  /\ \A n \in DOMAIN answers :
       /\ answers[n].reads <= Len(reads)
       /\ answers[n].kind = "seam" <=> ~WholeUpTo(answers[n].reads)
       /\ answers[n].kind = "seam" => over /\ n = Len(answers)

\* Every nonce that is spent was spent by an Allow.
SpentByAllow ==
  plane # NoSession =>
    \A e \in plane.consumed :
      \E n \in DOMAIN answers :
        answers[n].kind = "allow" /\ Entry(plane, answers[n].token) = e

TransportInv ==
  /\ Shaped
  /\ RelayIsPrefix
  /\ AnswersFollowReads
  /\ SpentByAllow
  /\ OnlyLenientCallsEscape

-----------------------------------------------------------------------------
\* What findApproval finds is one of the approvals.
LEMMA FoundIsToken ==
  ASSUME NEW st, st.approvals \in Seq(Token), NEW r, Validates(st, r)
  PROVE  FindApproval(st, TargetFor(st, r)) \in Token
<1> DEFINE S == Candidates(st, TargetFor(st, r))
<1>1. S \subseteq DOMAIN st.approvals /\ S # {}
  BY DEF Candidates, Validates
<1>2. S \subseteq Nat
  BY <1>1
<1>3. (CHOOSE i \in S : \A j \in S : i <= j) \in S
  <2> HIDE DEF S
  <2> QED
    BY <1>1, <1>2, FirstCandidate
<1> QED
  BY <1>1, <1>3 DEF FindApproval

\* Appending to a history keeps what was there.
LEMMA Appended ==
  ASSUME NEW S, NEW s \in Seq(S), NEW x \in S
  PROVE  /\ Append(s, x) \in Seq(S)
         /\ Len(s) \in Nat /\ DOMAIN s = 1 .. Len(s)
         /\ Len(Append(s, x)) = Len(s) + 1
         /\ DOMAIN Append(s, x) = 1 .. Len(s) + 1
         /\ Append(s, x)[Len(s) + 1] = x
         /\ \A i \in DOMAIN s : Append(s, x)[i] = s[i]
  OBVIOUS

\* framingOf and the dead flag agree with the wire bound on what a whole frame is.
LEMMA KillsIsBroken ==
  ASSUME NEW r \in Read
  PROVE  /\ readKills(r) <=> ~Whole(r)
         /\ ~readKills(r) => Frame(r) \in Piece
<1>1. MaxWire \in Nat /\ (r = IoError \/ r \in Piece)
  BY TransportAssumption DEF Piece
<1>2. CASE r = IoError
  BY <1>2 DEF readKills, Whole
<1>3. CASE r # IoError
  <2>1. r.newline \in Nat /\ r.length \in Nat
    BY <1>1, <1>3 DEF Piece
  <2>2. framingOf(r) = "complete" <=> r.newline # 0 /\ r.newline <= MaxWire
    BY <2>1 DEF framingOf
  <2>3. readKills(r) <=> ~Whole(r)
    BY <1>1, <1>3, <2>1, <2>2 DEF readKills, Whole
  <2>4. Frame(r) \in Piece
    BY <1>1, <1>3, <2>1 DEF Frame, Piece
  <2> QED
    BY <2>3, <2>4
<1> QED
  BY <1>2, <1>3

-----------------------------------------------------------------------------
\* A read extends the relay or ends it.
LEMMA ReadKeeps ==
  ASSUME TransportInv, NEW r \in Read, ChildRead(r)
  PROVE  TransportInv'
<1>1. /\ reads \in Seq(Read) /\ relayed \in Seq(Piece) /\ answers \in Seq(Answer)
      /\ dead \in BOOLEAN
  BY DEF TransportInv, Shaped
<1>2. /\ reads' = Append(reads, r)
      /\ dead' = (dead \/ readKills(r))
      /\ relayed' = IF dead \/ readKills(r) THEN relayed ELSE Append(relayed, Frame(r))
      /\ plane' = plane /\ over' = over /\ answers' = answers
  BY DEF ChildRead
<1>3. /\ reads' \in Seq(Read) /\ Len(reads) \in Nat /\ Len(reads') = Len(reads) + 1
      /\ DOMAIN reads = 1 .. Len(reads) /\ DOMAIN reads' = 1 .. Len(reads')
      /\ reads'[Len(reads')] = r
      /\ \A i \in DOMAIN reads : reads'[i] = reads[i]
  BY <1>1, <1>2, Appended
<1>4. \A i \in 0 .. Len(reads) : WholeUpTo(i)' <=> WholeUpTo(i)
  BY <1>3 DEF WholeUpTo, Whole
<1>5. WholeUpTo(Len(reads))' <=> WholeUpTo(Len(reads)) /\ ~readKills(r)
  <2>1. ~readKills(r) <=> Whole(r)
    BY KillsIsBroken
  <2>2. /\ \A i \in 1 .. Len(reads') : i \in 1 .. Len(reads) \/ i = Len(reads')
        /\ \A i \in 1 .. Len(reads) : i \in 1 .. Len(reads') /\ i \in DOMAIN reads
        /\ Len(reads') \in 1 .. Len(reads')
    BY <1>3
  <2> QED
    BY <1>3, <2>1, <2>2 DEF WholeUpTo, Whole
<1>6. RelayIsPrefix /\ Len(relayed) \in Nat /\ DOMAIN relayed = 1 .. Len(relayed)
  BY <1>1 DEF TransportInv
<1>7. RelayIsPrefix' /\ relayed' \in Seq(Piece)
  <2>1. CASE dead \/ readKills(r)
    <3>1. relayed' = relayed /\ dead' = TRUE
      BY <1>2, <2>1
    <3>2. ~WholeUpTo(Len(reads))'
      BY <1>5, <1>6, <2>1 DEF RelayIsPrefix
    <3>3. ~(Len(reads') <= Len(relayed'))
      BY <1>3, <1>6, <3>1 DEF RelayIsPrefix
    <3>4. \A i \in DOMAIN reads' : i <= Len(relayed') <=> WholeUpTo(i)'
      BY <1>3, <1>4, <1>6, <3>1, <3>2, <3>3 DEF RelayIsPrefix
    <3>5. \A i \in DOMAIN relayed' : relayed'[i] = Frame(reads'[i])
      BY <1>3, <1>6, <3>1 DEF RelayIsPrefix
    <3> QED
      BY <1>1, <1>3, <1>6, <3>1, <3>2, <3>4, <3>5 DEF RelayIsPrefix
  <2>2. CASE ~dead /\ ~readKills(r)
    <3>1. relayed' = Append(relayed, Frame(r)) /\ dead' = FALSE
      BY <1>1, <1>2, <2>2
    <3>2. /\ relayed' \in Seq(Piece) /\ Len(relayed') = Len(relayed) + 1
          /\ DOMAIN relayed' = 1 .. Len(relayed')
          /\ relayed'[Len(relayed')] = Frame(r)
          /\ \A i \in DOMAIN relayed : relayed'[i] = relayed[i]
      BY <1>1, <2>2, <3>1, KillsIsBroken, Appended
    <3>3. WholeUpTo(Len(reads)) /\ WholeUpTo(Len(reads))'
      BY <1>5, <1>6, <2>2 DEF RelayIsPrefix
    <3>4. Len(relayed) = Len(reads)
      <4>1. CASE Len(reads) = 0
        BY <1>6, <4>1 DEF RelayIsPrefix
      <4>2. CASE Len(reads) # 0
        <5>1. Len(reads) \in DOMAIN reads
          BY <1>3, <4>2
        <5>2. Len(reads) <= Len(relayed)
          BY <1>6, <3>3, <5>1 DEF RelayIsPrefix
        <5>3. Len(relayed) <= Len(reads) /\ Len(relayed) \in Nat /\ Len(reads) \in Nat
          BY <1>3, <1>6 DEF RelayIsPrefix
        <5> HIDE DEF TransportInv
        <5> QED
          BY <5>2, <5>3
      <4> QED
        BY <4>1, <4>2
    <3>5. \A i \in DOMAIN reads' : i <= Len(relayed') <=> WholeUpTo(i)'
      BY <1>3, <1>6, <3>2, <3>3, <3>4 DEF WholeUpTo
    <3>6. \A i \in DOMAIN relayed' : relayed'[i] = Frame(reads'[i])
      BY <1>3, <1>6, <3>2, <3>4 DEF RelayIsPrefix
    <3> QED
      BY <1>3, <3>1, <3>2, <3>3, <3>4, <3>5, <3>6 DEF RelayIsPrefix
  <2> QED
    BY <1>1, <2>1, <2>2
<1>8. AnswersFollowReads'
  <2>1. \A n \in DOMAIN answers : answers[n].reads \in 0 .. Len(reads)
    <3> SUFFICES ASSUME NEW n \in DOMAIN answers PROVE answers[n].reads \in 0 .. Len(reads)
      OBVIOUS
    <3>1. answers[n] \in Answer
      BY <1>1
    <3>2. answers[n].reads \in Nat
      BY <3>1 DEF Answer
    <3>3. answers[n].reads <= Len(reads)
      BY DEF TransportInv, AnswersFollowReads
    <3> QED
      BY <1>3, <3>2, <3>3
  <2> QED
    BY <1>2, <1>3, <1>4, <2>1 DEF TransportInv, AnswersFollowReads
<1>9. Shaped'
  <2>1. dead' \in BOOLEAN
    BY <1>2
  <2> QED
    BY <1>1, <1>2, <1>3, <1>7, <2>1 DEF TransportInv, Shaped
<1>10. SpentByAllow' /\ OnlyLenientCallsEscape'
  BY <1>2 DEF TransportInv, SpentByAllow, OnlyLenientCallsEscape, Entry, Namespace
<1> QED
  BY <1>7, <1>8, <1>9, <1>10 DEF TransportInv
-----------------------------------------------------------------------------
\* What a step that answers line l adds to the history.
LEMMA AnswerAdded ==
  ASSUME TransportInv, NEW l \in Line, NEW kind, NEW k \in Token \cup {NoTokenUsed},
         kind \in {"seam", "refused", "forwarded", "allow", "block"},
         Answers(l, kind, k)
  PROVE  /\ answers' \in Seq(Answer) /\ Len(answers) \in Nat
         /\ Len(answers') = Len(answers) + 1
         /\ DOMAIN answers = 1 .. Len(answers)
         /\ DOMAIN answers' = 1 .. Len(answers) + 1
         /\ \A n \in DOMAIN answers : answers'[n] = answers[n]
         /\ answers'[Len(answers) + 1] =
              [line |-> l, kind |-> kind, token |-> k, reads |-> Len(reads)]
<1> DEFINE new == [line |-> l, kind |-> kind, token |-> k, reads |-> Len(reads)]
<1>1. answers \in Seq(Answer) /\ Len(reads) \in Nat
  BY DEF TransportInv, Shaped
<1>2. new \in Answer
  BY <1>1 DEF Answer
<1>3. answers' = Append(answers, new)
  BY DEF Answers
<1> HIDE DEF new
<1>4. QED
  <2>1. /\ answers' \in Seq(Answer) /\ Len(answers) \in Nat
        /\ Len(answers') = Len(answers) + 1
        /\ DOMAIN answers = 1 .. Len(answers)
        /\ DOMAIN answers' = 1 .. Len(answers) + 1
        /\ \A n \in DOMAIN answers : answers'[n] = answers[n]
        /\ answers'[Len(answers) + 1] = new
    BY <1>1, <1>2, <1>3, Appended
  <2> QED
    BY <2>1 DEF new

\* The answer of an undecided line: the plane and the child's side stay.
LEMMA AnswerKeeps ==
  ASSUME TransportInv, NEW l \in Line, NEW kind,
         kind \in {"seam", "refused", "forwarded"},
         Answers(l, kind, NoTokenUsed), UNCHANGED <<plane, dead, reads, relayed>>,
         ~over, over' \/ kind # "seam", dead <=> kind = "seam",
         kind = "forwarded" => classifyWire(l) = "passthrough"
  PROVE  TransportInv'
<1>1. /\ answers' \in Seq(Answer) /\ Len(answers) \in Nat
      /\ Len(answers') = Len(answers) + 1
      /\ DOMAIN answers = 1 .. Len(answers)
      /\ DOMAIN answers' = 1 .. Len(answers) + 1
      /\ \A n \in DOMAIN answers : answers'[n] = answers[n]
      /\ answers'[Len(answers) + 1] =
           [line |-> l, kind |-> kind, token |-> NoTokenUsed, reads |-> Len(reads)]
  BY AnswerAdded
<1>2. Shaped' /\ RelayIsPrefix'
  BY <1>1 DEF TransportInv, Shaped, RelayIsPrefix, WholeUpTo, Whole
<1>3. AnswersFollowReads'
  <2>1. \A n \in DOMAIN answers :
          /\ answers[n].reads <= Len(reads) /\ answers[n].kind # "seam"
          /\ WholeUpTo(answers[n].reads)
    BY DEF TransportInv, AnswersFollowReads
  <2>2. Len(reads) \in Nat /\ (dead <=> ~WholeUpTo(Len(reads)))
    BY DEF TransportInv, RelayIsPrefix, Shaped
  <2>3. \A i : WholeUpTo(i)' <=> WholeUpTo(i)
    BY DEF WholeUpTo, Whole
  <2> QED
    BY <1>1, <2>1, <2>2, <2>3 DEF AnswersFollowReads
<1>4. SpentByAllow'
  BY <1>1 DEF TransportInv, SpentByAllow, Entry, Namespace
<1>5. OnlyLenientCallsEscape'
  <2>1. ASSUME kind = "forwarded", Parses(l), NEW i \in lenientCalls(l)
        PROVE  ~l.array /\ ~StrictCall(l.messages[i])
    <3>1. ~l.array /\ ~StrictCall(l.messages[1])
      BY <2>1 DEF classifyWire
    <3>2. i \in DOMAIN l.messages
      BY DEF lenientCalls
    <3>3. i = 1
      BY <3>1, <3>2, TransportAssumption
    <3> QED
      BY <3>1, <3>3
  <2> SUFFICES ASSUME NEW n \in DOMAIN answers', answers'[n].kind = "forwarded",
                      Parses(answers'[n].line), NEW i \in lenientCalls(answers'[n].line)
               PROVE  ~answers'[n].line.array /\ ~StrictCall(answers'[n].line.messages[i])
    BY DEF OnlyLenientCallsEscape, lenientCalls, Parses, StrictCall
  <2>2. CASE n \in DOMAIN answers
    BY <1>1, <2>2 DEF TransportInv, OnlyLenientCallsEscape
  <2>3. CASE n = Len(answers) + 1
    BY <1>1, <2>1, <2>3
  <2> QED
    BY <1>1, <2>2, <2>3
<1> QED
  BY <1>2, <1>3, <1>4, <1>5 DEF TransportInv

LEMMA TransportDecideKeeps ==
  ASSUME TransportInv, NEW l \in Line, NEW now \in Clock, DecideLine(l, now)
  PROVE  TransportInv'
<1> DEFINE r == l.messages[1].request
           st == AtClock(plane, now)
           k == FindApproval(st, TargetFor(st, r))
<1>1. ~dead /\ ~over /\ UNCHANGED <<dead, over, reads, relayed>>
  BY DEF DecideLine, Event
<1>2. RelayIsPrefix' /\ \A i : WholeUpTo(i)' <=> WholeUpTo(i)
  BY <1>1 DEF TransportInv, RelayIsPrefix, WholeUpTo, Whole
<1>3. /\ WholeUpTo(Len(reads)) /\ Len(reads) \in Nat
      /\ \A n \in DOMAIN answers :
           /\ answers[n].reads <= Len(reads) /\ answers[n].kind # "seam"
           /\ WholeUpTo(answers[n].reads)
  BY <1>1 DEF TransportInv, RelayIsPrefix, AnswersFollowReads, Shaped
<1>4. CASE plane # NoSession /\ Validates(st, r) /\ plane' = Consume(st, k)
             /\ Answers(l, "allow", k)
  <2>1. /\ plane.approvals \in Seq(Token)
        /\ plane = [config |-> plane.config, approvals |-> plane.approvals,
                    consumed |-> plane.consumed, now |-> plane.now]
    BY <1>4 DEF TransportInv, Shaped
  <2>2. /\ st.approvals = plane.approvals /\ st.config = plane.config
        /\ st.consumed = plane.consumed
        /\ st = [config |-> st.config, approvals |-> st.approvals,
                 consumed |-> st.consumed, now |-> st.now]
    BY <2>1 DEF AtClock
  <2>3. /\ plane'.config = plane.config /\ plane'.approvals = plane.approvals
        /\ plane'.consumed = PruneConsumed(st.now, plane.consumed) \cup {Entry(st, k)}
        /\ plane' = [config |-> plane'.config, approvals |-> plane'.approvals,
                     consumed |-> plane'.consumed, now |-> plane'.now]
    <3> HIDE DEF st, k
    <3> QED
      BY <1>4, <2>2 DEF Consume
  <2>4. k \in Token
    <3> HIDE DEF st, r
    <3> QED
      BY <1>4, <2>1, <2>2, FoundIsToken
  <2>5. /\ answers' \in Seq(Answer) /\ Len(answers) \in Nat
        /\ Len(answers') = Len(answers) + 1
        /\ DOMAIN answers = 1 .. Len(answers)
        /\ DOMAIN answers' = 1 .. Len(answers) + 1
        /\ \A n \in DOMAIN answers : answers'[n] = answers[n]
        /\ answers'[Len(answers) + 1] =
             [line |-> l, kind |-> "allow", token |-> k, reads |-> Len(reads)]
    <3> HIDE DEF k
    <3> QED
      BY <1>4, <2>4, AnswerAdded
  <2> HIDE DEF k, st, r
  <2>6. Shaped'
    BY <1>1, <2>1, <2>3, <2>5 DEF TransportInv, Shaped
  <2>7. AnswersFollowReads'
    BY <1>1, <1>2, <1>3, <2>5 DEF AnswersFollowReads
  <2>8. \A x : Entry(plane', x) = Entry(plane, x) /\ Entry(st, x) = Entry(plane, x)
    BY <2>2, <2>3 DEF Entry, Namespace
  <2>9. SpentByAllow'
    <3> SUFFICES ASSUME NEW e \in plane'.consumed
                 PROVE  \E n \in DOMAIN answers' :
                          answers'[n].kind = "allow" /\ Entry(plane', answers'[n].token) = e
      BY DEF SpentByAllow, Entry, Namespace
    <3>1. CASE e \in plane.consumed
      <4>1. PICK n \in DOMAIN answers :
              answers[n].kind = "allow" /\ Entry(plane, answers[n].token) = e
        BY <1>4, <3>1 DEF TransportInv, SpentByAllow
      <4> QED
        BY <2>5, <2>8, <4>1
    <3>2. CASE e = Entry(st, k)
      <4>1. Len(answers) + 1 \in DOMAIN answers'
        BY <2>5
      <4> QED
        BY <2>5, <2>8, <3>2, <4>1
    <3> QED
      BY <2>3, <3>1, <3>2 DEF PruneConsumed
  <2>10. OnlyLenientCallsEscape'
    <3>1. answers'[Len(answers) + 1].kind # "forwarded"
      BY <2>5
    <3>2. \A n \in DOMAIN answers' : n \in DOMAIN answers \/ n = Len(answers) + 1
      BY <2>5
    <3> QED
      BY <2>5, <3>1, <3>2 DEF TransportInv, OnlyLenientCallsEscape
  <2> QED
    BY <1>2, <2>6, <2>7, <2>9, <2>10 DEF TransportInv
<1>5. CASE UNCHANGED plane /\ Answers(l, "block", NoTokenUsed)
  <2>1. /\ answers' \in Seq(Answer) /\ Len(answers) \in Nat
        /\ Len(answers') = Len(answers) + 1
        /\ DOMAIN answers = 1 .. Len(answers)
        /\ DOMAIN answers' = 1 .. Len(answers) + 1
        /\ \A n \in DOMAIN answers : answers'[n] = answers[n]
        /\ answers'[Len(answers) + 1] =
             [line |-> l, kind |-> "block", token |-> NoTokenUsed, reads |-> Len(reads)]
    BY <1>5, AnswerAdded
  <2>2. Shaped'
    BY <1>1, <1>5, <2>1 DEF TransportInv, Shaped
  <2>3. AnswersFollowReads'
    BY <1>1, <1>2, <1>3, <2>1 DEF AnswersFollowReads
  <2>4. SpentByAllow'
    BY <1>5, <2>1 DEF TransportInv, SpentByAllow, Entry, Namespace
  <2>5. OnlyLenientCallsEscape'
    <3>1. answers'[Len(answers) + 1].kind # "forwarded"
      BY <2>1
    <3>2. \A n \in DOMAIN answers' : n \in DOMAIN answers \/ n = Len(answers) + 1
      BY <2>1
    <3> QED
      BY <2>1, <3>1, <3>2 DEF TransportInv, OnlyLenientCallsEscape
  <2> QED
    BY <1>2, <2>2, <2>3, <2>4, <2>5 DEF TransportInv
<1> QED
  BY <1>4, <1>5 DEF DecideLine

\* A new session or approval leaves both histories; a new session has spent nothing.
LEMMA PlaneKeeps ==
  ASSUME TransportInv,
         \/ \E c \in Config : Initialise(c)
         \/ \E k \in Token : AddApproval(k)
  PROVE  TransportInv'
<1>1. UNCHANGED <<dead, over, reads, relayed, answers>>
  BY DEF Initialise, AddApproval
<1>2. RelayIsPrefix' /\ AnswersFollowReads' /\ OnlyLenientCallsEscape'
  BY <1>1 DEF TransportInv, RelayIsPrefix, AnswersFollowReads, OnlyLenientCallsEscape,
              WholeUpTo, Whole
<1>3. CASE \E c \in Config : Initialise(c)
  <2>1. plane'.approvals = <<>> /\ plane'.consumed = {}
        /\ plane' = [config |-> plane'.config, approvals |-> plane'.approvals,
                     consumed |-> plane'.consumed, now |-> plane'.now]
    BY <1>3 DEF Initialise, Opened
  <2>2. Shaped'
    BY <1>1, <2>1 DEF TransportInv, Shaped
  <2> QED
    BY <1>2, <2>1, <2>2 DEF TransportInv, SpentByAllow
<1>4. CASE \E k \in Token : AddApproval(k)
  <2>1. PICK k \in Token : plane # NoSession
          /\ plane' = [plane EXCEPT !.approvals = Append(@, k)]
    BY <1>4 DEF AddApproval
  <2>2. /\ plane.approvals \in Seq(Token)
        /\ plane = [config |-> plane.config, approvals |-> plane.approvals,
                    consumed |-> plane.consumed, now |-> plane.now]
    BY <2>1 DEF TransportInv, Shaped
  <2>3. /\ plane'.approvals = Append(plane.approvals, k)
        /\ plane'.consumed = plane.consumed /\ plane'.config = plane.config
        /\ plane' = [config |-> plane'.config, approvals |-> plane'.approvals,
                     consumed |-> plane'.consumed, now |-> plane'.now]
    BY <2>1, <2>2
  <2>4. plane'.approvals \in Seq(Token)
    BY <2>2, <2>3
  <2>5. Shaped'
    BY <1>1, <2>3, <2>4 DEF TransportInv, Shaped
  <2>6. SpentByAllow'
    BY <1>1, <2>1, <2>3 DEF TransportInv, SpentByAllow, Entry, Namespace
  <2> QED
    BY <1>2, <2>5, <2>6 DEF TransportInv
<1> QED
  BY <1>3, <1>4

-----------------------------------------------------------------------------
LEMMA TransportInvHolds == TransportSpec => []TransportInv
<1>1. TransportInit => TransportInv
  <2> SUFFICES ASSUME TransportInit PROVE TransportInv
    OBVIOUS
  <2>1. WholeUpTo(Len(reads))
    BY DEF TransportInit, WholeUpTo
  <2>2. Shaped
    <3>1. <<>> \in Seq(Read) /\ <<>> \in Seq(Piece) /\ <<>> \in Seq(Answer)
      OBVIOUS
    <3> QED
      BY <3>1 DEF TransportInit, Shaped
  <2>3. RelayIsPrefix
    BY <2>1 DEF TransportInit, RelayIsPrefix
  <2>4. AnswersFollowReads /\ OnlyLenientCallsEscape
    BY DEF TransportInit, AnswersFollowReads, OnlyLenientCallsEscape
  <2>5. SpentByAllow
    BY DEF TransportInit, SpentByAllow
  <2> QED
    BY <2>2, <2>3, <2>4, <2>5 DEF TransportInv
<1>2. TransportInv /\ [TransportNext]_hostVars => TransportInv'
  <2> SUFFICES ASSUME TransportInv, [TransportNext]_hostVars PROVE TransportInv'
    OBVIOUS
  <2>1. CASE \/ \E c \in Config : Initialise(c)
             \/ \E k \in Token : AddApproval(k)
    BY <2>1, PlaneKeeps
  <2>2. CASE \E r \in Read : ChildRead(r)
    BY <2>2, ReadKeeps
  <2>3. ASSUME NEW l \in Line, SeamError(l) PROVE TransportInv'
    BY <2>3, AnswerKeeps DEF SeamError, Event
  <2>4. ASSUME NEW l \in Line, RefuseLine(l) PROVE TransportInv'
    BY <2>4, AnswerKeeps DEF RefuseLine, Event
  <2>5. ASSUME NEW l \in Line, ForwardLine(l) PROVE TransportInv'
    BY <2>5, AnswerKeeps DEF ForwardLine, Event
  <2>6. CASE \E l \in Line, now \in Clock : DecideLine(l, now)
    BY <2>6, TransportDecideKeeps
  <2>7. CASE UNCHANGED hostVars
    BY <2>7 DEF hostVars, TransportInv, Shaped, RelayIsPrefix, AnswersFollowReads,
                SpentByAllow, OnlyLenientCallsEscape, WholeUpTo, Whole, Entry, Namespace
  <2> QED
    BY <2>1, <2>2, <2>3, <2>4, <2>5, <2>6, <2>7 DEF TransportNext
<1> QED
  BY <1>1, <1>2, PTL DEF TransportSpec

\* ResponseTransport.lean: the child's bytes can cut the client's stream and the run
\* short, and neither change what is relayed nor spend an approval.
THEOREM ChildCanOnlyTruncate == TransportSpec => []ChildOnlyTruncates
<1>1. TransportInv => ChildOnlyTruncates
  BY DEF TransportInv, RelayIsPrefix, AnswersFollowReads, SpentByAllow, ChildOnlyTruncates
<1> QED
  BY <1>1, TransportInvHolds, PTL

\* ClassifyTransport.lean: whatever the client sends that the strict parser reads, a
\* call in it that reaches the child undecided is one of a single object that only
\* a lenient child takes for a call.
THEOREM EscapesAreLenient == TransportSpec => []OnlyLenientCallsEscape
<1>1. TransportInv => OnlyLenientCallsEscape
  BY DEF TransportInv
<1> QED
  BY <1>1, TransportInvHolds, PTL
=============================================================================
