--------------------------- MODULE ReplaySession ---------------------------
(***************************************************************************)
(* The v2 session: the ApprovalState behind the FFI exports (Ffi.lean),    *)
(* and the threads of the Rust host that call them, each call under the    *)
(* mutex of LeanHost (rust/src/lean.rs).  A call takes its `now` as an     *)
(* argument, so it is older than the moment the mutex is taken.            *)
(***************************************************************************)
EXTENDS Validation

CONSTANTS
  Thread,     \* the threads of the host that call the exports
  NoConfig,   \* a configuration text that does not parse
  NoToken,    \* a token text that does not parse
  NoThread,
  HonestClock,                    \* `now` is the wall clock at the time of the call
  MaxCalls, MaxLives              \* bounds of the exploration

ASSUME SessionAssumption ==
  /\ NoThread \notin Thread /\ NoRequest \notin Request
  /\ NoConfig \notin Config /\ NoToken \notin Token /\ NoNow \notin Nat
  /\ \A c \in Config : c.tools \subseteq Request /\ c.maxApprovalTtl \in Nat
  /\ \A k \in Token : k.issuedAt \in Nat /\ k.expiresAt \in Nat
  /\ HonestClock \in BOOLEAN
  /\ MaxClock \in Nat /\ MaxCalls \in Nat /\ MaxLives \in Nat

VARIABLES
  clock,    \* the wall clock, which never goes back
  session,  \* stateRef: NoSession or the ApprovalState
  lock,     \* the holder of LeanHost.lock, or NoThread
  pc,       \* where each thread is in its call
  op,       \* the call each thread makes
  snap,     \* what each thread has read from stateRef
  calls,    \* how many calls were begun
  life,     \* history: how often the session was replaced or lost
  granted,  \* history: the tokens acknowledged in this life
  allowed   \* history: the requests allowed, with the tokens they used

threadVars == <<lock, pc, op, snap>>
vars == <<clock, session, threadVars, calls, life, granted, allowed>>

-----------------------------------------------------------------------------
Ops ==
  [kind : {"init"}, config : Config \cup {NoConfig}]
    \cup [kind : {"add_approval"}, token : Token \cup {NoToken}]
    \cup [kind : {"decide"}, request : Request \cup {NoRequest}, now : Clock \cup {NoNow}]
    \cup [kind : {"challenge"}]

NoOp == [kind |-> "none"]

Init ==
  /\ clock = 0 /\ calls = 0
  /\ session = NoSession
  /\ lock = NoThread
  /\ pc = [h \in Thread |-> "idle"]
  /\ op = [h \in Thread |-> NoOp]
  /\ snap = [h \in Thread |-> NoSession]
  /\ life = 0 /\ granted = {} /\ allowed = <<>>

-----------------------------------------------------------------------------
Tick ==
  /\ clock < MaxClock /\ clock' = clock + 1
  /\ UNCHANGED <<session, threadVars, calls, life, granted, allowed>>

\* A thread begins a call; the arguments are fixed from here on.
Call(h, o) ==
  /\ pc[h] = "idle" /\ calls < MaxCalls
  /\ o.kind = "init" => life < MaxLives
  /\ op' = [op EXCEPT ![h] = o]
  /\ pc' = [pc EXCEPT ![h] = "lock"]
  /\ calls' = calls + 1
  /\ UNCHANGED <<clock, session, lock, snap, life, granted, allowed>>

LockIgnored == TRUE
LockFree    == lock = NoThread

\* self.lock.lock().unwrap(); init alone does not read the session.
Lock(h) ==
  /\ pc[h] = "lock" /\ LockFree
  /\ lock' = h
  /\ pc' = [pc EXCEPT ![h] = IF op[h].kind = "init" THEN "run" ELSE "get"]
  /\ UNCHANGED <<clock, session, op, snap, calls, life, granted, allowed>>

\* stateRef.get.
Get(h) ==
  /\ pc[h] = "get"
  /\ snap' = [snap EXCEPT ![h] = session]
  /\ pc' = [pc EXCEPT ![h] = "run"]
  /\ UNCHANGED <<clock, session, lock, op, calls, life, granted, allowed>>

Runs(h, kind) ==
  /\ pc[h] = "run" /\ op[h].kind = kind
  /\ pc' = [pc EXCEPT ![h] = "unlock"]
  /\ UNCHANGED <<clock, lock, op, snap, calls>>

\* initImpl: the new state replaces the old; a bad config leaves it alone.
RunInit(h) ==
  /\ Runs(h, "init")
  /\ IF op[h].config = NoConfig
       THEN UNCHANGED <<session, life, granted>>
       ELSE session' = Opened(op[h].config) /\ life' = life + 1 /\ granted' = {}
  /\ UNCHANGED allowed

\* addApprovalImpl: appended unchecked; decide verifies it.
RunAddApproval(h) ==
  /\ Runs(h, "add_approval")
  /\ IF snap[h] = NoSession \/ op[h].token = NoToken
       THEN UNCHANGED <<session, granted>>
       ELSE /\ session' = [snap[h] EXCEPT !.approvals = Append(@, op[h].token)]
            /\ granted' = granted \cup {op[h].token}
  /\ UNCHANGED <<life, allowed>>

\* decideImpl: an Allow writes the state with its clock and its store, a Block
\* writes nothing, not even the clock.
RunDecide(h) ==
  /\ Runs(h, "decide")
  /\ IF snap[h] = NoSession \/ ~Validates(AtClock(snap[h], op[h].now), op[h].request)
       THEN UNCHANGED <<session, allowed>>
       ELSE LET st == AtClock(snap[h], op[h].now)
                k  == FindApproval(st, TargetFor(st, op[h].request))
            IN  /\ session' = Consume(st, k)
                /\ allowed' = Append(allowed, [token |-> k, at |-> st.now, life |-> life])
  /\ UNCHANGED <<life, granted>>

\* challengeImpl only reads.
RunChallenge(h) ==
  /\ Runs(h, "challenge")
  /\ UNCHANGED <<session, life, granted, allowed>>

\* Mutant of Released: an early return leaves the mutex locked.
ReleasedNot == UNCHANGED lock
Released    == lock' = NoThread

\* The guard is dropped when the call returns.
Unlock(h) ==
  /\ pc[h] = "unlock"
  /\ Released
  /\ pc' = [pc EXCEPT ![h] = "idle"]
  /\ op' = [op EXCEPT ![h] = NoOp]
  /\ snap' = [snap EXCEPT ![h] = NoSession]
  /\ UNCHANGED <<clock, session, calls, life, granted, allowed>>

\* The process ends and is started again; stateRef is memory.
Crash ==
  /\ life < MaxLives
  /\ session' = NoSession /\ lock' = NoThread
  /\ pc' = [h \in Thread |-> "idle"]
  /\ op' = [h \in Thread |-> NoOp]
  /\ snap' = [h \in Thread |-> NoSession]
  /\ life' = life + 1 /\ granted' = {}
  /\ UNCHANGED <<clock, calls, allowed>>

\* All the calls of the exploration have returned.
Rest ==
  /\ calls = MaxCalls /\ \A h \in Thread : pc[h] = "idle"
  /\ UNCHANGED vars

-----------------------------------------------------------------------------
\* What a caller may pass for `now`.
Nows == IF HonestClock THEN {clock} ELSE Clock \cup {NoNow}

Calls ==
  [kind : {"init"}, config : Config \cup {NoConfig}]
    \cup [kind : {"add_approval"}, token : Token \cup {NoToken}]
    \cup [kind : {"decide"}, request : Request \cup {NoRequest}, now : Nows]
    \cup [kind : {"challenge"}]

Step(h) ==
  \/ Lock(h) \/ Get(h)
  \/ RunInit(h) \/ RunAddApproval(h) \/ RunDecide(h) \/ RunChallenge(h)
  \/ Unlock(h)

Next ==
  \/ Tick \/ Crash \/ Rest
  \/ \E h \in Thread : Step(h) \/ \E o \in Calls : Call(h, o)

Spec == Init /\ [][Next]_vars

\* A thread in a call runs on.  The mutex promises no fairness, and none is
\* needed: only boundedly many calls can overtake one.
Fairness == \A h \in Thread : WF_vars(Step(h))

FairSpec == Spec /\ Fairness

-----------------------------------------------------------------------------
TypeOK ==
  /\ clock \in Clock /\ calls \in Nat /\ life \in Nat
  /\ session \in States \cup {NoSession}
  /\ lock \in Thread \cup {NoThread}
  /\ pc \in [Thread -> {"idle", "lock", "get", "run", "unlock"}]
  /\ op \in [Thread -> Ops \cup {NoOp}]
  /\ snap \in [Thread -> States \cup {NoSession}]
  /\ granted \subseteq Token
  /\ allowed \in Seq([token : Token, at : Clock, life : Nat])

\* lean.rs: the mutex "makes every export call mutually exclusive ... concurrent
\* calls would also break M6's atomic-consume (read->consume->write)".  What a
\* thread has read is what its write replaces: nothing happened in between.
SnapshotIsCurrent ==
  \A h \in Thread : pc[h] = "run" /\ op[h].kind # "init" => snap[h] = session

\* add_approval answered "ok": the token is in the session for the rest of its
\* life, whatever other calls write the session back.
NoApprovalLost ==
  \A k \in granted : session # NoSession /\ \E i \in DOMAIN session.approvals :
                                             session.approvals[i] = k

UsedInThisLife(k) ==
  \E i \in DOMAIN allowed :
    allowed[i].life = life /\ allowed[i].token.target = k.target
                          /\ allowed[i].token.nonce = k.nonce

\* A request is not refused for the company its token keeps: if some token
\* that was acknowledged in this life is good for the request at the time of
\* the call, and its nonce was not used for that target, decide allows it,
\* whatever expired, forged, spent or foreign tokens are in the list.
GoodTokenServes ==
  [][ \A h \in Thread :
        /\ pc[h] = "run" /\ pc'[h] = "unlock" /\ op[h].kind = "decide"
        /\ session # NoSession /\ op[h].request \in session.config.tools
        /\ \E k \in granted :
             /\ k.target = TargetFor(session, op[h].request)
             /\ k.session = session.config.session
             /\ k.signedBy = session.config.publicKey
             /\ TtlWithinCap(session, k)
             /\ AtClock(session, op[h].now).now <= k.expiresAt
             /\ ~UsedInThisLife(k)
        => Len(allowed') > Len(allowed) ]_vars

\* THREAT_MODEL.md: "A consumed approval cannot be reused".  In the life of a
\* session no token lets two requests through.
SingleUse ==
  \A i, j \in DOMAIN allowed :
    i # j /\ allowed[i].life = allowed[j].life => allowed[i].token # allowed[j].token

\* ASSURANCE_CASE.md: "a re-presented nonce is refused".  In the life of a
\* session no nonce is used twice for one target.
NonceRefused ==
  \A i, j \in DOMAIN allowed :
    i # j /\ allowed[i].life = allowed[j].life =>
      \/ allowed[i].token.nonce # allowed[j].token.nonce
      \/ allowed[i].token.target # allowed[j].token.target

\* Every call of a thread returns: no path through an export keeps the mutex.
EveryCallReturns == \A h \in Thread : pc[h] = "lock" ~> pc[h] = "idle"

-----------------------------------------------------------------------------
(***************************************************************************)
(* The inductive invariant behind the single use of tokens.                *)
(***************************************************************************)

\* Threads are between Lock and Unlock exactly if they hold the mutex.
MutexHeld == \A h \in Thread : pc[h] \in {"get", "run", "unlock"} <=> lock = h

\* A token used in this life is in the store, unless a later use was past its
\* expiry: only an Allow prunes, and it prunes by its own time.
RememberedUntilExpiry ==
  \A i \in DOMAIN allowed :
    allowed[i].life = life =>
      /\ session # NoSession
      /\ \/ Entry(session, allowed[i].token) \in session.consumed
         \/ \E j \in i + 1 .. Len(allowed) :
              allowed[j].life = life /\ allowed[j].at > allowed[i].token.expiresAt

NoFutureLife == \A i \in DOMAIN allowed : allowed[i].life <= life

SessionInv ==
  /\ MutexHeld /\ SnapshotIsCurrent
  /\ RememberedUntilExpiry /\ NoFutureLife

Abstract == INSTANCE SingleUseTokens WITH used <- allowed, Times <- Clock

\* The session implements the promise on single use.
ImplementsSingleUse == Abstract!Spec
=============================================================================
