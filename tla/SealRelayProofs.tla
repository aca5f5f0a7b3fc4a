-------------------------- MODULE SealRelayProofs --------------------------
(***************************************************************************)
(* Theorems about SealRelay for every value of its constants.              *)
(***************************************************************************)
EXTENDS SealRelay, TLAPS, SequenceTheorems

\* What appending a piece and taking the head do to a sequence.
LEMMA Grown ==
  ASSUME NEW S, NEW s \in Seq(S), NEW e \in S
  PROVE  /\ Append(s, e) \in Seq(S) /\ Len(Append(s, e)) = Len(s) + 1
         /\ Len(s) \in Nat
         /\ \A i \in 1 .. Len(s) : Append(s, e)[i] = s[i]
         /\ Append(s, e)[Len(s) + 1] = e
  BY AppendProperties, LenProperties

LEMMA Taken ==
  ASSUME NEW S, NEW s \in Seq(S), s # <<>>
  PROVE  Head(s) \in S /\ Tail(s) \in Seq(S) /\ Len(Tail(s)) = Len(s) - 1 /\ Len(s) \in Nat
  BY HeadTailProperties, LenProperties

\* The steps of the main thread keep the types.
LEMMA MainType ==
  ASSUME TypeOK, Main
  PROVE  TypeOK'
<1> USE RelayAssumption DEF TypeOK, MainGoes, clientVars, mainVars, childVars, relayVars,
        MainSteps, RelaySteps, Release
<1>1. CASE MainRead
  <2>1. /\ Head(hostIn) \in 1 .. MaxSent /\ Tail(hostIn) \in Seq(1 .. MaxSent)
        /\ Len(Tail(hostIn)) = Len(hostIn) - 1 /\ Len(hostIn) \in Nat
    BY <1>1, Taken DEF MainRead
  <2> QED
    BY <1>1, <2>1 DEF MainRead
<1>2. CASE MainForward
  <2>1. mainLine \in 1 .. MaxSent
    BY <1>2 DEF MainForward
  <2>2. childIn' \in Seq(1 .. MaxSent) /\ Len(childIn') <= PipeRoom
    BY <1>2, <2>1, Grown DEF MainForward, ChildRoom
  <2>3. passed' \in Seq(1 .. MaxSent)
    BY <1>2, <2>1, Grown DEF MainForward
  <2> QED
    BY <1>2, <2>2, <2>3 DEF MainForward
<1>3. ASSUME MainPut \/ MainFlush PROVE TypeOK'
  <2>1. PICK p \in {"put", "flush"} :
          wire' = Append(wire, [by |-> "main", line |-> mainLine, part |-> p])
    BY <1>3 DEF MainPut, MainFlush
  <2>2. [by |-> "main", line |-> mainLine, part |-> p] \in Pieces
    BY DEF Pieces
  <2>3. wire' \in Seq(Pieces) /\ drained \in 0 .. Len(wire')
    BY <2>1, <2>2, Grown
  <2>4. CASE MainPut
    BY <2>3, <2>4 DEF MainPut
  <2>5. CASE MainFlush
    BY <2>3, <2>5 DEF MainFlush
  <2> QED
    BY <1>3, <2>4, <2>5
<1>4. CASE MainGate
  BY <1>4 DEF MainGate
<1>5. CASE MainLock
  BY <1>5 DEF MainLock
<1>6. CASE ForwardThrows \/ AnswerThrows
  BY <1>6 DEF ForwardThrows, AnswerThrows
<1>7. CASE MainEof \/ MainWait
  BY <1>7 DEF MainEof, MainWait
<1>8. CASE MainKill
  <2>1. childAt' \in {"reading", "answering", "dead"} /\ inEnd' \in Ends
    BY <1>8 DEF MainKill, Dies, Ends
  <2>2. outOpen' \in BOOLEAN
    BY <1>8, Zenon DEF MainKill, Dies
  <2>3. UNCHANGED <<clientVars, hostIn, mainLine, passed, childIn, made, childOut, relayVars,
                    lock, wire>> /\ mainAt' = "wait"
    BY <1>8 DEF MainKill
  <2> QED
    BY <2>1, <2>2, <2>3
<1>9. CASE MainJoin
  BY <1>9 DEF MainJoin
<1> QED
  BY <1>1, <1>2, <1>3, <1>4, <1>5, <1>6, <1>7, <1>8, <1>9 DEF Main

\* So do those of the relay thread.
LEMMA RelayType ==
  ASSUME TypeOK, Relay
  PROVE  TypeOK'
<1> USE RelayAssumption DEF TypeOK, RelayGoes, clientVars, mainVars, childVars, relayVars,
        MainSteps, RelaySteps, Release
<1>1. CASE RelayRead
  <2>1. /\ Head(childOut) \in 1 .. MaxMade /\ Tail(childOut) \in Seq(1 .. MaxMade)
        /\ Len(Tail(childOut)) = Len(childOut) - 1 /\ Len(childOut) \in Nat
    BY <1>1, Taken DEF RelayRead
  <2> QED
    BY <1>1, <2>1 DEF RelayRead
<1>2. ASSUME RelayPut \/ RelayFlush PROVE TypeOK'
  <2>1. PICK p \in {"put", "flush"} :
          wire' = Append(wire, [by |-> "relay", line |-> relayLine, part |-> p])
    BY <1>2 DEF RelayPut, RelayFlush
  <2>2. [by |-> "relay", line |-> relayLine, part |-> p] \in Pieces
    BY DEF Pieces
  <2>3. wire' \in Seq(Pieces) /\ drained \in 0 .. Len(wire')
    BY <2>1, <2>2, Grown
  <2>4. CASE RelayPut
    BY <2>3, <2>4 DEF RelayPut
  <2>5. CASE RelayFlush
    BY <2>3, <2>5 DEF RelayFlush
  <2> QED
    BY <1>2, <2>4, <2>5
<1>3. CASE RelayEof
  BY <1>3 DEF RelayEof
<1>4. CASE RelayLock
  BY <1>4 DEF RelayLock
<1>5. CASE RelayThrows
  BY <1>5 DEF RelayThrows
<1> QED
  BY <1>1, <1>2, <1>3, <1>4, <1>5 DEF Relay

\* And what the client and the child do.
LEMMA OutsideType ==
  ASSUME TypeOK, Client \/ Child
  PROVE  TypeOK'
<1> USE RelayAssumption DEF TypeOK, clientVars, mainVars, childVars, relayVars,
        MainSteps, RelaySteps
<1>1. CASE ClientSend
  <2>1. hostIn' \in Seq(1 .. MaxSent) /\ Len(hostIn') <= PipeRoom
    BY <1>1, Grown DEF ClientSend
  <2> QED
    BY <1>1, <2>1 DEF ClientSend
<1>2. CASE ClientRead
  <2>1. Len(wire) \in Nat
    BY LenProperties
  <2> QED
    BY <1>2, <2>1 DEF ClientRead
<1>3. CASE ClientClose \/ ClientLeaves \/ ClientGone
  <2>1. hostEof' \in BOOLEAN /\ hostEnd' \in Ends
    BY <1>3, Zenon DEF ClientClose, ClientLeaves, ClientGone, Ends
  <2>2. UNCHANGED <<sent, drained, hostIn, mainVars, childIn, childVars, childOut, relayVars,
                    lock, wire>>
    BY <1>3 DEF ClientClose, ClientLeaves, ClientGone
  <2> QED
    BY <2>1, <2>2
<1>4. CASE ChildRead
  <2>1. /\ Tail(childIn) \in Seq(1 .. MaxSent)
        /\ Len(Tail(childIn)) = Len(childIn) - 1 /\ Len(childIn) \in Nat
    BY <1>4, Taken DEF ChildRead
  <2> QED
    BY <1>4, <2>1 DEF ChildRead
<1>5. CASE ChildWrite
  <2>1. childOut' \in Seq(1 .. MaxMade) /\ Len(childOut') <= PipeRoom
    BY <1>5, Grown DEF ChildWrite
  <2> QED
    BY <1>5, <2>1 DEF ChildWrite
<1>6. CASE ChildMute
  BY <1>6 DEF ChildMute
<1>7. CASE ChildLeaves \/ ChildExit
  <2>1. childAt' \in {"reading", "answering", "dead"} /\ inEnd' \in Ends
    BY <1>7 DEF ChildLeaves, ChildExit, Dies, Ends
  <2>2. outOpen' \in BOOLEAN
    BY <1>7, Zenon DEF ChildLeaves, ChildExit, Dies
  <2>3. UNCHANGED <<clientVars, hostIn, mainVars, childIn, made, childOut, relayVars, lock, wire>>
    BY <1>7 DEF ChildLeaves, ChildExit
  <2> QED
    BY <2>1, <2>2, <2>3
<1> QED
  BY <1>1, <1>2, <1>3, <1>4, <1>5, <1>6, <1>7 DEF Client, Child

\* Type correctness of the relay, with the bounds of the pipes.
THEOREM RelayTypeCorrect == Spec => []TypeOK
<1>1. Init => TypeOK
  <2>1. \A S : <<>> \in Seq(S) /\ Len(<<>>) = 0
    OBVIOUS
  <2>2. FALSE \in BOOLEAN /\ TRUE \in BOOLEAN
    OBVIOUS
  <2>3. /\ 0 \in 0 .. MaxSent /\ 0 \in 0 .. MaxMade /\ 0 \in 0 .. 0 /\ 0 <= PipeRoom
    BY RelayAssumption
  <2> QED
    BY <2>1, <2>2, <2>3, Zenon DEF Init, TypeOK, MainSteps, RelaySteps, Ends
<1>2. TypeOK /\ [Next]_vars => TypeOK'
  <2>1. ASSUME TypeOK, UNCHANGED vars PROVE TypeOK'
    BY <2>1 DEF TypeOK, vars, clientVars, mainVars, childVars, relayVars, Pieces
  <2> QED
    BY <2>1, MainType, RelayType, OutsideType DEF Next, Rest
<1> QED
  BY <1>1, <1>2, PTL DEF Spec

-----------------------------------------------------------------------------
(***************************************************************************)
(* The mutex.  A thread that is between putStr and the end of flush holds  *)
(* it, so a line that is open on the wire is the line of its holder, and   *)
(* stays open for ever only if the client has gone.                        *)
(***************************************************************************)
HoldersHold ==
  /\ mainAt \in {"put", "flush"} <=> lock = "main"
  /\ relayAt \in {"put", "flush"} <=> lock = "relay"

OpenLineIsHeld ==
  Len(wire) > 0 /\ wire[Len(wire)].part = "put" =>
    \/ hostGone
    \/ /\ mainAt = "flush"
       /\ wire[Len(wire)] = [by |-> "main", line |-> mainLine, part |-> "put"]
    \/ /\ relayAt = "flush"
       /\ wire[Len(wire)] = [by |-> "relay", line |-> relayLine, part |-> "put"]

WireInv == HoldersHold /\ OpenLineIsHeld /\ LinesNeverInterleave

\* A thread that writes nothing disturbs none of it.
LEMMA SilentKeeps ==
  ASSUME TypeOK, WireInv, UNCHANGED wire,
         hostGone => hostGone',
         HoldersHold',
         hostGone \/ mainAt = "flush" => hostGone' \/ UNCHANGED <<mainAt, mainLine>>,
         hostGone \/ relayAt = "flush" => hostGone' \/ UNCHANGED <<relayAt, relayLine>>
  PROVE  WireInv'
<1>1. OpenLineIsHeld'
  BY DEF WireInv, OpenLineIsHeld
<1>2. LinesNeverInterleave'
  BY DEF WireInv, LinesNeverInterleave
<1> QED
  BY <1>1, <1>2 DEF WireInv

\* The holder of the mutex opens a line on a wire that has none open ...
LEMMA PutKeeps ==
  ASSUME TypeOK, WireInv, ~hostGone,
         NEW e \in Pieces, wire' = Append(wire, e), e.part = "put",
         mainAt # "flush", relayAt # "flush",
         HoldersHold',
         \/ mainAt' = "flush" /\ e = [by |-> "main", line |-> mainLine', part |-> "put"]
         \/ relayAt' = "flush" /\ e = [by |-> "relay", line |-> relayLine', part |-> "put"]
  PROVE  WireInv'
<1> DEFINE n == Len(wire)
<1>1. /\ Len(wire') = n + 1 /\ n \in Nat
      /\ \A i \in 1 .. n : wire'[i] = wire[i]
      /\ wire'[n + 1] = e
  BY Grown DEF TypeOK
<1> HIDE DEF n
<1>2. OpenLineIsHeld'
  BY <1>1 DEF OpenLineIsHeld
<1>3. LinesNeverInterleave'
  <2>0. Len(wire') - 1 = n
    BY <1>1
  <2> SUFFICES ASSUME NEW k \in 1 .. n, wire'[k].part = "put"
               PROVE  wire'[k + 1] = [wire'[k] EXCEPT !.part = "flush"]
    BY <2>0 DEF LinesNeverInterleave
  <2>1. k # n
    BY <1>1 DEF WireInv, OpenLineIsHeld, n
  <2>2. k \in 1 .. n - 1 /\ k + 1 \in 1 .. n /\ k \in 1 .. n
    BY <1>1, <2>1
  <2>3. wire'[k] = wire[k] /\ wire'[k + 1] = wire[k + 1]
    BY <1>1, <2>2
  <2> QED
    BY <2>2, <2>3 DEF WireInv, LinesNeverInterleave, n
<1> QED
  BY <1>2, <1>3 DEF WireInv

\* ... and closes it.
LEMMA FlushKeeps ==
  ASSUME TypeOK, WireInv, ~hostGone, HoldersHold',
         NEW b \in {"main", "relay"}, NEW l \in Nat,
         wire' = Append(wire, [by |-> b, line |-> l, part |-> "flush"]),
         \/ mainAt = "flush" /\ relayAt # "flush" /\ b = "main" /\ l = mainLine
         \/ relayAt = "flush" /\ mainAt # "flush" /\ b = "relay" /\ l = relayLine
  PROVE  WireInv'
<1> DEFINE n == Len(wire)
           e == [by |-> b, line |-> l, part |-> "flush"]
<1>1. e \in Pieces
  BY DEF Pieces
<1>2. /\ Len(wire') = n + 1 /\ n \in Nat
      /\ \A i \in 1 .. n : wire'[i] = wire[i]
      /\ wire'[n + 1] = e
  BY <1>1, Grown DEF TypeOK
<1> HIDE DEF n
<1>3. OpenLineIsHeld'
  BY <1>2 DEF OpenLineIsHeld
<1>4. LinesNeverInterleave'
  <2> SUFFICES ASSUME NEW k \in 1 .. n, wire'[k].part = "put"
               PROVE  wire'[k + 1] = [wire'[k] EXCEPT !.part = "flush"]
    BY <1>2 DEF LinesNeverInterleave
  <2>1. CASE k = n
    <3>1. wire[n].part = "put" /\ wire'[k] = wire[n] /\ wire'[k + 1] = e
      BY <1>2, <2>1
    <3>2. wire[n] = [by |-> b, line |-> l, part |-> "put"]
      BY <1>2, <2>1, <3>1 DEF WireInv, OpenLineIsHeld, n
    <3>3. [[by |-> b, line |-> l, part |-> "put"] EXCEPT !.part = "flush"] = e
      OBVIOUS
    <3> HIDE DEF e
    <3> QED
      BY <3>1, <3>2, <3>3
  <2>2. CASE k # n
    <3>1. k \in 1 .. n - 1 /\ k + 1 \in 1 .. n /\ k \in 1 .. n
      BY <1>2, <2>2
    <3>2. wire'[k] = wire[k] /\ wire'[k + 1] = wire[k + 1]
      BY <1>2, <3>1
    <3> QED
      BY <3>1, <3>2 DEF WireInv, LinesNeverInterleave, n
  <2> QED
    BY <2>1, <2>2
<1> QED
  BY <1>3, <1>4 DEF WireInv

\* writeLocked: lines of the two threads never run into each other, for any
\* number of lines and any size of the pipes.
THEOREM LinesStayWhole == Spec => []LinesNeverInterleave
<1>1. Init => WireInv
  BY DEF Init, WireInv, HoldersHold, OpenLineIsHeld, LinesNeverInterleave
<1>2. ASSUME TypeOK, WireInv, [Next]_vars PROVE WireInv'
  <2> USE <1>2
  <2>1. CASE MainPut
    <3>1. HoldersHold' /\ relayAt # "flush"
      BY <2>1 DEF MainPut, MainGoes, relayVars, WireInv, HoldersHold
    <3>2. [by |-> "main", line |-> mainLine, part |-> "put"] \in Pieces
      BY DEF TypeOK, Pieces
    <3> QED
      BY <2>1, <3>1, <3>2, PutKeeps DEF MainPut, MainGoes, OutRoom
  <2>2. CASE RelayPut
    <3>1. HoldersHold' /\ mainAt # "flush"
      BY <2>2 DEF RelayPut, RelayGoes, mainVars, WireInv, HoldersHold
    <3>2. [by |-> "relay", line |-> relayLine, part |-> "put"] \in Pieces
      BY DEF TypeOK, Pieces
    <3> QED
      BY <2>2, <3>1, <3>2, PutKeeps DEF RelayPut, RelayGoes, OutRoom
  <2>3. CASE MainFlush
    <3>1. HoldersHold' /\ relayAt # "flush"
      BY <2>3 DEF MainFlush, MainGoes, relayVars, WireInv, HoldersHold, Release
    <3>2. mainLine \in Nat
      BY DEF TypeOK
    <3> QED
      BY <2>3, <3>1, <3>2, FlushKeeps DEF MainFlush, OutRoom
  <2>4. CASE RelayFlush
    <3>1. HoldersHold' /\ mainAt # "flush"
      BY <2>4 DEF RelayFlush, RelayGoes, mainVars, WireInv, HoldersHold, Release
    <3>2. relayLine \in Nat
      BY DEF TypeOK
    <3> QED
      BY <2>4, <3>1, <3>2, FlushKeeps DEF RelayFlush, OutRoom
  <2>5. CASE Client \/ Child \/ UNCHANGED vars
    <3>1. /\ UNCHANGED <<wire, lock, mainAt, mainLine, relayAt, relayLine>>
          /\ hostGone => hostGone'
      BY <2>5 DEF Client, ClientSend, ClientClose, ClientRead, ClientLeaves, ClientGone,
         hostGone, Child, ChildRead, ChildWrite, ChildMute, ChildLeaves, ChildExit, vars,
         clientVars, mainVars, relayVars
    <3>2. HoldersHold'
      BY <3>1 DEF WireInv, HoldersHold
    <3> QED
      BY <3>1, <3>2, SilentKeeps
  <2>6. CASE \/ MainRead \/ MainGate \/ MainForward \/ ForwardThrows \/ MainLock
             \/ AnswerThrows \/ MainEof \/ MainKill \/ MainWait \/ MainJoin
    <3>1. /\ UNCHANGED <<wire, hostGone, relayAt, relayLine>>
          /\ mainAt # "flush" \/ hostGone
      BY <2>6 DEF MainRead, MainGate, MainForward, ForwardThrows, MainLock, AnswerThrows,
         MainEof, MainKill, MainWait, MainJoin, MainGoes, clientVars, hostGone, relayVars
    <3>2. HoldersHold'
      BY <2>6, <3>1 DEF MainRead, MainGate, MainForward, ForwardThrows, MainLock, AnswerThrows,
                  MainEof, MainKill, MainWait, MainJoin, MainGoes, Release, LockFree,
                  WireInv, HoldersHold
    <3> QED
      BY <3>1, <3>2, SilentKeeps
  <2>7. CASE RelayRead \/ RelayEof \/ RelayLock \/ RelayThrows
    <3>1. /\ UNCHANGED <<wire, hostGone, mainAt, mainLine>>
          /\ relayAt # "flush" \/ hostGone
      BY <2>7 DEF RelayRead, RelayEof, RelayLock, RelayThrows, RelayGoes, clientVars,
         hostGone, mainVars
    <3>2. HoldersHold'
      BY <2>7, <3>1 DEF RelayRead, RelayEof, RelayLock, RelayThrows, RelayGoes, Release,
                        LockFree, WireInv, HoldersHold
    <3> QED
      BY <3>1, <3>2, SilentKeeps
  <2> QED
    BY <2>1, <2>2, <2>3, <2>4, <2>5, <2>6, <2>7 DEF Next, Main, Relay, Rest
<1>3. WireInv => LinesNeverInterleave
  BY DEF WireInv
<1> QED
  BY <1>1, <1>2, <1>3, RelayTypeCorrect, PTL DEF Spec

-----------------------------------------------------------------------------
(***************************************************************************)
(* Nothing is lost.  The pipes are in order, so the line in hand is the    *)
(* number of lines taken; what was taken is on the wire, forwarded or in   *)
(* hand.                                                                   *)
(***************************************************************************)
PipesInOrder ==
  /\ sent = mainLine + Len(hostIn) /\ \A i \in DOMAIN hostIn : hostIn[i] = mainLine + i
  /\ made = relayLine + Len(childOut) /\ \A i \in DOMAIN childOut : childOut[i] = relayLine + i

\* What the relay thread has put is what it took, but for the line in its hand.
PutIsTaken ==
  ~hostGone =>
    /\ \A k \in RelayPuts : wire[k].line \in 1 .. relayLine
    /\ \A n \in 1 .. relayLine :
         \/ n = relayLine /\ relayAt \in {"lock", "put"}
         \/ \E k \in RelayPuts : wire[k].line = n
    /\ relayAt \in {"lock", "put"} => relayLine # 0 /\ \A k \in RelayPuts : wire[k].line # relayLine
    /\ \A j, k \in RelayPuts : j < k => wire[j].line < wire[k].line

\* The relay thread ends in good order only at the end of the stream.
DoneHasDelivered ==
  /\ \A n \in 1 .. relayLine :
       n < relayLine \/ relayAt \in {"read", "done"} => Written("relay", n)
  /\ relayAt = "done" => StreamEnded
  /\ mainAt = "exited" => relayAt = "done"

\* A line the main thread has in hand is neither forwarded nor answered, one it has
\* gone past is one of the two.
HandledOnce ==
  /\ \A k \in DOMAIN passed : passed[k] \in 1 .. mainLine
  /\ \A n \in Nat : Written("main", n) => n \in 1 .. mainLine
  /\ mainAt \in {"gate", "forward", "lock", "put", "flush"} =>
       mainLine # 0 /\ ~Passed(mainLine) /\ ~Written("main", mainLine)
  /\ \A n \in 1 .. mainLine : n < mainLine \/ mainAt = "read" => (Passed(n) <=> ~Written("main", n))
  /\ \A j, k \in DOMAIN passed : j < k => passed[j] < passed[k]

KeepsEveryLine ==
  PipesInOrder /\ PutIsTaken /\ DoneHasDelivered /\ HandledOnce

\* Taking the head of a pipe whose lines are numbered from b + 1.
LEMMA HeadIsNext ==
  ASSUME NEW S, NEW q \in Seq(S), q # <<>>, NEW b \in Nat, \A i \in DOMAIN q : q[i] = b + i
  PROVE  /\ Head(q) = b + 1
         /\ Len(Tail(q)) = Len(q) - 1
         /\ \A i \in DOMAIN Tail(q) : Tail(q)[i] = b + 1 + i
<1>1. Len(q) \in Nat \ {0} /\ DOMAIN q = 1 .. Len(q) /\ Head(q) = q[1]
  OBVIOUS
<1>2. /\ Tail(q) \in Seq(S) /\ Len(Tail(q)) = Len(q) - 1
      /\ \A i \in 1 .. Len(q) - 1 : Tail(q)[i] = q[i + 1]
  OBVIOUS
<1>3. DOMAIN Tail(q) = 1 .. Len(q) - 1
  BY <1>2
<1>4. \A i \in 1 .. Len(q) - 1 : i + 1 \in DOMAIN q /\ b + (i + 1) = b + 1 + i
  BY <1>1
<1>5. Head(q) = b + 1
  <2>1. 1 \in DOMAIN q
    BY <1>1
  <2> QED
    BY <1>1, <2>1
<1>6. ASSUME NEW i \in DOMAIN Tail(q) PROVE Tail(q)[i] = b + 1 + i
  <2>1. i \in 1 .. Len(q) - 1
    BY <1>3
  <2>2. Tail(q)[i] = q[i + 1] /\ q[i + 1] = b + (i + 1) /\ b + (i + 1) = b + 1 + i
    BY <1>2, <1>4, <2>1
  <2> QED
    BY <2>2
<1> QED
  BY <1>2, <1>5, <1>6

\* Appending the next line to such a pipe.
LEMMA NextIsLast ==
  ASSUME NEW S, NEW q \in Seq(S), NEW b \in Nat, \A i \in DOMAIN q : q[i] = b + i,
         b + Len(q) + 1 \in S
  PROVE  \A i \in DOMAIN Append(q, b + Len(q) + 1) : Append(q, b + Len(q) + 1)[i] = b + i
<1> DEFINE x == b + Len(q) + 1
<1>1. /\ Len(q) \in Nat /\ DOMAIN q = 1 .. Len(q) /\ x \in S
  OBVIOUS
<1>2. x = b + (Len(q) + 1)
  BY <1>1
<1> HIDE DEF x
<1>3. /\ DOMAIN Append(q, x) = 1 .. Len(q) + 1
      /\ \A i \in 1 .. Len(q) : Append(q, x)[i] = q[i]
      /\ Append(q, x)[Len(q) + 1] = x
  BY <1>1
<1>4. \A i \in 1 .. Len(q) + 1 : Append(q, x)[i] = b + i
  BY <1>1, <1>2, <1>3
<1> QED
  BY <1>3, <1>4 DEF x

LEMMA OrderStep ==
  ASSUME TypeOK, PipesInOrder, [Next]_vars
  PROVE  PipesInOrder'
<1>0. /\ hostIn \in Seq(1 .. MaxSent) /\ childOut \in Seq(1 .. MaxMade)
      /\ mainLine \in Nat /\ relayLine \in Nat /\ sent \in Nat /\ made \in Nat
      /\ Len(hostIn) \in Nat /\ Len(childOut) \in Nat
  BY RelayAssumption DEF TypeOK
<1>1. CASE UNCHANGED <<sent, hostIn, mainLine, made, childOut, relayLine>>
  BY <1>1 DEF PipesInOrder
<1>2. CASE ClientSend
  <2>1. sent' = sent + 1 /\ hostIn' = Append(hostIn, mainLine + Len(hostIn) + 1)
    BY <1>0, <1>2 DEF ClientSend, PipesInOrder
  <2>2. mainLine + Len(hostIn) + 1 \in 1 .. MaxSent
    BY <1>0, <1>2, RelayAssumption DEF ClientSend, PipesInOrder, TypeOK
  <2>3. \A i \in DOMAIN hostIn' : hostIn'[i] = mainLine + i
    BY <1>0, <2>1, <2>2, NextIsLast DEF PipesInOrder
  <2>4. Len(hostIn') = Len(hostIn) + 1
    BY <1>0, <2>1, <2>2
  <2>5. UNCHANGED <<mainLine, made, childOut, relayLine>>
    BY <1>2 DEF ClientSend, mainVars, childVars, relayVars
  <2> QED
    BY <1>0, <2>1, <2>3, <2>4, <2>5 DEF PipesInOrder
<1>3. CASE ChildWrite
  <2>1. made' = made + 1 /\ childOut' = Append(childOut, relayLine + Len(childOut) + 1)
    BY <1>0, <1>3 DEF ChildWrite, PipesInOrder
  <2>2. relayLine + Len(childOut) + 1 \in 1 .. MaxMade
    BY <1>0, <1>3, RelayAssumption DEF ChildWrite, PipesInOrder, TypeOK
  <2>3. \A i \in DOMAIN childOut' : childOut'[i] = relayLine + i
    BY <1>0, <2>1, <2>2, NextIsLast DEF PipesInOrder
  <2>4. Len(childOut') = Len(childOut) + 1
    BY <1>0, <2>1, <2>2
  <2>5. UNCHANGED <<sent, hostIn, mainLine, relayLine>>
    BY <1>3 DEF ChildWrite, clientVars, mainVars, relayVars
  <2> QED
    BY <1>0, <2>1, <2>3, <2>4, <2>5 DEF PipesInOrder
<1>4. CASE MainRead
  <2>1. /\ Head(hostIn) = mainLine + 1 /\ Len(Tail(hostIn)) = Len(hostIn) - 1
        /\ \A i \in DOMAIN Tail(hostIn) : Tail(hostIn)[i] = mainLine + 1 + i
    BY <1>0, <1>4, HeadIsNext DEF MainRead, PipesInOrder
  <2>2. /\ mainLine' = mainLine + 1 /\ hostIn' = Tail(hostIn)
        /\ UNCHANGED <<sent, made, childOut, relayLine>>
    BY <1>4, <2>1 DEF MainRead, MainGoes, clientVars, childVars, relayVars
  <2>3. Len(Tail(hostIn)) = Len(hostIn) - 1 /\ sent = mainLine + Len(hostIn)
    BY <2>1 DEF PipesInOrder
  <2>4. sent' = mainLine' + Len(hostIn')
    <3>1. Len(hostIn') = Len(hostIn) - 1
      BY <2>2, <2>3
    <3>2. sent' = sent /\ mainLine' = mainLine + 1 /\ sent = mainLine + Len(hostIn)
      BY <2>2, <2>3
    <3>3. mainLine \in Nat /\ Len(hostIn) \in Nat
      BY <1>0
    <3> QED
      BY <3>1, <3>2, <3>3
  <2>5. \A i \in DOMAIN hostIn' : hostIn'[i] = mainLine' + i
    BY <2>1, <2>2
  <2> QED
    BY <2>2, <2>4, <2>5 DEF PipesInOrder
<1>5. CASE RelayRead
  <2>1. /\ Head(childOut) = relayLine + 1 /\ Len(Tail(childOut)) = Len(childOut) - 1
        /\ \A i \in DOMAIN Tail(childOut) : Tail(childOut)[i] = relayLine + 1 + i
    BY <1>0, <1>5, HeadIsNext DEF RelayRead, PipesInOrder
  <2>2. /\ relayLine' = relayLine + 1 /\ childOut' = Tail(childOut)
        /\ UNCHANGED <<sent, made, hostIn, mainLine>>
    BY <1>5, <2>1 DEF RelayRead, RelayGoes, clientVars, childVars, mainVars
  <2>3. Len(Tail(childOut)) = Len(childOut) - 1 /\ made = relayLine + Len(childOut)
    BY <2>1 DEF PipesInOrder
  <2>4. made' = relayLine' + Len(childOut')
    <3>1. Len(childOut') = Len(childOut) - 1
      BY <2>2, <2>3
    <3>2. made' = made /\ relayLine' = relayLine + 1 /\ made = relayLine + Len(childOut)
      BY <2>2, <2>3
    <3>3. relayLine \in Nat /\ Len(childOut) \in Nat
      BY <1>0
    <3> QED
      BY <3>1, <3>2, <3>3
  <2>5. \A i \in DOMAIN childOut' : childOut'[i] = relayLine' + i
    BY <2>1, <2>2
  <2> QED
    BY <2>2, <2>4, <2>5 DEF PipesInOrder
<1>6. CASE Client \/ Child \/ UNCHANGED vars
  BY <1>1, <1>2, <1>3, <1>6 DEF Client, ClientClose, ClientRead, ClientLeaves, ClientGone,
     Child, ChildRead, ChildMute, ChildLeaves, ChildExit, vars, clientVars, mainVars,
     childVars, relayVars
<1>7. CASE Main
  BY <1>1, <1>4, <1>7 DEF Main, MainGate, MainForward, ForwardThrows, MainLock, MainPut,
     MainFlush, AnswerThrows, MainEof, MainKill, MainWait, MainJoin, MainGoes, clientVars,
     childVars, relayVars
<1>8. CASE Relay
  BY <1>1, <1>5, <1>8 DEF Relay, RelayEof, RelayLock, RelayPut, RelayFlush, RelayThrows,
     RelayGoes, clientVars, childVars, mainVars
<1> QED
  BY <1>6, <1>7, <1>8 DEF Next, Rest

-----------------------------------------------------------------------------
\* What a piece more does to the wire.
LEMMA PieceAdded ==
  ASSUME TypeOK, NEW e \in Pieces, wire' = Append(wire, e)
  PROVE  /\ Len(wire) \in Nat /\ DOMAIN wire = 1 .. Len(wire)
         /\ DOMAIN wire' = 1 .. Len(wire) + 1
         /\ \A k \in DOMAIN wire : wire'[k] = wire[k]
         /\ wire'[Len(wire) + 1] = e
         /\ \A b, n : Written(b, n)' <=>
                        Written(b, n) \/ e = [by |-> b, line |-> n, part |-> "flush"]
         /\ RelayPuts' = IF e.by = "relay" /\ e.part = "put"
                           THEN RelayPuts \cup {Len(wire) + 1} ELSE RelayPuts
<1>1. /\ Len(wire) \in Nat /\ DOMAIN wire = 1 .. Len(wire)
      /\ DOMAIN wire' = 1 .. Len(wire) + 1
      /\ \A k \in DOMAIN wire : wire'[k] = wire[k]
      /\ wire'[Len(wire) + 1] = e
  BY Grown DEF TypeOK
<1>2. DOMAIN wire' = DOMAIN wire \cup {Len(wire) + 1} /\ Len(wire) + 1 \notin DOMAIN wire
  BY <1>1
<1>3. \A b, n : Written(b, n)' <=>
                  Written(b, n) \/ e = [by |-> b, line |-> n, part |-> "flush"]
  BY <1>1, <1>2, Zenon DEF Written
<1>4. RelayPuts' = IF e.by = "relay" /\ e.part = "put"
                     THEN RelayPuts \cup {Len(wire) + 1} ELSE RelayPuts
  BY <1>1, <1>2 DEF RelayPuts
<1> QED
  BY <1>1, <1>3, <1>4

\* The next line of the child comes into the relay thread's hand.
LEMMA RelayTakesNext ==
  ASSUME TypeOK, PipesInOrder, RelayRead
  PROVE  relayLine' = relayLine + 1
<1>1. childOut \in Seq(1 .. MaxMade) /\ childOut # <<>> /\ relayLine \in Nat
  BY DEF RelayRead, TypeOK
<1> QED
  BY <1>1, HeadIsNext DEF RelayRead, PipesInOrder

LEMMA MainTakesNext ==
  ASSUME TypeOK, PipesInOrder, MainRead
  PROVE  mainLine' = mainLine + 1
<1>1. hostIn \in Seq(1 .. MaxSent) /\ hostIn # <<>> /\ mainLine \in Nat
  BY DEF MainRead, TypeOK
<1> QED
  BY <1>1, HeadIsNext DEF MainRead, PipesInOrder

\* Whoever is silent, or whose pieces are not the relay's, keeps the relay's.
LEMMA PutsKept ==
  ASSUME PutIsTaken, hostGone => hostGone', relayLine' = relayLine,
         relayAt' \in {"lock", "put"} <=> relayAt \in {"lock", "put"},
         RelayPuts' = RelayPuts, \A k \in RelayPuts : wire'[k] = wire[k]
  PROVE  PutIsTaken'
BY DEF PutIsTaken

LEMMA PutStep ==
  ASSUME TypeOK, PipesInOrder, PutIsTaken, [Next]_vars
  PROVE  PutIsTaken'
<1>0. relayLine \in Nat /\ mainLine \in Nat
  BY RelayAssumption DEF TypeOK
<1>1. CASE UNCHANGED wire /\ (hostGone => hostGone') /\ UNCHANGED <<relayLine, relayAt>>
  <2>1. RelayPuts' = RelayPuts
    BY <1>1 DEF RelayPuts
  <2> QED
    BY <1>1, <2>1, PutsKept
<1>2. CASE Client \/ Child \/ UNCHANGED vars
  BY <1>1, <1>2 DEF Client, ClientSend, ClientClose, ClientRead, ClientLeaves, ClientGone,
     hostGone, Child, ChildRead, ChildWrite, ChildMute, ChildLeaves, ChildExit, vars,
     clientVars, relayVars
<1>3. CASE MainPut \/ MainFlush
  <2>1. PICK part \in {"put", "flush"} :
          wire' = Append(wire, [by |-> "main", line |-> mainLine, part |-> part])
    BY <1>3 DEF MainPut, MainFlush
  <2> DEFINE e == [by |-> "main", line |-> mainLine, part |-> part]
  <2>2. e \in Pieces /\ e.by = "main"
    BY <1>0 DEF Pieces
  <2>3. RelayPuts' = RelayPuts /\ \A k \in DOMAIN wire : wire'[k] = wire[k]
    <3> HIDE DEF e
    <3>1. wire' = Append(wire, e)
      BY <2>1 DEF e
    <3> QED
      BY <2>2, <3>1, PieceAdded
  <2>4. UNCHANGED <<hostGone, relayLine, relayAt>>
    BY <1>3 DEF MainPut, MainFlush, MainGoes, clientVars, hostGone, relayVars
  <2> QED
    BY <2>3, <2>4, PutsKept DEF RelayPuts
<1>4. CASE \/ MainRead \/ MainGate \/ MainForward \/ ForwardThrows \/ MainLock
           \/ AnswerThrows \/ MainEof \/ MainKill \/ MainWait \/ MainJoin
  BY <1>1, <1>4 DEF MainRead, MainGate, MainForward, ForwardThrows, MainLock, AnswerThrows,
     MainEof, MainKill, MainWait, MainJoin, MainGoes, clientVars, hostGone, relayVars
<1>5. CASE RelayRead
  <2>1. relayLine' = relayLine + 1 /\ relayAt = "read" /\ relayAt' = "lock"
        /\ UNCHANGED <<wire, hostGone>>
    BY <1>5, RelayTakesNext DEF RelayRead, RelayGoes, clientVars, hostGone
  <2>2. RelayPuts' = RelayPuts
    BY <2>1 DEF RelayPuts
  <2> SUFFICES ASSUME ~hostGone PROVE PutIsTaken'
    BY <2>1 DEF PutIsTaken
  <2>3. /\ \A k \in RelayPuts : wire[k].line \in 1 .. relayLine
        /\ \A n \in 1 .. relayLine : \E k \in RelayPuts : wire[k].line = n
        /\ \A j, k \in RelayPuts : j < k => wire[j].line < wire[k].line
    BY <2>1 DEF PutIsTaken
  <2>4. /\ \A k \in RelayPuts : wire[k].line \in 1 .. relayLine + 1 /\ wire[k].line # relayLine + 1
        /\ \A n \in 1 .. relayLine + 1 : n = relayLine + 1 \/ n \in 1 .. relayLine
        /\ relayLine + 1 # 0
    BY <1>0, <2>3
  <2> QED
    BY <2>1, <2>2, <2>3, <2>4 DEF PutIsTaken
<1>6. CASE RelayPut
  <2> DEFINE e == [by |-> "relay", line |-> relayLine, part |-> "put"]
  <2>1. wire' = Append(wire, e) /\ ~hostGone /\ relayAt = "put" /\ relayAt' = "flush"
        /\ UNCHANGED <<hostGone, relayLine>>
    BY <1>6 DEF RelayPut, RelayGoes, OutRoom, clientVars, hostGone
  <2>2. e \in Pieces /\ e.by = "relay" /\ e.part = "put" /\ e.line = relayLine
    BY <1>0 DEF Pieces
  <2> HIDE DEF e
  <2>3. /\ RelayPuts' = RelayPuts \cup {Len(wire) + 1}
        /\ \A k \in RelayPuts : wire'[k] = wire[k] /\ k < Len(wire) + 1 /\ k \in Nat
        /\ wire'[Len(wire) + 1].line = relayLine /\ Len(wire) + 1 \in Nat
    <3>1. /\ Len(wire) \in Nat /\ DOMAIN wire = 1 .. Len(wire)
          /\ \A k \in DOMAIN wire : wire'[k] = wire[k]
          /\ wire'[Len(wire) + 1] = e
          /\ RelayPuts' = RelayPuts \cup {Len(wire) + 1}
      BY <2>1, <2>2, PieceAdded
    <3>2. RelayPuts \subseteq DOMAIN wire
      BY DEF RelayPuts
    <3> QED
      BY <2>2, <3>1, <3>2
  <2>4. /\ \A k \in RelayPuts : wire[k].line \in 1 .. relayLine /\ wire[k].line < relayLine
        /\ relayLine \in 1 .. relayLine
        /\ \A n \in 1 .. relayLine : n = relayLine \/ \E k \in RelayPuts : wire[k].line = n
        /\ \A j, k \in RelayPuts : j < k => wire[j].line < wire[k].line
    BY <1>0, <2>1 DEF PutIsTaken
  <2>5. \A k \in RelayPuts' : wire'[k].line \in 1 .. relayLine
    BY <2>3, <2>4
  <2>6. \A n \in 1 .. relayLine : \E k \in RelayPuts' : wire'[k].line = n
    BY <2>3, <2>4
  <2>7. \A j, k \in RelayPuts' : j < k => wire'[j].line < wire'[k].line
    BY <2>3, <2>4
  <2> QED
    BY <2>1, <2>5, <2>6, <2>7 DEF PutIsTaken
<1>7. CASE RelayFlush
  <2> DEFINE e == [by |-> "relay", line |-> relayLine, part |-> "flush"]
  <2>1. wire' = Append(wire, e) /\ relayAt = "flush" /\ relayAt' = "read"
        /\ UNCHANGED <<hostGone, relayLine>>
    BY <1>7 DEF RelayFlush, RelayGoes, clientVars, hostGone
  <2>2. e \in Pieces /\ e.part = "flush"
    BY <1>0 DEF Pieces
  <2> HIDE DEF e
  <2>3. RelayPuts' = RelayPuts /\ \A k \in DOMAIN wire : wire'[k] = wire[k]
    BY <2>1, <2>2, PieceAdded
  <2> QED
    BY <2>1, <2>3, PutsKept DEF RelayPuts
<1>8. CASE RelayLock
  <2>1. UNCHANGED <<wire, hostGone, relayLine>> /\ relayAt = "lock" /\ relayAt' = "put"
    BY <1>8 DEF RelayLock, RelayGoes, clientVars, hostGone
  <2> QED
    BY <2>1, PutsKept DEF RelayPuts
<1>9. CASE RelayEof
  <2>1. UNCHANGED <<wire, hostGone, relayLine>> /\ relayAt = "read" /\ relayAt' = "done"
    BY <1>9 DEF RelayEof, RelayGoes, clientVars, hostGone
  <2> QED
    BY <2>1, PutsKept DEF RelayPuts
<1>10. CASE RelayThrows
  BY <1>10 DEF RelayThrows, RelayGoes, clientVars, hostGone, PutIsTaken
<1> QED
  BY <1>2, <1>3, <1>4, <1>5, <1>6, <1>7, <1>8, <1>9, <1>10 DEF Next, Main, Relay, Rest

-----------------------------------------------------------------------------
\* The flushes of a thread stay; only MainFlush and RelayFlush add to them.
LEMMA FlushesKept ==
  ASSUME TypeOK, [Next]_vars, NEW b, NEW n, Written(b, n)
  PROVE  Written(b, n)'
<1>1. CASE UNCHANGED wire
  BY <1>1 DEF Written
<1>2. CASE MainPut \/ MainFlush \/ RelayPut \/ RelayFlush
  <2>1. PICK by \in {"main", "relay"}, line \in Nat, part \in {"put", "flush"} :
          wire' = Append(wire, [by |-> by, line |-> line, part |-> part])
    <3>1. mainLine \in Nat /\ relayLine \in Nat
      BY RelayAssumption DEF TypeOK
    <3> QED
      BY <1>2, <3>1 DEF MainPut, MainFlush, RelayPut, RelayFlush
  <2>2. [by |-> by, line |-> line, part |-> part] \in Pieces
    BY DEF Pieces
  <2> QED
    BY <2>1, <2>2, PieceAdded
<1>3. CASE Client \/ Child \/ UNCHANGED vars
  BY <1>1, <1>3 DEF Client, ClientSend, ClientClose, ClientRead, ClientLeaves, ClientGone,
     Child, ChildRead, ChildWrite, ChildMute, ChildLeaves, ChildExit, vars
<1>4. CASE Main \/ Relay
  BY <1>1, <1>2, <1>4 DEF Main, Relay, MainRead, MainGate, MainForward, ForwardThrows,
     MainLock, AnswerThrows, MainEof, MainKill, MainWait, MainJoin, MainGoes, RelayRead,
     RelayEof, RelayLock, RelayThrows
<1> QED
  BY <1>3, <1>4 DEF Next, Rest

LEMMA DoneStep ==
  ASSUME TypeOK, PipesInOrder, DoneHasDelivered, [Next]_vars
  PROVE  DoneHasDelivered'
<1>0. relayLine \in Nat
  BY RelayAssumption DEF TypeOK
<1>1. CASE /\ UNCHANGED <<relayLine, relayAt>>
           /\ relayAt = "done" => StreamEnded'
           /\ mainAt' = "exited" => mainAt = "exited" \/ relayAt = "done"
  <2>1. \A n \in 1 .. relayLine : Written("relay", n) => Written("relay", n)'
    BY FlushesKept
  <2> QED
    BY <1>1, <2>1 DEF DoneHasDelivered
<1>2. CASE Client \/ Child \/ UNCHANGED vars
  <2>1. UNCHANGED <<relayLine, relayAt, mainAt>>
    BY <1>2 DEF Client, ClientSend, ClientClose, ClientRead, ClientLeaves, ClientGone,
       Child, ChildRead, ChildWrite, ChildMute, ChildLeaves, ChildExit, vars, relayVars,
       mainVars
  <2>2. StreamEnded => StreamEnded'
    BY <1>2 DEF Client, ClientSend, ClientClose, ClientRead, ClientLeaves, ClientGone,
       Child, ChildRead, ChildWrite, ChildMute, ChildLeaves, ChildExit, vars, childVars,
       Dies, StreamEnded
  <2> QED
    BY <1>1, <2>1, <2>2 DEF DoneHasDelivered
<1>3. CASE Main
  <2>1. UNCHANGED <<relayLine, relayAt, childOut>>
    BY <1>3 DEF Main, MainRead, MainGate, MainForward, ForwardThrows, MainLock, MainPut,
       MainFlush, AnswerThrows, MainEof, MainKill, MainWait, MainJoin, MainGoes, relayVars
  <2>3. ~outOpen => ~outOpen'
    <3>1. CASE MainKill
      BY <3>1, Zenon DEF MainKill, Dies
    <3>2. CASE ~MainKill
      BY <1>3, <3>2 DEF Main, MainRead, MainGate, MainForward, ForwardThrows, MainLock,
         MainPut, MainFlush, AnswerThrows, MainEof, MainWait, MainJoin, MainGoes, childVars
    <3> QED
      BY <3>1, <3>2
  <2>2. mainAt' = "exited" => relayAt = "done"
    BY <1>3 DEF Main, MainRead, MainGate, MainForward, ForwardThrows, MainLock, MainPut,
       MainFlush, AnswerThrows, MainEof, MainKill, MainWait, MainJoin, MainGoes
  <2> QED
    BY <1>1, <2>1, <2>2, <2>3 DEF DoneHasDelivered, StreamEnded
<1>4. CASE Relay
  <2>0. /\ mainAt' = mainAt /\ mainAt # "exited" /\ relayAt # "done"
        /\ \A n \in 1 .. relayLine :
             n < relayLine \/ relayAt = "read" => Written("relay", n)'
    BY <1>4, FlushesKept DEF Relay, RelayRead, RelayEof, RelayLock, RelayPut, RelayFlush,
       RelayThrows, RelayGoes, Over, mainVars, DoneHasDelivered
  <2>1. CASE RelayRead
    <3>1. relayLine' = relayLine + 1 /\ relayAt = "read" /\ relayAt' = "lock"
      BY <2>1, RelayTakesNext DEF RelayRead, RelayGoes
    <3>2. \A n \in 1 .. relayLine' : n < relayLine' => n \in 1 .. relayLine
      BY <1>0, <3>1
    <3> QED
      BY <2>0, <3>1, <3>2 DEF DoneHasDelivered
  <2>2. CASE RelayEof
    <3>1. relayLine' = relayLine /\ relayAt = "read" /\ StreamEnded'
      BY <2>2 DEF RelayEof, RelayGoes, StreamEnded, childVars
    <3> QED
      BY <2>0, <3>1 DEF DoneHasDelivered
  <2>3. CASE RelayFlush
    <3> DEFINE e == [by |-> "relay", line |-> relayLine, part |-> "flush"]
    <3>1. relayLine' = relayLine /\ relayAt' = "read" /\ wire' = Append(wire, e)
      BY <2>3 DEF RelayFlush, RelayGoes
    <3>2. e \in Pieces
      BY <1>0 DEF Pieces
    <3>3. Written("relay", relayLine)'
      BY <3>1, <3>2, PieceAdded
    <3>4. \A n \in 1 .. relayLine : n < relayLine \/ n = relayLine
      BY <1>0
    <3> QED
      BY <2>0, <3>1, <3>3, <3>4 DEF DoneHasDelivered
  <2>4. CASE RelayLock \/ RelayPut \/ RelayThrows
    <3>1. relayLine' = relayLine /\ relayAt' \in {"put", "flush", "broken"}
      BY <2>4 DEF RelayLock, RelayPut, RelayThrows, RelayGoes
    <3> QED
      BY <2>0, <3>1 DEF DoneHasDelivered
  <2> QED
    BY <1>4, <2>1, <2>2, <2>3, <2>4 DEF Relay
<1> QED
  BY <1>2, <1>3, <1>4 DEF Next, Rest

-----------------------------------------------------------------------------
\* A step that handles no line.
LEMMA HandledKept ==
  ASSUME HandledOnce, UNCHANGED <<passed, mainLine>>,
         \A n : Written("main", n)' <=> Written("main", n),
         mainAt' \in {"gate", "forward", "lock", "put", "flush"} =>
           mainAt \in {"gate", "forward", "lock", "put", "flush"},
         mainAt' = "read" => mainAt = "read"
  PROVE  HandledOnce'
BY Zenon DEF HandledOnce, Passed

\* Only MainFlush adds an answer.
LEMMA AnswersKept ==
  ASSUME TypeOK, [Next]_vars, ~MainFlush
  PROVE  \A n : Written("main", n)' <=> Written("main", n)
<1>1. CASE UNCHANGED wire
  BY <1>1 DEF Written
<1>2. CASE MainPut
  <2> DEFINE e == [by |-> "main", line |-> mainLine, part |-> "put"]
  <2>1. wire' = Append(wire, e)
    BY <1>2 DEF MainPut
  <2>2. e \in Pieces /\ e.part = "put"
    BY RelayAssumption DEF TypeOK, Pieces
  <2>3. \A n : [by |-> "main", line |-> n, part |-> "flush"].part = "flush"
    OBVIOUS
  <2> HIDE DEF e
  <2> QED
    BY <2>1, <2>2, <2>3, PieceAdded
<1>3. CASE RelayPut \/ RelayFlush
  <2>1. PICK part \in {"put", "flush"} :
          wire' = Append(wire, [by |-> "relay", line |-> relayLine, part |-> part])
    BY <1>3 DEF RelayPut, RelayFlush
  <2> DEFINE e == [by |-> "relay", line |-> relayLine, part |-> part]
  <2>2. e \in Pieces /\ e.by = "relay"
    BY RelayAssumption DEF TypeOK, Pieces
  <2>3. \A n : [by |-> "main", line |-> n, part |-> "flush"].by = "main"
    OBVIOUS
  <2>4. wire' = Append(wire, e)
    BY <2>1
  <2> HIDE DEF e
  <2> QED
    BY <2>2, <2>3, <2>4, PieceAdded
<1>4. CASE Client \/ Child \/ UNCHANGED vars
  BY <1>1, <1>4 DEF Client, ClientSend, ClientClose, ClientRead, ClientLeaves, ClientGone,
     Child, ChildRead, ChildWrite, ChildMute, ChildLeaves, ChildExit, vars
<1>5. CASE Main \/ Relay
  BY <1>1, <1>2, <1>3, <1>5 DEF Main, Relay, MainRead, MainGate, MainForward, ForwardThrows,
     MainLock, AnswerThrows, MainEof, MainKill, MainWait, MainJoin, MainGoes, RelayRead,
     RelayEof, RelayLock, RelayThrows
<1> QED
  BY <1>4, <1>5 DEF Next, Rest

LEMMA HandledStep ==
  ASSUME TypeOK, PipesInOrder, HandledOnce, [Next]_vars
  PROVE  HandledOnce'
<1>0. /\ mainLine \in Nat /\ passed \in Seq(Nat) /\ Len(passed) \in Nat
      /\ DOMAIN passed = 1 .. Len(passed)
  BY RelayAssumption DEF TypeOK
<1>1. CASE MainRead
  <2>1. /\ mainLine' = mainLine + 1 /\ mainAt = "read" /\ mainAt' = "gate" /\ passed' = passed
    BY <1>1, MainTakesNext DEF MainRead, MainGoes
  <2>2. \A n : Written("main", n)' <=> Written("main", n)
    BY <1>1 DEF MainRead, Written
  <2>3. /\ \A n \in 1 .. mainLine : n \in 1 .. mainLine + 1
        /\ \A n \in 1 .. mainLine + 1 : n < mainLine + 1 => n \in 1 .. mainLine
        /\ mainLine + 1 \notin 1 .. mainLine /\ mainLine + 1 \in Nat /\ mainLine + 1 # 0
    BY <1>0
  <2>4. /\ \A k \in DOMAIN passed : passed[k] \in 1 .. mainLine
        /\ \A n \in Nat : Written("main", n) => n \in 1 .. mainLine
        /\ \A n \in 1 .. mainLine : Passed(n) <=> ~Written("main", n)
        /\ \A j, k \in DOMAIN passed : j < k => passed[j] < passed[k]
    BY <2>1 DEF HandledOnce
  <2>5. ~Passed(mainLine + 1) /\ ~Written("main", mainLine + 1)
    BY <2>3, <2>4 DEF Passed
  <2>6. \A n : Passed(n)' <=> Passed(n)
    BY <2>1 DEF Passed
  <2>7. /\ ~(Passed(mainLine)') /\ ~(Written("main", mainLine)')
        /\ \A n \in 1 .. mainLine + 1 :
             n < mainLine + 1 => (Passed(n)' <=> ~(Written("main", n)'))
    <3>1. /\ ~(Passed(mainLine)') /\ ~(Written("main", mainLine)')
      BY <2>1, <2>2, <2>5, <2>6
    <3>2. \A n \in 1 .. mainLine + 1 : n < mainLine + 1 => (Passed(n) <=> ~Written("main", n))
      BY <2>3, <2>4
    <3> QED
      BY <2>2, <2>6, <3>1, <3>2, Zenon
  <2> QED
    BY <2>1, <2>2, <2>3, <2>4, <2>7 DEF HandledOnce
<1>2. CASE MainForward
  <2>1. /\ passed' = Append(passed, mainLine) /\ mainLine' = mainLine /\ wire' = wire
        /\ mainAt = "forward" /\ mainAt' = "read" /\ mainLine # 0
    BY <1>2 DEF MainForward, MainGoes, TypeOK
  <2>2. /\ DOMAIN passed' = 1 .. Len(passed) + 1
        /\ \A k \in 1 .. Len(passed) : passed'[k] = passed[k]
        /\ passed'[Len(passed) + 1] = mainLine
    BY <1>0, <2>1, Grown
  <2>3. \A n : Written("main", n)' <=> Written("main", n)
    BY <2>1 DEF Written
  <2>4. \A n : Passed(n)' <=> Passed(n) \/ n = mainLine
    BY <1>0, <2>2 DEF Passed
  <2>5. /\ \A k \in 1 .. Len(passed) : passed[k] \in 1 .. mainLine /\ passed[k] < mainLine
        /\ ~Written("main", mainLine)
        /\ \A n \in 1 .. mainLine : n < mainLine => (Passed(n) <=> ~Written("main", n))
    BY <1>0, <2>1 DEF HandledOnce, Passed
  <2>6. /\ \A k \in DOMAIN passed' : passed'[k] \in 1 .. mainLine
        /\ \A j, k \in DOMAIN passed' : j < k => passed'[j] < passed'[k]
    BY <1>0, <2>1, <2>2, <2>5 DEF HandledOnce
  <2>7. \A n \in 1 .. mainLine : Passed(n)' <=> ~Written("main", n)'
    BY <1>0, <2>3, <2>4, <2>5
  <2>8. \A n \in Nat : Written("main", n)' => n \in 1 .. mainLine
    BY <2>3 DEF HandledOnce
  <2> QED
    BY <2>1, <2>6, <2>7, <2>8 DEF HandledOnce
<1>3. CASE MainFlush
  <2> DEFINE e == [by |-> "main", line |-> mainLine, part |-> "flush"]
  <2>1. /\ wire' = Append(wire, e) /\ UNCHANGED <<passed, mainLine>>
        /\ mainAt = "flush" /\ mainAt' = "read"
    BY <1>3 DEF MainFlush, MainGoes
  <2>2. e \in Pieces
    BY <1>0 DEF Pieces
  <2>3. \A n : Written("main", n)' <=> Written("main", n) \/ n = mainLine
    <3>1. \A n : e = [by |-> "main", line |-> n, part |-> "flush"] <=> n = mainLine
      OBVIOUS
    <3> HIDE DEF e
    <3> QED
      BY <2>1, <2>2, <3>1, PieceAdded
  <2>4. \A n : Passed(n)' <=> Passed(n)
    BY <2>1 DEF Passed
  <2>5. /\ mainLine \in 1 .. mainLine /\ ~Passed(mainLine)
        /\ \A n \in 1 .. mainLine : n < mainLine \/ n = mainLine
    BY <1>0, <2>1 DEF HandledOnce
  <2>6. \A n \in 1 .. mainLine : Passed(n)' <=> ~Written("main", n)'
    BY <2>3, <2>4, <2>5 DEF HandledOnce
  <2>7. \A n \in Nat : Written("main", n)' => n \in 1 .. mainLine
    BY <2>3, <2>5 DEF HandledOnce
  <2> QED
    BY <2>1, <2>6, <2>7 DEF HandledOnce
<1>4. CASE Client \/ Child \/ Relay \/ UNCHANGED vars
  <2>1. UNCHANGED mainVars /\ ~MainFlush
    BY <1>4 DEF Client, ClientSend, ClientClose, ClientRead, ClientLeaves, ClientGone,
       Child, ChildRead, ChildWrite, ChildMute, ChildLeaves, ChildExit, Relay, RelayRead,
       RelayEof, RelayLock, RelayPut, RelayFlush, RelayThrows, RelayGoes, vars, mainVars,
       MainFlush, MainGoes
  <2> QED
    BY <2>1, AnswersKept, HandledKept DEF mainVars
<1>5. CASE \/ MainGate \/ ForwardThrows \/ MainLock \/ MainPut \/ AnswerThrows
           \/ MainEof \/ MainKill \/ MainWait \/ MainJoin
  <2>1. /\ UNCHANGED <<passed, mainLine>> /\ mainAt' # "read"
        /\ mainAt' \in {"gate", "forward", "lock", "put", "flush"} =>
             mainAt \in {"gate", "forward", "lock", "put", "flush"}
    BY <1>5 DEF MainGate, ForwardThrows, MainLock, MainPut, AnswerThrows, MainEof, MainKill,
       MainWait, MainJoin, MainGoes
  <2>2. ~MainFlush
    BY <2>1 DEF MainFlush, MainGoes
  <2> QED
    BY <2>1, <2>2, AnswersKept, HandledKept
<1> QED
  BY <1>1, <1>2, <1>3, <1>4, <1>5 DEF Next, Main, Rest

-----------------------------------------------------------------------------
LEMMA KeptAtInit ==
  ASSUME Init
  PROVE  KeepsEveryLine
<1>2. PipesInOrder
  BY DEF Init, PipesInOrder
<1>3. PutIsTaken
  BY DEF Init, PutIsTaken, RelayPuts
<1>4. DoneHasDelivered
  BY DEF Init, DoneHasDelivered
<1>5. HandledOnce
  BY DEF Init, HandledOnce, Written, Passed
<1> QED
  BY <1>2, <1>3, <1>4, <1>5 DEF KeepsEveryLine

LEMMA KeptGivesVerbatim ==
  ASSUME TypeOK, KeepsEveryLine
  PROVE  RelayIsVerbatim
<1> USE DEF KeepsEveryLine
<1>0. /\ relayLine \in Nat /\ Len(childOut) \in Nat /\ made = relayLine + Len(childOut)
  BY RelayAssumption DEF TypeOK, PipesInOrder
<1>1. made - Len(childOut) = relayLine
  BY <1>0
<1> SUFFICES ASSUME ~hostGone
             PROVE  /\ \A i \in DOMAIN childOut : childOut[i] = relayLine + i
                    /\ {wire[k].line : k \in RelayPuts} =
                         1 .. (IF relayAt \in {"lock", "put"} THEN relayLine - 1 ELSE relayLine)
                    /\ \A j, k \in RelayPuts : j < k => wire[j].line < wire[k].line
  BY <1>1 DEF RelayIsVerbatim
<1>2. \A i \in DOMAIN childOut : childOut[i] = relayLine + i
  BY DEF PipesInOrder
<1>3. \A j, k \in RelayPuts : j < k => wire[j].line < wire[k].line
  BY DEF PutIsTaken
<1>4. CASE relayAt \in {"lock", "put"}
  <2>1. \A n \in 1 .. relayLine : n = relayLine \/ n \in 1 .. relayLine - 1
    BY <1>0
  <2>2. \A n \in 1 .. relayLine - 1 : n \in 1 .. relayLine /\ n # relayLine
    BY <1>0
  <2>3. \A k \in RelayPuts : wire[k].line \in 1 .. relayLine - 1
    BY <1>4, <2>1 DEF PutIsTaken
  <2>4. \A n \in 1 .. relayLine - 1 : \E k \in RelayPuts : wire[k].line = n
    BY <2>2 DEF PutIsTaken
  <2>5. {wire[k].line : k \in RelayPuts} = 1 .. relayLine - 1
    BY <2>3, <2>4
  <2> QED
    BY <1>2, <1>3, <1>4, <2>5
<1>5. CASE relayAt \notin {"lock", "put"}
  <2>1. {wire[k].line : k \in RelayPuts} = 1 .. relayLine
    BY <1>5 DEF PutIsTaken
  <2> QED
    BY <1>2, <1>3, <1>5, <2>1
<1> QED
  BY <1>4, <1>5

\* What the child wrote is relayed verbatim and in order, what the client sent is
\* forwarded or answered exactly once, and a process that exits in good order has
\* delivered everything (hostLoop, relayChildStdout, main).
THEOREM RelayKeepsEveryLine == Spec => []RelayLosesNothing
<1>1. Init => KeepsEveryLine
  BY KeptAtInit
<1>2. ASSUME TypeOK, KeepsEveryLine, [Next]_vars PROVE KeepsEveryLine'
  BY <1>2, OrderStep, PutStep, DoneStep, HandledStep DEF KeepsEveryLine
<1>3. ASSUME TypeOK, KeepsEveryLine PROVE RelayLosesNothing
  <2> USE <1>3 DEF KeepsEveryLine
  <2>0. mainLine \in Nat /\ relayLine \in Nat /\ made = relayLine + Len(childOut)
    BY RelayAssumption DEF TypeOK, PipesInOrder
  <2>1. RelayIsVerbatim
    BY KeptGivesVerbatim
  <2>2. NoLineDropped
    <3>1. \A n \in 1 .. mainLine - 1 : n \in 1 .. mainLine /\ n < mainLine
      BY <2>0
    <3>2. \A n \in 1 .. mainLine - 1 : Passed(n) <=> ~Written("main", n)
      BY <3>1 DEF HandledOnce
    <3>3. \A n : Passed(n) \in BOOLEAN /\ Written("main", n) \in BOOLEAN
      BY DEF Passed, Written
    <3> QED
      BY <3>2, <3>3 DEF NoLineDropped, HandledOnce
  <2>3. CleanExitDelivers
    <3> SUFFICES ASSUME mainAt = "exited" PROVE \A n \in 1 .. made : Written("relay", n)
      BY DEF CleanExitDelivers
    <3>1. relayAt = "done" /\ childOut = <<>>
      BY DEF DoneHasDelivered, StreamEnded
    <3>2. made = relayLine
      BY <2>0, <3>1
    <3> QED
      BY <3>1, <3>2 DEF DoneHasDelivered
  <2> QED
    BY <2>1, <2>2, <2>3 DEF RelayLosesNothing
<1> QED
  BY <1>1, <1>2, <1>3, RelayTypeCorrect, PTL DEF Spec
=============================================================================
