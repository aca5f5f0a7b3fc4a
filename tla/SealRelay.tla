----------------------------- MODULE SealRelay -----------------------------
(***************************************************************************)
(* The v1 sidecar between its two pairs of pipes (Seal/Main.lean): hostLoop *)
(* on the main thread, relayChildStdout on a dedicated thread, the mutex   *)
(* both take to write to the host, and the shutdown of main.  What the     *)
(* main thread does with a line is a choice here; SealGate says which.     *)
(*                                                                         *)
(* The client and the child are external: all that is known of them is     *)
(* that they read and write whole lines through bounded pipes.  Either may *)
(* stop reading its end, or close it, at any moment; a descendant of the   *)
(* child may hold the child's ends when the child is dead.  A line is its  *)
(* number in its stream.  putStr and flush reach a pipe in two pieces.     *)
(***************************************************************************)
EXTENDS Naturals, Sequences

CONSTANTS
  MaxSent,   \* lines the client sends at most
  MaxMade,   \* lines the child writes at most
  PipeRoom   \* lines, or pieces of lines, a pipe holds

ASSUME RelayAssumption ==
  /\ MaxSent \in Nat /\ MaxMade \in Nat
  /\ PipeRoom \in Nat \ {0}

VARIABLES
  sent,       \* how many lines the client has written to its end
  hostEof,    \* the client has closed its end
  hostIn,     \* lines on their way from the client
  mainAt,     \* where the main thread is
  mainLine,   \* the line it has in hand
  childIn,    \* lines on their way to the child
  childAt,    \* "reading", "answering" or "dead"
  inEnd,      \* the end of childIn that is read: "read", "left" (held, but
              \* nobody reads it any more) or "closed"
  outOpen,    \* somebody holds the end of childOut that is written
  made,       \* how many lines the child has written
  childOut,   \* lines on their way from the child
  relayAt,    \* where the relay thread is
  relayLine,  \* the line it has in hand
  lock,       \* stdoutLock: "free", "main" or "relay"
  wire,       \* history: the pieces written to the host's stdout
  drained,    \* how many of them the client has read
  hostEnd,    \* the end the client reads: "read", "left" or "closed"
  passed      \* history: the lines forwarded to the child

clientVars == <<sent, hostEof, drained, hostEnd>>
mainVars   == <<mainAt, mainLine, passed>>
childVars  == <<childAt, made, inEnd, outOpen>>
relayVars  == <<relayAt, relayLine>>
vars == <<clientVars, hostIn, mainVars, childIn, childVars, childOut,
          relayVars, lock, wire>>

MainSteps  == {"read", "gate", "forward", "lock", "put", "flush",
               "kill", "wait", "join", "exited", "failed"}
RelaySteps == {"read", "lock", "put", "flush", "done", "broken"}
Ends       == {"read", "left", "closed"}
Pieces     == [by : {"main", "relay"}, line : Nat, part : {"put", "flush"}]

Over     == mainAt \in {"exited", "failed"}
hostGone == hostEnd = "closed"

\* What the blocking calls wait for.
OutRoom    == ~hostGone /\ Len(wire) - drained < PipeRoom
RoomIgnored == TRUE
ChildRoom  == Len(childIn) < PipeRoom
LockIgnored == TRUE
LockFree   == lock = "free"
StreamEnded == ~outOpen /\ childOut = <<>>

\* Mutex.atomically gives the mutex back, also when its body throws.
LockKept == UNCHANGED lock
Release  == lock' = "free"

Init ==
  /\ sent = 0 /\ hostEof = FALSE /\ hostIn = <<>> /\ drained = 0 /\ hostEnd = "read"
  /\ mainAt = "read" /\ mainLine = 0 /\ passed = <<>>
  /\ childIn = <<>> /\ childAt = "reading" /\ made = 0 /\ childOut = <<>>
  /\ inEnd = "read" /\ outOpen = TRUE
  /\ relayAt = "read" /\ relayLine = 0
  /\ lock = "free" /\ wire = <<>>

-----------------------------------------------------------------------------
\* The client.
ClientSend ==
  /\ ~hostEof /\ ~Over /\ sent < MaxSent /\ Len(hostIn) < PipeRoom
  /\ sent' = sent + 1 /\ hostIn' = Append(hostIn, sent + 1)
  /\ UNCHANGED <<hostEof, drained, hostEnd, mainVars, childIn, childVars, childOut,
                 relayVars, lock, wire>>

ClientClose ==
  /\ ~hostEof /\ hostEof' = TRUE
  /\ UNCHANGED <<sent, drained, hostEnd, hostIn, mainVars, childIn, childVars, childOut,
                 relayVars, lock, wire>>

ClientRead ==
  /\ hostEnd = "read"
  /\ drained < Len(wire) /\ drained' = drained + 1
  /\ UNCHANGED <<sent, hostEof, hostEnd, hostIn, mainVars, childIn, childVars, childOut,
                 relayVars, lock, wire>>

\* It stops reading, or closes the end it reads.
ClientLeaves ==
  /\ hostEnd = "read" /\ hostEnd' = "left"
  /\ UNCHANGED <<sent, hostEof, drained, hostIn, mainVars, childIn, childVars, childOut,
                 relayVars, lock, wire>>

ClientGone ==
  /\ ~hostGone /\ hostEnd' = "closed"
  /\ UNCHANGED <<sent, hostEof, drained, hostIn, mainVars, childIn, childVars, childOut,
                 relayVars, lock, wire>>

-----------------------------------------------------------------------------
\* The child: it may answer a line or not, write lines of its own accord,
\* stop reading, close an end and exit.  Its ends close when it dies, but for
\* those a descendant has inherited, which may read and write on; what was
\* written stays in the pipe.
ChildRead ==
  /\ childAt # "answering" /\ inEnd = "read" /\ childIn # <<>> /\ ~Over
  /\ childIn' = Tail(childIn)
  /\ childAt' \in (IF childAt = "dead" THEN {"dead"} ELSE {"reading", "answering"})
  /\ UNCHANGED <<clientVars, hostIn, mainVars, made, inEnd, outOpen, childOut,
                 relayVars, lock, wire>>

ChildWrite ==
  /\ outOpen /\ made < MaxMade /\ Len(childOut) < PipeRoom
  /\ made' = made + 1 /\ childOut' = Append(childOut, made + 1)
  /\ childAt' = IF childAt = "dead" THEN "dead" ELSE "reading"
  /\ UNCHANGED <<clientVars, hostIn, mainVars, childIn, inEnd, outOpen,
                 relayVars, lock, wire>>

\* With MaxMade lines written, or its end closed, it answers no more.
ChildMute ==
  /\ childAt = "answering" /\ (made = MaxMade \/ ~outOpen)
  /\ childAt' = "reading"
  /\ UNCHANGED <<clientVars, hostIn, mainVars, childIn, made, inEnd, outOpen, childOut,
                 relayVars, lock, wire>>

\* It stops reading its input, or closes an end.
ChildLeaves ==
  /\ \/ inEnd = "read" /\ inEnd' = "left" /\ UNCHANGED outOpen
     \/ inEnd # "closed" /\ inEnd' = "closed" /\ UNCHANGED outOpen
     \/ outOpen /\ outOpen' = FALSE /\ UNCHANGED inEnd
  /\ UNCHANGED <<clientVars, hostIn, mainVars, childIn, childAt, made, childOut,
                 relayVars, lock, wire>>

Dies ==
  /\ childAt' = "dead"
  /\ inEnd' \in {inEnd, "closed"} /\ outOpen' \in {outOpen, FALSE}

ChildExit ==
  /\ childAt # "dead" /\ Dies
  /\ UNCHANGED <<clientVars, hostIn, mainVars, childIn, made, childOut,
                 relayVars, lock, wire>>

-----------------------------------------------------------------------------
\* The main thread.
MainGoes(to) ==
  /\ mainAt' = to
  /\ UNCHANGED <<clientVars, childVars, relayVars>>

\* hostLoop: hostIn.getLine.
MainRead ==
  /\ mainAt = "read" /\ hostIn # <<>>
  /\ mainLine' = Head(hostIn) /\ hostIn' = Tail(hostIn)
  /\ MainGoes("gate")
  /\ UNCHANGED <<passed, childIn, childOut, lock, wire>>

\* processHostLine forwards the line, answers it, or throws.
MainGate ==
  /\ mainAt = "gate"
  /\ \E to \in {"forward", "lock", "failed"} : MainGoes(to)
  /\ UNCHANGED <<hostIn, mainLine, passed, childIn, childOut, lock, wire>>

\* childIn.putStr and flush: waits for room, whether the child reads or not ...
MainForward ==
  /\ mainAt = "forward" /\ inEnd # "closed" /\ ChildRoom
  /\ childIn' = Append(childIn, mainLine) /\ passed' = Append(passed, mainLine)
  /\ MainGoes("read")
  /\ UNCHANGED <<hostIn, mainLine, childOut, lock, wire>>

\* ... and throws out of hostLoop when the other end is closed.
ForwardSwallowed ==
  /\ mainAt = "forward" /\ inEnd = "closed"
  /\ MainGoes("read")
  /\ UNCHANGED <<hostIn, mainLine, passed, childIn, childOut, lock, wire>>

ForwardThrows ==
  /\ mainAt = "forward" /\ inEnd = "closed"
  /\ MainGoes("failed")
  /\ UNCHANGED <<hostIn, mainLine, passed, childIn, childOut, lock, wire>>

\* writeLocked of the response: take the mutex, put, flush and release.
MainLock ==
  /\ mainAt = "lock" /\ LockFree
  /\ lock' = "main"
  /\ MainGoes("put")
  /\ UNCHANGED <<hostIn, mainLine, passed, childIn, childOut, wire>>

MainPut ==
  /\ mainAt = "put" /\ OutRoom
  /\ wire' = Append(wire, [by |-> "main", line |-> mainLine, part |-> "put"])
  /\ MainGoes("flush")
  /\ UNCHANGED <<hostIn, mainLine, passed, childIn, childOut, lock>>

MainFlush ==
  /\ mainAt = "flush" /\ OutRoom
  /\ wire' = Append(wire, [by |-> "main", line |-> mainLine, part |-> "flush"])
  /\ Release
  /\ MainGoes("read")
  /\ UNCHANGED <<hostIn, mainLine, passed, childIn, childOut>>

\* The host's end is closed: the write throws out of hostLoop.
AnswerThrows ==
  /\ mainAt \in {"put", "flush"} /\ hostGone
  /\ Release
  /\ MainGoes("failed")
  /\ UNCHANGED <<hostIn, mainLine, passed, childIn, childOut, wire>>

\* An empty getLine ends hostLoop; main kills the child (and none of its
\* descendants), reaps it and joins the relay thread.
MainEof ==
  /\ mainAt = "read" /\ hostIn = <<>> /\ hostEof
  /\ MainGoes("kill")
  /\ UNCHANGED <<hostIn, mainLine, passed, childIn, childOut, lock, wire>>

ChildLeftRunning ==
  /\ mainAt = "kill"
  /\ MainGoes("wait")
  /\ UNCHANGED <<hostIn, mainLine, passed, childIn, childOut, lock, wire>>

MainKill ==
  /\ mainAt = "kill"
  /\ mainAt' = "wait"
  /\ IF childAt = "dead" THEN UNCHANGED <<childAt, inEnd, outOpen>> ELSE Dies
  /\ UNCHANGED <<clientVars, hostIn, mainLine, passed, childIn, made, childOut,
                 relayVars, lock, wire>>

MainWait ==
  /\ mainAt = "wait" /\ childAt = "dead"
  /\ MainGoes("join")
  /\ UNCHANGED <<hostIn, mainLine, passed, childIn, childOut, lock, wire>>

\* relayTask.get waits for the relay thread and rethrows what it threw.
MainJoin ==
  /\ mainAt = "join" /\ relayAt \in {"done", "broken"}
  /\ MainGoes(IF relayAt = "done" THEN "exited" ELSE "failed")
  /\ UNCHANGED <<hostIn, mainLine, passed, childIn, childOut, lock, wire>>

-----------------------------------------------------------------------------
\* The relay thread; it dies with the process.
RelayGoes(to) ==
  /\ ~Over
  /\ relayAt' = to
  /\ UNCHANGED <<clientVars, hostIn, mainVars, childIn, childVars>>

\* childOut.getLine; an empty line is the end of the stream: nobody holds the
\* other end any more.
RelayRead ==
  /\ relayAt = "read" /\ childOut # <<>>
  /\ relayLine' = Head(childOut) /\ childOut' = Tail(childOut)
  /\ RelayGoes("lock")
  /\ UNCHANGED <<lock, wire>>

RelayEof ==
  /\ relayAt = "read" /\ StreamEnded
  /\ RelayGoes("done")
  /\ UNCHANGED <<relayLine, childOut, lock, wire>>

RelayLock ==
  /\ relayAt = "lock" /\ LockFree
  /\ lock' = "relay"
  /\ RelayGoes("put")
  /\ UNCHANGED <<relayLine, childOut, wire>>

RelayPut ==
  /\ relayAt = "put" /\ OutRoom
  /\ wire' = Append(wire, [by |-> "relay", line |-> relayLine, part |-> "put"])
  /\ RelayGoes("flush")
  /\ UNCHANGED <<relayLine, childOut, lock>>

RelayFlush ==
  /\ relayAt = "flush" /\ OutRoom
  /\ wire' = Append(wire, [by |-> "relay", line |-> relayLine, part |-> "flush"])
  /\ Release
  /\ RelayGoes("read")
  /\ UNCHANGED <<relayLine, childOut>>

\* The host's end is closed: the relay thread ends with the error, which
\* nobody looks at before the join.
RelayThrows ==
  /\ relayAt \in {"put", "flush"} /\ hostGone
  /\ Release
  /\ RelayGoes("broken")
  /\ UNCHANGED <<relayLine, childOut, wire>>

-----------------------------------------------------------------------------
Client == ClientSend \/ ClientClose \/ ClientRead \/ ClientLeaves \/ ClientGone
Child  == ChildRead \/ ChildWrite \/ ChildMute \/ ChildLeaves \/ ChildExit
Main   == \/ MainRead \/ MainGate \/ MainForward \/ ForwardThrows
          \/ MainLock \/ MainPut \/ MainFlush \/ AnswerThrows
          \/ MainEof \/ MainKill \/ MainWait \/ MainJoin
Relay  == RelayRead \/ RelayEof \/ RelayLock \/ RelayPut \/ RelayFlush \/ RelayThrows

\* Both ends rest once the process is over and the client has read it all.
Rest == Over /\ (drained = Len(wire) \/ hostGone) /\ UNCHANGED vars

Next == Client \/ Child \/ Main \/ Relay \/ Rest

Spec == Init /\ [][Next]_vars

\* The two threads run.  An end that is "read" is read on, and a child that
\* answers comes to an end of it: that is what the words mean, since the client
\* and the child may leave their ends whenever they like (ClientLeaves,
\* ChildLeaves).  Nothing makes the child write, or anyone stop or go on.
Fairness ==
  /\ WF_vars(Main) /\ WF_vars(Relay)
  /\ WF_vars(ClientRead)
  /\ WF_vars(ChildRead) /\ WF_vars(childAt = "answering" /\ (ChildWrite \/ ChildMute))

FairSpec == Spec /\ Fairness

-----------------------------------------------------------------------------
TypeOK ==
  /\ sent \in 0 .. MaxSent /\ hostEof \in BOOLEAN /\ hostEnd \in Ends
  /\ drained \in 0 .. Len(wire)
  /\ hostIn \in Seq(1 .. MaxSent) /\ Len(hostIn) <= PipeRoom
  /\ mainAt \in MainSteps /\ mainLine \in 0 .. MaxSent
  /\ mainAt \in {"gate", "forward"} => mainLine # 0
  /\ passed \in Seq(1 .. MaxSent)
  /\ childIn \in Seq(1 .. MaxSent) /\ Len(childIn) <= PipeRoom
  /\ childAt \in {"reading", "answering", "dead"} /\ made \in 0 .. MaxMade
  /\ inEnd \in Ends /\ outOpen \in BOOLEAN
  /\ childOut \in Seq(1 .. MaxMade) /\ Len(childOut) <= PipeRoom
  /\ relayAt \in RelaySteps /\ relayLine \in 0 .. MaxMade
  /\ lock \in {"free", "main", "relay"}
  /\ wire \in Seq(Pieces)

Written(by, n) == \E k \in DOMAIN wire :
                    wire[k] = [by |-> by, line |-> n, part |-> "flush"]

Received(by, n) == \E k \in 1 .. drained :
                     wire[k] = [by |-> by, line |-> n, part |-> "flush"]

Passed(n) == \E k \in DOMAIN passed : passed[k] = n

\* writeLocked: a response of the main thread and a line relayed from the
\* child never run into each other on the host's stdout.
LinesNeverInterleave ==
  \A k \in 1 .. Len(wire) - 1 :
    wire[k].part = "put" => wire[k + 1] = [wire[k] EXCEPT !.part = "flush"]

RelayPuts == {k \in DOMAIN wire : wire[k].by = "relay" /\ wire[k].part = "put"}

\* The relay is verbatim and in order: as long as the client is there, what
\* the relay has put on the wire, the line in its hand and what is still in
\* the pipe are the lines of the child, each once, from the first to the last.
RelayIsVerbatim ==
  LET taken == made - Len(childOut)
      put   == IF relayAt \in {"lock", "put"} THEN taken - 1 ELSE taken
  IN  ~hostGone =>
        /\ \A i \in DOMAIN childOut : childOut[i] = taken + i
        /\ relayAt \in {"lock", "put"} => relayLine = taken
        /\ {wire[k].line : k \in RelayPuts} = 1 .. put
        /\ \A j, k \in RelayPuts : j < k => wire[j].line < wire[k].line

\* hostLoop drops nothing: a line it has gone past was forwarded or answered,
\* and never both; lines reach the child in the order they were sent.
NoLineDropped ==
  /\ \A n \in 1 .. mainLine - 1 : Passed(n) # Written("main", n)
  /\ \A j, k \in DOMAIN passed : j < k => passed[j] < passed[k]

\* main joins the relay thread: when it exits in good order, every line the
\* child had written before it was killed is on the host's stdout.
CleanExitDelivers ==
  mainAt = "exited" => \A n \in 1 .. made : Written("relay", n)

\* Neither thread loses a line on the way: what the relay thread took reaches the
\* wire, what the main thread took reaches the child or is answered, and a clean
\* exit has delivered all the child wrote.
RelayLosesNothing ==
  RelayIsVerbatim /\ NoLineDropped /\ CleanExitDelivers

\* The main thread is held for ever by a child that has stopped reading: its
\* write waits for room in a full pipe (processHostLine, childIn.putStr).
HeldByChild == mainAt = "forward" /\ inEnd = "left" /\ ~ChildRoom

\* The join waits for a descendant of the dead child that holds its stdout.
HeldByHeir == mainAt = "join" /\ outOpen

\* However full the pipes are, every line the client sends is forwarded or
\* answered, or the process ends, or the child has stopped reading and holds the
\* main thread for ever; and every line the child writes reaches the client,
\* unless the main thread fails and takes the relay thread down with it.  All of
\* it for a client that goes on reading (hostLoop, relayChildStdout).
EveryLineArrives ==
  /\ \A n \in 1 .. MaxSent :
       sent >= n ~> \/ Passed(n) \/ Written("main", n) \/ Over
                    \/ hostEnd # "read" \/ []HeldByChild
  /\ \A n \in 1 .. MaxMade :
       made >= n ~> Received("relay", n) \/ mainAt = "failed" \/ hostEnd # "read"

\* The end of the client's stream ends the process, for a client that goes on
\* reading, but in two cases that no timeout in main resolves: the child has
\* stopped reading with its pipe full, so that the main thread never comes to
\* the kill; or the kill was done and a descendant holds the child's stdout for
\* ever, so that the relay thread is never joined (main, after hostLoop).  A
\* child that ignores the end of its input, writes on, hangs, dies, or closes
\* an end and lives on, keeps nothing running.
EofEndsTheProcess ==
  hostEof ~> \/ Over \/ hostEnd # "read"
             \/ []HeldByChild \/ []HeldByHeir
=============================================================================
