--------------------------- MODULE SealGateProofs ---------------------------
(***************************************************************************)
(* Theorems about SealGate, and about prune, the wall clock and the seen   *)
(* counter, for every value of the constants of SealGateClock.             *)
(***************************************************************************)
EXTENDS SealGateClock, TLAPS, WellFoundedInduction, SequenceTheorems

\* The automaton keeps its map a map from targets to deadlines.
LEMMA PruneType ==
  ASSUME NEW s, IsState(s), NEW n \in Nat
  PROVE  /\ IsState(Prune(n, s))
         /\ \A t \in DOMAIN Prune(n, s) :
              t \in DOMAIN s /\ n < s[t] /\ Prune(n, s)[t] = s[t]
  BY DEF IsState, Prune

LEMMA StepType ==
  ASSUME NEW s, IsState(s), NEW n \in Nat, NEW e \in Events
  PROVE  /\ IsState(StepState(n, s, e))
         /\ \A t \in DOMAIN StepState(n, s, e) :
              t \in DOMAIN s /\ StepState(n, s, e)[t] = s[t]
         /\ \A t \in Target :
              e = Guarded(t) /\ Allows(n, s, e) => t \notin DOMAIN StepState(n, s, e)
  BY DEF IsState, StepState, Erase, Insert, Live, Allows, Events, Guarded, Benign, DefaultDeny

\* Among the fresh lines that name a target there is a last one.
LEMMA NewestIsLast ==
  ASSUME file \in Seq(Record), seen \in Nat, NEW t \in Renewed
  PROVE  Newest(t) \in Naming(t) /\ \A j \in Naming(t) : j <= Newest(t)
<1> DEFINE n == Len(file)
           T == {n - i : i \in Naming(t)}
<1>1. n \in Nat /\ Naming(t) \subseteq 1 .. n
  BY DEF Naming, Fresh
<1>2. T \subseteq Nat /\ T # {}
  BY <1>1 DEF Renewed
<1>3. PICK x \in T : \A y \in T : ~(<<y, x>> \in OpToRel(<, Nat))
  BY <1>2, NatLessThanWellFounded, WFMin
<1>4. PICK i \in Naming(t) : x = n - i
  OBVIOUS
<1>5. \A j \in Naming(t) : j <= i
  <2> SUFFICES ASSUME NEW j \in Naming(t), j > i
               PROVE  FALSE
    BY <1>1
  <2>1. n - j \in T /\ n - j \in Nat /\ x \in Nat /\ n - j < x
    BY <1>1, <1>2, <1>4
  <2>2. <<n - j, x>> \in OpToRel(<, Nat)
    BY <2>1 DEF OpToRel
  <2> QED
    BY <1>3, <2>1, <2>2
<1> QED
  BY <1>5 DEF Newest

\* So a renewed target takes its deadline from a line beyond the counter.
LEMMA NewestRecord ==
  ASSUME TypeOK, NEW t \in Renewed
  PROVE  /\ t \in Target
         /\ Newest(t) \in DOMAIN file /\ Newest(t) > seen
         /\ file[Newest(t)] \in Record
         /\ file[Newest(t)].target = t
<1>1. Newest(t) \in Naming(t)
  BY NewestIsLast DEF TypeOK
<1> QED
  BY <1>1 DEF TypeOK, Renewed, Naming, Fresh

\* The fold of the fresh approvals: what it leaves alone and what it adds.
LEMMA IngestType ==
  ASSUME TypeOK
  PROVE  /\ IsState(WithApprovals(approved))
         /\ \A t \in DOMAIN WithApprovals(approved) :
              IF t \in Renewed
              THEN WithApprovals(approved)[t] = Deadline(file[Newest(t)])
              ELSE t \in DOMAIN approved /\ WithApprovals(approved)[t] = approved[t]
         /\ \A t \in Renewed : TicketOf(file[Newest(t)]) \in Ticket
<1>1. \A t \in Renewed : Deadline(file[Newest(t)]) \in Nat
  <2> SUFFICES ASSUME NEW t \in Renewed PROVE Deadline(file[Newest(t)]) \in Nat
    OBVIOUS
  <2>1. file[Newest(t)].issuedAt \in Nat \cup {NoTime}
    BY NewestRecord DEF Record
  <2>2. Base(file[Newest(t)]) \in Nat
    BY <2>1 DEF Base, TypeOK
  <2> QED
    BY <2>2, GateAssumption DEF Deadline
<1>2. \A t \in Renewed : TicketOf(file[Newest(t)]) \in Ticket
  BY <1>1, NewestRecord DEF TicketOf, Ticket, Record, TypeOK
<1>3. Renewed \subseteq Target
  BY DEF Renewed
<1> QED
  BY <1>1, <1>2, <1>3 DEF WithApprovals, IsState, TypeOK

\* The lines of the file, and what the edits of one line make of them.
LEMMA FreshRecords ==
  ASSUME TypeOK, NEW i \in Fresh
  PROVE  i \in DOMAIN file /\ file[i] \in Record /\ i > seen
  BY DEF TypeOK, Fresh

LEMMA Deletion ==
  ASSUME TypeOK, NEW i \in DOMAIN file, DeleteRecord(i)
  PROVE  /\ file' \in Seq(Record)
         /\ \A j \in DOMAIN file' :
              /\ j \in DOMAIN file /\ j + 1 \in DOMAIN file
              /\ file'[j] = IF j < i THEN file[j] ELSE file[j + 1]
<1> DEFINE m == Len(file) - 1
<1>1. m \in Nat /\ DOMAIN file = 1 .. m + 1 /\ \A j \in DOMAIN file : file[j] \in Record
  BY DEF TypeOK
<1>2. file' = [j \in 1 .. m |-> IF j < i THEN file[j] ELSE file[j + 1]]
  BY DEF DeleteRecord
<1> HIDE DEF m
<1>3. file' \in [1 .. m -> Record]
  BY <1>1, <1>2
<1>4. file' \in Seq(Record)
  BY <1>1, <1>3, SeqDef
<1> QED
  BY <1>1, <1>2, <1>4

LEMMA Completion ==
  ASSUME TypeOK, NEW t \in Target, CompleteRecord(t)
  PROVE  /\ file' \in Seq(Record)
         /\ DOMAIN file' = DOMAIN file
         /\ \A j \in DOMAIN file : file'[j].id = file[j].id
<1> DEFINE n == Len(file)
           e == [file[n] EXCEPT !.target = t]
<1>1. n \in DOMAIN file /\ file[n] \in Record
  BY DEF TypeOK, CompleteRecord
<1>2. e \in Record /\ e.id = file[n].id
  BY <1>1 DEF Record
<1>3. file' = [file EXCEPT ![n] = e]
  BY DEF CompleteRecord
<1> HIDE DEF e
<1>4. file' \in Seq(Record) /\ DOMAIN file' = DOMAIN file
  BY <1>1, <1>2, <1>3 DEF TypeOK
<1>5. \A j \in DOMAIN file : file'[j] = IF j = n THEN e ELSE file[j]
  BY <1>1, <1>3 DEF TypeOK
<1> QED
  BY <1>2, <1>4, <1>5

LEMMA NewLineType ==
  ASSUME TypeOK, NEW t \in Target \cup {NoTarget}, NEW m \in MintTimes
  PROVE  NewLine(t, m) \in Record /\ NewLine(t, m).id = written + 1
  BY GateAssumption DEF TypeOK, NewLine, Record

LEMMA Rewriting ==
  ASSUME TypeOK, NEW t \in Target \cup {NoTarget}, NEW m \in MintTimes,
         NEW i \in DOMAIN file, RewriteRecord(i, t, m)
  PROVE  /\ file' \in Seq(Record)
         /\ DOMAIN file' = DOMAIN file
         /\ \A j \in DOMAIN file :
              file'[j].id = IF j = i THEN written + 1 ELSE file[j].id
<1> DEFINE r == NewLine(t, m)
<1>1. r \in Record /\ r.id = written + 1
  BY NewLineType
<1>2. file' = [file EXCEPT ![i] = r] /\ file \in Seq(Record)
  BY DEF RewriteRecord, TypeOK
<1> HIDE DEF r
<1>3. file' \in Seq(Record) /\ DOMAIN file' = DOMAIN file
  BY ONLY <1>1, <1>2, i \in DOMAIN file
<1>4. \A j \in DOMAIN file : file'[j] = IF j = i THEN r ELSE file[j]
  BY ONLY <1>2, i \in DOMAIN file
<1> QED
  BY <1>1, <1>3, <1>4

LEMMA Insertion ==
  ASSUME TypeOK, NEW t \in Target \cup {NoTarget}, NEW m \in MintTimes,
         NEW i \in DOMAIN file, InsertRecord(i, t, m)
  PROVE  /\ file' \in Seq(Record)
         /\ \A j \in DOMAIN file' :
              \/ j \in DOMAIN file /\ j < i /\ file'[j] = file[j]
              \/ j = i /\ file'[j].id = written + 1
              \/ j - 1 \in DOMAIN file /\ j > i /\ file'[j] = file[j - 1]
<1> DEFINE r == NewLine(t, m)
           n == Len(file)
<1>1. r \in Record /\ r.id = written + 1
  BY NewLineType
<1>2. n \in Nat /\ DOMAIN file = 1 .. n /\ \A j \in DOMAIN file : file[j] \in Record
  BY DEF TypeOK
<1>3. file' = [j \in 1 .. n + 1 |->
                 IF j < i THEN file[j] ELSE IF j = i THEN r ELSE file[j - 1]]
  BY DEF InsertRecord
<1> HIDE DEF r, n
<1>4. i \in 1 .. n
  BY <1>2
<1>5. ASSUME NEW j \in 1 .. n + 1
      PROVE  (j < i => j \in 1 .. n) /\ (j > i => j - 1 \in 1 .. n) /\ (j < i \/ j = i \/ j > i)
  BY ONLY <1>2, <1>4, <1>5
<1>6. file' \in [1 .. n + 1 -> Record]
  BY <1>1, <1>2, <1>3, <1>5
<1>7. file' \in Seq(Record)
  <2>1. n + 1 \in Nat
    BY <1>2
  <2> QED
    BY <1>6, <2>1, SeqDef
<1>8. ASSUME NEW j \in 1 .. n + 1
      PROVE  \/ j \in DOMAIN file /\ j < i /\ file'[j] = file[j]
             \/ j = i /\ file'[j].id = written + 1
             \/ j - 1 \in DOMAIN file /\ j > i /\ file'[j] = file[j - 1]
  <2>1. CASE j < i
    BY <1>2, <1>3, <1>5, <2>1
  <2>2. CASE j = i
    BY <1>1, <1>3, <1>4, <2>2
  <2>3. CASE j > i
    BY <1>2, <1>3, <1>4, <1>5, <2>3
  <2> QED
    BY <1>5, <2>1, <2>2, <2>3
<1> QED
  BY <1>6, <1>7, <1>8

\* What the world does leaves the process alone.
LEMMA WorldLeavesProcess ==
  ASSUME World
  PROVE  /\ UNCHANGED processVars
         /\ Tick \/ UNCHANGED <<clock, setBack>>
  BY DEF World, Tick, AppendRecord, CompleteRecord, DeleteRecord, RewriteRecord,
         InsertRecord, RemoveFile, Relink, Edit, upsets

\* A call that rests on an approval is recorded once, at the end.
LEMMA Served ==
  ASSUME TypeOK, Forward, inHand # NoTicket
  PROVE  \E e \in [ticket : Ticket, target : Target, at : Nat] :
           /\ e.ticket = inHand /\ line.event = Guarded(e.target) /\ e.at = now
           /\ served' \in Seq([ticket : Ticket, target : Target, at : Nat])
           /\ DOMAIN served' = DOMAIN served \cup {Len(served) + 1}
           /\ Len(served) + 1 \notin DOMAIN served
           /\ \A i \in DOMAIN served : served'[i] = served[i]
           /\ served'[Len(served) + 1] = e
<1> DEFINE S == [ticket : Ticket, target : Target, at : Nat]
           e == [ticket |-> inHand, target |-> line.event.target, at |-> now]
<1>1. inHand \in Ticket /\ now \in Nat
  BY DEF TypeOK
<1>2. PICK t \in Target : line.event = Guarded(t)
  BY DEF TypeOK
<1>3. e \in S /\ line.event = Guarded(e.target)
  BY <1>1, <1>2 DEF Guarded
<1>4. served \in Seq(S) /\ served' = Append(served, e)
  BY DEF TypeOK, Forward
<1>5. e.ticket = inHand /\ e.at = now
  OBVIOUS
<1> HIDE DEF e, S
<1>6. /\ served' \in Seq(S)
      /\ DOMAIN served = 1 .. Len(served) /\ DOMAIN served' = 1 .. Len(served) + 1
      /\ Len(served) \in Nat
      /\ \A i \in DOMAIN served : served'[i] = served[i]
      /\ served'[Len(served) + 1] = e
  BY <1>3, <1>4
<1> QED
  BY <1>3, <1>5, <1>6 DEF S

-----------------------------------------------------------------------------
\* Type correctness of the gate: every variable stays in its range; in
\* particular the approval map stays a map from targets to deadlines.
THEOREM TypeCorrect == Spec => []TypeOK
<1> USE GateAssumption
<1>1. Init => TypeOK
  <2> SUFFICES ASSUME Init PROVE TypeOK
    OBVIOUS
  <2>1. setBack \in BOOLEAN /\ edited \in BOOLEAN /\ displaced \subseteq 0 .. epoch
    BY DEF Init
  <2>2. IsState(approved)
    BY DEF Init, IsState, EmptyState
  <2> QED
    BY <2>1, <2>2 DEF Init, TypeOK, Locations
<1>2. TypeOK /\ [Next]_vars => TypeOK'
  <2> SUFFICES ASSUME TypeOK, [Next]_vars PROVE TypeOK'
    OBVIOUS
  <2> USE DEF TypeOK, worldVars, upsets, localVars, stateVars, runVars, processVars
  <2>1. ASSUME Stop PROVE TypeOK'
    BY <2>1 DEF Stop, Locations, IsState, EmptyState
  <2>2. CASE Start
    BY <2>2 DEF Start, Locations
  <2>3. ASSUME NEW l \in Lines, ReadLine(l) PROVE TypeOK'
    <3>1. /\ l \in Lines \cup {NoLine}
          /\ l.kind = "call" => l \in [kind : {"call"}, event : Events]
          /\ l.kind \in {"refused", "opaque", "call"}
      BY DEF Lines
    <3>2. inHand = NoTicket
      BY <2>3 DEF ReadLine, NoLine
    <3> QED
      BY <2>3, <3>1, <3>2 DEF ReadLine, Locations
  <2>4. CASE ReadClock
    BY <2>4 DEF ReadClock, Locations
  <2>5. CASE IngestFile
    <3>1. IsState(approved')
      BY <2>5, IngestType DEF IngestFile
    <3>2. ticket' \in [Target -> Ticket \cup {NoTicket}]
      BY <2>5, IngestType DEF IngestFile
    <3>3. ingested' \subseteq Nat
      <4>1. \A i \in Fresh : i \in DOMAIN file /\ file[i].id \in Nat
        BY FreshRecords DEF Record
      <4> QED
        BY <2>5, <4>1 DEF IngestFile
    <3> QED
      BY <2>5, <3>1, <3>2, <3>3 DEF IngestFile, Locations
  <2>6. CASE IngestAbsent
    BY <2>6 DEF IngestAbsent, Locations
  <2>7. CASE Decide
    <3>1. line.event \in Events
      BY <2>7 DEF Decide
    <3>2. IsState(approved')
      BY <2>7, <3>1, StepType, PruneType DEF Decide
    <3>3. inHand' # NoTicket =>
            line.event.type = "guarded" /\ Live(approved, line.event.target, now)
            /\ inHand' = ticket[line.event.target]
      BY <2>7 DEF Decide, Allows
    <3>4. inHand' \in Ticket \cup {NoTicket}
      BY <3>3 DEF Live, IsState
    <3>5. inHand' # NoTicket =>
            line \in [kind : {"call"}, event : {Guarded(t) : t \in Target}]
      BY <2>7, <3>1, <3>3 DEF Decide, Events, Guarded, Benign, DefaultDeny
    <3> QED
      BY <2>7, <3>2, <3>4, <3>5 DEF Decide, Locations
  <2>8. CASE Forward
    <3>2. served' \in Seq([ticket : Ticket, target : Target, at : Nat])
      <4>1. CASE inHand = NoTicket
        BY <2>8, <4>1 DEF Forward
      <4>2. CASE inHand # NoTicket
        BY <2>8, <4>2, Served
      <4> QED
        BY <4>1, <4>2
    <3> QED
      BY <2>8, <3>2 DEF Forward, Done, Locations
  <2>9. CASE Reply
    BY <2>9 DEF Reply, Done, Locations
  <2>10. CASE Tick
    BY <2>10 DEF Tick
  <2>11. ASSUME NEW t \in Target \cup {NoTarget}, NEW m \in MintTimes,
                AppendRecord(t, m)
         PROVE  TypeOK'
    BY <2>11, NewLineType DEF AppendRecord, WritesLine
  <2>12. ASSUME NEW t \in Target, CompleteRecord(t) PROVE TypeOK'
    BY <2>12, Completion DEF CompleteRecord, Edit
  <2>13. ASSUME NEW i \in DOMAIN file, DeleteRecord(i) PROVE TypeOK'
    BY <2>13, Deletion DEF DeleteRecord, Edit
  <2>14. CASE RemoveFile
    BY <2>14 DEF RemoveFile, Edit
  <2>15. CASE Relink
    BY <2>15 DEF Relink
  <2>16. CASE UNCHANGED vars
    BY <2>16 DEF vars
  <2>17. ASSUME NEW t \in Target \cup {NoTarget}, NEW m \in MintTimes,
                NEW i \in DOMAIN file, RewriteRecord(i, t, m)
         PROVE  TypeOK'
    <3>1. file' \in Seq(Record)
      BY <2>17, Rewriting
    <3>2. /\ written' = written + 1 /\ edited' = TRUE
          /\ UNCHANGED <<clock, setBack, displaced, fileKind, processVars>>
      BY <2>17 DEF RewriteRecord, WritesLine, Edit
    <3> QED
      BY <3>1, <3>2
  <2>18. ASSUME NEW t \in Target \cup {NoTarget}, NEW m \in MintTimes,
                NEW i \in DOMAIN file, InsertRecord(i, t, m)
         PROVE  TypeOK'
    <3>1. file' \in Seq(Record)
      BY <2>18, Insertion
    <3>2. /\ written' = written + 1 /\ edited' = TRUE
          /\ UNCHANGED <<clock, setBack, fileKind, processVars>>
          /\ displaced' \subseteq displaced \cup {epoch}
      BY <2>18 DEF InsertRecord, WritesLine, Edit
    <3>3. displaced' \subseteq 0 .. epoch'
      <4>1. epoch \in Nat /\ epoch' = epoch /\ displaced \subseteq 0 .. epoch
        BY <3>2
      <4>2. epoch \in 0 .. epoch
        BY <4>1
      <4> QED
        BY <3>2, <4>1, <4>2
    <3> QED
      BY <3>1, <3>2, <3>3
  <2> QED
    BY <2>1, <2>2, <2>3, <2>4, <2>5, <2>6, <2>7, <2>8, <2>9, <2>10, <2>11, <2>12,
       <2>13, <2>14, <2>15, <2>16, <2>17, <2>18
    DEF Next, Process, World, IngestThrows, WriteThrows, EndOfInput, Crash
<1> QED
  BY <1>1, <1>2, PTL DEF Spec

-----------------------------------------------------------------------------
(***************************************************************************)
(* One-shot approvals.  TypeOK /\ GateInv is inductive; the lemmas below   *)
(* are its steps that need more than unfolding.                            *)
(***************************************************************************)

\* Each conjunct of the invariant reads only some of the variables.
LEMMA Frames ==
  ASSUME GateInv, Undisturbed' => Undisturbed
  PROVE  /\ UNCHANGED <<file, written>> => LinesAreDistinct'
         /\ UNCHANGED <<file, written, seen, ingested>> => FreshIsUntaken'
         /\ UNCHANGED <<epoch, ingested, approved, ticket>> => StandingIsBacked'
         /\ UNCHANGED <<epoch, ingested, approved, ticket, inHand, line, now>>
              => InHandIsConsumed'
         /\ UNCHANGED <<epoch, served, ingested, approved, ticket, inHand>> /\ pc # "down"
              => ServedIsSpent'
<1> USE DEF GateInv
<1>1. UNCHANGED <<file, written>> => LinesAreDistinct'
  BY DEF LinesAreDistinct
<1>2. UNCHANGED <<file, written, seen, ingested>> => FreshIsUntaken'
  BY DEF FreshIsUntaken
<1>3. UNCHANGED <<epoch, ingested, approved, ticket>> => StandingIsBacked'
  BY DEF StandingIsBacked, Valid
<1>4. UNCHANGED <<epoch, ingested, approved, ticket, inHand, line, now>> => InHandIsConsumed'
  BY DEF InHandIsConsumed, Valid
<1>5. UNCHANGED <<epoch, served, ingested, approved, ticket, inHand>> /\ pc # "down"
        => ServedIsSpent'
  BY DEF ServedIsSpent
<1> QED
  BY <1>1, <1>2, <1>3, <1>4, <1>5

\* What was served stays as it was served.
LEMMA ServedFrame ==
  ASSUME GateInv, UNCHANGED served, displaced \subseteq displaced'
  PROVE  OneShot' /\ ServedInTime'
  BY DEF GateInv, OneShot, ServedInTime

\* The entries of `served` are what the types say.
LEMMA ServedEntries ==
  ASSUME TypeOK, NEW i \in DOMAIN served
  PROVE  served[i] \in [ticket : Ticket, target : Target, at : Nat]
<1> DEFINE S == [ticket : Ticket, target : Target, at : Nat]
<1>1. served \in Seq(S)
  BY DEF TypeOK
<1> HIDE DEF S
<1>2. served[i] \in S
  BY <1>1
<1> QED
  BY <1>2 DEF S

\* The end of a process takes everything it held with it.
LEMMA StopKeeps ==
  ASSUME TypeOK, GateInv, Stop
  PROVE  GateInv'
<1> USE DEF GateInv, Stop, worldVars, upsets, runVars
<1>1. approved' = EmptyState /\ DOMAIN approved' = {}
  BY DEF EmptyState
<1>2. LinesAreDistinct' /\ FreshIsUntaken' /\ DownIsEmpty'
  BY <1>1 DEF LinesAreDistinct, FreshIsUntaken, DownIsEmpty
<1>3. StandingIsBacked' /\ InHandIsConsumed'
  BY <1>1 DEF StandingIsBacked, InHandIsConsumed
<1>4. ServedIsSpent' /\ OneShot' /\ ServedInTime'
  BY ServedFrame DEF ServedIsSpent
<1> QED
  BY <1>2, <1>3, <1>4

\* A new process starts with an empty map, and a number no ticket carries.
LEMMA StartKeeps ==
  ASSUME TypeOK, GateInv, Start
  PROVE  GateInv'
<1> USE DEF GateInv, Start, upsets, localVars, stateVars
<1>1. approved = EmptyState /\ DOMAIN approved = {} /\ ingested = {} /\ inHand = NoTicket
  BY DEF DownIsEmpty, EmptyState
<1>2. LinesAreDistinct' /\ FreshIsUntaken' /\ DownIsEmpty'
  BY <1>1 DEF LinesAreDistinct, FreshIsUntaken, DownIsEmpty
<1>3. StandingIsBacked' /\ InHandIsConsumed'
  BY <1>1 DEF StandingIsBacked, InHandIsConsumed
<1>4. epoch \in Nat /\ \A i \in DOMAIN served : served[i].ticket.epoch \in Nat
  <2>1. \A i \in DOMAIN served : served[i] \in [ticket : Ticket, target : Target, at : Nat]
    BY ServedEntries
  <2> QED
    BY <2>1 DEF TypeOK, Ticket
<1>5. ServedIsSpent'
  BY <1>4 DEF ServedIsSpent
<1>6. OneShot' /\ ServedInTime'
  BY ServedFrame
<1> QED
  BY <1>2, <1>3, <1>5, <1>6

\* Reading the control file takes lines that were never taken before.
LEMMA IngestKeeps ==
  ASSUME TypeOK, GateInv, IngestFile
  PROVE  GateInv'
<1> USE DEF GateInv, IngestFile, worldVars, upsets, localVars, runVars
<1> DEFINE Taken == {file[i].id : i \in {j \in Fresh : file[j].target \in Target}}
<1>1. ingested' = ingested \cup Taken /\ (Undisturbed' <=> Undisturbed)
  BY DEF Undisturbed
<1>2. \A n \in Taken : n \in 1 .. written /\ (Undisturbed => n \notin ingested)
  BY FreshRecords DEF LinesAreDistinct, FreshIsUntaken
<1>3. inHand = NoTicket /\ inHand' = NoTicket
  BY DEF TypeOK
<1>4. \A t \in Renewed :
        /\ t \in Target /\ Newest(t) \in Fresh /\ file[Newest(t)] \in Record
        /\ file[Newest(t)].target = t
        /\ file[Newest(t)].id \in Taken
  BY NewestRecord DEF Fresh, TypeOK
<1>5. \A t, u \in Renewed :
        file[Newest(t)].id = file[Newest(u)].id => t = u
  <2> SUFFICES ASSUME NEW t \in Renewed, NEW u \in Renewed,
                      file[Newest(t)].id = file[Newest(u)].id
               PROVE  t = u
    OBVIOUS
  <2>1. /\ Newest(t) \in DOMAIN file /\ Newest(u) \in DOMAIN file
        /\ Newest(t) \in Int /\ Newest(u) \in Int
        /\ file[Newest(t)].id \in Nat /\ file[Newest(u)].id \in Nat
    BY <1>4, FreshRecords DEF TypeOK, Record
  <2>2. Newest(t) = Newest(u)
    BY <2>1 DEF LinesAreDistinct
  <2> QED
    BY <1>4, <2>2
<1>6. LinesAreDistinct'
  BY DEF LinesAreDistinct
<1>7. FreshIsUntaken'
  <2>1. ingested' \subseteq 1 .. written'
    BY <1>1, <1>2 DEF FreshIsUntaken
  <2>2. \A i \in DOMAIN file' : ~(i > seen')
    BY DEF TypeOK
  <2> QED
    BY <2>1, <2>2 DEF FreshIsUntaken
<1>8. DownIsEmpty'
  BY DEF DownIsEmpty
<1> DEFINE k(t) == TicketOf(file[Newest(t)])   \* the ticket of a renewed target
<1>9. \A t \in Renewed :
        /\ ticket'[t] = k(t) /\ approved'[t] = k(t).deadline
        /\ k(t) \in Ticket /\ k(t).epoch = epoch /\ k(t).target = t
        /\ k(t).id = file[Newest(t)].id
        /\ k(t).deadline <= k(t).readAt + TtlMs
        /\ k(t).issuedAt # NoTime => k(t).deadline <= k(t).issuedAt + TtlMs
  <2> SUFFICES ASSUME NEW t \in Renewed
               PROVE  /\ ticket'[t] = k(t) /\ approved'[t] = k(t).deadline
                      /\ k(t) \in Ticket /\ k(t).epoch = epoch /\ k(t).target = t
                      /\ k(t).id = file[Newest(t)].id
                      /\ k(t).deadline <= k(t).readAt + TtlMs
                      /\ k(t).issuedAt # NoTime =>
                           k(t).deadline <= k(t).issuedAt + TtlMs
    OBVIOUS
  <2> DEFINE r == file[Newest(t)]
  <2>1. r \in Record /\ r.target = t
    BY <1>4
  <2>2. r.issuedAt \in Nat \cup {NoTime} /\ now \in Nat
    BY <2>1 DEF Record, TypeOK
  <2>3. /\ Deadline(r) <= now + TtlMs
        /\ r.issuedAt # NoTime => Deadline(r) <= r.issuedAt + TtlMs
    BY <2>2, GateAssumption DEF Deadline, Base
  <2>4. k(t) \in Ticket
    BY IngestType
  <2>5. ticket'[t] = k(t) /\ approved'[t] = Deadline(r)
    BY <1>4 DEF WithApprovals
  <2>6. /\ k(t).id = r.id /\ k(t).target = r.target /\ k(t).epoch = epoch
        /\ k(t).issuedAt = r.issuedAt /\ k(t).readAt = now /\ k(t).deadline = Deadline(r)
    BY DEF TicketOf
  <2> HIDE DEF k
  <2> QED
    BY <2>1, <2>3, <2>4, <2>5, <2>6
<1>10. \A t \in DOMAIN approved' \ Renewed :
         /\ t \in DOMAIN approved /\ approved'[t] = approved[t] /\ ticket'[t] = ticket[t]
  BY DEF WithApprovals, TypeOK, IsState
<1> HIDE DEF Taken, k
<1>11. StandingIsBacked'
  <2>1. \A t \in DOMAIN approved' :
          /\ Valid(ticket[t])' /\ ticket'[t].target = t
          /\ ticket'[t].deadline = approved'[t]
    <3> SUFFICES ASSUME NEW t \in DOMAIN approved'
                 PROVE  /\ Valid(ticket[t])' /\ ticket'[t].target = t
                        /\ ticket'[t].deadline = approved'[t]
      OBVIOUS
    <3>1. CASE t \in Renewed
      BY <1>1, <1>4, <1>9, <3>1 DEF Valid
    <3>2. CASE t \notin Renewed
      BY <1>1, <1>10, <3>2 DEF Valid, StandingIsBacked
    <3> QED
      BY <3>1, <3>2
  <2>2. Undisturbed' => \A t, u \in DOMAIN approved' : t # u => ticket'[t].id # ticket'[u].id
    <3> SUFFICES ASSUME Undisturbed, NEW t \in DOMAIN approved', NEW u \in DOMAIN approved', t # u
                 PROVE  ticket'[t].id # ticket'[u].id
      BY <1>1
    <3>1. \A v \in DOMAIN approved' :
            \/ v \in Renewed /\ ticket'[v].id = file[Newest(v)].id /\ ticket'[v].id \notin ingested
            \/ /\ v \notin Renewed /\ v \in DOMAIN approved
               /\ ticket'[v].id = ticket[v].id /\ ticket'[v].id \in ingested
      <4> SUFFICES ASSUME NEW v \in DOMAIN approved'
                   PROVE  \/ /\ v \in Renewed /\ ticket'[v].id = file[Newest(v)].id
                             /\ ticket'[v].id \notin ingested
                          \/ /\ v \notin Renewed /\ v \in DOMAIN approved
                             /\ ticket'[v].id = ticket[v].id /\ ticket'[v].id \in ingested
        OBVIOUS
      <4>1. CASE v \in Renewed
        <5>1. ticket'[v] = k(v) /\ k(v).id = file[Newest(v)].id
          BY <1>9, <4>1
        <5>2. file[Newest(v)].id \notin ingested
          BY <1>2, <1>4, <4>1
        <5> QED
          BY <4>1, <5>1, <5>2
      <4>2. CASE v \notin Renewed
        BY <1>10, <4>2 DEF StandingIsBacked, Valid
      <4> QED
        BY <4>1, <4>2
    <3>2. CASE t \in Renewed /\ u \in Renewed
      <4>1. ticket'[t].id = file[Newest(t)].id /\ ticket'[u].id = file[Newest(u)].id
        BY <3>1, <3>2
      <4> QED
        BY <1>5, <3>2, <4>1
    <3>3. CASE t \in DOMAIN approved /\ u \in DOMAIN approved /\ t \notin Renewed /\ u \notin Renewed
      BY <3>1, <3>3 DEF StandingIsBacked
    <3> QED
      BY <3>1, <3>2, <3>3
  <2> QED
    BY <2>1, <2>2 DEF StandingIsBacked
<1>12. InHandIsConsumed'
  BY <1>3 DEF InHandIsConsumed
<1>13. ServedIsSpent'
  <2>1. Undisturbed => \A t \in DOMAIN approved' :
          \/ ticket'[t].id \notin ingested
          \/ t \in DOMAIN approved /\ ticket'[t] = ticket[t]
    <3> SUFFICES ASSUME Undisturbed, NEW t \in DOMAIN approved'
                 PROVE  \/ ticket'[t].id \notin ingested
                        \/ t \in DOMAIN approved /\ ticket'[t] = ticket[t]
      OBVIOUS
    <3>1. CASE t \in Renewed
      <4>1. ticket'[t] = k(t) /\ k(t).id = file[Newest(t)].id
        BY <1>9, <3>1
      <4>2. file[Newest(t)].id \notin ingested
        BY <1>2, <1>4, <3>1
      <4> QED
        BY <4>1, <4>2
    <3>2. CASE t \notin Renewed
      BY <1>10, <3>2
    <3> QED
      BY <3>1, <3>2
  <2>2. /\ ServedIsSpent /\ served' = served /\ epoch' = epoch /\ inHand' = inHand
        /\ pc # "down" /\ ingested \subseteq ingested' /\ (Undisturbed' <=> Undisturbed)
    BY <1>1, <1>3
  <2> QED
    BY ONLY <2>1, <2>2 DEF ServedIsSpent
<1>14. OneShot' /\ ServedInTime'
  BY ServedFrame
<1> QED
  BY <1>6, <1>7, <1>8, <1>11, <1>12, <1>13, <1>14

\* A decision moves at most one line from `approved` into the call's hand.
LEMMA DecideKeeps ==
  ASSUME TypeOK, GateInv, Decide
  PROVE  GateInv'
<1> USE DEF GateInv, Decide, worldVars, upsets, runVars
<1>1. line.event \in Events /\ now \in Nat /\ inHand = NoTicket
  BY DEF TypeOK
<1>0. Undisturbed' <=> Undisturbed
  BY DEF Undisturbed
<1>2. \A t \in DOMAIN approved' :
        /\ t \in DOMAIN approved /\ approved'[t] = approved[t] /\ ticket'[t] = ticket[t]
  <2> DEFINE s == StepState(now, approved, line.event)
  <2>1. /\ IsState(s)
        /\ \A t \in DOMAIN s : t \in DOMAIN approved /\ s[t] = approved[t]
    BY <1>1, StepType DEF TypeOK
  <2> HIDE DEF s
  <2>2. /\ IsState(Prune(now, s))
        /\ \A t \in DOMAIN Prune(now, s) : t \in DOMAIN s /\ Prune(now, s)[t] = s[t]
    BY <1>1, <2>1, PruneType
  <2>3. approved' = Prune(now, s)
    BY DEF s
  <2>4. \A t \in DOMAIN approved' : t \in Target /\ ticket'[t] = ticket[t]
    BY <2>2, <2>3 DEF IsState
  <2> QED
    BY <2>1, <2>2, <2>3, <2>4
<1>3. StandingIsBacked'
  <2>1. \A t \in DOMAIN approved :
           Valid(ticket[t]) /\ ticket[t].target = t /\ ticket[t].deadline = approved[t]
    BY DEF StandingIsBacked
  <2>2. Undisturbed => \A t, u \in DOMAIN approved : t # u => ticket[t].id # ticket[u].id
    BY DEF StandingIsBacked
  <2>3. \A t \in DOMAIN approved' :
           Valid(ticket[t])' /\ ticket'[t].target = t /\ ticket'[t].deadline = approved'[t]
    <3> SUFFICES ASSUME NEW t \in DOMAIN approved'
                 PROVE  /\ Valid(ticket[t])' /\ ticket'[t].target = t
                        /\ ticket'[t].deadline = approved'[t]
      OBVIOUS
    <3>1. /\ t \in DOMAIN approved /\ approved'[t] = approved[t]
          /\ ticket'[t] = ticket[t]
      BY <1>2
    <3>2. Valid(ticket[t]) /\ ticket[t].target = t /\ ticket[t].deadline = approved[t]
      BY <2>1, <3>1
    <3> QED
      BY <3>1, <3>2 DEF Valid
  <2>4. Undisturbed' => \A t, u \in DOMAIN approved' : t # u => ticket'[t].id # ticket'[u].id
    BY <1>0, <1>2, <2>2
  <2> QED
    BY <2>3, <2>4 DEF StandingIsBacked
<1>4. CASE inHand' = NoTicket
  <2>1. LinesAreDistinct' /\ FreshIsUntaken' /\ DownIsEmpty' /\ OneShot' /\ ServedInTime'
    BY <1>0, Frames, ServedFrame DEF DownIsEmpty
  <2>2. StandingIsBacked'
    BY <1>3
  <2>3. InHandIsConsumed' /\ ServedIsSpent'
    BY <1>0, <1>2, <1>4 DEF InHandIsConsumed, ServedIsSpent
  <2> QED
    BY <2>1, <2>2, <2>3
<1>5. CASE inHand' # NoTicket
  <2>1. PICK t \in Target : line.event = Guarded(t)
    BY <1>1, <1>5 DEF Events, Guarded, Benign, DefaultDeny
  <2>2. /\ Live(approved, t, now) /\ inHand' = ticket[t]
        /\ Allows(now, approved, line.event)
    BY <1>5, <2>1 DEF Allows, Guarded
  <2>3. t \in DOMAIN approved /\ t \notin DOMAIN approved'
    BY <1>1, <2>1, <2>2, StepType, PruneType DEF Live, TypeOK
  <2>4. /\ Valid(ticket[t]) /\ ticket[t].target = t /\ now < ticket[t].deadline
    BY <2>2 DEF Live, StandingIsBacked
  <2>5. LinesAreDistinct' /\ FreshIsUntaken' /\ DownIsEmpty' /\ OneShot' /\ ServedInTime'
    BY <1>0, Frames, ServedFrame DEF DownIsEmpty
  <2>6. StandingIsBacked'
    BY <1>3
  <2>7. InHandIsConsumed'
    BY <1>0, <1>2, <2>1, <2>2, <2>3, <2>4 DEF InHandIsConsumed, StandingIsBacked, Valid
  <2>8. ServedIsSpent'
    BY <1>0, <1>2, <2>2, <2>3 DEF ServedIsSpent, StandingIsBacked
  <2> QED
    BY <2>5, <2>6, <2>7, <2>8
<1> QED
  BY <1>4, <1>5

\* The line in hand is spent on a call of its own.
LEMMA ForwardKeeps ==
  ASSUME TypeOK, GateInv, Forward, inHand # NoTicket
  PROVE  GateInv'
<1> USE DEF GateInv, Forward, Done, worldVars, upsets, stateVars
<1> DEFINE n == Len(served) + 1
<1>1. PICK e \in [ticket : Ticket, target : Target, at : Nat] :
         /\ e.ticket = inHand /\ line.event = Guarded(e.target) /\ e.at = now
         /\ DOMAIN served' = DOMAIN served \cup {n} /\ n \notin DOMAIN served
         /\ \A i \in DOMAIN served : served'[i] = served[i]
         /\ served'[n] = e
  BY Served
<1>2. /\ Valid(inHand) /\ inHand.target = e.target /\ now < inHand.deadline
      /\ Undisturbed => \A t \in DOMAIN approved : ticket[t].id # inHand.id
  BY <1>1 DEF InHandIsConsumed, Guarded
<1>0. Undisturbed' <=> Undisturbed
  BY DEF Undisturbed
<1>3. LinesAreDistinct' /\ FreshIsUntaken' /\ DownIsEmpty'
  BY <1>0, Frames DEF DownIsEmpty
<1>4. StandingIsBacked' /\ InHandIsConsumed'
  BY <1>0, Frames DEF InHandIsConsumed
<1> HIDE DEF n
<1>5. ServedIsSpent'
  <2>1. epoch \in Nat
    BY DEF TypeOK
  <2> QED
    BY <1>0, <1>1, <1>2, <2>1 DEF ServedIsSpent, Valid
<1>6. OneShot'
  <2>1. Undisturbed => \A i \in DOMAIN served :
          served[i].ticket.epoch # e.ticket.epoch \/ served[i].ticket.id # e.ticket.id
    BY <1>1, <1>2 DEF ServedIsSpent, Valid
  <2>2. e.ticket.epoch \notin displaced => Undisturbed
    BY <1>1, <1>2 DEF Valid, Undisturbed
  <2> QED
    BY <1>1, <2>1, <2>2 DEF OneShot
<1>7. ServedInTime'
  <2>1. /\ e.target = e.ticket.target
        /\ e.at < e.ticket.readAt + TtlMs
        /\ e.ticket.issuedAt # NoTime => e.at < e.ticket.issuedAt + TtlMs
    <3>1. /\ now \in Nat /\ TtlMs \in Nat /\ inHand.deadline \in Nat
          /\ inHand.readAt \in Nat /\ inHand.issuedAt \in Nat \cup {NoTime}
      BY <1>2, GateAssumption DEF TypeOK, Valid, Ticket
    <3> QED
      BY <1>1, <1>2, <3>1 DEF Valid
  <2> QED
    BY <1>1, <2>1 DEF ServedInTime
<1> QED
  BY <1>3, <1>4, <1>5, <1>6, <1>7

\* Edits of the file leave its lines distinct; and no line is moved from among
\* those the process has read to beyond them, unless the edit is recorded as such.
LEMMA EditKeeps ==
  ASSUME TypeOK, GateInv,
         \/ \E t \in Target \cup {NoTarget}, m \in MintTimes :
              \/ AppendRecord(t, m)
              \/ \E i \in DOMAIN file : RewriteRecord(i, t, m) \/ InsertRecord(i, t, m)
         \/ \E t \in Target : CompleteRecord(t)
         \/ \E i \in DOMAIN file : DeleteRecord(i)
         \/ RemoveFile
  PROVE  LinesAreDistinct' /\ FreshIsUntaken'
<1> USE DEF GateInv, processVars, stateVars, runVars, upsets
<1>1. /\ written \in Nat /\ seen \in Nat /\ DOMAIN file = 1 .. Len(file) /\ Len(file) \in Nat
      /\ \A i \in DOMAIN file : i \in Nat /\ file[i].id \in Nat
  <2>1. \A i \in DOMAIN file : file[i] \in Record
    BY DEF TypeOK
  <2> QED
    BY <2>1 DEF TypeOK, Record
<1>2. /\ \A i \in DOMAIN file : file[i].id \in 1 .. written /\ file[i].id # written + 1
      /\ \A i, j \in DOMAIN file : i # j => file[i].id # file[j].id
      /\ ingested \subseteq 1 .. written /\ written + 1 \notin ingested
      /\ Undisturbed => \A i \in DOMAIN file : i > seen => file[i].id \notin ingested
  BY <1>1 DEF LinesAreDistinct, FreshIsUntaken
<1>3. ASSUME NEW t \in Target \cup {NoTarget}, NEW m \in MintTimes, AppendRecord(t, m)
      PROVE  LinesAreDistinct' /\ FreshIsUntaken'
  <2> DEFINE r == NewLine(t, m)
             n == Len(file) + 1
  <2>1. r \in Record /\ r.id = written + 1
    BY NewLineType
  <2>2. /\ file \in Seq(Record) /\ file' = Append(file, r)
        /\ written' = written + 1 /\ UNCHANGED <<seen, ingested>>
        /\ Undisturbed' <=> Undisturbed
    BY <1>3 DEF AppendRecord, WritesLine, TypeOK, Undisturbed
  <2> HIDE DEF r
  <2>3. /\ DOMAIN file' = 1 .. n /\ file'[n] = r
        /\ \A i \in DOMAIN file : file'[i] = file[i]
    BY <2>1, <2>2
  <2>4. ASSUME NEW j \in DOMAIN file'
        PROVE  \/ j \in DOMAIN file /\ file'[j].id = file[j].id
               \/ j = n /\ file'[j].id = written + 1
    BY <1>1, <2>1, <2>3
  <2> HIDE DEF n
  <2>5. \A j \in DOMAIN file' : file'[j].id \in 1 .. written'
    BY <1>1, <1>2, <2>2, <2>4
  <2>6. \A j, k \in DOMAIN file' : j # k => file'[j].id # file'[k].id
    BY <1>2, <2>4
  <2>7. ingested' \subseteq 1 .. written'
    BY <1>1, <1>2, <2>2
  <2>8. Undisturbed' => \A j \in DOMAIN file' : j > seen' => file'[j].id \notin ingested'
    BY <1>2, <2>2, <2>4
  <2> QED
    BY <2>5, <2>6, <2>7, <2>8 DEF LinesAreDistinct, FreshIsUntaken
<1>4. ASSUME NEW t \in Target, CompleteRecord(t)
      PROVE  LinesAreDistinct' /\ FreshIsUntaken'
  <2>1. UNCHANGED <<written, seen, ingested>> /\ (Undisturbed' <=> Undisturbed)
    BY <1>4 DEF CompleteRecord, Edit, Undisturbed
  <2>2. DOMAIN file' = DOMAIN file /\ \A j \in DOMAIN file : file'[j].id = file[j].id
    BY <1>4, Completion
  <2> QED
    BY <1>2, <2>1, <2>2 DEF LinesAreDistinct, FreshIsUntaken
<1>5. ASSUME NEW i \in DOMAIN file, DeleteRecord(i)
      PROVE  LinesAreDistinct' /\ FreshIsUntaken'
  <2>1. UNCHANGED <<written, seen, ingested>> /\ (Undisturbed' <=> Undisturbed)
    BY <1>5 DEF DeleteRecord, Edit, Undisturbed
  <2>2. \A j \in DOMAIN file' :
          /\ j \in DOMAIN file /\ j + 1 \in DOMAIN file
          /\ file'[j] = IF j < i THEN file[j] ELSE file[j + 1]
    BY <1>5, Deletion
  <2>3. ASSUME NEW j \in DOMAIN file', NEW k \in DOMAIN file', j # k
        PROVE  file'[j].id # file'[k].id
    <3>1. /\ j \in Nat /\ k \in Nat /\ i \in Nat
          /\ j \in DOMAIN file /\ j + 1 \in DOMAIN file
          /\ k \in DOMAIN file /\ k + 1 \in DOMAIN file
          /\ file'[j] = IF j < i THEN file[j] ELSE file[j + 1]
          /\ file'[k] = IF k < i THEN file[k] ELSE file[k + 1]
      BY <1>1, <2>2
    <3>2. /\ j + 1 # k + 1
          /\ j < i /\ ~(k < i) => j # k + 1
          /\ k < i /\ ~(j < i) => k # j + 1
      BY ONLY <2>3, <3>1
    <3> QED
      BY <1>2, <2>3, <3>1, <3>2
  <2>4. \A j \in DOMAIN file' : file'[j].id \in 1 .. written
    BY <1>2, <2>2
  <2>5. Undisturbed => \A j \in DOMAIN file' : j > seen => file'[j].id \notin ingested
    <3> SUFFICES ASSUME Undisturbed, NEW j \in DOMAIN file', j > seen
                 PROVE  file'[j].id \notin ingested
      OBVIOUS
    <3>1. j \in Nat /\ j + 1 > seen
      BY <1>1, <2>2
    <3> QED
      BY <1>2, <2>2, <3>1
  <2> QED
    BY <1>2, <2>1, <2>3, <2>4, <2>5 DEF LinesAreDistinct, FreshIsUntaken
<1>6. ASSUME NEW t \in Target \cup {NoTarget}, NEW m \in MintTimes,
             NEW i \in DOMAIN file, RewriteRecord(i, t, m)
      PROVE  LinesAreDistinct' /\ FreshIsUntaken'
  <2>1. /\ UNCHANGED <<seen, ingested>> /\ written' = written + 1
        /\ Undisturbed' <=> Undisturbed
    BY <1>6 DEF RewriteRecord, WritesLine, Edit, Undisturbed
  <2>2. /\ DOMAIN file' = DOMAIN file
        /\ \A j \in DOMAIN file : file'[j].id = IF j = i THEN written + 1 ELSE file[j].id
    BY <1>6, Rewriting
  <2>3. \A j \in DOMAIN file' : file'[j].id \in 1 .. written'
    BY <1>1, <1>2, <2>1, <2>2
  <2>4. \A j, k \in DOMAIN file' : j # k => file'[j].id # file'[k].id
    BY <1>2, <2>2
  <2>5. ingested' \subseteq 1 .. written'
    BY <1>1, <1>2, <2>1
  <2>6. Undisturbed' => \A j \in DOMAIN file' : j > seen' => file'[j].id \notin ingested'
    BY <1>2, <2>1, <2>2
  <2> QED
    BY <2>3, <2>4, <2>5, <2>6 DEF LinesAreDistinct, FreshIsUntaken
<1>7. ASSUME NEW t \in Target \cup {NoTarget}, NEW m \in MintTimes,
             NEW i \in DOMAIN file, InsertRecord(i, t, m)
      PROVE  LinesAreDistinct' /\ FreshIsUntaken'
  <2>1. /\ UNCHANGED <<seen, ingested>> /\ written' = written + 1
        /\ Undisturbed' => Undisturbed /\ i > seen
    <3>1. /\ displaced' = IF i <= seen THEN displaced \cup {epoch} ELSE displaced
          /\ UNCHANGED <<seen, ingested, epoch>> /\ written' = written + 1
      BY <1>7 DEF InsertRecord, WritesLine, Edit
    <3>2. i \in Nat
      BY <1>1
    <3> QED
      BY <1>1, <3>1, <3>2 DEF Undisturbed
  <2>2. \A j \in DOMAIN file' :
          \/ j \in DOMAIN file /\ j < i /\ file'[j] = file[j]
          \/ j = i /\ file'[j].id = written + 1
          \/ j - 1 \in DOMAIN file /\ j > i /\ file'[j] = file[j - 1]
    BY <1>7, Insertion
  <2>3. \A j \in DOMAIN file' : file'[j].id \in 1 .. written'
    BY <1>1, <1>2, <2>1, <2>2
  <2>4. \A j \in DOMAIN file' : j \in Nat
    <3>1. file' \in Seq(Record)
      BY <1>7, Insertion
    <3> QED
      BY <3>1
  <2>5. ASSUME NEW j \in DOMAIN file', NEW k \in DOMAIN file', j < k
        PROVE  file'[j].id # file'[k].id
    <3>1. j \in Nat /\ k \in Nat /\ i \in Nat
      BY <1>1, <2>4
    <3>2. CASE j \in DOMAIN file /\ j < i /\ file'[j] = file[j]
      <4>1. k - 1 \in DOMAIN file /\ k > i => j # k - 1
        BY ONLY <3>1, <3>2
      <4> QED
        BY <1>2, <2>2, <2>5, <3>1, <3>2, <4>1
    <3>3. CASE j = i /\ file'[j].id = written + 1
      <4>1. ~(k < i) /\ k # i
        BY ONLY <2>5, <3>1, <3>3
      <4> QED
        BY <1>2, <2>2, <3>3, <4>1
    <3>4. CASE j - 1 \in DOMAIN file /\ j > i /\ file'[j] = file[j - 1]
      <4>1. ~(k < i) /\ k # i /\ j - 1 # k - 1
        BY ONLY <2>5, <3>1, <3>4
      <4> QED
        BY <1>2, <2>2, <3>4, <4>1
    <3> QED
      BY <2>2, <3>2, <3>3, <3>4
  <2>6. ASSUME NEW j \in DOMAIN file', NEW k \in DOMAIN file', j # k
        PROVE  file'[j].id # file'[k].id
    <3>1. j < k \/ k < j
      BY <2>4, <2>6
    <3> QED
      BY <2>5, <3>1
  <2>7. ingested' \subseteq 1 .. written'
    BY <1>1, <1>2, <2>1
  <2>8. Undisturbed' => \A j \in DOMAIN file' : j > seen' => file'[j].id \notin ingested'
    <3> SUFFICES ASSUME Undisturbed', NEW j \in DOMAIN file', j > seen
                 PROVE  file'[j].id \notin ingested
      BY <2>1
    <3>1. j \in Nat /\ i \in Nat /\ i > seen /\ Undisturbed
      BY <1>1, <2>1, <2>4
    <3>2. j > i => j - 1 > seen
      BY ONLY <1>1, <3>1
    <3> QED
      BY <1>2, <2>2, <3>1, <3>2
  <2> QED
    BY <2>3, <2>6, <2>7, <2>8 DEF LinesAreDistinct, FreshIsUntaken
<1>8. ASSUME RemoveFile
      PROVE  LinesAreDistinct' /\ FreshIsUntaken'
  BY <1>2, <1>8 DEF RemoveFile, Edit, LinesAreDistinct, FreshIsUntaken
<1> QED
  BY <1>3, <1>4, <1>5, <1>6, <1>7, <1>8

\* The record of disturbed processes only grows.
LEMMA WorldDisturbs ==
  ASSUME World
  PROVE  displaced \subseteq displaced' /\ (Undisturbed' => Undisturbed)
<1>1. epoch' = epoch
  BY WorldLeavesProcess DEF processVars, runVars
<1>2. displaced \subseteq displaced'
  BY DEF World, Tick, AppendRecord, CompleteRecord, DeleteRecord, RewriteRecord,
         InsertRecord, RemoveFile, Relink, upsets
<1> QED
  BY <1>1, <1>2 DEF Undisturbed

\* What the world does leaves the process and its tickets alone.
LEMMA WorldKeeps ==
  ASSUME TypeOK, GateInv, World
  PROVE  GateInv'
<1>1. UNCHANGED <<pc, line, now, inHand, seen, approved, ingested, ticket, epoch, served>>
  BY WorldLeavesProcess DEF processVars, localVars, stateVars, runVars
<1>2. LinesAreDistinct' /\ FreshIsUntaken'
  <2>1. CASE Tick \/ Relink
    <3>1. UNCHANGED <<file, written>>
      BY <2>1 DEF Tick, Relink
    <3> QED
      BY <1>1, <3>1, Frames, WorldDisturbs
  <2> QED
    BY <2>1, EditKeeps DEF World
<1>3. ServedIsSpent' /\ DownIsEmpty'
  BY <1>1, WorldDisturbs DEF GateInv, ServedIsSpent, DownIsEmpty
<1>4. StandingIsBacked' /\ InHandIsConsumed'
  BY <1>1, WorldDisturbs, Frames
<1>5. OneShot' /\ ServedInTime'
  BY <1>1, WorldDisturbs, ServedFrame
<1> QED
  BY <1>2, <1>3, <1>4, <1>5 DEF GateInv

\* The steps of the process that touch no approval.
LEMMA QuietKeeps ==
  ASSUME TypeOK, GateInv,
         \/ \E l \in Lines : ReadLine(l)
         \/ ReadClock \/ IngestAbsent \/ Reply
         \/ Forward /\ inHand = NoTicket
  PROVE  GateInv'
<1>1. /\ UNCHANGED <<file, written, displaced, seen, approved, ingested, ticket, epoch, served>>
      /\ pc # "down" /\ pc' # "down"
      /\ inHand = NoTicket /\ inHand' = NoTicket
  BY DEF TypeOK, ReadLine, ReadClock, IngestAbsent, Reply, Forward, Done,
         worldVars, upsets, localVars, stateVars, runVars
<1>2. Undisturbed' <=> Undisturbed
  BY <1>1 DEF Undisturbed
<1>3. InHandIsConsumed' /\ DownIsEmpty' /\ ServedIsSpent'
  BY <1>1, <1>2 DEF GateInv, InHandIsConsumed, DownIsEmpty, ServedIsSpent
<1> QED
  BY <1>1, <1>2, <1>3, Frames, ServedFrame DEF GateInv

\* The invariant of the gate is inductive, given the types.
LEMMA GateInvInductive ==
  /\ Init => GateInv
  /\ TypeOK /\ GateInv /\ [Next]_vars => GateInv'
<1>1. Init => GateInv
  BY DEF Init, GateInv, LinesAreDistinct, FreshIsUntaken, DownIsEmpty, StandingIsBacked,
         InHandIsConsumed, ServedIsSpent, OneShot, ServedInTime, EmptyState
<1>2. ASSUME TypeOK, GateInv, [Next]_vars PROVE GateInv'
  <2>1. CASE Stop
    BY <1>2, <2>1, StopKeeps
  <2>2. CASE Start
    BY <1>2, <2>2, StartKeeps
  <2>3. CASE IngestFile
    BY <1>2, <2>3, IngestKeeps
  <2>4. CASE Decide
    BY <1>2, <2>4, DecideKeeps
  <2>5. CASE Forward /\ inHand # NoTicket
    BY <1>2, <2>5, ForwardKeeps
  <2>6. CASE \/ \E l \in Lines : ReadLine(l)
             \/ ReadClock \/ IngestAbsent \/ Reply
             \/ Forward /\ inHand = NoTicket
    BY <1>2, <2>6, QuietKeeps
  <2>7. CASE World
    BY <1>2, <2>7, WorldKeeps
  <2>8. CASE UNCHANGED vars
    <3>1. UNCHANGED <<file, written, displaced, pc, line, now, inHand, seen, approved,
                      ingested, ticket, epoch, served>>
      BY <2>8 DEF vars, worldVars, upsets, localVars, stateVars, runVars
    <3>2. Undisturbed' <=> Undisturbed
      BY <3>1 DEF Undisturbed
    <3>3. ServedIsSpent' /\ DownIsEmpty'
      BY <1>2, <3>1, <3>2 DEF GateInv, ServedIsSpent, DownIsEmpty
    <3> QED
      BY <1>2, <3>1, <3>2, <3>3, Frames, ServedFrame DEF GateInv
  <2> QED
    BY <1>2, <2>1, <2>2, <2>3, <2>4, <2>5, <2>6, <2>7, <2>8
    DEF Next, Process, IngestThrows, WriteThrows, EndOfInput, Crash
<1> QED
  BY <1>1, <1>2

\* The invariant of the gate: every approval in the map rests on a line of
\* its own, which no call of this process has used; unless a line was put in
\* ahead of those the process had read.
THEOREM GateInvariant == Spec => []GateInv
<1>1. Spec => []TypeOK
  BY TypeCorrect
<1>2. Init => GateInv
  BY GateInvInductive
<1>3. TypeOK /\ GateInv /\ [Next]_vars => GateInv'
  BY GateInvInductive
<1> QED
  BY <1>1, <1>2, <1>3, PTL DEF Spec

\* An approval serves one call in the life of a process, for any number of
\* targets, lines, calls and restarts, and for lines appended, torn, completed,
\* rewritten, inserted and deleted anywhere in the control file, and its removal:
\* unless a line was put in ahead of those that process had read (`displaced`), an
\* edit under which the promise fails in the code.
THEOREM ApprovalsAreOneShot == Spec => []OneShot
<1>1. GateInv => OneShot
  BY DEF GateInv
<1> QED
  BY <1>1, GateInvariant, PTL

\* A served call is for the target of its approval and within its deadline,
\* for any TTL, mint times and movement of the wall clock.
THEOREM CallsAreServedInTime == Spec => []ServedInTime
<1>1. GateInv => ServedInTime
  BY DEF GateInv
<1> QED
  BY <1>1, GateInvariant, PTL

-----------------------------------------------------------------------------
(***************************************************************************)
(* The gate implements OneShotApprovals: its open approvals are the        *)
(* entries of `approved` and the one in the call's hand.                   *)
(***************************************************************************)
\* The clock stays within the bound of the exploration.
ClockBounded == clock \in 0 .. MaxClock /\ now \in 0 .. MaxClock

LEMMA ClockIsBounded == Spec => []ClockBounded
<1>1. Init => ClockBounded
  BY GateAssumption DEF Init, ClockBounded
<1>2. ClockBounded /\ [Next]_vars => ClockBounded'
  <2> SUFFICES ASSUME ClockBounded, [Next]_vars PROVE ClockBounded'
    OBVIOUS
  <2> USE GateAssumption DEF ClockBounded, worldVars, localVars
  <2>1. CASE Process
    BY <2>1 DEF Process, Start, ReadLine, ReadClock, IngestFile, IngestAbsent, IngestThrows,
                Decide, Forward, Reply, Done, WriteThrows, EndOfInput, Crash, Stop
  <2>2. CASE World
    BY <2>2, WorldLeavesProcess DEF Tick, processVars
  <2>3. CASE UNCHANGED vars
    BY <2>3 DEF vars
  <2> QED
    BY <2>1, <2>2, <2>3 DEF Next
<1> QED
  BY <1>1, <1>2, PTL DEF Spec

\* No open approval is on record as used.
LEMMA OpenIsUnused ==
  ASSUME TypeOK, GateInv
  PROVE  \A a \in OpenApprovals : a.epoch = epoch /\ (a.epoch \in displaced \/ Abstract!Unused(a))
<1> SUFFICES ASSUME NEW a \in OpenApprovals
             PROVE  /\ a.epoch = epoch
                    /\ a.epoch \notin displaced => Abstract!Unused(a)
  OBVIOUS
<1>0. a.epoch = epoch
  BY DEF OpenApprovals, GateInv, StandingIsBacked, InHandIsConsumed, Valid
<1> SUFFICES ASSUME Undisturbed, NEW i \in DOMAIN served
             PROVE  served[i].ticket.epoch # a.epoch \/ served[i].ticket.id # a.id
  BY <1>0 DEF Abstract!Unused, Uses, Undisturbed
<1>1. pc # "down"
  BY DEF OpenApprovals, GateInv, DownIsEmpty, EmptyState
<1>2. CASE a = inHand /\ inHand # NoTicket
  BY <1>1, <1>2 DEF GateInv, InHandIsConsumed, Valid, ServedIsSpent
<1>3. ASSUME NEW t \in DOMAIN approved, a = ticket[t]
      PROVE  served[i].ticket.epoch # a.epoch \/ served[i].ticket.id # a.id
  BY <1>1, <1>3 DEF GateInv, StandingIsBacked, Valid, ServedIsSpent
<1> QED
  BY <1>2, <1>3 DEF OpenApprovals

\* A step that serves no call changes the open approvals at most.
LEMMA QuietIsChange ==
  ASSUME TypeOK', GateInv', served' = served, displaced \subseteq displaced'
  PROVE  Abstract!Change
<1>1. \A a \in OpenApprovals' : a.epoch \notin displaced' =>
        \A i \in DOMAIN Uses' : Uses'[i].epoch # a.epoch \/ Uses'[i].id # a.id
  <2> SUFFICES ASSUME NEW a \in OpenApprovals', a.epoch \notin displaced',
                      NEW i \in DOMAIN served'
               PROVE  served'[i].ticket.epoch # a.epoch \/ served'[i].ticket.id # a.id
    BY DEF Uses
  <2>1. pc' # "down"
    BY DEF OpenApprovals, GateInv, DownIsEmpty, EmptyState
  <2>2. a.epoch = epoch'
    BY DEF OpenApprovals, GateInv, StandingIsBacked, InHandIsConsumed, Valid
  <2>3. Undisturbed'
    BY <2>2 DEF Undisturbed
  <2>4. CASE a = inHand' /\ inHand' # NoTicket
    BY <2>1, <2>3, <2>4 DEF GateInv, InHandIsConsumed, Valid, ServedIsSpent
  <2>5. ASSUME NEW t \in DOMAIN approved', a = ticket'[t]
        PROVE  served'[i].ticket.epoch # a.epoch \/ served'[i].ticket.id # a.id
    BY <2>1, <2>3, <2>5 DEF GateInv, StandingIsBacked, Valid, ServedIsSpent
  <2> QED
    BY <2>4, <2>5 DEF OpenApprovals
<1>2. Uses' = Uses
  BY DEF Uses
<1> QED
  BY <1>1, <1>2 DEF Abstract!Change, Abstract!Unused

\* Handing an approved call to the child uses its approval.
LEMMA ForwardIsConsume ==
  ASSUME TypeOK, GateInv, ClockBounded, Forward, inHand # NoTicket
  PROVE  inHand \in OpenApprovals /\ Abstract!Consume(inHand)
<1> DEFINE n == Len(served) + 1
<1>1. PICK e \in [ticket : Ticket, target : Target, at : Nat] :
         /\ e.ticket = inHand /\ line.event = Guarded(e.target) /\ e.at = now
         /\ served' \in Seq([ticket : Ticket, target : Target, at : Nat])
         /\ DOMAIN served' = DOMAIN served \cup {n} /\ n \notin DOMAIN served
         /\ \A i \in DOMAIN served : served'[i] = served[i]
         /\ served'[n] = e
  BY Served
<1>2. inHand.target = e.target /\ now < inHand.deadline
  BY <1>1 DEF GateInv, InHandIsConsumed, Guarded
<1>3. /\ inHand \in OpenApprovals /\ inHand.epoch = epoch
      /\ inHand.epoch \in displaced \/ Abstract!Unused(inHand)
  BY OpenIsUnused DEF OpenApprovals
<1> DEFINE u == [id |-> inHand.id, epoch |-> inHand.epoch, target |-> inHand.target, at |-> now]
<1>4. Uses' = Append(Uses, u)
  <2>1. Len(served) \in Nat /\ DOMAIN served = 1 .. Len(served)
    BY DEF TypeOK
  <2>2. Uses' = [i \in 1 .. n |-> IF i = n THEN u ELSE Uses[i]]
    BY <1>1, <1>2, <2>1 DEF Uses
  <2> DEFINE S == {Uses[i] : i \in DOMAIN Uses} \cup {u}
  <2> HIDE DEF u
  <2>3. DOMAIN Uses = 1 .. Len(served) /\ Uses \in Seq(S) /\ u \in S
    BY <2>1, SeqDef DEF Uses
  <2>4. Len(Uses) = Len(served)
    BY <2>1, <2>3
  <2> DEFINE A == Append(Uses, u)
  <2>5. /\ A \in Seq(S) /\ Len(A) = n /\ A[n] = u
        /\ \A i \in 1 .. Len(served) : A[i] = Uses[i]
    BY <2>3, <2>4, AppendProperties
  <2> HIDE DEF A, S
  <2>6. DOMAIN Uses' = 1 .. n /\ \A i \in 1 .. n : Uses'[i] = A[i] /\ A[i] \in S
    BY <2>1, <2>2, <2>3, <2>5
  <2>7. Uses' \in Seq(S) /\ Len(Uses') = n
    BY <2>1, <2>2, <2>6, SeqDef
  <2>8. Uses' = A
    BY <2>5, <2>6, <2>7, SeqEqual
  <2> QED
    BY <2>8 DEF A
<1>5. OpenApprovals' = {ticket[t] : t \in DOMAIN approved}
  BY DEF Forward, Done, stateVars, OpenApprovals
<1>6. \A b \in OpenApprovals' :
        b \in OpenApprovals /\ (inHand.epoch \in displaced \/ b.id # inHand.id)
  BY <1>3, <1>5 DEF OpenApprovals, GateInv, InHandIsConsumed, Undisturbed
<1>7. now \in 0 .. MaxClock /\ displaced' = displaced
  BY DEF ClockBounded, Forward, Done, worldVars, upsets
<1> QED
  BY <1>2, <1>3, <1>4, <1>6, <1>7 DEF Abstract!Consume

\* The gate implements the abstract lifecycle of one-shot approvals, for any
\* number of targets, lines, calls, restarts and edits of the control file; a
\* process under which a line was put in ahead of those it had read is void.
THEOREM GateImplementsOneShot == Spec => ImplementsOneShot
<1>1. Init => Abstract!Init
  BY DEF Init, Abstract!Init, OpenApprovals, Uses, EmptyState
<1>2. ASSUME TypeOK, TypeOK', GateInv, GateInv', ClockBounded, [Next]_vars
      PROVE  [Abstract!Next]_<<OpenApprovals, Uses, displaced>>
  <2>1. CASE Forward /\ inHand # NoTicket
    BY <1>2, <2>1, ForwardIsConsume DEF Abstract!Next
  <2>2. CASE served' = served
    <3>1. displaced \subseteq displaced'
      <4>1. CASE Process
        BY <4>1 DEF Process, Start, ReadLine, ReadClock, IngestFile, IngestAbsent, IngestThrows,
                    Decide, Forward, Reply, Done, WriteThrows, EndOfInput, Crash, Stop,
                    worldVars, upsets
      <4>2. CASE World
        BY <4>2, WorldDisturbs
      <4>3. CASE UNCHANGED vars
        BY <4>3 DEF vars, worldVars, upsets
      <4> QED
        BY <1>2, <4>1, <4>2, <4>3 DEF Next
    <3> QED
      BY <1>2, <2>2, <3>1, QuietIsChange DEF Abstract!Next
  <2>3. Forward /\ inHand = NoTicket => served' = served
    BY DEF Forward
  <2>4. Process => Forward \/ served' = served
    BY DEF Process, Start, ReadLine, ReadClock, IngestFile, IngestAbsent, IngestThrows,
           Decide, Reply, WriteThrows, EndOfInput, Crash, Stop, runVars
  <2>5. World \/ UNCHANGED vars => served' = served
    BY WorldLeavesProcess DEF processVars, vars, runVars
  <2> QED
    BY <1>2, <2>1, <2>2, <2>3, <2>4, <2>5 DEF Next
<1> QED
  BY <1>1, <1>2, TypeCorrect, GateInvariant, ClockIsBounded, PTL
  DEF Spec, ImplementsOneShot, Abstract!Spec

-----------------------------------------------------------------------------
(***************************************************************************)
(* Prune, the wall clock and the seen counter: SealGateClock.              *)
(***************************************************************************)

\* The gate with its twin and its record of expiries is the gate.
LEMMA ClockIsGate == ClockSpec => Spec
<1>1. ClockInit => Init
  BY DEF ClockInit
<1>2. [ClockNext]_clockVars => [Next]_vars
  BY DEF ClockNext, clockVars
<1> QED
  BY <1>1, <1>2, PTL DEF ClockSpec, Spec

-----------------------------------------------------------------------------
(***************************************************************************)
(* An expired approval stays expired: no standing ticket, and not the one  *)
(* in hand, was ever seen past its deadline, however the clock moves.      *)
(***************************************************************************)
ExpiredIsGone ==
  /\ expired \subseteq ingested
  /\ pc = "down" => expired = {}
  /\ Undisturbed =>
       /\ \A t \in DOMAIN approved : ticket[t].id \notin expired
       /\ inHand # NoTicket => inHand.id \notin expired

\* The decision takes the expired approvals out of the map as it notes them.
LEMMA DecideNotesExpiry ==
  ASSUME TypeOK, GateInv, ExpiredIsGone, Decide, ExpiryNoted
  PROVE  ExpiredIsGone'
<1> DEFINE s == StepState(now, approved, line.event)
<1>1. line.event \in Events /\ now \in Nat /\ IsState(approved)
  BY DEF TypeOK, Decide
<1>2. /\ IsState(s)
      /\ \A t \in DOMAIN s : t \in DOMAIN approved /\ s[t] = approved[t]
      /\ \A t \in Target : line.event = Guarded(t) /\ Allows(now, approved, line.event)
                             => t \notin DOMAIN s
  BY <1>1, StepType
<1> HIDE DEF s
<1>3. /\ approved' = Prune(now, s) /\ UNCHANGED <<epoch, ingested, displaced>>
      /\ pc' \in {"forward", "reply"} /\ pc = "decide"
      /\ Undisturbed' <=> Undisturbed
  BY DEF Decide, runVars, worldVars, upsets, s, Undisturbed
<1>4. \A t \in DOMAIN approved' : t \in DOMAIN approved /\ now < approved[t] /\ t \in Target
  BY <1>1, <1>2, <1>3, PruneType DEF IsState
<1>5. \A t \in DOMAIN approved' : ticket'[t] = ticket[t]
  BY <1>4 DEF Decide
<1>6. expired' = expired \cup FoundExpired
  BY <1>3 DEF ExpiryNoted
<1>7. \A t \in DOMAIN approved :
        /\ ticket[t].id \in ingested /\ approved[t] \in Nat
        /\ Undisturbed /\ now < approved[t] => ticket[t].id \notin FoundExpired
  BY <1>1 DEF GateInv, StandingIsBacked, Valid, FoundExpired, IsState
<1>8. expired' \subseteq ingested'
  BY <1>3, <1>6, <1>7 DEF ExpiredIsGone, FoundExpired
<1>9. Undisturbed => \A t \in DOMAIN approved' : ticket'[t].id \notin expired'
  BY <1>4, <1>5, <1>6, <1>7 DEF ExpiredIsGone
<1>10. Undisturbed /\ inHand' # NoTicket => inHand'.id \notin expired'
  <2> SUFFICES ASSUME Undisturbed, inHand' # NoTicket PROVE inHand'.id \notin expired'
    OBVIOUS
  <2>1. PICK t : t \in DOMAIN approved /\ now < approved[t] /\ inHand' = ticket[t]
    BY DEF Decide, Allows, Live
  <2> QED
    BY <1>6, <1>7, <2>1 DEF ExpiredIsGone
<1> QED
  BY <1>3, <1>8, <1>9, <1>10 DEF ExpiredIsGone

\* The control file never yields an approval that was seen expired.
LEMMA IngestIsFresh ==
  ASSUME TypeOK, GateInv, GateInv', ExpiredIsGone, IngestFile, ExpiryNoted
  PROVE  ExpiredIsGone'
<1>1. /\ pc = "ingest" /\ pc' = "decide" /\ inHand' = NoTicket /\ expired' = expired
      /\ ingested \subseteq ingested' /\ (Undisturbed' <=> Undisturbed)
  BY DEF IngestFile, ExpiryNoted, TypeOK, localVars, worldVars, upsets, runVars, Undisturbed
<1>2. \A t \in Renewed : /\ t \in Target
                         /\ ticket'[t] = TicketOf(file[Newest(t)])
                         /\ Undisturbed => file[Newest(t)].id \notin ingested
  BY NewestRecord DEF IngestFile, GateInv, FreshIsUntaken
<1>3. \A t \in DOMAIN approved' \ Renewed : t \in DOMAIN approved /\ ticket'[t] = ticket[t]
  BY DEF IngestFile, WithApprovals, TypeOK, IsState
<1>4. Undisturbed => \A t \in DOMAIN approved' : ticket'[t].id \notin expired
  <2> SUFFICES ASSUME Undisturbed, NEW t \in DOMAIN approved' PROVE ticket'[t].id \notin expired
    OBVIOUS
  <2>1. CASE t \in Renewed
    <3>1. TicketOf(file[Newest(t)]).id = file[Newest(t)].id
      BY DEF TicketOf
    <3>2. ticket'[t] = TicketOf(file[Newest(t)]) /\ file[Newest(t)].id \notin ingested
      BY <1>2, <2>1
    <3> QED
      BY <3>1, <3>2 DEF ExpiredIsGone
  <2>2. CASE t \notin Renewed
    BY <1>3, <2>2 DEF ExpiredIsGone
  <2> QED
    BY <2>1, <2>2
<1> QED
  BY <1>1, <1>4 DEF ExpiredIsGone

\* An approval that some call found expired lets no later call through, even
\* if the wall clock is set back before its deadline: for any targets, TTL,
\* mint times and movement of the clock, while no line is put in ahead of those
\* the process has read.
THEOREM ExpiryIsFinal == ClockSpec => []ExpiredStaysExpired
<1>1. ClockInit => ExpiredIsGone
  BY DEF ClockInit, Init, ExpiredIsGone, EmptyState
<1>2. ASSUME TypeOK, GateInv, GateInv', ExpiredIsGone, [ClockNext]_clockVars
      PROVE  ExpiredIsGone'
  <2> USE <1>2 DEF ExpiredIsGone, ExpiryNoted, worldVars, upsets, localVars, stateVars, runVars,
                   Undisturbed
  <2>1. CASE ClockNext /\ Decide
    BY <2>1, DecideNotesExpiry DEF ClockNext
  <2>2. CASE ClockNext /\ IngestFile
    BY <2>2, IngestIsFresh DEF ClockNext
  <2>3. CASE ClockNext /\ Stop
    BY <2>3 DEF ClockNext, Stop, EmptyState
  <2>4. CASE ClockNext /\ Start
    BY <2>4 DEF ClockNext, Start, GateInv, DownIsEmpty, EmptyState
  <2>5. CASE ClockNext /\ (\/ \E l \in Lines : ReadLine(l)
                           \/ ReadClock \/ IngestAbsent \/ Forward \/ Reply)
    <3>1. /\ UNCHANGED <<ingested, approved, ticket, displaced, epoch>>
          /\ pc # "down" /\ pc' # "down"
          /\ inHand' = inHand \/ inHand' = NoTicket
      BY <2>5 DEF ReadLine, ReadClock, IngestAbsent, Forward, Reply, Done
    <3>2. expired' = expired
      BY <2>5, <3>1 DEF ClockNext, ReadLine, ReadClock, IngestAbsent, Forward, Reply
    <3> QED
      BY <3>1, <3>2
  <2>6. CASE ClockNext /\ World
    <3>1. UNCHANGED <<pc, ingested, approved, ticket, inHand>>
      BY <2>6, WorldLeavesProcess DEF processVars
    <3>2. Undisturbed' => Undisturbed
      BY <2>6, WorldDisturbs
    <3>3. expired' = IF pc = "down" THEN {} ELSE expired
      BY <2>6, <3>1 DEF ClockNext
    <3> HIDE DEF Undisturbed
    <3> QED
      BY <3>1, <3>2, <3>3
  <2>7. CASE UNCHANGED clockVars
    BY <2>7 DEF clockVars, vars
  <2> QED
    BY <1>2, <2>1, <2>2, <2>3, <2>4, <2>5, <2>6, <2>7
    DEF ClockNext, Next, Process, IngestThrows, WriteThrows, EndOfInput, Crash
<1>3. ExpiredIsGone => ExpiredStaysExpired
  BY DEF ExpiredIsGone, ExpiredStaysExpired
<1> QED
  BY <1>1, <1>2, <1>3, ClockIsGate, TypeCorrect, GateInvariant, PTL DEF ClockSpec

-----------------------------------------------------------------------------
(***************************************************************************)
(* Prune changes no decision while the clock only advances: the twin holds *)
(* all that stands, and besides only what is past its deadline for this    *)
(* and every later reading of the clock.                                   *)
(***************************************************************************)
Reading == pc \in {"ingest", "decide"}

TwinAgrees ==
  /\ now <= clock
  /\ IsState(unpruned)
  /\ \A t \in DOMAIN approved : t \in DOMAIN unpruned /\ unpruned[t] = approved[t]
  /\ \A t \in DOMAIN unpruned \ DOMAIN approved :
       unpruned[t] <= clock /\ (Reading => unpruned[t] <= now)

\* So both maps agree on what is live at this reading of the clock.
LEMMA TwinsAgreeOnLive ==
  ASSUME TypeOK, TwinAgrees, Reading
  PROVE  \A t \in Target : Live(approved, t, now) <=> Live(unpruned, t, now)
<1> SUFFICES ASSUME NEW t \in Target
             PROVE  Live(approved, t, now) <=> Live(unpruned, t, now)
  OBVIOUS
<1>1. now \in Nat /\ (t \in DOMAIN unpruned => unpruned[t] \in Nat)
  BY DEF TypeOK, TwinAgrees, IsState
<1> QED
  BY <1>1 DEF Live, TwinAgrees

LEMMA IngestKeepsTwin ==
  ASSUME TypeOK, TwinAgrees, IngestFile, TwinFollows
  PROVE  TwinAgrees'
<1>1. /\ unpruned' = WithApprovals(unpruned) /\ approved' = WithApprovals(approved)
      /\ UNCHANGED <<clock, now>> /\ Reading /\ Reading'
  BY DEF IngestFile, TwinFollows, Reading, worldVars, localVars
<1>2. \A t \in Renewed : t \in Target /\ Deadline(file[Newest(t)]) \in Nat
  <2> SUFFICES ASSUME NEW t \in Renewed PROVE Deadline(file[Newest(t)]) \in Nat
    BY DEF Renewed
  <2>1. file[Newest(t)].issuedAt \in Nat \cup {NoTime} /\ now \in Nat
    BY NewestRecord DEF Record, TypeOK
  <2>2. Base(file[Newest(t)]) \in Nat
    BY <2>1 DEF Base
  <2> QED
    BY <2>2, GateAssumption DEF Deadline
<1>3. IsState(unpruned')
  BY <1>1, <1>2 DEF WithApprovals, IsState, TwinAgrees
<1>4. \A t \in DOMAIN approved' : t \in DOMAIN unpruned' /\ unpruned'[t] = approved'[t]
  BY <1>1 DEF WithApprovals, TwinAgrees
<1>5. \A t \in DOMAIN unpruned' \ DOMAIN approved' :
        t \in DOMAIN unpruned \ DOMAIN approved /\ unpruned'[t] = unpruned[t]
  BY <1>1 DEF WithApprovals
<1> QED
  BY <1>1, <1>3, <1>4, <1>5 DEF TwinAgrees

\* A guarded call takes its own target out of the map, if it was live.
LEMMA StepDomain ==
  ASSUME NEW m, NEW n, NEW g \in Target
  PROVE  DOMAIN StepState(n, m, Guarded(g)) =
           IF Live(m, g, n) THEN DOMAIN m \ {g} ELSE DOMAIN m
<1>1. Guarded(g).type = "guarded" /\ Guarded(g).target = g
  BY DEF Guarded
<1>2. StepState(n, m, Guarded(g)) = IF Live(m, g, n) THEN Erase(m, g) ELSE m
  BY <1>1 DEF StepState
<1>3. DOMAIN Erase(m, g) = DOMAIN m \ {g}
  BY DEF Erase
<1> QED
  BY <1>2, <1>3

LEMMA DecideKeepsTwin ==
  ASSUME TypeOK, TwinAgrees, Decide, TwinFollows
  PROVE  TwinAgrees'
<1> DEFINE s == StepState(now, approved, line.event)
           u == StepState(now, unpruned, line.event)
<1>1. /\ line.event \in Events /\ now \in Nat /\ clock \in Nat
      /\ IsState(approved) /\ IsState(unpruned) /\ now <= clock
  BY DEF TypeOK, Decide, TwinAgrees
<1>2. /\ IsState(s)
      /\ \A t \in DOMAIN s : t \in DOMAIN approved /\ s[t] = approved[t]
  BY <1>1, StepType
<1>3. /\ IsState(u)
      /\ \A t \in DOMAIN u : t \in DOMAIN unpruned /\ u[t] = unpruned[t]
  BY <1>1, StepType
<1>4. \A t \in Target : Live(approved, t, now) <=> Live(unpruned, t, now)
  BY TwinsAgreeOnLive DEF Reading, Decide
<1>5. \A t \in Target :
        /\ t \in DOMAIN s => t \in DOMAIN u
        /\ t \in DOMAIN u /\ t \in DOMAIN approved => t \in DOMAIN s
  <2>1. CASE line.event.type = "guarded"
    <3>1. PICK g \in Target : line.event = Guarded(g)
      BY <1>1, <2>1 DEF Events, Guarded, Benign, DefaultDeny
    <3>2. DOMAIN s = IF Live(approved, g, now) THEN DOMAIN approved \ {g} ELSE DOMAIN approved
      BY <3>1, StepDomain
    <3>3. DOMAIN u = IF Live(unpruned, g, now) THEN DOMAIN unpruned \ {g} ELSE DOMAIN unpruned
      BY <3>1, StepDomain
    <3>4. Live(approved, g, now) <=> Live(unpruned, g, now)
      BY <1>4
    <3> HIDE DEF s, u
    <3> QED
      BY <3>2, <3>3, <3>4 DEF TwinAgrees
  <2>2. CASE line.event.type # "guarded"
    <3>1. line.event.type # "approval"
      BY <1>1 DEF Events, Guarded, Benign, DefaultDeny
    <3> QED
      BY <2>2, <3>1 DEF StepState, TwinAgrees
  <2> QED
    BY <2>1, <2>2
<1> HIDE DEF s, u
<1>6. /\ approved' = Prune(now, s) /\ unpruned' = u /\ UNCHANGED <<clock, now>>
      /\ ~Reading'
  BY DEF Decide, TwinFollows, Reading, worldVars, s, u
<1>7. DOMAIN approved' = {t \in DOMAIN s : now < s[t]}
      /\ \A t \in DOMAIN approved' : approved'[t] = s[t]
  BY <1>6 DEF Prune
<1>8. \A t \in DOMAIN approved' : t \in DOMAIN unpruned' /\ unpruned'[t] = approved'[t]
  BY <1>2, <1>3, <1>5, <1>6, <1>7 DEF TwinAgrees, IsState
<1>9. \A t \in DOMAIN unpruned' \ DOMAIN approved' : unpruned'[t] <= clock
  <2> SUFFICES ASSUME NEW t \in DOMAIN u, t \notin DOMAIN approved' PROVE u[t] <= clock
    BY <1>6
  <2>1. t \in Target /\ u[t] \in Nat /\ u[t] = unpruned[t]
    BY <1>3 DEF IsState
  <2>2. CASE t \notin DOMAIN approved
    BY <1>3, <2>1, <2>2 DEF TwinAgrees
  <2>3. CASE t \in DOMAIN approved
    <3>1. t \in DOMAIN s /\ s[t] = u[t] /\ ~(now < s[t])
      BY <1>2, <1>3, <1>5, <1>7, <2>1, <2>3 DEF TwinAgrees
    <3> QED
      BY <1>1, <2>1, <3>1
  <2> QED
    BY <2>2, <2>3
<1> QED
  BY <1>1, <1>3, <1>6, <1>8, <1>9 DEF TwinAgrees

\* SealCore/Automaton.lean's "pruning changes no decision", for any targets,
\* TTL, mint times and edits of the file, as long as the clock was not set back.
THEOREM PruneIsHarmless == ClockSpec => []PruneChangesNoDecision
<1>1. ClockInit => TwinAgrees
  BY DEF ClockInit, Init, TwinAgrees, EmptyState, IsState
<1>2. ASSUME TypeOK, TypeOK', GateInv, TwinAgrees, [ClockNext]_clockVars, ~setBack'
      PROVE  TwinAgrees'
  <2>1. CASE ClockNext /\ Decide
    BY <1>2, <2>1, DecideKeepsTwin DEF ClockNext
  <2>2. CASE ClockNext /\ IngestFile
    BY <1>2, <2>2, IngestKeepsTwin DEF ClockNext
  <2>3. CASE ClockNext /\ (Stop \/ Start)
    <3>1. approved' = EmptyState \/ UNCHANGED approved
      BY <2>3 DEF Stop, Start, stateVars
    <3>2. CASE Stop
      BY <1>2, <2>3, <3>2 DEF ClockNext, Stop, TwinFollows, TwinAgrees, EmptyState, IsState,
                              Reading, TypeOK, worldVars
    <3>3. CASE Start
      <4>1. unpruned' = unpruned /\ UNCHANGED <<approved, clock, now>> /\ ~Reading'
        BY <2>3, <3>3 DEF ClockNext, Start, TwinFollows, Reading, stateVars, localVars
      <4> QED
        BY <1>2, <4>1 DEF TwinAgrees
    <3> QED
      BY <2>3, <3>2, <3>3
  <2>4. CASE ClockNext /\ (\/ \E l \in Lines : ReadLine(l)
                           \/ ReadClock \/ IngestAbsent \/ Forward \/ Reply)
    <3>1. /\ unpruned' = unpruned /\ UNCHANGED <<approved, clock>>
          /\ now' = clock \/ now' = 0 \/ now' = now
          /\ Reading' => now' = clock \/ (Reading /\ now' = now)
      <4> USE DEF ClockNext, TwinFollows, Reading, stateVars, worldVars, localVars
      <4>1. CASE \E l \in Lines : ReadLine(l)
        BY <2>4, <4>1 DEF ReadLine
      <4>2. CASE ReadClock
        BY <2>4, <4>2 DEF ReadClock
      <4>3. CASE IngestAbsent
        BY <2>4, <4>3 DEF IngestAbsent
      <4>4. CASE Forward \/ Reply
        BY <2>4, <4>4 DEF Forward, Reply, Done
      <4> QED
        BY <2>4, <4>1, <4>2, <4>3, <4>4
    <3>2. clock \in Nat /\ now \in Nat
      BY <1>2 DEF TypeOK
    <3> QED
      BY <1>2, <3>1, <3>2 DEF TwinAgrees
  <2>5. CASE ClockNext /\ World
    <3>1. UNCHANGED <<pc, approved, now>> /\ unpruned' = IF pc = "down" THEN EmptyState ELSE unpruned
      <4>1. UNCHANGED <<pc, approved, now>>
        BY <2>5, WorldLeavesProcess DEF processVars, stateVars, localVars
      <4> QED
        BY <2>5, <4>1 DEF ClockNext, TwinFollows
    <3>2. clock <= clock' /\ clock \in Nat /\ clock' \in Nat /\ now \in Nat
      <4>1. clock \in Nat /\ clock' \in Nat /\ now \in Nat
        BY <1>2 DEF TypeOK
      <4>2. CASE Tick
        <5>1. PICK c \in 0 .. MaxClock : clock' = c /\ setBack' = (setBack \/ c < clock)
          BY <4>2 DEF Tick
        <5>2. ~(c < clock)
          BY <1>2, <5>1
        <5> QED
          BY <4>1, <5>1, <5>2
      <4>3. CASE clock' = clock
        BY <4>1, <4>3
      <4> QED
        BY <2>5, <4>1, <4>2, <4>3, WorldLeavesProcess
    <3>3. CASE pc # "down"
      <4>1. \A t \in DOMAIN unpruned : unpruned[t] \in Nat
        BY <1>2 DEF TwinAgrees, IsState
      <4> QED
        BY <1>2, <3>1, <3>2, <3>3, <4>1 DEF TwinAgrees, Reading
    <3>4. CASE pc = "down"
      BY <1>2, <3>1, <3>2, <3>4 DEF TwinAgrees, GateInv, DownIsEmpty, EmptyState, IsState
    <3> QED
      BY <3>3, <3>4
  <2>6. CASE UNCHANGED clockVars
    BY <1>2, <2>6 DEF clockVars, vars, worldVars, localVars, stateVars, TwinAgrees, Reading
  <2> QED
    BY <1>2, <2>1, <2>2, <2>3, <2>4, <2>5, <2>6
    DEF ClockNext, Next, Process, IngestThrows, WriteThrows, EndOfInput, Crash
<1>3. TypeOK /\ (~setBack => TwinAgrees) => PruneChangesNoDecision
  BY TwinsAgreeOnLive DEF PruneChangesNoDecision, Reading
<1>4. ASSUME TypeOK, [ClockNext]_clockVars, setBack
      PROVE  setBack'
  <2>1. CASE Process
    BY <1>4, <2>1 DEF Process, Start, ReadLine, ReadClock, IngestFile, IngestAbsent,
                      IngestThrows, Decide, Forward, Reply, Done, WriteThrows, EndOfInput, Crash,
                      Stop, worldVars, upsets
  <2>2. CASE World
    BY <1>4, <2>2, WorldLeavesProcess DEF Tick
  <2>3. CASE UNCHANGED clockVars
    BY <1>4, <2>3 DEF clockVars, vars, worldVars, upsets
  <2> QED
    BY <1>4, <2>1, <2>2, <2>3 DEF ClockNext, Next
<1> QED
  BY <1>1, <1>2, <1>3, <1>4, ClockIsGate, TypeCorrect, GateInvariant, PTL DEF ClockSpec

-----------------------------------------------------------------------------
(***************************************************************************)
(* Nothing is lost on the way in.  The closed form of the ingest is the    *)
(* fold of `step` over the fresh lines: both are stated for every prefix   *)
(* of the file, and no first prefix tells them apart.                      *)
(***************************************************************************)
NamingTo(t, k) == {i \in Naming(t) : i <= k}
NewestTo(t, k) == CHOOSE i \in NamingTo(t, k) : \A j \in NamingTo(t, k) : j <= i
RenewedTo(k)   == {t \in Target : NamingTo(t, k) # {}}

ClosedTo(k) ==
  [t \in DOMAIN approved \cup RenewedTo(k) |->
     IF t \in RenewedTo(k) THEN Deadline(file[NewestTo(t, k)]) ELSE approved[t]]

\* One more line changes the closed form as `step` changes the map.
LEMMA ClosedStep ==
  ASSUME TypeOK, NEW k \in 0 .. Len(file)
  PROVE  ClosedTo(k) =
           IF k <= seen THEN approved
           ELSE IF file[k].target \notin Target THEN ClosedTo(k - 1)
           ELSE StepState(now, ClosedTo(k - 1), Approval(file[k].target, Deadline(file[k])))
<1>1. /\ k \in Nat /\ seen \in Nat /\ Len(file) \in Nat
      /\ \A t : Naming(t) \subseteq (seen + 1) .. Len(file)
      /\ approved = [t \in DOMAIN approved |-> approved[t]]
  BY DEF TypeOK, IsState, Naming, Fresh
<1>2. CASE k <= seen
  <2>1. \A t : NamingTo(t, k) = {}
    BY <1>1, <1>2 DEF NamingTo
  <2>2. RenewedTo(k) = {}
    BY <2>1 DEF RenewedTo
  <2> QED
    BY <1>1, <1>2, <2>2 DEF ClosedTo
<1>3. CASE k > seen
  <2>1. k \in Fresh
    BY <1>1, <1>3 DEF Fresh
  <2>2. \A t : NamingTo(t, k) = IF file[k].target = t THEN NamingTo(t, k - 1) \cup {k}
                                ELSE NamingTo(t, k - 1)
    <3> SUFFICES ASSUME NEW t
                 PROVE  NamingTo(t, k) = IF file[k].target = t THEN NamingTo(t, k - 1) \cup {k}
                                         ELSE NamingTo(t, k - 1)
      OBVIOUS
    <3>1. k \in Naming(t) <=> file[k].target = t
      BY <2>1 DEF Naming
    <3>2. \A i \in Naming(t) : i <= k <=> i <= k - 1 \/ i = k
      BY <1>1
    <3>3. k <= k /\ ~(k <= k - 1)
      BY <1>1
    <3> HIDE DEF Naming
    <3> QED
      BY <3>1, <3>2, <3>3 DEF NamingTo
  <2>3. CASE file[k].target \notin Target
    <3>1. \A t \in Target : NamingTo(t, k) = NamingTo(t, k - 1)
      BY <2>2, <2>3
    <3>2. RenewedTo(k) = RenewedTo(k - 1)
      BY <3>1 DEF RenewedTo
    <3>3. ASSUME NEW t \in RenewedTo(k) PROVE NewestTo(t, k) = NewestTo(t, k - 1)
      <4>1. NamingTo(t, k) = NamingTo(t, k - 1)
        BY <3>1 DEF RenewedTo
      <4> QED
        BY <4>1 DEF NewestTo
    <3>4. ClosedTo(k) = ClosedTo(k - 1)
      BY <3>2, <3>3 DEF ClosedTo
    <3> QED
      BY <1>1, <1>3, <2>3, <3>4
  <2>4. CASE file[k].target \in Target
    <3> DEFINE u == file[k].target
               c == ClosedTo(k - 1)
               d == Deadline(file[k])
    <3>1. StepState(now, c, Approval(u, d)) = Insert(c, u, d)
      BY DEF StepState, Approval
    <3>2. \A t \in Target : t # u => NamingTo(t, k) = NamingTo(t, k - 1)
      BY <2>2
    <3>3. k \in NamingTo(u, k) /\ \A j \in NamingTo(u, k) : j <= k /\ j \in Nat
      BY <1>1, <2>2 DEF NamingTo
    <3>4. NewestTo(u, k) = k
      <4>1. \A i \in NamingTo(u, k) : (\A j \in NamingTo(u, k) : j <= i) => i = k
        BY <1>1, <3>3
      <4> QED
        BY <3>3, <4>1 DEF NewestTo
    <3>5. RenewedTo(k) = RenewedTo(k - 1) \cup {u}
      BY <2>4, <3>2, <3>3 DEF RenewedTo
    <3>6. ASSUME NEW t \in RenewedTo(k), t # u PROVE NewestTo(t, k) = NewestTo(t, k - 1)
      <4>1. NamingTo(t, k) = NamingTo(t, k - 1)
        BY <3>2, <3>6 DEF RenewedTo
      <4> QED
        BY <4>1 DEF NewestTo
    <3>7. DOMAIN c = DOMAIN approved \cup RenewedTo(k - 1)
      BY DEF ClosedTo
    <3>8. \A t \in DOMAIN c : c[t] = IF t \in RenewedTo(k - 1)
                                     THEN Deadline(file[NewestTo(t, k - 1)]) ELSE approved[t]
      BY DEF ClosedTo
    <3> HIDE DEF u, c, d
    <3>9. ClosedTo(k) = [t \in DOMAIN c \cup {u} |-> IF t = u THEN d ELSE c[t]]
      <4>1. DOMAIN approved \cup RenewedTo(k) = DOMAIN c \cup {u}
        BY <3>5, <3>7
      <4>2. ASSUME NEW t \in DOMAIN c \cup {u}
            PROVE  (IF t \in RenewedTo(k) THEN Deadline(file[NewestTo(t, k)]) ELSE approved[t])
                     = IF t = u THEN d ELSE c[t]
        <5>1. CASE t = u
          BY <3>4, <3>5, <5>1 DEF d
        <5>2. CASE t # u
          BY <3>5, <3>6, <3>8, <4>2, <5>2
        <5> QED
          BY <5>1, <5>2
      <4> QED
        BY <4>1, <4>2 DEF ClosedTo
    <3> QED
      BY <1>1, <1>3, <2>4, <3>1, <3>9 DEF Insert, u, c, d
  <2> QED
    BY <2>3, <2>4
<1> QED
  BY <1>1, <1>2, <1>3

\* So the recursion of the fold has a solution, and the fold satisfies it.
LEMMA AfterStep ==
  ASSUME TypeOK, NEW k \in 0 .. Len(file)
  PROVE  AfterLines[k] =
           IF k <= seen THEN approved
           ELSE IF file[k].target \notin Target THEN AfterLines[k - 1]
           ELSE StepState(now, AfterLines[k - 1], Approval(file[k].target, Deadline(file[k])))
<1> DEFINE Dom == 0 .. Len(file)
           Ap(i) == Approval(file[i].target, Deadline(file[i]))
           Rec(f) == [i \in Dom |-> IF i <= seen THEN approved
                                    ELSE IF file[i].target \notin Target THEN f[i - 1]
                                    ELSE StepState(now, f[i - 1], Ap(i))]
           g == [i \in Dom |-> ClosedTo(i)]
<1>1. ASSUME NEW i \in Dom, ~(i <= seen)
      PROVE  i - 1 \in Dom
  BY <1>1 DEF TypeOK
<1>2. g = Rec(g)
  <2>1. ASSUME NEW i \in Dom
        PROVE  ClosedTo(i) = IF i <= seen THEN approved
                             ELSE IF file[i].target \notin Target THEN g[i - 1]
                             ELSE StepState(now, g[i - 1], Ap(i))
    <3>1. CASE i <= seen
      BY <3>1, ClosedStep
    <3>2. CASE ~(i <= seen)
      <4>1. g[i - 1] = ClosedTo(i - 1)
        BY <1>1, <3>2
      <4> QED
        BY <3>2, <4>1, ClosedStep
    <3> QED
      BY <3>1, <3>2
  <2> HIDE DEF Ap
  <2> QED
    BY <2>1
<1>3. AfterLines = CHOOSE f : f = Rec(f)
  BY DEF AfterLines
<1> HIDE DEF Rec, g
<1>4. AfterLines = Rec(AfterLines)
  BY <1>2, <1>3
<1> QED
  BY <1>4 DEF Rec

\* A set of numbers that is not empty has a least one.
LEMMA LeastNumber ==
  ASSUME NEW T, T \subseteq Nat, T # {}
  PROVE  \E k \in T : \A j \in T : k <= j
<1>1. PICK k \in T : \A j \in T : ~(<<j, k>> \in OpToRel(<, Nat))
  BY NatLessThanWellFounded, WFMin
<1>2. ASSUME NEW j \in T, j < k PROVE FALSE
  <2>1. <<j, k>> \in OpToRel(<, Nat)
    BY <1>2 DEF OpToRel
  <2> QED
    BY <1>1, <2>1
<1>3. \A j \in T : j \in Nat /\ k \in Nat /\ ~(j < k)
  BY <1>2
<1> QED
  BY <1>3

LEMMA FoldIsClosed ==
  ASSUME TypeOK
  PROVE  \A k \in 0 .. Len(file) : AfterLines[k] = ClosedTo(k)
<1> DEFINE Bad == {k \in 0 .. Len(file) : AfterLines[k] # ClosedTo(k)}
<1>0. SUFFICES ASSUME Bad # {} PROVE FALSE
  OBVIOUS
<1>1. Bad \subseteq Nat /\ \A k \in Bad : k \in 0 .. Len(file) /\ AfterLines[k] # ClosedTo(k)
  OBVIOUS
<1>10. \A k \in 0 .. Len(file) : k \notin Bad => AfterLines[k] = ClosedTo(k)
  OBVIOUS
<1> HIDE DEF Bad
<1>2. PICK k \in Bad : \A j \in Bad : k <= j
  BY <1>0, <1>1, LeastNumber
<1>3. k \in 0 .. Len(file) /\ k \in Nat /\ seen \in Nat /\ AfterLines[k] # ClosedTo(k)
  BY <1>1 DEF TypeOK
<1>4. CASE k <= seen
  BY <1>3, <1>4, AfterStep, ClosedStep
<1>5. CASE ~(k <= seen)
  <2>1. k - 1 \in 0 .. Len(file) /\ ~(k <= k - 1)
    BY <1>3, <1>5 DEF TypeOK
  <2>2. k - 1 \notin Bad
    BY <1>2, <2>1
  <2>3. AfterLines[k - 1] = ClosedTo(k - 1)
    BY <1>10, <2>1, <2>2
  <2> QED
    BY <1>3, <1>5, <2>3, AfterStep, ClosedStep
<1> QED
  BY <1>4, <1>5

\* The map after an ingest is the fold of `step` over the approvals parsed from
\* the fresh lines, in file order: whatever edits the file has seen.
LEMMA IngestFolds == ASSUME TypeOK PROVE IngestIsTheFold
<1>1. Len(file) \in 0 .. Len(file)
  BY DEF TypeOK
<1>2. ASSUME NEW t PROVE NamingTo(t, Len(file)) = Naming(t)
  BY DEF NamingTo, Naming, Fresh, TypeOK
<1>3. RenewedTo(Len(file)) = Renewed
  BY <1>2 DEF RenewedTo, Renewed
<1>4. ASSUME NEW t PROVE NewestTo(t, Len(file)) = Newest(t)
  BY <1>2 DEF NewestTo, Newest
<1>5. ClosedTo(Len(file)) = WithApprovals(approved)
  BY <1>3, <1>4 DEF ClosedTo, WithApprovals
<1> QED
  BY <1>1, <1>5, FoldIsClosed DEF IngestIsTheFold

-----------------------------------------------------------------------------
(***************************************************************************)
(* A file that is only appended to, with whole lines: its ids are its line *)
(* numbers, the counter is within it, and each line a process has passed   *)
(* was taken, and leads to where its approval is now.                      *)
(***************************************************************************)
LinesAreNumbered ==
  /\ written = Len(file) /\ \A i \in DOMAIN file : file[i].id = i
  /\ seen <= Len(file) /\ (pc = "down" => seen = 0)
  /\ \A i \in ingested : i \in DOMAIN file /\ i <= seen /\ file[i].target \in Target
  /\ \A t \in DOMAIN approved : file[ticket[t].id].target = t

\* The invariant of a process while the file is not edited.
LosslessInv == LinesAreNumbered /\ NothingSkipped /\ EveryApprovalAccountedFor

\* Where the approvals are is all that matters, and the rest stays.
LEMMA LosslessFrame ==
  ASSUME LosslessInv, pc' = "down" => pc = "down",
         UNCHANGED <<written, file, seen, ingested, ticket, approved, inHand, served, epoch,
                     expired>>
  PROVE  LosslessInv'
  BY DEF LosslessInv, LinesAreNumbered, NothingSkipped, EveryApprovalAccountedFor

\* An ingest takes every line beyond the counter that parses, and what it takes
\* away from a target it gives to a later line for that target.
LEMMA IngestLoses ==
  ASSUME TypeOK, GateInv, LosslessInv, IngestFile, ExpiryNoted
  PROVE  LosslessInv'
<1> USE DEF LosslessInv, LinesAreNumbered
<1>1. /\ UNCHANGED <<file, written, served, epoch, inHand, expired>>
      /\ seen' = Len(file) /\ pc' = "decide"
      /\ seen \in Nat /\ Len(file) \in Nat /\ DOMAIN file = 1 .. Len(file)
      /\ approved' = WithApprovals(approved)
  BY DEF IngestFile, ExpiryNoted, TypeOK, worldVars, localVars, runVars
<1>2. \A i \in Fresh : i \in DOMAIN file /\ i > seen /\ file[i].id = i
  BY <1>1 DEF Fresh
<1>3. ingested' = ingested \cup {i \in Fresh : file[i].target \in Target}
  <2>1. ingested' = ingested \cup {file[i].id : i \in {j \in Fresh : file[j].target \in Target}}
    BY DEF IngestFile
  <2> QED
    BY <1>2, <2>1
<1>4. \A t \in Renewed : /\ t \in Target /\ Newest(t) \in ingested' /\ Newest(t) > seen
                         /\ file[Newest(t)].target = t /\ Newest(t) \in DOMAIN file
                         /\ ticket'[t].id = Newest(t)
                         /\ t \in DOMAIN approved'
  <2> SUFFICES ASSUME NEW t \in Renewed
               PROVE  /\ t \in Target /\ Newest(t) \in ingested' /\ Newest(t) > seen
                      /\ file[Newest(t)].target = t /\ Newest(t) \in DOMAIN file
                      /\ ticket'[t].id = Newest(t)
                      /\ t \in DOMAIN approved'
    OBVIOUS
  <2>1. /\ t \in Target /\ Newest(t) \in DOMAIN file /\ Newest(t) > seen
        /\ file[Newest(t)].target = t
    BY NewestRecord
  <2>2. ticket'[t] = TicketOf(file[Newest(t)]) /\ TicketOf(file[Newest(t)]).id = file[Newest(t)].id
    BY <2>1 DEF IngestFile, TicketOf
  <2>3. Newest(t) \in Fresh
    BY <1>1, <2>1 DEF Fresh
  <2>4. t \in DOMAIN approved'
    BY <1>1 DEF WithApprovals
  <2> QED
    BY <1>2, <1>3, <2>1, <2>2, <2>3, <2>4
<1>5. \A t \in DOMAIN approved' :
        t \notin Renewed => t \in DOMAIN approved /\ t \in Target /\ ticket'[t] = ticket[t]
  BY <1>1 DEF WithApprovals, IngestFile, TypeOK, IsState
<1>6. \A t \in DOMAIN approved : t \in DOMAIN approved'
  BY <1>1 DEF WithApprovals
<1>7. LinesAreNumbered'
  <2>1. \A i \in ingested' : i \in DOMAIN file /\ i <= Len(file) /\ file[i].target \in Target
    BY <1>1, <1>2, <1>3
  <2>2. \A t \in DOMAIN approved' : file[ticket'[t].id].target = t
    <3> SUFFICES ASSUME NEW t \in DOMAIN approved' PROVE file[ticket'[t].id].target = t
      OBVIOUS
    <3> QED
      BY <1>4, <1>5
  <2> QED
    BY <1>1, <2>1, <2>2
<1>8. NothingSkipped'
  <2> SUFFICES ASSUME NEW i \in DOMAIN file, file[i].target \in Target
               PROVE  file[i].id \in ingested'
    BY <1>1 DEF NothingSkipped
  <2>1. CASE i <= seen
    BY <1>3, <2>1 DEF NothingSkipped
  <2>2. CASE ~(i <= seen)
    <3>1. i \in Fresh
      BY <1>1, <2>2 DEF Fresh
    <3> QED
      BY <1>2, <1>3, <3>1
  <2> QED
    BY <2>1, <2>2
<1>9. EveryApprovalAccountedFor'
  <2> SUFFICES ASSUME NEW i \in ingested'
               PROVE  \/ \E t \in DOMAIN approved' : ticket'[t].id = i
                      \/ inHand.id = i
                      \/ \E n \in DOMAIN served :
                           served[n].ticket.id = i /\ served[n].ticket.epoch = epoch
                      \/ i \in expired
                      \/ \E j \in ingested' : j > i /\ file[j].target = file[i].target
    BY <1>1 DEF EveryApprovalAccountedFor
  <2>1. ASSUME NEW t \in Renewed, file[i].target = t
        PROVE  \/ \E u \in DOMAIN approved' : ticket'[u].id = i
               \/ \E j \in ingested' : j > i /\ file[j].target = file[i].target
    <3>1. /\ Newest(t) \in ingested' /\ file[Newest(t)].target = t /\ t \in DOMAIN approved'
          /\ ticket'[t].id = Newest(t) /\ Newest(t) \in Nat /\ Newest(t) > seen
      BY <1>1, <1>4
    <3>2. Newest(t) >= i
      <4>1. CASE i \in ingested
        BY <1>1, <3>1, <4>1
      <4>2. CASE i \in Fresh
        <5>1. i \in Naming(t)
          BY <2>1, <4>2 DEF Naming
        <5>2. \A j \in Naming(t) : j <= Newest(t)
          BY NewestIsLast DEF TypeOK
        <5> QED
          BY <1>1, <1>2, <3>1, <4>2, <5>1, <5>2
      <4> QED
        BY <1>3, <4>1, <4>2
    <3>3. i \in Nat
      BY <1>1, <1>2, <1>3
    <3>4. CASE Newest(t) = i
      BY <3>1, <3>4
    <3>5. CASE Newest(t) > i
      BY <2>1, <3>1, <3>5
    <3> QED
      BY <3>1, <3>2, <3>3, <3>4, <3>5
  <2>2. CASE i \in Fresh
    <3>1. file[i].target \in Renewed
      <4>1. file[i].target \in Target
        BY <1>1, <1>2, <1>3, <1>7, <2>2
      <4>2. i \in Naming(file[i].target)
        BY <2>2 DEF Naming
      <4> QED
        BY <4>1, <4>2 DEF Renewed
    <3> QED
      BY <2>1, <3>1
  <2>3. CASE i \in ingested
    <3>1. CASE \E t \in DOMAIN approved : ticket[t].id = i
      <4>1. PICK t \in DOMAIN approved : ticket[t].id = i
        BY <3>1
      <4>2. file[i].target = t /\ t \in DOMAIN approved'
        BY <1>6, <4>1
      <4>3. CASE t \in Renewed
        BY <2>1, <4>2, <4>3
      <4>4. CASE t \notin Renewed
        BY <1>5, <4>1, <4>2, <4>4
      <4> QED
        BY <4>3, <4>4
    <3>2. CASE ~\E t \in DOMAIN approved : ticket[t].id = i
      <4>1. \A j \in ingested : j \in ingested'
        BY <1>3
      <4> QED
        BY <2>3, <3>2, <4>1 DEF EveryApprovalAccountedFor
    <3> QED
      BY <3>1, <3>2
  <2> QED
    BY <1>3, <2>2, <2>3
<1> QED
  BY <1>7, <1>8, <1>9

\* The decision drops an entry only to the call in hand or as expired.
LEMMA DecideLoses ==
  ASSUME TypeOK, GateInv, LosslessInv, Decide, ExpiryNoted
  PROVE  LosslessInv'
<1> USE DEF LosslessInv, LinesAreNumbered
<1> DEFINE s == StepState(now, approved, line.event)
<1>1. line.event \in Events /\ now \in Nat /\ IsState(approved) /\ inHand = NoTicket
  BY DEF TypeOK, Decide
<1>2. IsState(s) /\ \A t \in DOMAIN s : t \in DOMAIN approved /\ s[t] = approved[t]
  BY <1>1, StepType
<1>3. \A t \in DOMAIN approved : t \notin DOMAIN s => inHand' = ticket[t]
  <2> SUFFICES ASSUME NEW t \in DOMAIN approved, t \notin DOMAIN s
               PROVE  inHand' = ticket[t]
    OBVIOUS
  <2>1. line.event.type = "guarded" /\ Live(approved, line.event.target, now)
    BY <1>1 DEF StepState, Events, Guarded, Benign, DefaultDeny
  <2>2. s = Erase(approved, line.event.target)
    BY <2>1 DEF StepState
  <2>3. t = line.event.target
    BY <2>2 DEF Erase
  <2> QED
    BY <2>1, <2>3 DEF Decide, Allows
<1> HIDE DEF s
<1>4. /\ approved' = Prune(now, s)
      /\ UNCHANGED <<file, written, seen, ingested, served, epoch>>
      /\ pc' # "down" /\ pc' # "decide" /\ pc = "decide"
  BY DEF Decide, worldVars, runVars, s
<1>5. DOMAIN approved' = {t \in DOMAIN s : now < s[t]}
  BY <1>4 DEF Prune
<1>6. \A t \in DOMAIN approved' : t \in DOMAIN approved /\ t \in Target /\ ticket'[t] = ticket[t]
  BY <1>1, <1>2, <1>5 DEF Decide, IsState
<1>7. expired' = expired \cup FoundExpired
  BY <1>4 DEF ExpiryNoted
<1>8. LinesAreNumbered' /\ NothingSkipped'
  BY <1>4, <1>6 DEF NothingSkipped
<1>9. EveryApprovalAccountedFor'
  <2> SUFFICES ASSUME NEW i \in ingested
               PROVE  \/ \E t \in DOMAIN approved' : ticket'[t].id = i
                      \/ inHand'.id = i
                      \/ \E n \in DOMAIN served :
                           served[n].ticket.id = i /\ served[n].ticket.epoch = epoch
                      \/ i \in expired'
                      \/ \E j \in ingested : j > i /\ file[j].target = file[i].target
    BY <1>4 DEF EveryApprovalAccountedFor
  <2>1. CASE \E t \in DOMAIN approved : ticket[t].id = i
    <3>1. PICK t \in DOMAIN approved : ticket[t].id = i
      BY <2>1
    <3>2. CASE t \notin DOMAIN s
      BY <1>3, <3>1, <3>2
    <3>3. CASE t \in DOMAIN s /\ now < s[t]
      BY <1>5, <1>6, <3>1, <3>3
    <3>4. CASE t \in DOMAIN s /\ ~(now < s[t])
      <4>1. now >= approved[t]
        BY <1>1, <1>2, <3>4 DEF IsState
      <4> QED
        BY <1>7, <3>1, <4>1 DEF FoundExpired
    <3> QED
      BY <3>2, <3>3, <3>4
  <2>2. CASE inHand.id = i
    <3>1. i \in Nat \ {0}
      BY DEF TypeOK
    <3> QED
      BY <1>1, <2>2, <3>1 DEF NoTicket
  <2>3. CASE ~(\E t \in DOMAIN approved : ticket[t].id = i) /\ inHand.id # i
    BY <1>7, <2>3 DEF EveryApprovalAccountedFor
  <2> QED
    BY <2>1, <2>2, <2>3
<1> QED
  BY <1>8, <1>9

\* The approval in hand becomes a call of this process.
LEMMA ForwardLoses ==
  ASSUME TypeOK, GateInv, LosslessInv, Forward, ExpiryNoted
  PROVE  LosslessInv'
<1> USE DEF LosslessInv, LinesAreNumbered
<1>1. /\ UNCHANGED <<file, written, seen, ingested, ticket, approved, epoch, expired>>
      /\ pc = "forward" /\ pc' = "read"
  BY DEF Forward, Done, ExpiryNoted, worldVars, stateVars
<1>2. \A i \in DOMAIN served : i \in DOMAIN served' /\ served'[i] = served[i]
  <2>1. CASE inHand = NoTicket
    BY <2>1 DEF Forward
  <2>2. CASE inHand # NoTicket
    BY <2>2, Served
  <2> QED
    BY <2>1, <2>2
<1>3. \A i \in ingested : inHand.id = i =>
        \E n \in DOMAIN served' :
          served'[n].ticket.id = i /\ served'[n].ticket.epoch = epoch
  <2> SUFFICES ASSUME NEW i \in ingested, inHand.id = i
               PROVE  \E n \in DOMAIN served' :
                        served'[n].ticket.id = i /\ served'[n].ticket.epoch = epoch
    OBVIOUS
  <2>1. i # 0
    BY DEF TypeOK
  <2>2. inHand # NoTicket
    BY <2>1 DEF NoTicket
  <2>3. inHand.epoch = epoch
    BY <2>2 DEF GateInv, InHandIsConsumed, Valid
  <2> QED
    BY <2>2, <2>3, Served
<1>4. LinesAreNumbered' /\ NothingSkipped'
  BY <1>1 DEF NothingSkipped
<1>5. EveryApprovalAccountedFor'
  <2> SUFFICES ASSUME NEW i \in ingested
               PROVE  \/ \E t \in DOMAIN approved : ticket[t].id = i
                      \/ \E n \in DOMAIN served' :
                           served'[n].ticket.id = i /\ served'[n].ticket.epoch = epoch
                      \/ i \in expired
                      \/ \E j \in ingested : j > i /\ file[j].target = file[i].target
    BY <1>1 DEF EveryApprovalAccountedFor
  <2> QED
    BY <1>2, <1>3 DEF EveryApprovalAccountedFor
<1> QED
  BY <1>4, <1>5

\* A new line comes after all the others.
LEMMA AppendLoses ==
  ASSUME TypeOK, GateInv, LosslessInv, ExpiryNoted,
         NEW t \in Target \cup {NoTarget}, NEW m \in MintTimes, AppendRecord(t, m)
  PROVE  LosslessInv'
<1> USE DEF LosslessInv, LinesAreNumbered
<1> DEFINE r == NewLine(t, m)
<1>1. /\ UNCHANGED <<seen, ingested, ticket, approved, inHand, served, epoch, pc>>
      /\ file' = Append(file, r) /\ written' = written + 1
  BY DEF AppendRecord, WritesLine, processVars, localVars, stateVars, runVars
<1>2. /\ Len(file) \in Nat /\ DOMAIN file = 1 .. Len(file) /\ seen \in Nat
      /\ r \in Record /\ r.id = written + 1 /\ file \in Seq(Record)
  BY NewLineType DEF TypeOK
<1> HIDE DEF r
<1>3. /\ Len(file') = Len(file) + 1 /\ DOMAIN file' = 1 .. Len(file) + 1
      /\ \A i \in DOMAIN file : file'[i] = file[i]
      /\ file'[Len(file) + 1] = r
  BY <1>1, <1>2
<1>4. \A u \in DOMAIN approved : ticket[u].id \in ingested
  BY DEF GateInv, StandingIsBacked, Valid
<1>5. LinesAreNumbered'
  BY <1>1, <1>2, <1>3, <1>4
<1>6. NothingSkipped'
  <2> SUFFICES ASSUME NEW i \in DOMAIN file', i <= seen, file'[i].target \in Target
               PROVE  file'[i].id \in ingested
    BY <1>1 DEF NothingSkipped
  <2>1. i \in DOMAIN file
    BY <1>2, <1>3
  <2> QED
    BY <1>3, <2>1 DEF NothingSkipped
<1>7. pc = "down" => ingested = {}
  BY DEF GateInv, DownIsEmpty
<1>8. pc # "down" => expired' = expired
  BY <1>1 DEF ExpiryNoted
<1>9. EveryApprovalAccountedFor'
  <2>1. CASE pc = "down"
    BY <1>1, <1>7, <2>1 DEF EveryApprovalAccountedFor
  <2>2. CASE pc # "down"
    BY <1>1, <1>3, <1>8, <2>2 DEF EveryApprovalAccountedFor
  <2> QED
    BY <2>1, <2>2
<1> QED
  BY <1>5, <1>6, <1>9

LEMMA LosslessInductive ==
  ASSUME ~edited'
  PROVE  TypeOK /\ GateInv /\ LosslessInv /\ [ClockNext]_clockVars => LosslessInv'
<1> SUFFICES ASSUME TypeOK, GateInv, LosslessInv, [ClockNext]_clockVars
             PROVE  LosslessInv'
  OBVIOUS
<1> USE DEF worldVars, localVars, stateVars, runVars, processVars
<1>1. CASE ClockNext /\ Stop
  BY <1>1 DEF Stop, EmptyState, LosslessInv, LinesAreNumbered, NothingSkipped,
              EveryApprovalAccountedFor, TypeOK
<1>2. CASE ClockNext /\ Start
  <2>1. ingested = {} /\ approved = EmptyState /\ DOMAIN approved = {}
    BY <1>2 DEF GateInv, DownIsEmpty, Start, EmptyState
  <2> QED
    BY <1>2, <2>1 DEF Start, LosslessInv, LinesAreNumbered, NothingSkipped,
                      EveryApprovalAccountedFor
<1>3. CASE ClockNext /\ IngestFile
  BY <1>3, IngestLoses DEF ClockNext
<1>4. CASE ClockNext /\ Decide
  BY <1>4, DecideLoses DEF ClockNext
<1>5. CASE ClockNext /\ Forward
  BY <1>5, ForwardLoses DEF ClockNext
<1>6. CASE ClockNext /\ (\/ \E l \in Lines : ReadLine(l)
                         \/ ReadClock \/ IngestAbsent \/ Reply)
  <2>1. /\ UNCHANGED <<written, file, seen, ingested, ticket, approved, served, epoch>>
        /\ pc \notin {"down", "decide"} /\ pc' # "down"
        /\ inHand' = inHand \/ (pc = "reply" /\ inHand' = NoTicket)
    <3>1. CASE \E l \in Lines : ReadLine(l)
      BY <3>1 DEF ReadLine
    <3>2. CASE ReadClock \/ IngestAbsent
      BY <3>2 DEF ReadClock, IngestAbsent
    <3>3. CASE Reply
      BY <3>3 DEF Reply, Done
    <3> QED
      BY <1>6, <3>1, <3>2, <3>3
  <2>2. inHand' = inHand
    BY <2>1 DEF TypeOK
  <2>3. expired' = expired
    BY <1>6, <2>1 DEF ClockNext, ExpiryNoted
  <2> QED
    BY <2>1, <2>2, <2>3, LosslessFrame
<1>7. CASE ClockNext /\ World
  <2>1. CASE \E t \in Target \cup {NoTarget}, m \in MintTimes : AppendRecord(t, m)
    BY <1>7, <2>1, AppendLoses DEF ClockNext
  <2>2. CASE Tick \/ Relink
    <3>1. UNCHANGED <<written, file, seen, ingested, ticket, approved, inHand, served, epoch, pc>>
      BY <2>2 DEF Tick, Relink
    <3>2. CASE pc = "down"
      <4>1. ingested = {}
        BY <3>2 DEF GateInv, DownIsEmpty
      <4> QED
        BY <3>1, <4>1 DEF LosslessInv, LinesAreNumbered, NothingSkipped,
                          EveryApprovalAccountedFor
    <3>3. CASE pc # "down"
      <4>1. expired' = expired
        BY <1>7, <3>1, <3>3 DEF ClockNext, ExpiryNoted
      <4> QED
        BY <3>1, <3>3, <4>1, LosslessFrame
    <3> QED
      BY <3>2, <3>3
  <2> QED
    BY <1>7, <2>1, <2>2 DEF World, CompleteRecord, DeleteRecord, RewriteRecord, InsertRecord,
                            RemoveFile, Edit
<1>8. CASE UNCHANGED clockVars
  <2>1. UNCHANGED <<written, file, seen, ingested, ticket, approved, inHand, served, epoch,
                    expired, pc>>
    BY <1>8 DEF clockVars, vars
  <2> QED
    BY <2>1 DEF LosslessInv, LinesAreNumbered, NothingSkipped, EveryApprovalAccountedFor
<1> QED
  BY <1>1, <1>2, <1>3, <1>4, <1>5, <1>6, <1>7, <1>8
  DEF ClockNext, Next, Process, IngestThrows, WriteThrows, EndOfInput, Crash

\* A file that was edited stays one.
LEMMA EditedStays ==
  ASSUME [ClockNext]_clockVars, edited
  PROVE  edited'
<1>1. CASE Process
  BY <1>1 DEF Process, Start, ReadLine, ReadClock, IngestFile, IngestAbsent, IngestThrows, Decide,
              Forward, Reply, Done, WriteThrows, EndOfInput, Crash, Stop, worldVars, upsets
<1>2. CASE World
  BY <1>2 DEF World, Tick, AppendRecord, CompleteRecord, DeleteRecord, RewriteRecord,
              InsertRecord, RemoveFile, Relink, Edit, upsets
<1>3. CASE UNCHANGED clockVars
  BY <1>3 DEF clockVars, vars, worldVars, upsets
<1> QED
  BY <1>1, <1>2, <1>3 DEF ClockNext, Next

\* "Each record is ingested exactly once (the seen counter)": for any targets,
\* mint times, TTL, interleaving of appends, calls, crashes and restarts,
\* movement of the clock and edits, the map after an ingest is the fold over the
\* fresh lines; and while the file has only been appended to, no approval is
\* passed over, and none is lost before it is used, expired or replaced.
THEOREM NoApprovalIsLost == ClockSpec => []IngestLosesNothing
<1>1. ClockInit => (~edited => LosslessInv)
  BY DEF ClockInit, Init, LosslessInv, LinesAreNumbered, NothingSkipped,
         EveryApprovalAccountedFor, EmptyState
<1>2. TypeOK /\ (~edited => LosslessInv) => IngestLosesNothing
  BY IngestFolds DEF LosslessInv, IngestLosesNothing
<1>3. TypeOK /\ GateInv /\ (~edited => LosslessInv) /\ [ClockNext]_clockVars
        => (~edited' => LosslessInv')
  BY LosslessInductive, EditedStays
<1> QED
  BY <1>1, <1>2, <1>3, ClockIsGate, TypeCorrect, GateInvariant, PTL DEF ClockSpec
=============================================================================
