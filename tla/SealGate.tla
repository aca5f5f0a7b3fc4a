------------------------------ MODULE SealGate ------------------------------
(***************************************************************************)
(* The v1 sidecar's main thread (Seal/Main.lean, processHostLine) together *)
(* with the approval control file it reads (Seal/Channel.lean) and the     *)
(* world around it: the approver who edits the file, the wall clock, and   *)
(* the crashes and restarts of the process.  What happens on the pipes is  *)
(* in SealRelay; the classification of a call is abstracted to the         *)
(* automaton event it results in.                                          *)
(***************************************************************************)
EXTENDS SealAutomaton, Sequences

CONSTANTS
  TtlMs,            \* Policy.approvalTtlMs
  NoTarget,         \* the target of a record that parses to none
  NoTime,           \* the issuedAt of a record that carries none
  MintTimes,        \* the issuedAt values an approver may write
  FileOps,          \* what the world does to the control file
  ClockMayStepBack, \* the wall clock may be set back
  MaxClock, MaxRecords, MaxEpoch, MaxServed   \* bounds of the exploration

ASSUME GateAssumption ==
  /\ TtlMs \in Nat
  /\ NoTarget \notin Target
  /\ NoTime \notin Nat
  /\ MintTimes \subseteq Nat \cup {NoTime}
  /\ ClockMayStepBack \in BOOLEAN
  /\ MaxClock \in Nat /\ MaxRecords \in Nat
  /\ MaxEpoch \in Nat /\ MaxServed \in Nat

VARIABLES
  clock,     \* the wall clock, milliseconds since the Unix epoch
  file,      \* the non-blank lines of the control file
  fileKind,  \* what the path of the control file names
  written,   \* how many lines the approver has begun so far
  setBack,   \* history: the wall clock was set back
  edited,    \* history: the file was changed, not only appended to
  displaced, \* history: the processes under which lines they had read were
             \* moved down by a line put in ahead of them
  pc,        \* where the main thread is; "down" when there is no process
  line,      \* the host line in hand
  now,       \* the clock reading that serves this call
  seen,      \* approvalSeenRef
  approved,  \* stateRef.approved
  epoch,     \* history: how many times the process was started
  ingested,  \* history: ids of the lines this process took as approvals
  ticket,    \* history: the line behind each entry of `approved`
  inHand,    \* history: the line consumed by the call in hand
  served     \* history: the guarded calls handed to the child, in order

upsets      == <<setBack, edited, displaced>>
worldVars   == <<clock, file, fileKind, written, upsets>>
localVars   == <<line, now, inHand>>
stateVars   == <<seen, approved, ingested, ticket>>
runVars     == <<epoch, served>>
vars == <<worldVars, pc, localVars, stateVars, runVars>>

-----------------------------------------------------------------------------
\* A line of the control file.  The id is the identity of the line (its
\* bytes may repeat); NoTarget stands for every way a line is malformed.
Record == [id : Nat, target : Target \cup {NoTarget}, issuedAt : Nat \cup {NoTime}]

Events == {Guarded(t) : t \in Target} \cup {Benign, DefaultDeny}

\* What processHostLine tells apart: a line it refuses (a wire gate or the
\* tools/call metadata check), an opaque one (not JSON or not a tools/call),
\* and a call with the event it classifies to.
Lines == [kind : {"refused", "opaque"}] \cup [kind : {"call"}, event : Events]

NoLine == [kind |-> "none"]

\* Provenance of an approval: which line, read by which process, and when.
Ticket == [id : Nat, epoch : Nat, target : Target,
           issuedAt : Nat \cup {NoTime}, readAt : Nat, deadline : Nat]

NoTicket == [id |-> 0]

Locations == {"down", "read", "clock", "ingest", "decide", "forward", "reply"}

-----------------------------------------------------------------------------
\* Mutant of Fresh: the counter drops one line too many.
FreshTooFew == (seen + 2) .. Len(file)

\* readApprovalsFrom drops the first `seen` lines ...
Fresh == (seen + 1) .. Len(file)

\* ... and the fold over the others leaves, for each target they name, the
\* deadline of the last line that names it.
Naming(t) == {i \in Fresh : file[i].target = t}
Newest(t) == CHOOSE i \in Naming(t) : \A j \in Naming(t) : j <= i
Renewed   == {t \in Target : Naming(t) # {}}

\* Mutant of Base: a mint time in the future is believed.
BaseUncapped(r) == IF r.issuedAt = NoTime THEN now ELSE r.issuedAt

\* parseApprovalRecord: min (issuedAt.getD now) now + ttlMs.
Base(r)     == IF r.issuedAt = NoTime \/ r.issuedAt > now THEN now ELSE r.issuedAt
Deadline(r) == Base(r) + TtlMs

WithApprovals(s) ==
  [t \in DOMAIN s \cup Renewed |->
     IF t \in Renewed THEN Deadline(file[Newest(t)]) ELSE s[t]]

TicketOf(r) == [id |-> r.id, epoch |-> epoch, target |-> r.target,
                issuedAt |-> r.issuedAt, readAt |-> now, deadline |-> Deadline(r)]

-----------------------------------------------------------------------------
Init ==
  /\ clock = 0 /\ written = 0
  /\ file = <<>> /\ fileKind = "absent"
  /\ setBack = FALSE /\ edited = FALSE /\ displaced = {}
  /\ pc = "down" /\ line = NoLine /\ now = 0 /\ inHand = NoTicket
  /\ seen = 0 /\ approved = EmptyState
  /\ ingested = {} /\ ticket = [t \in Target |-> NoTicket]
  /\ epoch = 0 /\ served = <<>>

\* main: ensureApprovalFile creates the file if it is missing; the refs start
\* at 0 and State.empty.
Start ==
  /\ pc = "down" /\ epoch < MaxEpoch
  /\ pc' = "read" /\ epoch' = epoch + 1
  /\ fileKind' = IF fileKind = "absent" THEN "regular" ELSE fileKind
  /\ UNCHANGED <<clock, file, written, upsets, localVars, stateVars, served>>

\* The process ends and everything it held in memory is gone.
Stop ==
  /\ pc' = "down" /\ line' = NoLine /\ now' = 0 /\ inHand' = NoTicket
  /\ seen' = 0 /\ approved' = EmptyState
  /\ ingested' = {} /\ ticket' = [t \in Target |-> NoTicket]
  /\ UNCHANGED <<worldVars, runVars>>

-----------------------------------------------------------------------------
\* hostLoop: one line at a time.  A refused line is answered, an opaque one
\* goes to the child; neither reads the clock or the control file.
ReadLine(l) ==
  /\ pc = "read"
  /\ l.kind = "call" => Len(served) < MaxServed
  /\ line' = l
  /\ pc' = IF l.kind = "refused" THEN "reply"
           ELSE IF l.kind = "opaque" THEN "forward" ELSE "clock"
  /\ UNCHANGED <<worldVars, now, inHand, stateVars, runVars>>

\* One wall-clock reading per tools/call, before the file is read.
ReadClock ==
  /\ pc = "clock"
  /\ now' = clock
  /\ pc' = "ingest"
  /\ UNCHANGED <<worldVars, line, inHand, stateVars, runVars>>

\* readApprovalsFrom on a regular file, approvalSeenRef.set and the fold.
IngestFile ==
  /\ pc = "ingest" /\ fileKind = "regular"
  /\ seen' = Len(file)
  /\ approved' = WithApprovals(approved)
  /\ ingested' = ingested \cup {file[i].id : i \in {j \in Fresh : file[j].target \in Target}}
  /\ ticket' = [t \in Target |-> IF t \in Renewed THEN TicketOf(file[Newest(t)])
                                 ELSE ticket[t]]
  /\ pc' = "decide"
  /\ UNCHANGED <<worldVars, localVars, runVars>>

\* A missing file yields no approvals and leaves the counter alone.
IngestAbsent ==
  /\ pc = "ingest" /\ fileKind = "absent"
  /\ pc' = "decide"
  /\ UNCHANGED <<worldVars, localVars, stateVars, runVars>>

\* A symlink, or a file that is gone by the time it is read, throws out of
\* hostLoop: the process ends, the call unanswered.
IngestThrows ==
  /\ pc = "ingest" /\ fileKind # "regular"
  /\ Stop

\* step, then prune, then stateRef.set: the approval is consumed before the
\* call is written to the child.
Decide ==
  /\ pc = "decide"
  /\ approved' = Prune(now, StepState(now, approved, line.event))
  /\ ticket' = [t \in Target |-> IF t \in DOMAIN approved' THEN ticket[t] ELSE NoTicket]
  /\ inHand' = IF line.event.type = "guarded" /\ Allows(now, approved, line.event)
               THEN ticket[line.event.target] ELSE NoTicket
  /\ pc' = IF Allows(now, approved, line.event) THEN "forward" ELSE "reply"
  /\ UNCHANGED <<worldVars, line, now, seen, ingested, runVars>>

\* Mutant of Done: the line in hand is not let go.
DoneHolding ==
  /\ pc' = "read" /\ line' = NoLine /\ now' = 0
  /\ UNCHANGED <<worldVars, inHand, stateVars, epoch>>

\* The call is over; hostLoop reads the next line.
Done ==
  /\ pc' = "read" /\ line' = NoLine /\ now' = 0 /\ inHand' = NoTicket
  /\ UNCHANGED <<worldVars, stateVars, epoch>>

\* childIn.putStr and flush.
Forward ==
  /\ pc = "forward"
  /\ served' = IF inHand = NoTicket THEN served
               ELSE Append(served, [ticket |-> inHand, target |-> line.event.target,
                                    at |-> now])
  /\ Done

\* writeLocked of a block or error response.
Reply ==
  /\ pc = "reply"
  /\ served' = served
  /\ Done

\* The pipe to the child or to the host is broken: putStr throws.
WriteThrows == pc \in {"forward", "reply"} /\ Stop

\* getLine returns "": hostLoop returns and main ends.
EndOfInput == pc = "read" /\ Stop

\* The process is killed anywhere.
Crash == pc # "down" /\ Stop

-----------------------------------------------------------------------------
processVars == <<pc, localVars, stateVars, runVars>>

Tick ==
  /\ \E c \in 0 .. MaxClock :
       /\ c # clock
       /\ ClockMayStepBack \/ c > clock
       /\ clock' = c
       /\ setBack' = (setBack \/ c < clock)
  /\ UNCHANGED <<file, fileKind, written, edited, displaced, processVars>>

\* A line the approver writes; NoTarget is a malformed or torn one.
NewLine(t, m) == [id |-> written + 1, target |-> t, issuedAt |-> m]

WritesLine(t) ==
  /\ t = NoTarget => "torn" \in FileOps
  /\ written < MaxRecords /\ written' = written + 1

AppendRecord(t, m) ==
  /\ "append" \in FileOps
  /\ WritesLine(t)
  /\ file' = Append(file, NewLine(t, m))
  /\ fileKind' = IF fileKind = "absent" THEN "regular" ELSE fileKind
  /\ UNCHANGED <<clock, upsets, processVars>>

\* What the edits below have in common: they are not appends.
Edit ==
  /\ edited' = TRUE
  /\ UNCHANGED <<clock, setBack, processVars>>

\* The rest of a torn last line reaches the file.
CompleteRecord(t) ==
  /\ "torn" \in FileOps
  /\ file # <<>> /\ file[Len(file)].target = NoTarget
  /\ file' = [file EXCEPT ![Len(file)].target = t]
  /\ Edit
  /\ UNCHANGED <<fileKind, written, displaced>>

\* A line is removed; truncation and rotation are several of these.
DeleteRecord(i) ==
  /\ "delete" \in FileOps
  /\ file' = [j \in 1 .. Len(file) - 1 |-> IF j < i THEN file[j] ELSE file[j + 1]]
  /\ Edit
  /\ UNCHANGED <<fileKind, written, displaced>>

\* A line gives way to another one.
RewriteRecord(i, t, m) ==
  /\ "rewrite" \in FileOps
  /\ WritesLine(t)
  /\ file' = [file EXCEPT ![i] = NewLine(t, m)]
  /\ Edit
  /\ UNCHANGED <<fileKind, displaced>>

\* A line is put in ahead of the i-th.  If the process has read that one, the
\* counter no longer covers all it has read.
InsertRecord(i, t, m) ==
  /\ "insert" \in FileOps
  /\ WritesLine(t)
  /\ file' = [j \in 1 .. Len(file) + 1 |->
                IF j < i THEN file[j] ELSE IF j = i THEN NewLine(t, m) ELSE file[j - 1]]
  /\ displaced' = IF i <= seen THEN displaced \cup {epoch} ELSE displaced
  /\ Edit
  /\ UNCHANGED fileKind

RemoveFile ==
  /\ "remove" \in FileOps /\ fileKind # "absent"
  /\ fileKind' = "absent" /\ file' = <<>>
  /\ Edit
  /\ UNCHANGED <<written, displaced>>

\* The path is turned into a symlink to the same content, or back.
Relink ==
  /\ "symlink" \in FileOps /\ fileKind # "absent"
  /\ fileKind' = IF fileKind = "regular" THEN "symlink" ELSE "regular"
  /\ UNCHANGED <<clock, file, written, upsets, processVars>>

-----------------------------------------------------------------------------
Process ==
  \/ Start \/ (\E l \in Lines : ReadLine(l)) \/ ReadClock
  \/ IngestFile \/ IngestAbsent \/ IngestThrows \/ Decide
  \/ Forward \/ Reply \/ WriteThrows \/ EndOfInput \/ Crash

World ==
  \/ Tick
  \/ \E t \in Target \cup {NoTarget}, m \in MintTimes :
       \/ AppendRecord(t, m)
       \/ \E i \in DOMAIN file : RewriteRecord(i, t, m) \/ InsertRecord(i, t, m)
  \/ \E t \in Target : CompleteRecord(t)
  \/ \E i \in DOMAIN file : DeleteRecord(i)
  \/ RemoveFile \/ Relink

Next == Process \/ World

Spec == Init /\ [][Next]_vars
-----------------------------------------------------------------------------
TypeOK ==
  /\ clock \in Nat /\ written \in Nat
  /\ file \in Seq(Record)
  /\ fileKind \in {"regular", "absent", "symlink"}
  /\ setBack \in BOOLEAN /\ edited \in BOOLEAN /\ displaced \subseteq 0 .. epoch
  /\ pc \in Locations
  /\ line \in Lines \cup {NoLine}
  /\ pc \in {"clock", "ingest", "decide"} => line \in [kind : {"call"}, event : Events]
  /\ now \in Nat
  /\ seen \in Nat
  /\ IsState(approved)
  /\ epoch \in Nat
  /\ ingested \subseteq Nat
  /\ ticket \in [Target -> Ticket \cup {NoTicket}]
  /\ inHand \in Ticket \cup {NoTicket}
  /\ inHand # NoTicket =>
       pc = "forward" /\ line \in [kind : {"call"}, event : {Guarded(t) : t \in Target}]
  /\ served \in Seq([ticket : Ticket, target : Target, at : Nat])

\* docs/POLICY.md: "Each approval is one-shot".  Two guarded calls that reach
\* the child in the life of one process never rest on the same line of the
\* control file, however the file is appended to, torn, rewritten, cut or
\* removed between the calls, and wherever the process is in its handling of a
\* call; unless a line was put in ahead of lines that process had read, which
\* the counter (Channel.lean, readApprovalsFrom) takes for fresh again.
OneShot ==
  \A i, j \in DOMAIN served :
    i # j /\ served[i].ticket.epoch \notin displaced =>
      \/ served[i].ticket.epoch # served[j].ticket.epoch
      \/ served[i].ticket.id # served[j].ticket.id

\* The same promise read without regard to restarts, as docs/POLICY.md and
\* the comment in processHostLine ("each record is ingested exactly once")
\* state it.
OneShotAcrossRestarts ==
  \A i, j \in DOMAIN served : i # j => served[i].ticket.id # served[j].ticket.id

\* parseApprovalRecord: "a record can only ever make a approval expire SOONER
\* than now + ttlMs, never later".  A guarded call that reached the child was
\* for the target of the line it consumed, and the clock reading it was
\* decided at is within the TTL of both the reading of that line and the
\* mint time written in it, whatever lines for that target came in between.
ServedInTime ==
  \A i \in DOMAIN served :
    LET k == served[i].ticket IN
      /\ served[i].target = k.target
      /\ served[i].at < k.readAt + TtlMs
      /\ k.issuedAt # NoTime => served[i].at < k.issuedAt + TtlMs

\* In a file that is only appended to, with whole lines, the seen counter
\* never passes over an approval that was not taken.
NothingSkipped ==
  \A i \in DOMAIN file :
    i <= seen /\ file[i].target \in Target => file[i].id \in ingested

\* `approved` after `step` was folded over the approvals among the first k
\* lines, from the first fresh one on; a malformed line parses to none.
AfterLines[k \in 0 .. Len(file)] ==
  IF k <= seen THEN approved
  ELSE IF file[k].target \notin Target THEN AfterLines[k - 1]
  ELSE StepState(now, AfterLines[k - 1], Approval(file[k].target, Deadline(file[k])))

\* processHostLine folds `step` over the approvals parsed from the fresh
\* lines, in file order.  The gate's closed form of the result is that fold.
IngestIsTheFold == pc = "ingest" => WithApprovals(approved) = AfterLines[Len(file)]

-----------------------------------------------------------------------------
(***************************************************************************)
(* The inductive invariant behind OneShot and ServedInTime.                *)
(***************************************************************************)

\* No two lines are the same line, also after edits.
LinesAreDistinct ==
  /\ \A i \in DOMAIN file : file[i].id \in 1 .. written
  /\ \A i, j \in DOMAIN file : i # j => file[i].id # file[j].id

\* Nothing was put in ahead of what this process has read.
Undisturbed == epoch \notin displaced

\* Then what lies beyond the seen counter has not been taken by this process:
\* deleting lines moves the others towards it, never away.
FreshIsUntaken ==
  /\ ingested \subseteq 1 .. written
  /\ Undisturbed => \A i \in DOMAIN file : i > seen => file[i].id \notin ingested

\* A ticket of this process, expiring within the TTL of mint and reading.
Valid(k) ==
  /\ k \in Ticket
  /\ k.epoch = epoch /\ k.id \in ingested
  /\ k.deadline <= k.readAt + TtlMs
  /\ k.issuedAt # NoTime => k.deadline <= k.issuedAt + TtlMs

\* Each entry of `approved` rests on a line, and on one of its own.
StandingIsBacked ==
  /\ \A t \in DOMAIN approved :
       Valid(ticket[t]) /\ ticket[t].target = t /\ ticket[t].deadline = approved[t]
  /\ Undisturbed => \A t, u \in DOMAIN approved : t # u => ticket[t].id # ticket[u].id

\* The line in hand has left `approved`, and is for the call in hand.
InHandIsConsumed ==
  inHand # NoTicket =>
    /\ Valid(inHand)
    /\ line.event = Guarded(inHand.target)
    /\ now < inHand.deadline
    /\ Undisturbed => \A t \in DOMAIN approved : ticket[t].id # inHand.id

\* A line used by this process is taken, and neither stands nor is in hand.
ServedIsSpent ==
  \A i \in DOMAIN served :
    /\ served[i].ticket.epoch <= epoch
    /\ served[i].ticket.epoch = epoch /\ pc # "down" /\ Undisturbed =>
         /\ served[i].ticket.id \in ingested
         /\ \A t \in DOMAIN approved : ticket[t].id # served[i].ticket.id
         /\ inHand # NoTicket => inHand.id # served[i].ticket.id

\* Nothing of a process survives it.
DownIsEmpty ==
  pc = "down" => approved = EmptyState /\ ingested = {} /\ inHand = NoTicket

GateInv ==
  /\ LinesAreDistinct /\ FreshIsUntaken /\ DownIsEmpty
  /\ StandingIsBacked /\ InHandIsConsumed /\ ServedIsSpent
  /\ OneShot /\ ServedInTime

-----------------------------------------------------------------------------
(***************************************************************************)
(* The refinement: an approval is open while it stands in `approved` or    *)
(* has been consumed for the call in hand, and used once that call has     *)
(* been written to the child.                                              *)
(***************************************************************************)
OpenApprovals == {ticket[t] : t \in DOMAIN approved}
                   \cup (IF inHand = NoTicket THEN {} ELSE {inHand})

Uses == [i \in DOMAIN served |->
           [id |-> served[i].ticket.id, epoch |-> served[i].ticket.epoch,
            target |-> served[i].target, at |-> served[i].at]]

Abstract == INSTANCE OneShotApprovals
              WITH open <- OpenApprovals, used <- Uses, void <- displaced,
                   Times <- 0 .. MaxClock

\* The gate implements the abstract one-shot approval.
ImplementsOneShot == Abstract!Spec
=============================================================================
