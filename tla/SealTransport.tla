---------------------------- MODULE SealTransport ----------------------------
(***************************************************************************)
(* The v2 host around the validation, as the transport modules describe it *)
(* (SealV2/ClassifyTransport.lean over SealV2/ResponseTransport.lean and   *)
(* SealV2/ResponseNI.lean): a line of the client is refused, forwarded to  *)
(* the child undecided, or decided; the child's output is cut into frames  *)
(* and relayed until a frame is broken, and the first line after that ends *)
(* the run.                                                                *)
(*                                                                         *)
(* A line is what its bytes mean to the strict parser and to a lenient     *)
(* child; a read is its length and the place of its first newline.         *)
(***************************************************************************)
EXTENDS Validation

CONSTANTS
  Line,         \* [bom, wellFormed, numbersSafe, array, messages]
  Read,         \* [length, newline], newline 0 if there is none; or IoError
  IoError,
  MaxWire,      \* maxWireMessageBytes
  NoTokenUsed,
  MaxEvents     \* bound of the exploration

ASSUME TransportAssumption ==
  /\ NoTokenUsed \notin Token /\ MaxWire \in Nat /\ MaxEvents \in Nat
  /\ Read \subseteq [length : Nat, newline : Nat] \cup {IoError}
  /\ IoError \notin [length : Nat, newline : Nat]
  /\ \A l \in Line : l.array \/ DOMAIN l.messages = {1}

VARIABLES
  plane,     \* HostState.approval
  dead,      \* HostState.dead
  over,      \* the run has ended
  reads,     \* history: what the relay has read from the child
  relayed,   \* what the client was given of it
  answers    \* what became of each line: [line, kind, token, reads]

hostVars == <<plane, dead, over, reads, relayed, answers>>

-----------------------------------------------------------------------------
(***************************************************************************)
(* Framing.                                                                *)
(***************************************************************************)

\* Mutant of framingOf: the terminator is not counted.
framingOfUncounted(c) ==
  IF c.newline # 0
    THEN IF c.newline - 1 <= MaxWire THEN "complete" ELSE "oversized"
  ELSE IF c.length = 0 THEN "eof"
  ELSE IF c.length <= MaxWire THEN "unterminated" ELSE "oversized"

framingOf(c) ==
  IF c.newline # 0
    THEN IF c.newline <= MaxWire THEN "complete" ELSE "oversized"
  ELSE IF c.length = 0 THEN "eof"
  ELSE IF c.length <= MaxWire THEN "unterminated" ELSE "oversized"

readKills(r) == r = IoError \/ framingOf(r) # "complete"

\* The bytes up to the newline.
Frame(c) == [c EXCEPT !.length = c.newline]

-----------------------------------------------------------------------------
(***************************************************************************)
(* Classification.  The strict parser takes no byte order mark.            *)
(***************************************************************************)
Parses(l) == l.wellFormed /\ ~l.bom

StrictCall(m) == m.method = "tools/call" /\ m.named

\* Mutant of classifyWire: an array is not looked into.
classifyWireObjects(l) ==
  IF ~l.numbersSafe THEN "refuse"
  ELSE IF Parses(l) /\ ~l.array /\ StrictCall(l.messages[1]) THEN "act"
  ELSE "passthrough"

classifyWire(l) ==
  IF ~l.numbersSafe \/ (Parses(l) /\ l.array) THEN "refuse"
  ELSE IF Parses(l) /\ StrictCall(l.messages[1]) THEN "act"
  ELSE "passthrough"

\* What a lenient child executes of a line: it ignores a byte order mark and the
\* case of the method, and runs every element of a batch.
lenientCalls(l) ==
  IF ~l.wellFormed THEN {}
  ELSE {i \in DOMAIN l.messages :
          l.messages[i].named /\ l.messages[i].method \in {"tools/call", "TOOLS/CALL"}}

-----------------------------------------------------------------------------
Events == Len(reads) + Len(answers) + IF plane = NoSession THEN 0 ELSE Len(plane.approvals)

Event == ~over /\ Events < MaxEvents

Initialise(c) ==
  /\ Event
  /\ plane' = Opened(c)
  /\ UNCHANGED <<dead, over, reads, relayed, answers>>

AddApproval(k) ==
  /\ Event
  /\ plane # NoSession
  /\ plane' = [plane EXCEPT !.approvals = Append(@, k)]
  /\ UNCHANGED <<dead, over, reads, relayed, answers>>

ChildRead(r) ==
  /\ Event
  /\ reads' = Append(reads, r)
  /\ dead' = (dead \/ readKills(r))
  /\ relayed' = IF dead \/ readKills(r) THEN relayed ELSE Append(relayed, Frame(r))
  /\ UNCHANGED <<plane, over, answers>>

Answers(l, kind, k) ==
  answers' = Append(answers, [line |-> l, kind |-> kind, token |-> k, reads |-> Len(reads)])

SeamError(l) ==
  /\ Event /\ dead
  /\ over' = TRUE
  /\ Answers(l, "seam", NoTokenUsed)
  /\ UNCHANGED <<plane, dead, reads, relayed>>

RefuseLine(l) ==
  /\ Event /\ ~dead /\ classifyWire(l) = "refuse"
  /\ Answers(l, "refused", NoTokenUsed)
  /\ UNCHANGED <<plane, dead, over, reads, relayed>>

ForwardLine(l) ==
  /\ Event /\ ~dead /\ classifyWire(l) = "passthrough"
  /\ Answers(l, "forwarded", NoTokenUsed)
  /\ UNCHANGED <<plane, dead, over, reads, relayed>>

\* reqDecision, and the state it leaves: only an Allow writes it.
DecideLine(l, now) ==
  LET r  == l.messages[1].request
      st == AtClock(plane, now)
      k  == FindApproval(st, TargetFor(st, r))
  IN /\ Event /\ ~dead /\ classifyWire(l) = "act"
     /\ IF plane # NoSession /\ r # NoRequest /\ Validates(st, r)
          THEN plane' = Consume(st, k) /\ Answers(l, "allow", k)
          ELSE UNCHANGED plane /\ Answers(l, "block", NoTokenUsed)
     /\ UNCHANGED <<dead, over, reads, relayed>>

TransportInit ==
  /\ plane = NoSession
  /\ dead = FALSE /\ over = FALSE
  /\ reads = <<>> /\ relayed = <<>> /\ answers = <<>>

TransportNext ==
  \/ \E c \in Config : Initialise(c)
  \/ \E k \in Token : AddApproval(k)
  \/ \E r \in Read : ChildRead(r)
  \/ \E l \in Line : \/ SeamError(l) \/ RefuseLine(l) \/ ForwardLine(l)
                     \/ \E now \in Clock : DecideLine(l, now)

TransportSpec == TransportInit /\ [][TransportNext]_hostVars

-----------------------------------------------------------------------------
\* A frame as the wire bound defines it: its newline is within the bound.
Whole(r) == r # IoError /\ r.newline \in 1 .. MaxWire

WholeUpTo(n) == \A i \in 1 .. n : Whole(reads[i])

\* ResponseTransport.lean: "Child bytes can truncate the Allow stream (by killing
\* the session); they cannot create, alter, or reorder an Allow", and the relay's
\* "only liberty is truncation at transport death".  The client has every frame
\* up to the first broken one and nothing after it; lines are answered as if the
\* child were silent until it breaks, and the first one after that is the last;
\* and every nonce that is spent was spent by an Allow from before the break.
ChildOnlyTruncates ==
  /\ \A i \in DOMAIN reads : i <= Len(relayed) <=> WholeUpTo(i)
  /\ \A i \in DOMAIN relayed : relayed[i] = Frame(reads[i])
  /\ \A n \in DOMAIN answers :
       /\ answers[n].kind = "seam" <=> ~WholeUpTo(answers[n].reads)
       /\ answers[n].kind = "seam" => n = Len(answers)
  /\ plane # NoSession =>
       \A e \in plane.consumed :
         \E n \in DOMAIN answers :
           answers[n].kind = "allow" /\ Entry(plane, answers[n].token) = e

\* ClassifyTransport.lean, classifyWire against the strict shape: of a line the
\* strict parser reads, whatever is forwarded undecided holds no call for a strict
\* child, in a batch or out of one, and none for a lenient child but that of a
\* single object whose method is written in another case.  (Of lines behind a
\* byte order mark, which the strict parser does not read, see NoBatchEscapes.)
OnlyLenientCallsEscape ==
  \A n \in DOMAIN answers :
    LET l == answers[n].line
    IN  answers[n].kind = "forwarded" /\ Parses(l) =>
          \A i \in lenientCalls(l) : ~l.array /\ ~StrictCall(l.messages[i])

\* ClassifyTransport.lean:256-260 on what is forwarded undecided and executable as
\* a call by the reference lenient child: "historical batch execution in
\* `lenientClass` no longer puts a batch in this intersection".  A batch behind a
\* byte order mark is in it: classifyWire passes the line through unread and
\* lenientParse strips the mark.
NoBatchEscapes ==
  \A n \in DOMAIN answers :
    answers[n].kind = "forwarded" /\ answers[n].line.array =>
      lenientCalls(answers[n].line) = {}
=============================================================================
