------------------------------- MODULE WireScan -------------------------------
(***************************************************************************)
(* The gates a raw line passes before it is parsed (Seal/JsonUtil.lean,    *)
(* Seal/Main.lean): four left folds over its characters, each with its own *)
(* idea of where strings, keys and numbers begin and end.                  *)
(*                                                                         *)
(* A writer that follows the grammar of JSON makes the line, the scans     *)
(* follow it character by character, and what the line really holds is     *)
(* noted at the end of each token.  "a" stands for every letter but "e",   *)
(* "1" for every digit; which literals binary64 changes is a parameter.    *)
(***************************************************************************)
EXTENDS Integers, Sequences

CONSTANTS
  WireStrings,     \* contents of strings, in units [escape, char, means]
  WireNumbers,     \* literals [negative, whole, fraction, exponent, sign]
  WireUnsafe,      \* the texts numberLiteralAgreementSafe? refuses
  MaxExponentDigits, MaxSignificantDigits,
  MaxTokens        \* bound of the exploration

Quote == "\""
Backslash == "\\"
ObjectStart == "{"
ObjectEnd == "}"
ArrayStart == "["
ArrayEnd == "]"
Comma == ","
Colon == ":"
Sign == {"+", "-"}

\* A character of a string, as it is written and as it is parsed; the four digits
\* of a \u escape are left out, being ordinary characters to every scan.
Unit == [escape : BOOLEAN, char : STRING, means : STRING]

\* How many digits a literal has before the point, after it and in the exponent.
Literal == [negative : BOOLEAN, whole : Nat \ {0}, fraction : Nat,
            sign : {"none"} \cup Sign, exponent : Nat]

ASSUME WireAssumption ==
  /\ WireStrings \subseteq Seq(Unit)
  /\ \A s \in WireStrings : \A i \in DOMAIN s :
       ~s[i].escape => s[i].char \notin {Quote, Backslash} /\ s[i].means = s[i].char
  /\ WireNumbers \subseteq Literal
  /\ {MaxExponentDigits, MaxSignificantDigits, MaxTokens} \subseteq Nat

VARIABLES
  tokens,     \* how many the writer has begun; -1 = the line has ended
  current,    \* the token being written
  nesting,    \* the containers that are open, innermost first
  expects,    \* "value", "first", "key", "colon" or "more": what may come next
  truth,      \* history: what the line holds
  keyScan, numberScan, digitScan, agreementScan,
  verdict     \* the gate that refused the line, or "parsed"; "none" before

scanVars == <<keyScan, numberScan, digitScan, agreementScan>>
wireVars == <<tokens, current, nesting, expects, truth, scanVars, verdict>>

Larger(x, y) == IF x < y THEN y ELSE x

-----------------------------------------------------------------------------
(***************************************************************************)
(* The scans.  A string is over at the quote that no backslash precedes.   *)
(***************************************************************************)

InString(st, c) ==
  IF st.escaped THEN [st EXCEPT !.escaped = FALSE]
  ELSE IF c = Backslash THEN [st EXCEPT !.escaped = TRUE]
  ELSE IF c = Quote THEN [st EXCEPT !.inString = FALSE]
  ELSE st

numberScanStep(st, c) ==
  IF st.inString THEN InString(st, c)
  ELSE IF c = Quote THEN [st EXCEPT !.inString = TRUE, !.inExp = FALSE, !.expLen = 0]
  ELSE IF c = "e" /\ ~st.inExp THEN [st EXCEPT !.inExp = TRUE, !.expLen = 0]
  ELSE IF ~st.inExp \/ c \in Sign THEN st
  ELSE IF c = "1" THEN [st EXCEPT !.expLen = @ + 1, !.worst = Larger(@, st.expLen + 1)]
  ELSE [st EXCEPT !.inExp = FALSE, !.expLen = 0]

digitScanStep(st, c) ==
  IF st.inString THEN InString(st, c)
  ELSE IF c = Quote THEN [st EXCEPT !.inString = TRUE, !.inExp = FALSE, !.run = 0]
  ELSE IF c = "e" THEN [st EXCEPT !.inExp = TRUE]
  ELSE IF c \in Sign \cup {"."} \/ (c = "1" /\ st.inExp) THEN st
  ELSE IF c = "1" THEN [st EXCEPT !.run = @ + 1, !.worst = Larger(@, st.run + 1)]
  ELSE [st EXCEPT !.inExp = FALSE, !.run = 0]

\* The run of numeric characters is judged as a literal when it ends.
finishAgreementNumber(st) ==
  IF ~st.inNumber THEN st
  ELSE [st EXCEPT !.inNumber = FALSE, !.buf = <<>>,
                  !.offending = st.buf \in WireUnsafe]

agreementScanOutside(st, c) ==
  IF c = Quote THEN [st EXCEPT !.inString = TRUE]
  ELSE IF c \in {"-", "1"} THEN [st EXCEPT !.inNumber = TRUE, !.buf = <<c>>]
  ELSE st

agreementScanStep(st, c) ==
  IF st.offending THEN st
  ELSE IF st.inString THEN InString(st, c)
  ELSE IF st.inNumber /\ c \in Sign \cup {"1", ".", "e"} THEN [st EXCEPT !.buf = Append(@, c)]
  ELSE agreementScanOutside(finishAgreementNumber(st), c)

-----------------------------------------------------------------------------
(***************************************************************************)
(* The scan of keys.  The stack holds the open containers; an object knows *)
(* its raw keys and whether the next string is one.                        *)
(***************************************************************************)
ObjectFrame(seen, expectKey) == [type |-> "obj", seen |-> seen, expectKey |-> expectKey]
ArrayFrame == [type |-> "arr", seen |-> {}, expectKey |-> FALSE]

Innermost(st, type) == st.stack # <<>> /\ Head(st.stack).type = type

\* Mutant of KeyEnds: the key is not remembered.
KeyEndsUnseen(st) ==
  IF st.buf \in Head(st.stack).seen THEN [st EXCEPT !.bad = TRUE]
  ELSE [st EXCEPT !.inString = FALSE, !.isKey = FALSE, !.buf = <<>>,
                  !.stack[1] = ObjectFrame(@.seen, FALSE)]

\* A key is only begun in an object, which is innermost still.
KeyEnds(st) ==
  IF st.buf \in Head(st.stack).seen THEN [st EXCEPT !.bad = TRUE]
  ELSE [st EXCEPT !.inString = FALSE, !.isKey = FALSE, !.buf = <<>>,
                  !.stack[1] = ObjectFrame(@.seen \cup {st.buf}, FALSE)]

InKey(st, c) ==
  CASE c = Backslash -> [st EXCEPT !.bad = TRUE]
    [] c = Quote     -> KeyEnds(st)
    [] OTHER         -> [st EXCEPT !.buf = Append(@, c)]

Close(st, type) ==
  IF Innermost(st, type) THEN [st EXCEPT !.stack = Tail(@)] ELSE [st EXCEPT !.bad = TRUE]

keyScanStep(st, c) ==
  IF st.bad THEN st
  ELSE IF st.isKey THEN InKey(st, c)
  ELSE IF st.inString THEN InString(st, c)
  ELSE CASE c = Quote -> [st EXCEPT !.inString = TRUE, !.buf = <<>>,
                            !.isKey = Innermost(st, "obj") /\ Head(st.stack).expectKey]
         [] c = ObjectStart -> [st EXCEPT !.stack = <<ObjectFrame({}, TRUE)>> \o @]
         [] c = ArrayStart -> [st EXCEPT !.stack = <<ArrayFrame>> \o @]
         [] c = ObjectEnd -> Close(st, "obj")
         [] c = ArrayEnd -> Close(st, "arr")
         [] c = Comma /\ Innermost(st, "obj") -> [st EXCEPT !.stack[1].expectKey = TRUE]
         [] OTHER -> st

-----------------------------------------------------------------------------
(***************************************************************************)
(* The writer.                                                             *)
(***************************************************************************)

\* Where the parts of a literal end: the digits before the point, those after
\* it, the "e" with its sign, and the digits of the exponent.
WholeEnd(n)    == (IF n.negative THEN 1 ELSE 0) + n.whole
FractionEnd(n) == WholeEnd(n) + (IF n.fraction > 0 THEN 1 + n.fraction ELSE 0)
SignEnd(n)     == FractionEnd(n) + (IF n.exponent = 0 THEN 0 ELSE IF n.sign = "none" THEN 1 ELSE 2)
NumberEnd(n)   == SignEnd(n) + n.exponent

Written(n) ==
  [i \in 1 .. NumberEnd(n) |->
     IF n.negative /\ i = 1 THEN "-"
     ELSE IF n.fraction > 0 /\ i = WholeEnd(n) + 1 THEN "."
     ELSE IF n.exponent > 0 /\ i = FractionEnd(n) + 1 THEN "e"
     ELSE IF n.exponent > 0 /\ n.sign # "none" /\ i = FractionEnd(n) + 2 THEN n.sign
     ELSE "1"]

Meaning(units) == [i \in DOMAIN units |-> units[i].means]

Escaped(units) == \E i \in DOMAIN units : units[i].escape

NoToken == [type |-> "none"]

\* The next character of the line reaches the four scans.
Feed(c) ==
  /\ keyScan' = keyScanStep(keyScan, c)
  /\ numberScan' = numberScanStep(numberScan, c)
  /\ digitScan' = digitScanStep(digitScan, c)
  /\ agreementScan' = agreementScanStep(agreementScan, c)
  /\ UNCHANGED verdict

ValueMayCome == expects = "value" \/ (expects = "first" /\ Head(nesting).type = "array")

KeyMayCome == expects = "key" \/ (expects = "first" /\ Head(nesting).type = "object")

Begins(token) ==
  /\ tokens \in 0 .. MaxTokens - 1 /\ current = NoToken
  /\ tokens' = tokens + 1 /\ current' = token

BeginNumber(n) ==
  /\ ValueMayCome
  /\ Begins([type |-> "number", text |-> Written(n), at |-> 0, literal |-> n])
  /\ UNCHANGED <<nesting, expects, truth, scanVars, verdict>>

\* true, false or null; the first two end in "e".
BeginWord ==
  /\ ValueMayCome
  /\ Begins([type |-> "word", text |-> <<"a", "e">>, at |-> 0])
  /\ UNCHANGED <<nesting, expects, truth, scanVars, verdict>>

WriteCharacter ==
  /\ current.type \in {"number", "word"} /\ current.at < Len(current.text)
  /\ Feed(current.text[current.at + 1])
  /\ current' = [current EXCEPT !.at = @ + 1]
  /\ UNCHANGED <<tokens, nesting, expects, truth>>

EndNumber ==
  /\ current.type = "number" /\ current.at = Len(current.text)
  /\ current' = NoToken /\ expects' = "more"
  /\ LET n == current.literal IN
       truth' = [truth EXCEPT !.exponent = Larger(@, n.exponent),
                              !.mantissa = Larger(@, n.whole + n.fraction),
                              !.unsafe = @ \/ Written(n) \in WireUnsafe]
  /\ UNCHANGED <<tokens, nesting, scanVars, verdict>>

EndWord ==
  /\ current.type = "word" /\ current.at = Len(current.text)
  /\ current' = NoToken /\ expects' = "more"
  /\ UNCHANGED <<tokens, nesting, truth, scanVars, verdict>>

StringToken(type, s) == [type |-> type, units |-> s, at |-> 0, escaping |-> FALSE]

BeginString(s) ==
  /\ ValueMayCome
  /\ Begins(StringToken("string", s))
  /\ Feed(Quote)
  /\ UNCHANGED <<nesting, expects, truth>>

BeginKey(s) ==
  /\ KeyMayCome
  /\ Begins(StringToken("key", s))
  /\ Feed(Quote)
  /\ UNCHANGED <<nesting, expects, truth>>

InText == current.type \in {"string", "key"}

\* A unit is its character, after a backslash if it is an escape.
WriteBackslash ==
  /\ InText /\ current.at < Len(current.units)
  /\ current.units[current.at + 1].escape /\ ~current.escaping
  /\ Feed(Backslash)
  /\ current' = [current EXCEPT !.escaping = TRUE]
  /\ UNCHANGED <<tokens, nesting, expects, truth>>

WriteUnit ==
  /\ InText /\ current.at < Len(current.units)
  /\ current.units[current.at + 1].escape = current.escaping
  /\ Feed(current.units[current.at + 1].char)
  /\ current' = [current EXCEPT !.at = @ + 1, !.escaping = FALSE]
  /\ UNCHANGED <<tokens, nesting, expects, truth>>

EndString ==
  /\ current.type = "string" /\ current.at = Len(current.units)
  /\ Feed(Quote)
  /\ current' = NoToken /\ expects' = "more"
  /\ UNCHANGED <<tokens, nesting, truth>>

EndKey ==
  /\ current.type = "key" /\ current.at = Len(current.units)
  /\ Feed(Quote)
  /\ current' = NoToken /\ expects' = "colon"
  /\ LET s == current.units IN
       /\ truth' = [truth EXCEPT
                      !.collapses = @ \/ Meaning(s) \in Head(nesting).means,
                      !.repeats = @ \/ s \in Head(nesting).keys,
                      !.escapes = @ \/ Escaped(s)]
       /\ nesting' = [nesting EXCEPT ![1].means = @ \cup {Meaning(s)}, ![1].keys = @ \cup {s}]
  /\ UNCHANGED tokens

WriteColon ==
  /\ expects = "colon" /\ current = NoToken
  /\ Feed(Colon)
  /\ expects' = "value"
  /\ UNCHANGED <<tokens, current, nesting, truth>>

WriteOpen(type) ==
  /\ ValueMayCome
  /\ Begins(NoToken)
  /\ Feed(IF type = "object" THEN ObjectStart ELSE ArrayStart)
  /\ expects' = "first"
  /\ nesting' = <<[type |-> type, means |-> {}, keys |-> {}]>> \o nesting
  /\ UNCHANGED truth

\* A closer that closes another container than its own breaks the line.
WriteClose(type) ==
  /\ expects \in {"first", "more"}
  /\ Begins(NoToken)
  /\ Feed(IF type = "object" THEN ObjectEnd ELSE ArrayEnd)
  /\ expects' = "more"
  /\ IF nesting # <<>> /\ Head(nesting).type = type
       THEN nesting' = Tail(nesting) /\ UNCHANGED truth
       ELSE truth' = [truth EXCEPT !.broken = TRUE] /\ UNCHANGED nesting

WriteComma ==
  /\ expects = "more" /\ nesting # <<>>
  /\ Begins(NoToken)
  /\ Feed(Comma)
  /\ expects' = IF Head(nesting).type = "object" THEN "key" ELSE "value"
  /\ UNCHANGED <<nesting, truth>>

\* processHostLine: the gates in their order.
Gated ==
  IF numberScan.worst > MaxExponentDigits THEN "exponent"
  ELSE IF finishAgreementNumber(agreementScan).offending THEN "agreement"
  ELSE IF keyScan.bad THEN "keys"
  ELSE IF digitScan.worst > MaxSignificantDigits THEN "digits"
  ELSE "parsed"

EndLine ==
  /\ tokens >= 1 /\ expects = "more" /\ current = NoToken
  /\ truth.broken \/ nesting = <<>>
  /\ tokens' = -1
  /\ verdict' = Gated
  /\ UNCHANGED <<current, nesting, expects, truth, scanVars>>

WireInit ==
  /\ tokens = 0 /\ current = NoToken /\ nesting = <<>> /\ expects = "value" /\ verdict = "none"
  /\ truth = [collapses |-> FALSE, repeats |-> FALSE, escapes |-> FALSE, broken |-> FALSE,
              exponent |-> 0, mantissa |-> 0, unsafe |-> FALSE]
  /\ keyScan = [stack |-> <<>>, inString |-> FALSE, escaped |-> FALSE, isKey |-> FALSE,
                buf |-> <<>>, bad |-> FALSE]
  /\ numberScan = [inString |-> FALSE, escaped |-> FALSE, inExp |-> FALSE, expLen |-> 0,
                   worst |-> 0]
  /\ digitScan = [inString |-> FALSE, escaped |-> FALSE, inExp |-> FALSE, run |-> 0,
                  worst |-> 0]
  /\ agreementScan = [inString |-> FALSE, escaped |-> FALSE, inNumber |-> FALSE,
                      buf |-> <<>>, offending |-> FALSE]

WireNext ==
  \/ \E n \in WireNumbers : BeginNumber(n)
  \/ \E s \in WireStrings : BeginString(s) \/ BeginKey(s)
  \/ \E type \in {"object", "array"} : WriteOpen(type) \/ WriteClose(type)
  \/ BeginWord \/ WriteCharacter \/ EndNumber \/ EndWord
  \/ WriteBackslash \/ WriteUnit \/ EndString \/ EndKey
  \/ WriteColon \/ WriteComma \/ EndLine

WireSpec == WireInit /\ [][WireNext]_wireVars

-----------------------------------------------------------------------------
\* JsonUtil.lean on its scans, and Main.lean on "the mediation gate": a line goes
\* on to Json.parse exactly if no object repeats a key, no key has an escape, no
\* closer is astray and every number is within its bounds and safe.  Above all,
\* keys the parser would collapse into one, spelled alike or not, never pass.
GatesAreExact ==
  verdict # "none" =>
    /\ verdict = "parsed" <=>
         /\ ~truth.repeats /\ ~truth.escapes /\ ~truth.broken
         /\ truth.exponent <= MaxExponentDigits
         /\ truth.mantissa <= MaxSignificantDigits
         /\ ~truth.unsafe
    /\ truth.collapses => verdict # "parsed"
=============================================================================
