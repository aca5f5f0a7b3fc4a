--------------------------- MODULE RuleResolution ---------------------------
(***************************************************************************)
(* What v1 decides about a request under a policy: loading the policy      *)
(* (Seal/Policy.lean), finding the tool call in a request, matching the    *)
(* rules and resolving what several of them say (Seal/Classify.lean), and  *)
(* which call an approval is good for.                                     *)
(*                                                                         *)
(* SealGate has the approval channel in full; here an approval stands      *)
(* until it is used or expires, and all lines of the file count again      *)
(* after a restart.  A target is its preimage, the list of parts that is   *)
(* framed and hashed (injective, docs/ASSUMPTIONS.md).  A JSON value is    *)
(* its compact form; what it holds at a path is in ScalarAt.               *)
(***************************************************************************)
EXTENDS Naturals, Sequences, FiniteSets

CONSTANTS
  Document,       \* policy files: [server, tools], a sequence of rules
  Matcher,        \* the match objects in them and all those inside these
  Request,        \* requests of the client
  ScalarAt,       \* ScalarAt[arguments][path], a scalar or Absent
  Absent,         \* no such field
  NotAnObject,    \* a `_meta` that is null, a scalar or an array
  NotRunning, NoAnswer,
  MaxEndorsed     \* bound of the exploration

ASSUME RuleAssumption ==
  /\ \A d \in Document : DOMAIN d.tools = 1 .. Len(d.tools) /\ Len(d.tools) \in Nat
  /\ NotRunning \notin Document /\ Absent # "null"
  /\ MaxEndorsed \in Nat

VARIABLES
  policy,     \* the policy the process runs with, or NotRunning
  outcome,    \* what became of the last start or request
  endorsed,   \* the approvals in the control file, with what they were given for
  standing    \* those the process still holds

vars == <<policy, outcome, endorsed, standing>>

-----------------------------------------------------------------------------
(***************************************************************************)
(* Loading.                                                                *)
(***************************************************************************)

FullArguments == [type |-> "fullArguments"]

IsGuarded(rule) == rule.mode \in {"guard", "guarded"}

\* An approval of a guarded call is for all of its arguments.
GuardCheck(rule) == IsGuarded(rule) => rule.target = <<FullArguments>>

\* Everything else a rule may hold wrong is the mode.
Loads(d) ==
  \A i \in DOMAIN d.tools :
    /\ d.tools[i].mode \in {"allow", "guard", "guarded", "deny"}
    /\ GuardCheck(d.tools[i])

-----------------------------------------------------------------------------
(***************************************************************************)
(* From a request to its call.                                             *)
(***************************************************************************)

IsToolCall(r) == r.method = "tools/call" /\ r.name # Absent

Malformed(r) == r.metadata = NotAnObject

CallOf(r) ==
  [tool           |-> r.name,
   args           |-> IF r.arguments = Absent THEN "null" ELSE r.arguments,
   metadata       |-> r.metadata,
   requestState   |-> r.requestState,
   inputResponses |-> r.inputResponses]

Call == {CallOf(r) : r \in {q \in Request : IsToolCall(q) /\ ~Malformed(q)}}

-----------------------------------------------------------------------------
(***************************************************************************)
(* One rule.                                                               *)
(***************************************************************************)

\* equals, starts_with and contains_any_ci each accept some of the scalars.
MatchSpec[m \in Matcher, args \in DOMAIN ScalarAt] ==
  CASE m.type = "always" -> TRUE
    [] m.type = "scalar" -> ScalarAt[args][m.path] \in m.accepts
    [] m.type = "all"    -> \A i \in DOMAIN m.specs : MatchSpec[m.specs[i], args]
    [] m.type = "any"    -> \E i \in DOMAIN m.specs : MatchSpec[m.specs[i], args]

MatchRule(rule, c) == rule.name = c.tool /\ MatchSpec[rule.match, c.args]

EvalPart(part, args) ==
  CASE part.type = "literal"       -> part.value
    [] part.type = "argPath"       -> ScalarAt[args][part.path]
    [] part.type = "fullArguments" -> args

EvalTargetParts(parts, args) == [i \in DOMAIN parts |-> EvalPart(parts[i], args)]

Named(server) == server # ""

TargetPrefix(server, tool) == IF Named(server) THEN <<server, tool>> ELSE <<tool>>

\* Mutant of PreimageParts: absence is the JSON value null.
PreimagePartsNull(absent, present, v) ==
  IF v = Absent THEN <<present, "null">> ELSE <<present, v>>
PreimageParts(absent, present, v) ==
  IF v = Absent THEN <<absent, "">> ELSE <<present, v>>

GuardTarget(server, c, parts) ==
  <<"seal.guard-target/v2-proposed-meta-all">> \o TargetPrefix(server, c.tool) \o parts
    \o PreimageParts("meta.absent", "meta.present", c.metadata)
    \o PreimageParts("requestState.absent", "requestState.present", c.requestState)
    \o PreimageParts("inputResponses.absent", "inputResponses.present", c.inputResponses)

Deny        == [type |-> "deny"]
Allow       == [type |-> "allow"]
Guard(t)    == [type |-> "guard", target |-> t]

\* `invalid` and `deny` block alike; only their texts differ.
EvaluateRule(d, rule, c) ==
  LET parts == EvalTargetParts(rule.target, c.args)
  IN CASE rule.mode = "allow" -> Allow
       [] rule.mode = "deny"  -> Deny
       [] IsGuarded(rule)     ->
            IF \E i \in DOMAIN parts : parts[i] = Absent THEN Deny
            ELSE Guard(GuardTarget(d.server, c, parts))

-----------------------------------------------------------------------------
(***************************************************************************)
(* All rules.                                                              *)
(***************************************************************************)

Matching(d, c) == {i \in DOMAIN d.tools : MatchRule(d.tools[i], c)}

\* Mutant of Classify: an explicit allow is looked for before the guards.
ClassifyAllowFirst(d, c) ==
  LET says   == [i \in Matching(d, c) |-> EvaluateRule(d, d.tools[i], c)]
      guards == {i \in DOMAIN says : says[i].type = "guard"}
      first  == CHOOSE i \in guards : \A j \in guards : i <= j
  IN IF \E i \in DOMAIN says : says[i] = Deny THEN Deny
     ELSE IF \E i \in DOMAIN says : says[i] = Allow THEN Allow
     ELSE IF guards # {} THEN says[first]
     ELSE Deny

\* resolveRuleDecisions: any block blocks, guards must agree with the first of
\* them on the target, an allow must be explicit.
Classify(d, c) ==
  LET says   == [i \in Matching(d, c) |-> EvaluateRule(d, d.tools[i], c)]
      guards == {i \in DOMAIN says : says[i].type = "guard"}
      first  == CHOOSE i \in guards : \A j \in guards : i <= j
  IN IF \/ \E i \in DOMAIN says : says[i] = Deny
        \/ \E i \in guards : says[i] # says[first]
     THEN Deny
     ELSE IF guards # {} THEN says[first]
     ELSE IF \E i \in DOMAIN says : says[i] = Allow THEN Allow
     ELSE Deny

-----------------------------------------------------------------------------
Init ==
  /\ policy = NotRunning /\ outcome = NoAnswer
  /\ endorsed = {} /\ standing = {}

\* Mutant of Start: a policy that does not load is run all the same.
StartAnyway(d) ==
  /\ policy = NotRunning
  /\ policy' = d /\ standing' = endorsed
  /\ UNCHANGED <<outcome, endorsed>>

\* The new process reads the control file from its first line.
Start(d) ==
  /\ policy = NotRunning /\ Loads(d)
  /\ policy' = d /\ standing' = endorsed
  /\ UNCHANGED <<outcome, endorsed>>

RefuseStart(d) ==
  /\ policy = NotRunning /\ ~Loads(d)
  /\ outcome' = [type |-> "startRefused", document |-> d]
  /\ UNCHANGED <<policy, endorsed, standing>>

Stop ==
  /\ policy # NotRunning
  /\ policy' = NotRunning /\ standing' = {}
  /\ UNCHANGED <<outcome, endorsed>>

\* What is no tool call goes to the child undecided.
PassThrough(r) ==
  /\ policy # NotRunning /\ ~IsToolCall(r)
  /\ outcome' = [type |-> "passedThrough", request |-> r]
  /\ UNCHANGED <<policy, endorsed, standing>>

RefuseMalformed(r) ==
  /\ policy # NotRunning /\ IsToolCall(r) /\ Malformed(r)
  /\ outcome' = [type |-> "malformed", request |-> r]
  /\ UNCHANGED <<policy, endorsed, standing>>

LastWas(type) == outcome # NoAnswer /\ outcome.type = type

Answered(type, c) ==
  outcome' = [type |-> type, server |-> policy.server, call |-> c]

\* Mutant of Shown: the target without the context of the call.
ShownWithoutContext(event, c) ==
  GuardTarget(policy.server,
              [c EXCEPT !.metadata = Absent, !.requestState = Absent,
                        !.inputResponses = Absent], <<c.args>>)
\* The target text in the refusal of a guarded call.
Shown(event, c) == event.target

\* processHostLine on a tool call, by the event it is classified as.
Judge(r) ==
  LET c     == CallOf(r)
      event == Classify(policy, c)
      good  == {a \in standing : a.target = event.target}
  IN /\ policy # NotRunning /\ IsToolCall(r) /\ ~Malformed(r)
     /\ \/ /\ event = Allow /\ Answered("allowed", c)
           /\ UNCHANGED standing
        \/ /\ event = Deny /\ Answered("denied", c)
           /\ UNCHANGED standing
        \/ /\ event.type = "guard" /\ good # {} /\ Answered("served", c)
           /\ standing' = standing \ good
        \/ /\ event.type = "guard" /\ good = {}
           /\ outcome' = [type |-> "asked", server |-> policy.server, call |-> c,
                          target |-> Shown(event, c)]
           /\ UNCHANGED standing
     /\ UNCHANGED <<policy, endorsed>>

\* The approver writes the target of a refusal, perhaps after a restart.
Approve ==
  /\ LastWas("asked")
  /\ LET a == [server |-> outcome.server, call |-> outcome.call, target |-> outcome.target]
     IN /\ endorsed' = endorsed \cup {a}
        /\ standing' = IF policy = NotRunning THEN standing ELSE standing \cup {a}
        /\ Cardinality(endorsed') <= MaxEndorsed
  /\ UNCHANGED <<policy, outcome>>

Expire(a) ==
  /\ standing' = standing \ {a}
  /\ UNCHANGED <<policy, outcome, endorsed>>

Next ==
  \/ \E d \in Document : Start(d) \/ RefuseStart(d)
  \/ \E r \in Request : PassThrough(r) \/ RefuseMalformed(r) \/ Judge(r)
  \/ Stop \/ Approve
  \/ \E a \in standing : Expire(a)

Spec == Init /\ [][Next]_vars
-----------------------------------------------------------------------------
TypeOK ==
  /\ policy \in {d \in Document : Loads(d)} \cup {NotRunning}
  /\ \A a \in endorsed : a.server \in {d.server : d \in Document} /\ a.call \in Call
  /\ standing \subseteq endorsed
  /\ LastWas("asked") => outcome.server \in {d.server : d \in Document} /\ outcome.call \in Call

\* The block message of a guarded call prints "exactly the value an approval record
\* must carry" (docs/POLICY.md): the target of that call on that server, and so
\* what every approval in the file was given for.
TargetsAreExact ==
  /\ LastWas("asked") =>
       outcome.target = GuardTarget(outcome.server, outcome.call, <<outcome.call.args>>)
  /\ \A a \in endorsed : a.target = GuardTarget(a.server, a.call, <<a.call.args>>)

\* POLICY-V2.md: "deny or invalid target > guard > explicit allow > no match
\* (deny)".  The rules that match are a set to this definition: neither their
\* order nor how often a rule is repeated matters, and no two guards of a loaded
\* policy disagree.
ByPrecedence(d, c) ==
  LET modes == {d.tools[i].mode : i \in Matching(d, c)}
  IN IF "deny" \in modes THEN Deny
     ELSE IF modes \cap {"guard", "guarded"} # {}
     THEN Guard(GuardTarget(d.server, c, <<c.args>>))
     ELSE IF "allow" \in modes THEN Allow
     ELSE Deny

\* Whatever policy runs, every call is resolved by precedence.
ResolvesByPrecedence ==
  policy # NotRunning => \A c \in Call : Classify(policy, c) = ByPrecedence(policy, c)

IsFor(a, c) == a.server = policy.server /\ a.call = c

\* A call is served for an approval that was given for exactly this call on this
\* server - arguments, metadata and both continuation fields - and no approval
\* of another call is spent on it, also after restarts under other policies.
ApprovalIsForOneCall ==
  [][outcome' # NoAnswer => \A r \in Request :
       LastWas("served")' /\ Judge(r) =>
         /\ \E a \in standing : IsFor(a, CallOf(r))
         /\ \A a \in standing \ standing' : IsFor(a, CallOf(r))]_vars

\* A call for which an approval stands is not asked about again: the target that
\* a refusal shows is the one the decision looks for.
ApprovedCallIsServed ==
  [][outcome' # NoAnswer => \A r \in Request :
       LastWas("asked")' /\ Judge(r) =>
         \A a \in standing : ~IsFor(a, CallOf(r))]_vars
=============================================================================
