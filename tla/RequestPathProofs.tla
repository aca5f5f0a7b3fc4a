------------------------ MODULE RequestPathProofs ------------------------
(***************************************************************************)
(* Proofs about the path of a request from the raw line to the rule it     *)
(* runs into: rule resolution and what an approval is good for, for any    *)
(* policies, matchers and requests, and the gates on the raw line, for any *)
(* line the writer can write.                                              *)
(***************************************************************************)
EXTENDS RuleResolution, WireScan, SequenceTheorems, WellFoundedInduction, TLAPS

\* A nonempty set of indices has a least one.
LEMMA LeastIndex ==
  ASSUME NEW T, T \subseteq Nat, T # {}
  PROVE  \E i \in T : \A j \in T : i <= j
<1>1. PICK i \in T : \A j \in T : ~(<<j, i>> \in OpToRel(<, Nat))
  BY NatLessThanWellFounded, WFMin
<1>2. ASSUME NEW j \in T PROVE i <= j
  <2>1. i \in Nat /\ j \in Nat
    OBVIOUS
  <2>2. ~(j < i)
    BY <1>1, <2>1 DEF OpToRel
  <2> QED
    BY <2>1, <2>2
<1> QED
  BY <1>2

-----------------------------------------------------------------------------
(***************************************************************************)
(* A target says which call it is the target of.                           *)
(***************************************************************************)

\* Two more parts at the end of a list.
LEMMA TwoMore ==
  ASSUME NEW S, NEW s \in Seq(S), NEW a \in S, NEW b \in S
  PROVE  /\ s \o <<a, b>> \in Seq(S)
         /\ Len(s \o <<a, b>>) = Len(s) + 2
         /\ (s \o <<a, b>>)[Len(s) + 1] = a
         /\ (s \o <<a, b>>)[Len(s) + 2] = b
         /\ \A i \in 1 .. Len(s) : (s \o <<a, b>>)[i] = s[i]
<1> DEFINE t == <<a, b>>
<1>1. t \in Seq(S) /\ Len(t) = 2 /\ t[1] = a /\ t[2] = b
  OBVIOUS
<1> HIDE DEF t
<1>2. Len(s) \in Nat
  OBVIOUS
<1>3. /\ s \o t \in Seq(S) /\ Len(s \o t) = Len(s) + Len(t)
      /\ \A i \in 1 .. Len(s) + Len(t) :
           (s \o t)[i] = IF i <= Len(s) THEN s[i] ELSE t[i - Len(s)]
  BY <1>1, ConcatProperties
<1>4. (s \o t)[Len(s) + 1] = t[1] /\ (s \o t)[Len(s) + 2] = t[2]
  BY <1>1, <1>2, <1>3
<1>5. \A i \in 1 .. Len(s) : (s \o t)[i] = s[i]
  BY <1>1, <1>2, <1>3
<1> QED
  BY <1>1, <1>3, <1>4, <1>5 DEF t

\* Where the server, the tool and the arguments are.
OpeningLen(server) == IF Named(server) THEN 4 ELSE 3

Opening(tag, server, tool, args) ==
  <<tag>> \o TargetPrefix(server, tool) \o <<args>>

\* The opening of a target is a list of parts.
LEMMA OpeningIsSeq ==
  ASSUME NEW S, NEW tag \in S, NEW server \in S, NEW tool \in S, NEW args \in S
  PROVE  Opening(tag, server, tool, args) \in Seq(S)
<1>0. /\ <<tag>> \in Seq(S) /\ <<args>> \in Seq(S)
      /\ <<tool>> \in Seq(S) /\ <<server, tool>> \in Seq(S)
  OBVIOUS
<1>1. <<tag>> \in Seq(S) /\ <<args>> \in Seq(S) /\ TargetPrefix(server, tool) \in Seq(S)
  BY <1>0, Zenon DEF TargetPrefix
<1> DEFINE n == TargetPrefix(server, tool)  t == <<tag>>  g == <<args>>
<1> HIDE DEF n, t, g
<1>2. (t \o n) \o g \in Seq(S)
  BY <1>1, ConcatProperties DEF n, t, g
<1> QED
  BY <1>2 DEF n, t, g, Opening

\* Where the server, the tool and the arguments stand in a target.
LEMMA OpeningParts ==
  ASSUME NEW tag, NEW server, NEW tool, NEW args
  PROVE  /\ ~Named(server) => /\ Len(Opening(tag, server, tool, args)) = 3
                           /\ Opening(tag, server, tool, args)[2] = tool
                           /\ Opening(tag, server, tool, args)[3] = args
         /\ Named(server) => /\ Len(Opening(tag, server, tool, args)) = 4
                           /\ Opening(tag, server, tool, args)[2] = server
                           /\ Opening(tag, server, tool, args)[3] = tool
                           /\ Opening(tag, server, tool, args)[4] = args
<1> DEFINE S == {tag, server, tool, args}
<1>0. tag \in S /\ server \in S /\ tool \in S /\ args \in S
  OBVIOUS
<1> HIDE DEF S
<1> DEFINE h == Opening(tag, server, tool, args)
<1>1. CASE ~Named(server)
  <2> DEFINE t == <<tag>>  n == <<tool>>  g == <<args>>
  <2>1. /\ t \in Seq(S) /\ n \in Seq(S) /\ g \in Seq(S)
        /\ Len(t) = 1 /\ Len(n) = 1 /\ Len(g) = 1 /\ n[1] = tool /\ g[1] = args
    BY <1>0
  <2> HIDE DEF t, n, g
  <2>2. /\ t \o n \in Seq(S) /\ Len(t \o n) = 2 /\ (t \o n)[2] = tool
    BY <2>1, ConcatProperties
  <2>3. /\ (t \o n) \o g \in Seq(S) /\ Len((t \o n) \o g) = 3
        /\ ((t \o n) \o g)[2] = tool /\ ((t \o n) \o g)[3] = args
    BY <2>1, <2>2, ConcatProperties
  <2>4. h = (t \o n) \o g
    BY <1>1 DEF t, n, g, Opening, TargetPrefix
  <2> HIDE DEF h
  <2>6. /\ Len(h) = 3 /\ h[2] = tool /\ h[3] = args
    BY <2>3, <2>4
  <2> QED
    BY <1>1, <2>6 DEF h
<1>2. CASE Named(server)
  <2> DEFINE t == <<tag>>  n == <<server, tool>>  g == <<args>>
  <2>1. /\ t \in Seq(S) /\ n \in Seq(S) /\ g \in Seq(S)
        /\ Len(t) = 1 /\ Len(n) = 2 /\ Len(g) = 1
        /\ n[1] = server /\ n[2] = tool /\ g[1] = args
    BY <1>0
  <2> HIDE DEF t, n, g
  <2>2. /\ t \o n \in Seq(S) /\ Len(t \o n) = 3
        /\ (t \o n)[2] = server /\ (t \o n)[3] = tool
    <3>1. /\ t \o n \in Seq(S) /\ Len(t \o n) = Len(t) + Len(n)
          /\ \A i \in 1 .. Len(t) + Len(n) :
               (t \o n)[i] = IF i <= Len(t) THEN t[i] ELSE n[i - Len(t)]
      BY <2>1, ConcatProperties
    <3> QED
      BY <2>1, <3>1
  <2>3. /\ (t \o n) \o g \in Seq(S) /\ Len((t \o n) \o g) = 4
        /\ ((t \o n) \o g)[2] = server
        /\ ((t \o n) \o g)[3] = tool /\ ((t \o n) \o g)[4] = args
    BY <2>1, <2>2, ConcatProperties
  <2>4. h = (t \o n) \o g
    BY <1>2 DEF t, n, g, Opening, TargetPrefix
  <2> HIDE DEF h
  <2>6. /\ Len(h) = 4 /\ h[2] = server /\ h[3] = tool /\ h[4] = args
    BY <2>3, <2>4
  <2> QED
    BY <1>2, <2>6 DEF h
<1> QED
  BY <1>1, <1>2

\* All parts of the target of a guarded call.
LEMMA TargetShape ==
  ASSUME NEW server, NEW c
  PROVE  LET T == GuardTarget(server, c, <<c.args>>)
             k == OpeningLen(server)
             m == PreimageParts("meta.absent", "meta.present", c.metadata)
             q == PreimageParts("requestState.absent", "requestState.present", c.requestState)
             p == PreimageParts("inputResponses.absent", "inputResponses.present",
                                c.inputResponses)
         IN /\ Len(T) = k + 6
            /\ T[k - 1] = c.tool /\ T[k] = c.args
            /\ Named(server) => T[2] = server
            /\ T[k + 1] = m[1] /\ T[k + 2] = m[2]
            /\ T[k + 3] = q[1] /\ T[k + 4] = q[2]
            /\ T[k + 5] = p[1] /\ T[k + 6] = p[2]
<1> DEFINE tag == "seal.guard-target/v2-proposed-meta-all"
           m == PreimageParts("meta.absent", "meta.present", c.metadata)
           q == PreimageParts("requestState.absent", "requestState.present", c.requestState)
           p == PreimageParts("inputResponses.absent", "inputResponses.present",
                              c.inputResponses)
           S == {tag, server, c.tool, c.args, m[1], m[2], q[1], q[2], p[1], p[2]}
           k == OpeningLen(server)
           h == Opening(tag, server, c.tool, c.args)
<1>1. m = <<m[1], m[2]>> /\ q = <<q[1], q[2]>> /\ p = <<p[1], p[2]>>
  BY DEF PreimageParts
<1>2. /\ tag \in S /\ server \in S /\ c.tool \in S /\ c.args \in S
      /\ m[1] \in S /\ m[2] \in S /\ q[1] \in S /\ q[2] \in S /\ p[1] \in S /\ p[2] \in S
  OBVIOUS
<1>3. k \in {3, 4}
  BY DEF OpeningLen
<1> HIDE DEF m, q, p, S, tag
<1>4. /\ h \in Seq(S) /\ Len(h) = k /\ h[k - 1] = c.tool /\ h[k] = c.args
      /\ Named(server) => h[2] = server
  <2> DEFINE tl == c.tool  ar == c.args
  <2>1. tl \in S /\ ar \in S /\ tag \in S /\ server \in S
    BY <1>2
  <2> HIDE DEF tl, ar
  <2> DEFINE o == Opening(tag, server, tl, ar)
  <2>2. /\ ~Named(server) => Len(o) = 3 /\ o[2] = tl /\ o[3] = ar
        /\ Named(server) => Len(o) = 4 /\ o[2] = server /\ o[3] = tl /\ o[4] = ar
    BY OpeningParts
  <2>6. o \in Seq(S)
    BY <2>1, OpeningIsSeq
  <2> HIDE DEF o
  <2>3. h = o
    BY DEF h, o, tl, ar
  <2> HIDE DEF h
  <2>4. CASE ~Named(server)
    <3>1. k = 3
      BY <2>4 DEF OpeningLen
    <3> HIDE DEF k
    <3>2. k - 1 = 2
      BY <3>1
    <3> QED
      BY <2>2, <2>3, <2>4, <2>6, <3>1, <3>2 DEF tl, ar
  <2>5. CASE Named(server)
    <3>1. k = 4
      BY <2>5 DEF OpeningLen
    <3> HIDE DEF k
    <3>2. k - 1 = 3
      BY <3>1
    <3> QED
      BY <2>2, <2>3, <2>5, <2>6, <3>1, <3>2 DEF tl, ar
  <2> QED
    BY <2>4, <2>5
<1> HIDE DEF h, k
<1> DEFINE hm == h \o <<m[1], m[2]>>
           hq == hm \o <<q[1], q[2]>>
           hp == hq \o <<p[1], p[2]>>
<1>5. /\ hm \in Seq(S) /\ Len(hm) = k + 2
      /\ hm[k + 1] = m[1] /\ hm[k + 2] = m[2]
      /\ \A i \in 1 .. k : hm[i] = h[i]
  <2>1. h \in Seq(S) /\ Len(h) = k
    BY <1>4
  <2> QED
    BY <1>2, <2>1, TwoMore
<1> HIDE DEF hm
<1>6. /\ hq \in Seq(S) /\ Len(hq) = k + 4
      /\ hq[k + 3] = q[1] /\ hq[k + 4] = q[2]
      /\ \A i \in 1 .. k + 2 : hq[i] = hm[i]
  <2>1. /\ hq \in Seq(S) /\ Len(hq) = (k + 2) + 2
        /\ hq[(k + 2) + 1] = q[1] /\ hq[(k + 2) + 2] = q[2]
        /\ \A i \in 1 .. k + 2 : hq[i] = hm[i]
    BY <1>2, <1>5, TwoMore
  <2> HIDE DEF hq
  <2> QED
    BY <1>3, <2>1
<1> HIDE DEF hq
<1>7. /\ hp \in Seq(S) /\ Len(hp) = k + 6
      /\ hp[k + 5] = p[1] /\ hp[k + 6] = p[2]
      /\ \A i \in 1 .. k + 4 : hp[i] = hq[i]
  <2>1. /\ hp \in Seq(S) /\ Len(hp) = (k + 4) + 2
        /\ hp[(k + 4) + 1] = p[1] /\ hp[(k + 4) + 2] = p[2]
        /\ \A i \in 1 .. k + 4 : hp[i] = hq[i]
    BY <1>2, <1>6, TwoMore
  <2> HIDE DEF hp
  <2> QED
    BY <1>3, <2>1
<1> HIDE DEF hp
<1>8. \A i \in 1 .. k : hp[i] = h[i]
  BY <1>3, <1>5, <1>6, <1>7
<1>9. /\ hp[k + 1] = m[1] /\ hp[k + 2] = m[2] /\ hp[k + 3] = q[1] /\ hp[k + 4] = q[2]
  BY <1>3, <1>5, <1>6, <1>7
<1>10. GuardTarget(server, c, <<c.args>>) = hp
  BY <1>1 DEF GuardTarget, Opening, hp, hq, hm, h, m, q, p, tag
<1>11. /\ hp[k - 1] = c.tool /\ hp[k] = c.args
       /\ Named(server) => hp[2] = server
  <2>1. k - 1 \in 1 .. k /\ k \in 1 .. k /\ 2 \in 1 .. k
    BY <1>3
  <2>2. hp[k - 1] = h[k - 1] /\ hp[k] = h[k] /\ hp[2] = h[2]
    BY <1>8, <2>1
  <2> QED
    BY <1>4, <2>2
<1> QED
  BY <1>7, <1>9, <1>10, <1>11 DEF m, q, p, k
\* The two parts tell absence and every value apart.
LEMMA PartsSeparate ==
  ASSUME NEW a, NEW b, a # b, NEW v, NEW w,
         PreimageParts(a, b, v)[1] = PreimageParts(a, b, w)[1],
         PreimageParts(a, b, v)[2] = PreimageParts(a, b, w)[2]
  PROVE  v = w
<1>1. \A x : x # Absent => PreimageParts(a, b, x)[1] = b /\ PreimageParts(a, b, x)[2] = x
  BY DEF PreimageParts
<1>2. \A x : x = Absent => PreimageParts(a, b, x)[1] = a
  BY DEF PreimageParts
<1> QED
  BY <1>1, <1>2

\* What the target of a guarded call depends on is all of the call.
LEMMA EqualTargets ==
  ASSUME NEW s1, NEW s2, NEW c1 \in Call, NEW c2 \in Call,
         GuardTarget(s1, c1, <<c1.args>>) = GuardTarget(s2, c2, <<c2.args>>)
  PROVE  c1 = c2 /\ s1 = s2
<1> DEFINE T1 == GuardTarget(s1, c1, <<c1.args>>)
           T2 == GuardTarget(s2, c2, <<c2.args>>)
           k1 == OpeningLen(s1)
           k2 == OpeningLen(s2)
           m(c) == PreimageParts("meta.absent", "meta.present", c.metadata)
           q(c) == PreimageParts("requestState.absent", "requestState.present", c.requestState)
           p(c) == PreimageParts("inputResponses.absent", "inputResponses.present",
                                 c.inputResponses)
<1>1. T1 = T2
  OBVIOUS
<1>2. k1 \in {3, 4} /\ k2 \in {3, 4} /\ (k1 = k2 => (Named(s1) <=> Named(s2)))
  BY DEF OpeningLen
<1>3. /\ Len(T1) = k1 + 6
      /\ T1[k1 - 1] = c1.tool /\ T1[k1] = c1.args
      /\ Named(s1) => T1[2] = s1
      /\ T1[k1 + 1] = m(c1)[1] /\ T1[k1 + 2] = m(c1)[2]
      /\ T1[k1 + 3] = q(c1)[1] /\ T1[k1 + 4] = q(c1)[2]
      /\ T1[k1 + 5] = p(c1)[1] /\ T1[k1 + 6] = p(c1)[2]
  BY TargetShape
<1>4. /\ Len(T2) = k2 + 6
      /\ T2[k2 - 1] = c2.tool /\ T2[k2] = c2.args
      /\ Named(s2) => T2[2] = s2
      /\ T2[k2 + 1] = m(c2)[1] /\ T2[k2 + 2] = m(c2)[2]
      /\ T2[k2 + 3] = q(c2)[1] /\ T2[k2 + 4] = q(c2)[2]
      /\ T2[k2 + 5] = p(c2)[1] /\ T2[k2 + 6] = p(c2)[2]
  BY TargetShape
<1> HIDE DEF T1, T2, k1, k2
<1>5. k1 = k2
  BY <1>1, <1>2, <1>3, <1>4
<1>6. s1 = s2
  <2>1. CASE Named(s1) /\ Named(s2)
    BY <2>1, <1>1, <1>3, <1>4
  <2>2. CASE ~Named(s1) /\ ~Named(s2)
    BY <2>2, Zenon DEF Named
  <2> QED
    BY <2>1, <2>2, <1>2, <1>5
<1>7. c1.tool = c2.tool /\ c1.args = c2.args
  BY <1>1, <1>3, <1>4, <1>5
<1>8. /\ m(c1)[1] = m(c2)[1] /\ m(c1)[2] = m(c2)[2]
      /\ q(c1)[1] = q(c2)[1] /\ q(c1)[2] = q(c2)[2]
      /\ p(c1)[1] = p(c2)[1] /\ p(c1)[2] = p(c2)[2]
  BY <1>1, <1>3, <1>4, <1>5
<1>9. c1.metadata = c2.metadata
  BY <1>8, PartsSeparate
<1>10. c1.requestState = c2.requestState
  BY <1>8, PartsSeparate
<1>11. c1.inputResponses = c2.inputResponses
  BY <1>8, PartsSeparate
<1>12. c1 = c2
  BY <1>7, <1>9, <1>10, <1>11 DEF Call, CallOf
<1> QED
  BY <1>6, <1>12

-----------------------------------------------------------------------------
(***************************************************************************)
(* Resolution by precedence.                                               *)
(***************************************************************************)

\* A guarded rule of a policy that loads asks for the whole call.
LEMMA GuardedRuleTarget ==
  ASSUME NEW d, NEW rule, NEW c, GuardCheck(rule), IsGuarded(rule), c.args # Absent
  PROVE  EvaluateRule(d, rule, c) = Guard(GuardTarget(d.server, c, <<c.args>>))
<1> DEFINE parts == EvalTargetParts(rule.target, c.args)
<1>1. rule.target = <<FullArguments>>
  BY DEF GuardCheck
<1>2. EvalPart(FullArguments, c.args) = c.args
  BY DEF EvalPart, FullArguments
<1>3. parts = <<c.args>>
  BY <1>1, <1>2 DEF EvalTargetParts
<1> HIDE DEF parts
<1>4. ~ \E i \in DOMAIN parts : parts[i] = Absent
  BY <1>3
<1>5. rule.mode # "allow" /\ rule.mode # "deny"
  BY DEF IsGuarded
<1> QED
  BY <1>3, <1>4, <1>5 DEF EvaluateRule, parts

\* Rules that allow or deny show no target.
LEMMA OtherRules ==
  ASSUME NEW d, NEW rule, NEW c
  PROVE  /\ rule.mode = "allow" => EvaluateRule(d, rule, c) = Allow
         /\ rule.mode = "deny" => EvaluateRule(d, rule, c) = Deny
<1>1. CASE rule.mode = "allow"
  <2>1. rule.mode # "deny" /\ ~IsGuarded(rule)
    BY <1>1 DEF IsGuarded
  <2> QED
    BY <1>1, <2>1 DEF EvaluateRule
<1>2. CASE rule.mode = "deny"
  <2>1. rule.mode # "allow" /\ ~IsGuarded(rule)
    BY <1>2 DEF IsGuarded
  <2> QED
    BY <1>2, <2>1 DEF EvaluateRule
<1> QED
  BY <1>1, <1>2

\* The three answers of a rule differ, and a guard keeps its target.
LEMMA EventsDiffer ==
  /\ Allow # Deny /\ Allow.type = "allow" /\ Deny.type = "deny"
  /\ \A t : Guard(t).type = "guard" /\ Guard(t) # Allow /\ Guard(t) # Deny
            /\ Guard(t).target = t
<1>1. \A t : Guard(t).type = "guard" /\ Guard(t).target = t
  BY DEF Guard
<1>2. Allow.type = "allow" /\ Deny.type = "deny"
  BY DEF Allow, Deny
<1> QED
  BY <1>1, <1>2

\* A call always has arguments.
LEMMA CallHasArguments ==
  ASSUME NEW c \in Call PROVE c.args # Absent
  BY RuleAssumption DEF Call, CallOf

\* Classify is ByPrecedence for every policy that loads.
LEMMA Precedence ==
  ASSUME NEW d \in Document, Loads(d), NEW c \in Call
  PROVE  Classify(d, c) = ByPrecedence(d, c)
<1> DEFINE hits   == Matching(d, c)
           says   == [i \in hits |-> EvaluateRule(d, d.tools[i], c)]
           guards == {i \in DOMAIN says : says[i].type = "guard"}
           first  == CHOOSE i \in guards : \A j \in guards : i <= j
           target == GuardTarget(d.server, c, <<c.args>>)
           mode(i) == d.tools[i].mode
<1>1. hits \subseteq DOMAIN d.tools /\ hits \subseteq Nat
  BY RuleAssumption DEF Matching
<1>2. DOMAIN says = hits /\ \A i \in hits : says[i] = EvaluateRule(d, d.tools[i], c)
  OBVIOUS
<1>3. \A i \in hits : /\ mode(i) \in {"allow", "guard", "guarded", "deny"}
                      /\ GuardCheck(d.tools[i])
  BY <1>1 DEF Loads
<1>4. \A i \in hits : mode(i) = "allow" => says[i] = Allow
  BY <1>2, OtherRules
<1>5. \A i \in hits : mode(i) = "deny" => says[i] = Deny
  BY <1>2, OtherRules
<1>6. \A i \in hits : mode(i) \in {"guard", "guarded"} => says[i] = Guard(target)
  BY <1>2, <1>3, GuardedRuleTarget, CallHasArguments DEF IsGuarded
<1>7. guards = {i \in hits : mode(i) \in {"guard", "guarded"}}
  BY <1>2, <1>3, <1>4, <1>5, <1>6, EventsDiffer
<1>8. (\E i \in hits : says[i] = Deny) <=> \E i \in hits : mode(i) = "deny"
  BY <1>3, <1>4, <1>5, <1>6, EventsDiffer
<1>9. (\E i \in hits : says[i] = Allow) <=> \E i \in hits : mode(i) = "allow"
  BY <1>3, <1>4, <1>5, <1>6, EventsDiffer
<1>10. guards # {} => first \in guards
  BY <1>1, <1>7, LeastIndex
<1>11. \A i \in guards : says[i] = Guard(target)
  BY <1>6, <1>7
<1>12. Classify(d, c) = IF \/ \E i \in DOMAIN says : says[i] = Deny
                           \/ \E i \in guards : says[i] # says[first]
                        THEN Deny
                        ELSE IF guards # {} THEN says[first]
                        ELSE IF \E i \in DOMAIN says : says[i] = Allow THEN Allow
                        ELSE Deny
  BY DEF Classify
<1> DEFINE modes == {d.tools[i].mode : i \in hits}
<1>13. ByPrecedence(d, c) = IF "deny" \in modes THEN Deny
                            ELSE IF modes \cap {"guard", "guarded"} # {} THEN Guard(target)
                            ELSE IF "allow" \in modes THEN Allow
                            ELSE Deny
  BY DEF ByPrecedence
<1>14. /\ "deny" \in modes <=> \E i \in hits : mode(i) = "deny"
       /\ "allow" \in modes <=> \E i \in hits : mode(i) = "allow"
       /\ modes \cap {"guard", "guarded"} # {} <=> guards # {}
  BY <1>7
<1> HIDE DEF hits, says, guards, first, target, mode, modes
<1>15. CASE \E i \in hits : mode(i) = "deny"
  BY <1>15, <1>2, <1>8, <1>12, <1>13, <1>14
<1>16. CASE (~ \E i \in hits : mode(i) = "deny") /\ guards # {}
  <2>1. says[first] = Guard(target) /\ ~ \E i \in guards : says[i] # says[first]
    BY <1>10, <1>11, <1>16
  <2> QED
    BY <1>16, <2>1, <1>2, <1>8, <1>12, <1>13, <1>14
<1>17. CASE (~ \E i \in hits : mode(i) = "deny") /\ guards = {}
  BY <1>17, <1>2, <1>8, <1>9, <1>12, <1>13, <1>14
<1> QED
  BY <1>15, <1>16, <1>17

-----------------------------------------------------------------------------
(***************************************************************************)
(* The steps.                                                              *)
(***************************************************************************)

\* Which answer a judged request got, and on what grounds.
LEMMA Judged ==
  ASSUME TypeOK, NEW r \in Request, Judge(r)
  PROVE  /\ policy \in Document /\ Loads(policy) /\ CallOf(r) \in Call
         /\ UNCHANGED <<policy, endorsed>>
         /\ standing' \subseteq standing
         /\ LastWas("asked")' =>
              /\ outcome'.server = policy.server /\ outcome'.call = CallOf(r)
              /\ outcome'.target = GuardTarget(policy.server, CallOf(r), <<CallOf(r).args>>)
              /\ \A a \in standing : a.target # outcome'.target
         /\ LastWas("served")' =>
              /\ \E a \in standing :
                   a.target = GuardTarget(policy.server, CallOf(r), <<CallOf(r).args>>)
              /\ \A a \in standing \ standing' :
                   a.target = GuardTarget(policy.server, CallOf(r), <<CallOf(r).args>>)
<1> DEFINE c      == CallOf(r)
           event  == Classify(policy, c)
           good   == {a \in standing : a.target = event.target}
           target == GuardTarget(policy.server, c, <<c.args>>)
<1>1. policy \in Document /\ Loads(policy) /\ c \in Call
  BY DEF Judge, TypeOK, Call
<1>2. event.type = "guard" => event.target = target
  <2>1. event = ByPrecedence(policy, c)
    BY <1>1, Precedence
  <2> HIDE DEF event, target, c
  <2>2. event \in {Deny, Allow, Guard(target)}
    BY <2>1 DEF ByPrecedence, target, c
  <2> QED
    BY <2>2, EventsDiffer
<1>3. UNCHANGED <<policy, endorsed>>
  BY DEF Judge
<1>4. \/ /\ event = Allow /\ outcome' = [type |-> "allowed", server |-> policy.server, call |-> c]
         /\ UNCHANGED standing
      \/ /\ event = Deny /\ outcome' = [type |-> "denied", server |-> policy.server, call |-> c]
         /\ UNCHANGED standing
      \/ /\ event.type = "guard" /\ good # {} /\ standing' = standing \ good
         /\ outcome' = [type |-> "served", server |-> policy.server, call |-> c]
      \/ /\ event.type = "guard" /\ good = {} /\ UNCHANGED standing
         /\ outcome' = [type |-> "asked", server |-> policy.server, call |-> c,
                        target |-> event.target]
  BY DEF Judge, Answered, Shown
<1> HIDE DEF c, event, target
<1>5. standing' \subseteq standing
  BY <1>4
<1>6. ASSUME LastWas("asked")'
      PROVE  /\ outcome'.server = policy.server /\ outcome'.call = c
             /\ outcome'.target = target /\ \A a \in standing : a.target # target
  <2>1. outcome'.type = "asked"
    BY <1>6 DEF LastWas
  <2>2. /\ event.type = "guard" /\ good = {}
        /\ outcome' = [type |-> "asked", server |-> policy.server, call |-> c,
                       target |-> event.target]
    BY <1>4, <2>1
  <2> QED
    BY <1>2, <2>2
<1>7. ASSUME LastWas("served")'
      PROVE  /\ \E a \in standing : a.target = target
             /\ \A a \in standing \ standing' : a.target = target
  <2>1. outcome'.type = "served"
    BY <1>7 DEF LastWas
  <2>2. event.type = "guard" /\ good # {} /\ standing' = standing \ good
    BY <1>4, <2>1
  <2> QED
    BY <1>2, <2>2
<1> QED
  BY <1>1, <1>3, <1>5, <1>6, <1>7 DEF c, target

RuleInv == TypeOK /\ TargetsAreExact

\* Every step keeps the types and the targets.
LEMMA RuleStep ==
  ASSUME RuleInv, [Next]_vars
  PROVE  RuleInv'
<1> USE DEF RuleInv
<1>1. ASSUME NEW d \in Document, Start(d) PROVE RuleInv'
  BY <1>1 DEF Start, TypeOK, TargetsAreExact, LastWas
<1>2. ASSUME NEW d \in Document, RefuseStart(d) PROVE RuleInv'
  <2>1. ~LastWas("asked")'
    BY <1>2 DEF RefuseStart, LastWas
  <2> QED
    BY <1>2, <2>1 DEF RefuseStart, TypeOK, TargetsAreExact
<1>3. ASSUME NEW r \in Request, PassThrough(r) \/ RefuseMalformed(r) PROVE RuleInv'
  <2>1. ~LastWas("asked")'
    BY <1>3 DEF PassThrough, RefuseMalformed, LastWas
  <2> QED
    BY <1>3, <2>1 DEF PassThrough, RefuseMalformed, TypeOK, TargetsAreExact
<1>4. ASSUME NEW r \in Request, Judge(r) PROVE RuleInv'
  <2>1. TypeOK'
    BY <1>4, Judged DEF TypeOK
  <2>2. TargetsAreExact'
    BY <1>4, Judged DEF TargetsAreExact
  <2> QED
    BY <2>1, <2>2
<1>5. CASE Stop
  BY <1>5 DEF Stop, TypeOK, TargetsAreExact, LastWas
<1>6. CASE Approve
  <2> DEFINE a == [server |-> outcome.server, call |-> outcome.call,
                   target |-> outcome.target]
  <2>1. /\ LastWas("asked") /\ endorsed' = endorsed \cup {a}
        /\ standing' \in {standing, standing \cup {a}}
        /\ UNCHANGED <<policy, outcome>>
    BY <1>6 DEF Approve
  <2>2. a.target = GuardTarget(a.server, a.call, <<a.call.args>>)
    BY <2>1 DEF TargetsAreExact
  <2>3. a.server \in {d.server : d \in Document} /\ a.call \in Call
    BY <2>1 DEF TypeOK
  <2> HIDE DEF a
  <2>4. TypeOK'
    BY <2>1, <2>3 DEF TypeOK
  <2>5. TargetsAreExact'
    BY <2>1, <2>2 DEF TargetsAreExact, LastWas
  <2> QED
    BY <2>4, <2>5
<1>7. ASSUME NEW a \in standing, Expire(a) PROVE RuleInv'
  BY <1>7 DEF Expire, TypeOK, TargetsAreExact, LastWas
<1>8. CASE UNCHANGED vars
  BY <1>8 DEF vars, TypeOK, TargetsAreExact, LastWas
<1> QED
  BY <1>1, <1>2, <1>3, <1>4, <1>5, <1>6, <1>7, <1>8 DEF Next

\* A call is served for an approval of exactly this call.
LEMMA ServedStep ==
  ASSUME RuleInv, NEW r \in Request, Judge(r), LastWas("served")'
  PROVE  /\ \E a \in standing : IsFor(a, CallOf(r))
         /\ \A a \in standing \ standing' : IsFor(a, CallOf(r))
<1> DEFINE c      == CallOf(r)
           target == GuardTarget(policy.server, c, <<c.args>>)
<1>1. /\ c \in Call
      /\ \E a \in standing : a.target = target
      /\ \A a \in standing \ standing' : a.target = target
  BY Judged DEF RuleInv
<1> HIDE DEF c
<1>2. ASSUME NEW a \in standing, a.target = target PROVE IsFor(a, c)
  <2>1. a.call \in Call /\ a.target = GuardTarget(a.server, a.call, <<a.call.args>>)
    BY DEF RuleInv, TypeOK, TargetsAreExact
  <2> QED
    BY <1>1, <1>2, <2>1, EqualTargets DEF IsFor
<1> QED
  BY <1>1, <1>2 DEF c

\* A call for which an approval stands is not asked about.
LEMMA AskedStep ==
  ASSUME RuleInv, NEW r \in Request, Judge(r), LastWas("asked")'
  PROVE  \A a \in standing : ~IsFor(a, CallOf(r))
<1> DEFINE c == CallOf(r)
<1>1. \A a \in standing : a.target # GuardTarget(policy.server, c, <<c.args>>)
  BY Judged DEF RuleInv
<1>2. \A a \in standing : a.target = GuardTarget(a.server, a.call, <<a.call.args>>)
  BY DEF RuleInv, TypeOK, TargetsAreExact
<1> QED
  BY <1>1, <1>2 DEF IsFor

\* What is proved below rests on this invariant.
THEOREM RuleInvariant == Spec => []RuleInv
<1>1. Init => RuleInv
  BY DEF Init, RuleInv, TypeOK, TargetsAreExact, LastWas
<1>2. RuleInv /\ [Next]_vars => RuleInv'
  BY RuleStep
<1> QED
  BY <1>1, <1>2, PTL DEF Spec

\* Only policies that load are run, and an approval that stands is in the file.
THEOREM RuleTypeCorrect == Spec => []TypeOK
<1>1. RuleInv => TypeOK
  BY DEF RuleInv
<1> QED
  BY <1>1, RuleInvariant, PTL

\* The target that a refusal shows, and every approval, is of exactly one call.
THEOREM TargetsAreOfTheirCall == Spec => []TargetsAreExact
<1>1. RuleInv => TargetsAreExact
  BY DEF RuleInv
<1> QED
  BY <1>1, RuleInvariant, PTL

\* Whatever the policy, matching rules are resolved by precedence alone.
THEOREM CallsResolveByPrecedence == Spec => []ResolvesByPrecedence
<1>1. TypeOK => ResolvesByPrecedence
  BY Precedence DEF TypeOK, ResolvesByPrecedence
<1> QED
  BY <1>1, RuleTypeCorrect, PTL

\* An approval serves the call it was given for and no other.
THEOREM ApprovalsAreForOneCall == Spec => ApprovalIsForOneCall
<1>1. RuleInv /\ [Next]_vars =>
        [\A r \in Request :
           LastWas("served")' /\ Judge(r) =>
             /\ \E a \in standing : IsFor(a, CallOf(r))
             /\ \A a \in standing \ standing' : IsFor(a, CallOf(r))]_vars
  BY ServedStep
<1> QED
  BY <1>1, RuleInvariant, PTL DEF Spec, ApprovalIsForOneCall

\* An approved call is served when it is repeated.
THEOREM ApprovedCallsAreServed == Spec => ApprovedCallIsServed
<1>1. RuleInv /\ [Next]_vars =>
        [\A r \in Request :
           LastWas("asked")' /\ Judge(r) => \A a \in standing : ~IsFor(a, CallOf(r))]_vars
  BY AskedStep
<1> QED
  BY <1>1, RuleInvariant, PTL DEF Spec, ApprovedCallIsServed

-----------------------------------------------------------------------------
(***************************************************************************)
(* The gates on the raw line.  The writer's state says where each scan is: *)
(* one invariant for the writer and one for each of the scans.             *)
(***************************************************************************)
NumberChars == Sign \cup {"1", ".", "e"}

Container == [type : {"object", "array"}, means : SUBSET {Meaning(k) : k \in WireStrings},
              keys : SUBSET WireStrings]

InLiteral == current.type \in {"number", "word"}

NumberTokens == {[type |-> "number", text |-> Written(n), at |-> i, literal |-> n] :
                   n \in WireNumbers, i \in Nat}
WordTokens   == {[type |-> "word", text |-> <<"a", "e">>, at |-> i] : i \in Nat}
TextTokens   == [type : {"string", "key"}, units : WireStrings, at : Nat, escaping : BOOLEAN]

\* The writer follows the grammar.
WriterInv ==
  /\ current \in {NoToken} \cup NumberTokens \cup WordTokens \cup TextTokens
  /\ InLiteral => current.at <= Len(current.text) /\ ValueMayCome
  /\ InText => /\ current.at <= Len(current.units)
               /\ current.escaping =>
                    current.at < Len(current.units) /\ current.units[current.at + 1].escape
  /\ current.type = "string" => ValueMayCome
  /\ current.type = "key" => KeyMayCome
  /\ nesting \in Seq(Container)
  /\ expects \in {"value", "first", "key", "colon", "more"}
  /\ expects \in {"first", "key", "colon"} => nesting # <<>>
  /\ expects \in {"key", "colon"} => Head(nesting).type = "object"
  /\ truth \in [collapses : BOOLEAN, repeats : BOOLEAN, escapes : BOOLEAN, broken : BOOLEAN,
                exponent : Nat, mantissa : Nat, unsafe : BOOLEAN]

\* Digits of the exponent, and before it, among the first k characters.
ExponentDigits(n, k) == IF k <= SignEnd(n) THEN 0 ELSE k - SignEnd(n)

MantissaDigits(n, k) ==
  LET minus == IF n.negative /\ k > 0 THEN 1 ELSE 0
  IN  IF k <= WholeEnd(n) THEN k - minus
      ELSE IF k <= FractionEnd(n) THEN k - minus - 1
      ELSE n.whole + n.fraction

PastE(n, k) == n.exponent > 0 /\ k > FractionEnd(n)

\* A value may come next: no number is under way.
BetweenValues == current.type = "none" /\ expects # "more"

NumberStates == [inString : BOOLEAN, escaped : BOOLEAN, inExp : BOOLEAN, expLen : Nat,
                 worst : Nat]

NumberInv ==
  /\ numberScan \in NumberStates
  /\ numberScan.inString <=> InText
  /\ numberScan.escaped <=> InText /\ current.escaping
  /\ BetweenValues \/ InText \/ (InLiteral /\ current.at = 0) => ~numberScan.inExp
  /\ current.type # "number" => numberScan.worst = truth.exponent
  /\ current.type = "number" =>
       LET n == current.literal IN
       /\ numberScan.worst = Larger(truth.exponent, ExponentDigits(n, current.at))
       /\ numberScan.inExp <=> PastE(n, current.at)
       /\ numberScan.inExp => numberScan.expLen = ExponentDigits(n, current.at)

DigitStates == [inString : BOOLEAN, escaped : BOOLEAN, inExp : BOOLEAN, run : Nat,
                worst : Nat]

DigitInv ==
  /\ digitScan \in DigitStates
  /\ digitScan.inString <=> InText
  /\ digitScan.escaped <=> InText /\ current.escaping
  /\ BetweenValues \/ InText => ~digitScan.inExp /\ digitScan.run = 0
  /\ current.type = "word" => digitScan.run = 0
  /\ current.type # "number" => digitScan.worst = truth.mantissa
  /\ current.type = "number" =>
       LET n == current.literal IN
       /\ digitScan.worst = Larger(truth.mantissa, MantissaDigits(n, current.at))
       /\ digitScan.inExp <=> PastE(n, current.at)
       /\ digitScan.run = MantissaDigits(n, current.at)

\* The buffer is what of the literal is written; after it, the literal.
AgreementStates == [inString : BOOLEAN, escaped : BOOLEAN, inNumber : BOOLEAN,
                    buf : Seq(NumberChars), offending : BOOLEAN]

AgreementInv ==
  /\ agreementScan \in AgreementStates
  /\ agreementScan.offending => ~agreementScan.inNumber
  /\ ~agreementScan.offending =>
       /\ agreementScan.inString <=> InText
       /\ agreementScan.escaped <=> InText /\ current.escaping
       /\ BetweenValues \/ InText \/ current.type = "word" => ~agreementScan.inNumber
       /\ current.type = "number" =>
            /\ agreementScan.inNumber <=> current.at > 0
            /\ current.at > 0 => agreementScan.buf = [i \in 1 .. current.at |-> current.text[i]]
  /\ truth.unsafe <=> \/ agreementScan.offending
                      \/ /\ current.type = "none"
                         /\ agreementScan.inNumber /\ agreementScan.buf \in WireUnsafe

\* A key as it is written, and the frame the scan keeps for a container.
RawTo(units, k) == [i \in 1 .. k |-> units[i].char]
Raw(units) == RawTo(units, Len(units))

Frame(c, e) == IF c.type = "object" THEN ObjectFrame({Raw(k) : k \in c.keys}, e) ELSE ArrayFrame

StackOf(open, e) == [i \in DOMAIN open |-> Frame(open[i], i = 1 /\ e)]

KeyExpected == expects \in {"first", "key"}

\* The escapes of the key under way.
EscapeSeen ==
  current.type = "key" /\ (current.escaping \/ \E i \in 1 .. current.at : current.units[i].escape)

\* Keys that mean the same are the same, or one has an escape.
TruthInv ==
  /\ \A i \in DOMAIN nesting :
       /\ nesting[i].means = {Meaning(k) : k \in nesting[i].keys}
       /\ \A k \in nesting[i].keys : Escaped(k) => truth.escapes
  /\ truth.collapses => truth.repeats \/ truth.escapes

Frames == [type : {"obj", "arr"}, seen : SUBSET Seq(STRING), expectKey : BOOLEAN]

KeyStates == [stack : Seq(Frames), inString : BOOLEAN, escaped : BOOLEAN, isKey : BOOLEAN,
              buf : Seq(STRING), bad : BOOLEAN]

KeyInv ==
  /\ keyScan \in KeyStates
  /\ keyScan.bad <=> truth.repeats \/ truth.escapes \/ truth.broken \/ EscapeSeen
  /\ ~keyScan.bad =>
       /\ keyScan.inString <=> InText
       /\ keyScan.isKey <=> current.type = "key"
       /\ keyScan.escaped <=> current.type = "string" /\ current.escaping
       /\ keyScan.stack = StackOf(nesting, KeyExpected)
       /\ current.type = "key" => keyScan.buf = RawTo(current.units, current.at)

WireInv == WriterInv /\ NumberInv /\ DigitInv /\ AgreementInv /\ TruthInv /\ KeyInv

Structural == {ObjectStart, ObjectEnd, ArrayStart, ArrayEnd, Comma, Colon}

\* The characters are all different.
LEMMA CharsDiffer ==
  /\ Quote \notin NumberChars \cup Structural \cup {"a", Backslash}
  /\ Backslash \notin NumberChars \cup Structural \cup {"a"}
  /\ Structural \cap (NumberChars \cup {"a"}) = {}
  /\ "+" # "-" /\ Sign \cap {"1", ".", "e", "a"} = {} /\ "1" # "." /\ "1" # "e" /\ "." # "e"
  /\ ObjectStart # ObjectEnd /\ ObjectStart # ArrayStart /\ ObjectStart # ArrayEnd
  /\ ObjectStart # Comma /\ ObjectStart # Colon
  /\ ObjectEnd # ArrayStart /\ ObjectEnd # ArrayEnd /\ ObjectEnd # Comma /\ ObjectEnd # Colon
  /\ ArrayStart # ArrayEnd /\ ArrayStart # Comma /\ ArrayStart # Colon
  /\ ArrayEnd # Comma /\ ArrayEnd # Colon /\ Comma # Colon
<1> USE DEF NumberChars, Structural, Quote, Backslash, Sign, ObjectStart, ObjectEnd, ArrayStart,
            ArrayEnd, Comma, Colon
<1>1. Quote \notin NumberChars \cup Structural \cup {"a", Backslash}
  BY Zenon
<1>2. Backslash \notin NumberChars \cup Structural \cup {"a"}
  BY Zenon
<1>3. Structural \cap (NumberChars \cup {"a"}) = {}
  BY Zenon
<1>4. "+" # "-" /\ Sign \cap {"1", ".", "e", "a"} = {} /\ "1" # "." /\ "1" # "e" /\ "." # "e"
  BY Zenon
<1>5. /\ ObjectStart # ObjectEnd /\ ObjectStart # ArrayStart /\ ObjectStart # ArrayEnd
      /\ ObjectStart # Comma /\ ObjectStart # Colon
      /\ ObjectEnd # ArrayStart /\ ObjectEnd # ArrayEnd /\ ObjectEnd # Comma
      /\ ObjectEnd # Colon
      /\ ArrayStart # ArrayEnd /\ ArrayStart # Comma /\ ArrayStart # Colon
      /\ ArrayEnd # Comma /\ ArrayEnd # Colon /\ Comma # Colon
  BY Zenon
<1> QED
  BY <1>1, <1>2, <1>3, <1>4, <1>5, Zenon

\* The larger of two counts is one of them and no smaller than either.
LEMMA LargerType ==
  ASSUME NEW x \in Nat, NEW y \in Nat
  PROVE  /\ Larger(x, y) \in Nat /\ x <= Larger(x, y) /\ y <= Larger(x, y)
         /\ Larger(x, y) = x \/ Larger(x, y) = y
         /\ Larger(x, 0) = x
  BY DEF Larger

\* A run of digits grows one at a time.
LEMMA LargerNext ==
  ASSUME NEW x \in Nat, NEW y \in Nat
  PROVE  /\ Larger(Larger(x, y), y + 1) = Larger(x, y + 1)
         /\ Larger(x, y + 1) \in Nat /\ y + 1 \in Nat
  BY DEF Larger

\* The parts of a literal follow each other.
LEMMA LiteralEnds ==
  ASSUME NEW n \in Literal
  PROVE  /\ WholeEnd(n) \in Nat /\ FractionEnd(n) \in Nat /\ SignEnd(n) \in Nat
         /\ NumberEnd(n) \in Nat
         /\ 1 <= WholeEnd(n) /\ WholeEnd(n) <= FractionEnd(n) /\ FractionEnd(n) <= SignEnd(n)
         /\ SignEnd(n) <= NumberEnd(n)
         /\ n.negative => 2 <= WholeEnd(n)
         /\ n.fraction > 0 => FractionEnd(n) = WholeEnd(n) + 1 + n.fraction
         /\ ~(n.fraction > 0) => FractionEnd(n) = WholeEnd(n) /\ n.fraction = 0
         /\ n.exponent = 0 => NumberEnd(n) = FractionEnd(n)
         /\ n.exponent > 0 => SignEnd(n) = FractionEnd(n) + (IF n.sign = "none" THEN 1 ELSE 2)
         /\ WholeEnd(n) = (IF n.negative THEN 1 ELSE 0) + n.whole
         /\ NumberEnd(n) = SignEnd(n) + n.exponent
         /\ n.whole \in Nat /\ n.fraction \in Nat /\ n.exponent \in Nat
  BY DEF Literal, WholeEnd, FractionEnd, SignEnd, NumberEnd

\* What a number literal is written with, and that it begins with a sign or a digit.
LEMMA LiteralText ==
  ASSUME NEW n \in Literal
  PROVE  /\ Written(n) \in Seq(NumberChars) /\ Len(Written(n)) = NumberEnd(n)
         /\ DOMAIN Written(n) = 1 .. NumberEnd(n)
         /\ \A i \in 1 .. NumberEnd(n) : Written(n)[i] \in Sign \cup {"1", ".", "e"}
         /\ Written(n)[1] \in {"-", "1"} /\ NumberEnd(n) >= 1
<1>1. NumberEnd(n) \in Nat /\ NumberEnd(n) >= 1 /\ n.sign \in {"none"} \cup Sign
  BY LiteralEnds DEF Literal
<1>2. Written(n) = [i \in 1 .. NumberEnd(n) |-> Written(n)[i]]
  BY DEF Written
<1>3. ASSUME NEW i \in 1 .. NumberEnd(n) PROVE Written(n)[i] \in Sign \cup {"1", ".", "e"}
  <2>1. Written(n)[i] \in {"-", ".", "e", "1"} \/ (n.sign # "none" /\ Written(n)[i] = n.sign)
    BY DEF Written
  <2> QED
    BY <1>1, <2>1 DEF Sign
<1>4. Written(n)[1] \in {"-", "1"}
  <2>1. 1 \in 1 .. NumberEnd(n) /\ 1 # WholeEnd(n) + 1 /\ 1 # FractionEnd(n) + 1
        /\ 1 # FractionEnd(n) + 2
    BY LiteralEnds
  <2> QED
    BY <2>1 DEF Written
<1>5. Written(n) \in Seq(NumberChars)
  <2>1. Written(n) \in [1 .. NumberEnd(n) -> NumberChars]
    BY <1>2, <1>3 DEF NumberChars
  <2> QED
    BY <1>1, <2>1, SeqDef
<1> QED
  BY <1>1, <1>2, <1>3, <1>4, <1>5

\* What the next character of a literal is.
LEMMA LiteralStep ==
  ASSUME NEW n \in Literal, NEW k \in Nat, k < NumberEnd(n)
  PROVE  LET c == Written(n)[k + 1]
             m(i) == MantissaDigits(n, i)
             x(i) == ExponentDigits(n, i)
         IN  /\ m(k) \in Nat /\ x(k) \in Nat
             /\ \/ /\ ~PastE(n, k) /\ ~PastE(n, k + 1) /\ c \in {"-", "."}
                   /\ m(k + 1) = m(k) /\ x(k + 1) = 0 /\ x(k) = 0
                \/ /\ ~PastE(n, k) /\ ~PastE(n, k + 1) /\ c = "1"
                   /\ m(k + 1) = m(k) + 1 /\ x(k + 1) = 0 /\ x(k) = 0
                \/ /\ ~PastE(n, k) /\ PastE(n, k + 1) /\ c = "e"
                   /\ m(k + 1) = m(k) /\ x(k + 1) = 0 /\ x(k) = 0
                \/ /\ PastE(n, k) /\ PastE(n, k + 1) /\ c \in Sign
                   /\ m(k + 1) = m(k) /\ x(k + 1) = x(k)
                \/ /\ PastE(n, k) /\ PastE(n, k + 1) /\ c = "1"
                   /\ m(k + 1) = m(k) /\ x(k + 1) = x(k) + 1
<1> DEFINE c == Written(n)[k + 1]
<1>1. k + 1 \in 1 .. NumberEnd(n)
  BY LiteralEnds
<1>2. c = IF n.negative /\ k + 1 = 1 THEN "-"
          ELSE IF n.fraction > 0 /\ k + 1 = WholeEnd(n) + 1 THEN "."
          ELSE IF n.exponent > 0 /\ k + 1 = FractionEnd(n) + 1 THEN "e"
          ELSE IF n.exponent > 0 /\ n.sign # "none" /\ k + 1 = FractionEnd(n) + 2 THEN n.sign
          ELSE "1"
  BY <1>1 DEF Written
<1>3. n.negative \in BOOLEAN /\ n.sign \in {"none"} \cup Sign
  BY DEF Literal
<1> HIDE DEF c
<1>4. CASE k < WholeEnd(n)
  <2>1. c = IF n.negative /\ k = 0 THEN "-" ELSE "1"
    BY <1>2, <1>4, LiteralEnds
  <2> QED
    BY <1>3, <1>4, <2>1, LiteralEnds DEF MantissaDigits, ExponentDigits, PastE, c
<1>5. CASE WholeEnd(n) <= k /\ k < FractionEnd(n)
  <2>1. n.fraction > 0 /\ c = IF k = WholeEnd(n) THEN "." ELSE "1"
    BY <1>2, <1>5, LiteralEnds
  <2> QED
    BY <1>3, <1>5, <2>1, LiteralEnds DEF MantissaDigits, ExponentDigits, PastE, c
<1>6. CASE FractionEnd(n) <= k
  <2>1. n.exponent > 0
    BY <1>6, LiteralEnds
  <2>2. c = IF k = FractionEnd(n) THEN "e"
            ELSE IF n.sign # "none" /\ k = FractionEnd(n) + 1 THEN n.sign ELSE "1"
    BY <1>2, <1>6, <2>1, LiteralEnds
  <2>3. MantissaDigits(n, k) = n.whole + n.fraction
        /\ MantissaDigits(n, k + 1) = n.whole + n.fraction
    BY <1>3, <1>6, LiteralEnds DEF MantissaDigits
  <2> QED
    BY <1>3, <1>6, <2>1, <2>2, <2>3, LiteralEnds DEF ExponentDigits, PastE, c, Sign
<1> QED
  BY <1>4, <1>5, <1>6, LiteralEnds

\* At the end of a literal all of its digits have been counted, at its start none.
LEMMA LiteralDigits ==
  ASSUME NEW n \in Literal
  PROVE  /\ MantissaDigits(n, NumberEnd(n)) = n.whole + n.fraction
         /\ ExponentDigits(n, NumberEnd(n)) = n.exponent
         /\ MantissaDigits(n, 0) = 0 /\ ExponentDigits(n, 0) = 0 /\ ~PastE(n, 0)
  BY LiteralEnds DEF MantissaDigits, ExponentDigits, PastE

\* A container or a frame opened on top of the others.
LEMMA Push ==
  ASSUME NEW S, NEW s \in Seq(S), NEW x \in S, NEW t, t = <<x>> \o s
  PROVE  /\ t \in Seq(S) /\ t # <<>> /\ DOMAIN t = 1 .. Len(s) + 1 /\ Len(s) \in Nat
         /\ Head(t) = x /\ t = [i \in 1 .. Len(s) + 1 |-> IF i = 1 THEN x ELSE s[i - 1]]
<1> DEFINE p == <<x>>
<1>1. p \in Seq(S) /\ Len(p) = 1 /\ p[1] = x
  OBVIOUS
<1> DEFINE q == p \o s
<1>8. t = q
  OBVIOUS
<1> HIDE DEF p
<1>2. /\ q \in Seq(S) /\ Len(q) = Len(p) + Len(s)
      /\ \A j \in 1 .. Len(p) + Len(s) : q[j] = IF j <= Len(p) THEN p[j] ELSE s[j - Len(p)]
  BY <1>1, ConcatProperties, Zenon
<1> HIDE DEF q
<1>3. t = [i \in 1 .. Len(t) |-> t[i]] /\ Len(s) \in Nat
  BY <1>2, <1>8
<1>4. Len(t) = Len(s) + 1
  BY <1>1, <1>2, <1>3, <1>8
<1>5. \A i \in 1 .. Len(s) + 1 : t[i] = IF i = 1 THEN x ELSE s[i - 1]
  BY <1>1, <1>2, <1>3, <1>8
<1>6. t = [i \in 1 .. Len(s) + 1 |-> IF i = 1 THEN x ELSE s[i - 1]]
  BY <1>3, <1>4, <1>5
<1>7. t # <<>> /\ DOMAIN t = 1 .. Len(s) + 1 /\ Head(t) = x
  BY <1>2, <1>3, <1>8, <1>4, <1>5
<1> QED
  BY <1>2, <1>3, <1>8, <1>6, <1>7

\* The top one closed.
LEMMA Pop ==
  ASSUME NEW S, NEW s \in Seq(S), s # <<>>
  PROVE  /\ Tail(s) \in Seq(S) /\ DOMAIN Tail(s) = 1 .. Len(s) - 1
         /\ Tail(s) = [i \in 1 .. Len(s) - 1 |-> s[i + 1]]
         /\ Len(s) \in Nat /\ Len(s) >= 1 /\ Head(s) = s[1] /\ DOMAIN s = 1 .. Len(s)
<1> DEFINE t == Tail(s)
<1>1. /\ t \in Seq(S) /\ Len(t) = Len(s) - 1
      /\ \A i \in 1 .. Len(t) : t[i] = s[i + 1]
  BY HeadTailProperties, Zenon
<1> HIDE DEF t
<1>2. Len(s) \in Nat /\ Len(s) >= 1 /\ Head(s) = s[1] /\ DOMAIN s = 1 .. Len(s)
  OBVIOUS
<1>3. DOMAIN t = 1 .. Len(s) - 1 /\ t = [i \in 1 .. Len(s) - 1 |-> s[i + 1]]
  BY <1>1
<1> QED
  BY <1>1, <1>2, <1>3 DEF t

\* The top one changed.
LEMMA Touch ==
  ASSUME NEW S, NEW s \in Seq(S), s # <<>>, NEW x \in S, NEW t, t = [s EXCEPT ![1] = x]
  PROVE  /\ t \in Seq(S) /\ t # <<>> /\ DOMAIN t = DOMAIN s /\ Head(t) = x
         /\ t = [i \in DOMAIN s |-> IF i = 1 THEN x ELSE s[i]]
<1>1. t = [i \in DOMAIN s |-> IF i = 1 THEN x ELSE s[i]]
  OBVIOUS
<1>2. DOMAIN s = 1 .. Len(s) /\ Len(s) \in Nat /\ Len(s) >= 1
  OBVIOUS
<1>3. t \in [1 .. Len(s) -> S]
  BY <1>1, <1>2
<1>4. t \in Seq(S) /\ t # <<>> /\ DOMAIN t = DOMAIN s
  BY <1>2, <1>3, SeqDef
<1>5. Head(t) = x
  BY <1>1, <1>2, <1>4
<1> QED
  BY <1>1, <1>4, <1>5

\* The four shapes of the token under way.
LEMMA Tokens ==
  ASSUME WriterInv
  PROVE  /\ current.type \in {"none", "number", "word", "string", "key"}
         /\ current.type = "none" <=> current = NoToken
         /\ current.type = "number" =>
              /\ current.literal \in WireNumbers /\ current.literal \in Literal
              /\ current.text = Written(current.literal)
              /\ current = [type |-> "number", text |-> current.text, at |-> current.at,
                            literal |-> current.literal]
              /\ Len(current.text) = NumberEnd(current.literal) /\ current.at \in Nat
              /\ current.text \in Seq(NumberChars)
         /\ current.type = "word" =>
              /\ current = [type |-> "word", text |-> current.text, at |-> current.at]
              /\ current.text = <<"a", "e">> /\ Len(current.text) = 2 /\ current.at \in Nat
         /\ InText => /\ current \in TextTokens /\ current.units \in WireStrings
                      /\ current.units \in Seq(Unit) /\ current.at \in Nat
                      /\ current.escaping \in BOOLEAN
<1>1. current \in {NoToken} \cup NumberTokens \cup WordTokens \cup TextTokens
  BY DEF WriterInv
<1>2. CASE current = NoToken
  BY <1>2 DEF NoToken, InText
<1>3. CASE current \in NumberTokens
  <2>1. PICK n \in WireNumbers, i \in Nat :
          current = [type |-> "number", text |-> Written(n), at |-> i, literal |-> n]
    BY <1>3 DEF NumberTokens
  <2>2. n \in Literal
    BY WireAssumption
  <2>3. Written(n) \in Seq(NumberChars) /\ Len(Written(n)) = NumberEnd(n)
    BY <2>2, LiteralText
  <2> QED
    BY <2>1, <2>2, <2>3 DEF NoToken, InText
<1>4. CASE current \in WordTokens
  <2>1. PICK i \in Nat : current = [type |-> "word", text |-> <<"a", "e">>, at |-> i]
    BY <1>4 DEF WordTokens
  <2> QED
    BY <2>1 DEF NoToken, InText
<1>5. CASE current \in TextTokens
  BY <1>5, WireAssumption DEF TextTokens, NoToken, InText
<1> QED
  BY <1>1, <1>2, <1>3, <1>4, <1>5

\* A number being written is at some place of its literal.
LEMMA NumberAt ==
  ASSUME NEW n \in WireNumbers, NEW i \in Nat
  PROVE  LET t == [type |-> "number", text |-> Written(n), at |-> i, literal |-> n]
         IN  t \in NumberTokens /\ t.type = "number" /\ t.at = i /\ t.text = Written(n)
             /\ t.literal = n
  BY DEF NumberTokens

\* Every character the writer writes leaves it inside a well-formed line.
LEMMA WriterStep ==
  ASSUME WriterInv, [WireNext]_wireVars
  PROVE  WriterInv'
<1>1. ASSUME NEW n \in WireNumbers, BeginNumber(n) PROVE WriterInv'
  <2>1. n \in Literal /\ Len(Written(n)) \in Nat
    BY WireAssumption, LiteralText
  <2> DEFINE t == [type |-> "number", text |-> Written(n), at |-> 0, literal |-> n]
  <2>2. t \in NumberTokens /\ t.type = "number" /\ t.at = 0 /\ t.text = Written(n)
    BY NumberAt
  <2>3. current' = t /\ UNCHANGED <<nesting, expects, truth>> /\ ValueMayCome
    BY <1>1 DEF WriterInv, BeginNumber, Begins
  <2> HIDE DEF t
  <2> QED
    BY <2>1, <2>2, <2>3 DEF WriterInv, InLiteral, InText, ValueMayCome
<1>2. CASE BeginWord
  <2> DEFINE t == [type |-> "word", text |-> <<"a", "e">>, at |-> 0]
  <2>1. t \in WordTokens /\ t.type = "word" /\ t.at = 0 /\ Len(t.text) = 2
    BY DEF WordTokens
  <2>2. current' = t /\ UNCHANGED <<nesting, expects, truth>> /\ ValueMayCome
    BY <1>2 DEF WriterInv, BeginWord, Begins
  <2> HIDE DEF t
  <2> QED
    BY <2>1, <2>2 DEF WriterInv, InLiteral, InText, ValueMayCome
<1>3. CASE WriteCharacter
  <2>1. UNCHANGED <<nesting, expects, truth>> /\ InLiteral /\ current.at < Len(current.text)
    BY <1>3 DEF WriterInv, WriteCharacter, InLiteral
  <2>2. /\ current' \in NumberTokens \cup WordTokens
        /\ current'.type = current.type /\ current'.text = current.text
        /\ current'.at = current.at + 1
    <3>1. CASE current.type = "number"
      <4>1. current' = [type |-> "number", text |-> current.text, at |-> current.at + 1,
                        literal |-> current.literal]
        BY <1>3, <3>1, Tokens DEF WriterInv, WriteCharacter
      <4>2. /\ current.literal \in WireNumbers /\ current.text = Written(current.literal)
            /\ current.at + 1 \in Nat
        BY <3>1, Tokens
      <4> HIDE DEF WriterInv
      <4> QED
        BY <3>1, <4>1, <4>2, NumberAt
    <3>2. CASE current.type = "word"
      <4>1. current' = [type |-> "word", text |-> current.text, at |-> current.at + 1]
        BY <1>3, <3>2, Tokens DEF WriterInv, WriteCharacter
      <4>2. current.text = <<"a", "e">> /\ current.at + 1 \in Nat
        BY <3>2, Tokens
      <4>3. current' \in WordTokens
        BY <4>1, <4>2, Zenon DEF WordTokens
      <4> QED
        BY <3>2, <4>1, <4>3
    <3> QED
      BY <2>1, <3>1, <3>2 DEF InLiteral
  <2>3. current.at \in Nat /\ Len(current.text) \in Nat
    BY <2>1, Tokens, LiteralEnds DEF InLiteral
  <2> QED
    BY <2>1, <2>2, <2>3 DEF WriterInv, InLiteral, InText, ValueMayCome
<1>4. CASE EndNumber
  <2>1. current.literal \in Literal
    BY <1>4, Tokens DEF WriterInv, EndNumber
  <2> DEFINE n == current.literal
  <2>2. /\ Larger(truth.exponent, n.exponent) \in Nat
        /\ Larger(truth.mantissa, n.whole + n.fraction) \in Nat
    BY <2>1 DEF WriterInv, Literal, Larger
  <2>3. truth' = [truth EXCEPT !.exponent = Larger(truth.exponent, n.exponent),
                              !.mantissa = Larger(truth.mantissa, n.whole + n.fraction),
                              !.unsafe = truth.unsafe \/ Written(n) \in WireUnsafe]
    BY <1>4 DEF WriterInv, EndNumber
  <2> HIDE DEF n
  <2> QED
    BY <1>4, <2>2, <2>3 DEF WriterInv, EndNumber, NoToken, InLiteral, InText
<1>5. CASE EndWord
  BY <1>5 DEF WriterInv, EndWord, NoToken, InLiteral, InText
<1>6. ASSUME NEW s \in WireStrings, BeginString(s) \/ BeginKey(s) PROVE WriterInv'
  <2>1. PICK type \in {"string", "key"} :
          /\ current' = StringToken(type, s)
          /\ type = "string" => ValueMayCome
          /\ type = "key" => KeyMayCome
    BY <1>6 DEF WriterInv, BeginString, BeginKey, Begins
  <2>2. UNCHANGED <<nesting, expects, truth>>
    BY <1>6 DEF BeginString, BeginKey
  <2>3. /\ StringToken(type, s) \in TextTokens
        /\ StringToken(type, s).at = 0 /\ ~StringToken(type, s).escaping
        /\ StringToken(type, s).type = type /\ StringToken(type, s).units = s
    BY DEF StringToken, TextTokens
  <2>4. Len(s) \in Nat
    BY WireAssumption
  <2> QED
    BY <2>1, <2>2, <2>3, <2>4 DEF WriterInv, InLiteral, InText, ValueMayCome, KeyMayCome
<1>7. CASE WriteBackslash \/ WriteUnit
  <2>1. /\ InText /\ UNCHANGED <<nesting, expects, truth>> /\ current.at < Len(current.units)
        /\ current \in TextTokens /\ Len(current.units) \in Nat
    BY <1>7, Tokens DEF WriterInv, WriteBackslash, WriteUnit
  <2>2. /\ current' \in TextTokens /\ current'.type = current.type
        /\ current'.units = current.units /\ current'.at <= Len(current.units)
        /\ current'.escaping => /\ current'.at < Len(current.units)
                                /\ current.units[current'.at + 1].escape
    <3>1. CASE WriteBackslash
      <4>1. current' = [type |-> current.type, units |-> current.units, at |-> current.at,
                        escaping |-> TRUE]
        BY <2>1, <3>1 DEF WriteBackslash, TextTokens
      <4>2. current.units[current.at + 1].escape
        BY <3>1 DEF WriteBackslash
      <4>3. current' \in TextTokens
        BY <2>1, <4>1 DEF TextTokens
      <4>4. /\ current'.type = current.type /\ current'.units = current.units
            /\ current'.at = current.at
        BY <4>1
      <4>5. current.at <= Len(current.units)
        BY <2>1 DEF TextTokens
      <4> QED
        BY <2>1, <4>2, <4>3, <4>4, <4>5, Zenon
    <3>2. CASE WriteUnit
      <4>1. current' = [type |-> current.type, units |-> current.units, at |-> current.at + 1,
                        escaping |-> FALSE]
        BY <2>1, <3>2 DEF WriteUnit, TextTokens
      <4> QED
        BY <2>1, <4>1 DEF TextTokens
    <3> QED
      BY <1>7, <3>1, <3>2
  <2> QED
    BY <2>1, <2>2 DEF WriterInv, InLiteral, InText, ValueMayCome, KeyMayCome
<1>8. CASE EndString
  BY <1>8 DEF WriterInv, EndString, NoToken, InLiteral, InText
<1>9. CASE EndKey
  <2> DEFINE s == current.units
             c == [nesting[1] EXCEPT !.means = @ \cup {Meaning(s)}, !.keys = @ \cup {s}]
  <2>1. /\ s \in WireStrings /\ s \in Seq(Unit) /\ KeyMayCome
        /\ nesting # <<>> /\ Head(nesting).type = "object" /\ Head(nesting) = nesting[1]
        /\ nesting[1] \in Container /\ nesting \in Seq(Container)
    BY <1>9, Tokens DEF WriterInv, EndKey, InText, KeyMayCome
  <2>2. Meaning(s) \in {Meaning(k) : k \in WireStrings}
    BY <2>1
  <2>3. c \in Container /\ c.type = "object"
    BY <2>1, <2>2 DEF Container
  <2>4. nesting' = [nesting EXCEPT ![1] = c]
    BY <1>9 DEF WriterInv, EndKey
  <2>5. truth' \in [collapses : BOOLEAN, repeats : BOOLEAN, escapes : BOOLEAN, broken : BOOLEAN,
                    exponent : Nat, mantissa : Nat, unsafe : BOOLEAN]
    BY <1>9 DEF WriterInv, EndKey
  <2>6. current' = NoToken /\ expects' = "colon"
    BY <1>9 DEF WriterInv, EndKey
  <2> HIDE DEF c, s
  <2>7. nesting' \in Seq(Container) /\ nesting' # <<>> /\ Head(nesting') = c
    <3>1. nesting \in Seq(Container) /\ nesting # <<>> /\ c \in Container
      BY <2>1, <2>3
    <3> QED
      BY ONLY <2>4, <3>1, Touch
  <2> QED
    BY <2>3, <2>5, <2>6, <2>7 DEF WriterInv, NoToken, InLiteral, InText
<1>10. CASE WriteColon
  BY <1>10 DEF WriterInv, WriteColon, NoToken, InLiteral, InText
<1>11. ASSUME NEW type \in {"object", "array"}, WriteOpen(type) PROVE WriterInv'
  <2> DEFINE c == [type |-> type, means |-> {}, keys |-> {}]
  <2>1. c \in Container
    BY DEF Container
  <2>2. /\ nesting' = <<c>> \o nesting /\ expects' = "first" /\ current' = NoToken
        /\ truth' = truth
    BY <1>11 DEF WriteOpen, Begins
  <2> HIDE DEF c
  <2>3. nesting' \in Seq(Container) /\ nesting' # <<>>
    <3>1. nesting \in Seq(Container)
      BY DEF WriterInv
    <3> QED
      BY ONLY <2>1, <2>2, <3>1, Push
  <2> QED
    BY <2>2, <2>3 DEF WriterInv, NoToken, InLiteral, InText
<1>12. ASSUME NEW type \in {"object", "array"}, WriteClose(type) PROVE WriterInv'
  <2>1. expects' = "more" /\ current' = NoToken
    BY <1>12 DEF WriterInv, WriteClose, Begins
  <2>2. nesting' \in Seq(Container)
    <3>1. nesting \in Seq(Container)
      BY DEF WriterInv
    <3>2. nesting' = nesting \/ (nesting # <<>> /\ nesting' = Tail(nesting))
      BY <1>12, Zenon DEF WriteClose
    <3> QED
      BY <3>1, <3>2, Pop, Zenon
  <2>3. truth' \in [collapses : BOOLEAN, repeats : BOOLEAN, escapes : BOOLEAN, broken : BOOLEAN,
                    exponent : Nat, mantissa : Nat, unsafe : BOOLEAN]
    BY <1>12 DEF WriterInv, WriteClose
  <2> QED
    BY <2>1, <2>2, <2>3 DEF WriterInv, NoToken, InLiteral, InText
<1>13. CASE WriteComma
  BY <1>13 DEF WriterInv, WriteComma, Begins, NoToken, InLiteral, InText
<1>14. CASE EndLine
  BY <1>14 DEF WriterInv, EndLine, NoToken, InLiteral, InText
<1>15. CASE UNCHANGED wireVars
  BY <1>15 DEF WriterInv, wireVars, InLiteral, InText, ValueMayCome, KeyMayCome
<1> QED
  BY <1>1, <1>2, <1>3, <1>4, <1>5, <1>6, <1>7, <1>8, <1>9, <1>10, <1>11, <1>12, <1>13, <1>14,
     <1>15 DEF WireNext

\* What a step does to the token and to the four scans: it feeds one character
\* or none.
LEMMA FedQuote ==
  ASSUME WriterInv, NEW s \in WireStrings, BeginString(s) \/ BeginKey(s)
  PROVE  /\ Feed(Quote) /\ UNCHANGED <<nesting, expects, truth>> /\ current.type = "none" /\ ~InText
         /\ current'.type \in {"string", "key"} /\ current'.at = 0 /\ current'.escaping = FALSE
         /\ current'.units = s /\ InText' /\ current'.type \notin {"none", "number", "word"}
         /\ current'.type = "string" => ValueMayCome
         /\ current'.type = "key" => KeyMayCome
<1>1. PICK type \in {"string", "key"} :
        /\ current' = StringToken(type, s) /\ current = NoToken
        /\ type = "string" => ValueMayCome
        /\ type = "key" => KeyMayCome
  BY DEF BeginString, BeginKey, Begins
<1>2. Feed(Quote) /\ UNCHANGED <<nesting, expects, truth>>
  BY DEF BeginString, BeginKey
<1> QED
  BY <1>1, <1>2 DEF StringToken, NoToken, InText

\* A structural character is written between tokens.
LEMMA FedStructural ==
  ASSUME WriterInv,
         \/ WriteColon \/ WriteComma
         \/ \E type \in {"object", "array"} : WriteOpen(type) \/ WriteClose(type)
  PROVE  /\ \E c \in Structural : Feed(c)
         /\ current.type = "none" /\ current'.type = "none" /\ ~InText /\ ~InText'
         /\ UNCHANGED <<truth.exponent, truth.mantissa, truth.unsafe>>
<1>1. current = NoToken /\ current' = NoToken
  BY DEF WriteColon, WriteComma, WriteOpen, WriteClose, Begins
<1>2. \E c \in Structural : Feed(c)
  BY Zenon DEF WriteColon, WriteComma, WriteOpen, WriteClose, Structural
<1>3. UNCHANGED <<truth.exponent, truth.mantissa, truth.unsafe>>
  BY DEF WriterInv, WriteColon, WriteComma, WriteOpen, WriteClose
<1> QED
  BY <1>1, <1>2, <1>3 DEF NoToken, InText

\* The closing quote of a string or a key.
LEMMA FedClosing ==
  ASSUME WriterInv, EndString \/ EndKey
  PROVE  /\ Feed(Quote) /\ InText /\ ~current.escaping /\ current.type \in {"string", "key"}
         /\ current'.type = "none" /\ ~InText' /\ expects' \in {"more", "colon"}
         /\ UNCHANGED <<truth.exponent, truth.mantissa, truth.unsafe>>
<1>1. /\ InText /\ current.type \in {"string", "key"} /\ current.at = Len(current.units)
      /\ Feed(Quote) /\ current' = NoToken /\ expects' \in {"more", "colon"}
  BY DEF EndString, EndKey, InText
<1>2. ~current.escaping
  BY <1>1, Tokens DEF WriterInv
<1>3. UNCHANGED <<truth.exponent, truth.mantissa, truth.unsafe>>
  BY DEF WriterInv, EndString, EndKey
<1> QED
  BY <1>1, <1>2, <1>3 DEF NoToken, InText

\* A character of a string or a key.
LEMMA FedText ==
  ASSUME WriterInv, WriteBackslash \/ WriteUnit
  PROVE  /\ InText /\ InText' /\ UNCHANGED <<nesting, expects, truth>>
         /\ current'.type = current.type /\ current'.units = current.units
         /\ current.type \in {"string", "key"} /\ current.escaping \in BOOLEAN
         /\ current.units \in WireStrings /\ current.units \in Seq(Unit)
         /\ current.at \in Nat /\ current.at < Len(current.units)
         /\ \/ /\ Feed(Backslash) /\ current'.at = current.at
               /\ ~current.escaping /\ current'.escaping = TRUE
               /\ current.units[current.at + 1].escape = TRUE
            \/ /\ Feed(current.units[current.at + 1].char) /\ current'.at = current.at + 1
               /\ current'.escaping = FALSE
               /\ current.units[current.at + 1].escape = current.escaping
               /\ ~current.escaping => current.units[current.at + 1].char \notin {Quote, Backslash}
<1>1. /\ InText /\ UNCHANGED <<nesting, expects, truth>> /\ current.at < Len(current.units)
      /\ current.type \in {"string", "key"}
  BY DEF WriteBackslash, WriteUnit, InText
<1>2. /\ current \in TextTokens /\ current.units \in WireStrings
      /\ current.units \in Seq(Unit) /\ current.at \in Nat /\ current.escaping \in BOOLEAN
  BY <1>1, Tokens
<1>3. CASE WriteBackslash
  <2>1. Feed(Backslash) /\ ~current.escaping /\ current.units[current.at + 1].escape
    BY <1>3 DEF WriteBackslash
  <2>2. current' = [type |-> current.type, units |-> current.units, at |-> current.at,
                    escaping |-> TRUE]
    BY <1>2, <1>3 DEF WriteBackslash, TextTokens
  <2>3. current.units[current.at + 1] \in Unit
    BY <1>1, <1>2
  <2>4. current.units[current.at + 1].escape = TRUE
    BY <2>1, <2>3 DEF Unit
  <2> QED
    BY <1>1, <1>2, <2>1, <2>2, <2>4 DEF InText
<1>4. CASE WriteUnit
  <2>1. Feed(current.units[current.at + 1].char)
        /\ current.units[current.at + 1].escape = current.escaping
    BY <1>4 DEF WriteUnit
  <2>2. current' = [type |-> current.type, units |-> current.units, at |-> current.at + 1,
                    escaping |-> FALSE]
    BY <1>2, <1>4 DEF WriteUnit, TextTokens
  <2>3. current.at + 1 \in DOMAIN current.units
    BY <1>1, <1>2
  <2>4. ~current.escaping => current.units[current.at + 1].char \notin {Quote, Backslash}
    BY <1>2, <2>1, <2>3, WireAssumption, Zenon
  <2> QED
    BY <1>1, <1>2, <2>1, <2>2, <2>4 DEF InText
<1> QED
  BY <1>3, <1>4

\* A character of a number or of a word.
LEMMA FedLiteral ==
  ASSUME WriterInv, WriteCharacter
  PROVE  /\ UNCHANGED <<nesting, expects, truth>> /\ ~InText /\ ~InText'
         /\ current'.type = current.type /\ current'.text = current.text
         /\ current'.at = current.at + 1 /\ current.at \in Nat /\ ValueMayCome
         /\ \/ /\ current.type = "number" /\ current'.literal = current.literal
               /\ current.at < NumberEnd(current.literal)
               /\ current.text = Written(current.literal)
               /\ Feed(Written(current.literal)[current.at + 1])
            \/ /\ current.type = "word"
               /\ (current.at = 0 /\ Feed("a")) \/ (current.at = 1 /\ Feed("e"))
<1>1. /\ current.type \in {"number", "word"} /\ current.at < Len(current.text)
      /\ UNCHANGED <<nesting, expects, truth>> /\ Feed(current.text[current.at + 1])
      /\ ValueMayCome
  BY DEF WriterInv, InLiteral, WriteCharacter
<1>2. CASE current.type = "number"
  <2>1. current' = [type |-> "number", text |-> current.text, at |-> current.at + 1,
                    literal |-> current.literal]
    BY <1>2, Tokens DEF WriteCharacter
  <2> QED
    BY <1>1, <1>2, <2>1, Tokens DEF InText
<1>3. CASE current.type = "word"
  <2>1. current' = [type |-> "word", text |-> current.text, at |-> current.at + 1]
    BY <1>3, Tokens DEF WriteCharacter
  <2>2. /\ current.at \in Nat /\ current.text = <<"a", "e">> /\ current.at \in {0, 1}
    BY <1>1, <1>3, Tokens
  <2>3. \/ current.at = 0 /\ current.text[current.at + 1] = "a"
        \/ current.at = 1 /\ current.text[current.at + 1] = "e"
    BY <2>2
  <2>4. (current.at = 0 /\ Feed("a")) \/ (current.at = 1 /\ Feed("e"))
    BY <1>1, <2>3, Zenon
  <2> QED
    BY <1>1, <1>3, <2>1, <2>2, <2>4 DEF InText
<1> QED
  BY <1>1, <1>2, <1>3
\* A token is begun, a number or a word ends, or the line does: no character is read.
LEMMA Silent ==
  ASSUME WriterInv,
         \/ \E n \in WireNumbers : BeginNumber(n)
         \/ BeginWord \/ EndNumber \/ EndWord \/ EndLine \/ UNCHANGED wireVars
  PROVE  /\ UNCHANGED scanVars
         /\ \/ /\ current.type = "none" /\ ~InText /\ ~InText' /\ UNCHANGED <<nesting, truth>>
               /\ BetweenValues /\ current'.at = 0 /\ InLiteral'
               /\ \/ /\ current'.type = "number" /\ current'.literal \in Literal
                     /\ current'.text = Written(current'.literal)
                  \/ current'.type = "word"
            \/ /\ current.type = "number" /\ EndNumber /\ current.literal \in Literal
               /\ current.at = NumberEnd(current.literal) /\ ~InText /\ ~InText'
               /\ current.text = Written(current.literal)
               /\ current'.type = "none" /\ ~BetweenValues' /\ UNCHANGED nesting
            \/ /\ current.type = "word" /\ current'.type = "none" /\ ~BetweenValues'
               /\ ~InText /\ ~InText' /\ UNCHANGED <<nesting, truth>>
            \/ UNCHANGED <<current, nesting, expects, truth>>
<1>1. ASSUME NEW n \in WireNumbers, BeginNumber(n)
      PROVE  /\ current = NoToken /\ UNCHANGED <<scanVars, nesting, truth>> /\ ValueMayCome
             /\ current' = [type |-> "number", text |-> Written(n), at |-> 0, literal |-> n]
             /\ n \in Literal
  BY <1>1, WireAssumption DEF BeginNumber, Begins
<1>2. CASE BeginWord
  <2>1. /\ current = NoToken /\ UNCHANGED <<scanVars, nesting, truth>> /\ ValueMayCome
        /\ current' = [type |-> "word", text |-> <<"a", "e">>, at |-> 0]
    BY <1>2 DEF BeginWord, Begins
  <2> QED
    BY <2>1 DEF NoToken, InText, InLiteral, BetweenValues, ValueMayCome
<1>3. CASE EndNumber
  <2>1. /\ current.type = "number" /\ current.at = Len(current.text) /\ current' = NoToken
        /\ expects' = "more" /\ UNCHANGED <<scanVars, nesting>>
    BY <1>3 DEF EndNumber
  <2> QED
    BY <1>3, <2>1, Tokens DEF NoToken, InText, InLiteral, BetweenValues
<1>4. CASE EndWord
  BY <1>4 DEF EndWord, NoToken, InText, InLiteral, BetweenValues
<1>5. CASE EndLine \/ UNCHANGED wireVars
  BY <1>5 DEF EndLine, wireVars
<1>6. ASSUME NEW n \in WireNumbers, BeginNumber(n)
      PROVE  /\ UNCHANGED <<scanVars, nesting, truth>> /\ current.type = "none"
             /\ ~InText /\ ~InText' /\ BetweenValues /\ current'.at = 0 /\ InLiteral'
             /\ current'.type = "number" /\ current'.literal \in Literal
             /\ current'.text = Written(current'.literal)
  BY <1>1, <1>6 DEF NoToken, InText, InLiteral, BetweenValues, ValueMayCome
<1> QED
  BY <1>2, <1>3, <1>4, <1>5, <1>6

\* The scan of exponents keeps up with the writer.
LEMMA NumberStep ==
  ASSUME WriterInv, NumberInv, [WireNext]_wireVars
  PROVE  NumberInv'
<1>0. numberScan \in NumberStates /\ truth.exponent \in Nat
  BY DEF NumberInv, WriterInv
<1>1. CASE \/ \E n \in WireNumbers : BeginNumber(n)
           \/ BeginWord \/ EndNumber \/ EndWord \/ EndLine \/ UNCHANGED wireVars
  <2>1. numberScan' = numberScan
    BY <1>1, Silent DEF scanVars
  <2>2. CASE BetweenValues /\ UNCHANGED truth /\ current'.type = "word" /\ InLiteral'
             /\ ~InText /\ ~InText' /\ current.type = "none"
    BY <2>1, <2>2 DEF NumberInv, BetweenValues, InLiteral
  <2>3. CASE BetweenValues /\ UNCHANGED truth /\ current'.type = "number" /\ InLiteral'
             /\ ~InText /\ ~InText' /\ current.type = "none" /\ current'.at = 0
             /\ current'.literal \in Literal
    BY <1>0, <2>1, <2>3, LiteralDigits, LargerType DEF NumberInv, BetweenValues, InLiteral
  <2>4. CASE /\ current.type = "number" /\ EndNumber /\ current.literal \in Literal
             /\ current.at = NumberEnd(current.literal) /\ ~InText /\ ~InText'
             /\ current'.type = "none" /\ ~BetweenValues'
    <3>1. truth'.exponent = Larger(truth.exponent, current.literal.exponent)
      BY <2>4 DEF EndNumber, WriterInv
    <3> QED
      BY <1>0, <2>1, <2>4, <3>1, LiteralDigits DEF NumberInv, InLiteral
  <2>5. CASE /\ current.type = "word" /\ current'.type = "none" /\ ~BetweenValues'
             /\ ~InText /\ ~InText' /\ UNCHANGED truth
    BY <2>1, <2>5 DEF NumberInv, InLiteral
  <2>6. CASE UNCHANGED <<current, nesting, expects, truth>>
    BY <2>1, <2>6 DEF NumberInv, InText, InLiteral, BetweenValues
  <2> QED
    BY <1>1, <2>2, <2>3, <2>4, <2>5, <2>6, Silent
<1>2. ASSUME NEW s \in WireStrings, BeginString(s) \/ BeginKey(s) PROVE NumberInv'
  <2>1. numberScan' = [numberScan EXCEPT !.inString = TRUE, !.inExp = FALSE, !.expLen = 0]
    BY <1>0, <1>2, FedQuote DEF NumberStates, NumberInv, Feed, numberScanStep
  <2>2. /\ numberScan' \in NumberStates /\ numberScan'.inString /\ ~numberScan'.inExp
        /\ numberScan'.escaped = numberScan.escaped /\ numberScan'.worst = numberScan.worst
    BY <1>0, <2>1 DEF NumberStates
  <2> QED
    BY <1>2, <2>2, FedQuote, Zenon DEF NumberInv, BetweenValues, InLiteral
<1>3. CASE WriteCharacter
  <2>1. CASE current.type = "number"
    <3> DEFINE n == current.literal
               k == current.at
               c == Written(n)[k + 1]
               x(i) == ExponentDigits(n, i)
               m(i) == MantissaDigits(n, i)
    <3>1. n \in Literal /\ k \in Nat /\ k < NumberEnd(n)
      BY <1>3, <2>1, FedLiteral, Tokens
    <3>2. numberScan' = numberScanStep(numberScan, c)
      BY <1>3, <2>1, FedLiteral DEF Feed
    <3>3. /\ numberScan.inString = FALSE /\ numberScan.worst = Larger(truth.exponent, x(k))
          /\ numberScan.inExp <=> PastE(n, k)
          /\ numberScan.inExp => numberScan.expLen = x(k)
      BY <1>3, <2>1, FedLiteral DEF NumberInv
    <3>4. /\ current'.type = "number" /\ current'.literal = n /\ current'.at = k + 1
          /\ truth' = truth /\ ~InText /\ ~InText'
      BY <1>3, <2>1, FedLiteral
    <3>5. x(k) \in Nat
          /\ \/ /\ ~PastE(n, k) /\ ~PastE(n, k + 1) /\ c \in {"-", "."}
                /\ x(k + 1) = 0 /\ x(k) = 0
             \/ /\ ~PastE(n, k) /\ ~PastE(n, k + 1) /\ c = "1"
                /\ x(k + 1) = 0 /\ x(k) = 0
             \/ /\ ~PastE(n, k) /\ PastE(n, k + 1) /\ c = "e"
                /\ x(k + 1) = 0 /\ x(k) = 0
             \/ /\ PastE(n, k) /\ PastE(n, k + 1) /\ c \in Sign
                /\ x(k + 1) = x(k)
             \/ /\ PastE(n, k) /\ PastE(n, k + 1) /\ c = "1"
                /\ x(k + 1) = x(k) + 1
      BY <3>1, LiteralStep
    <3>6. c # Quote
      BY <3>5, CharsDiffer DEF NumberChars, Sign
    <3> HIDE DEF c, x, m, n, k
    <3>7. /\ numberScan' \in NumberStates /\ numberScan'.inString = FALSE
          /\ numberScan'.escaped = numberScan.escaped
          /\ numberScan'.worst = Larger(truth.exponent, x(k + 1))
          /\ numberScan'.inExp <=> PastE(n, k + 1)
          /\ numberScan'.inExp => numberScan'.expLen = x(k + 1)
      <4>1. CASE ~PastE(n, k) /\ ~PastE(n, k + 1) /\ x(k) = 0 /\ x(k + 1) = 0 /\ c # "e"
        <5>1. numberScan' = numberScan
          BY <3>2, <3>3, <3>6, <4>1 DEF numberScanStep
        <5> QED
          BY <1>0, <3>3, <4>1, <5>1
      <4>2. CASE ~PastE(n, k) /\ PastE(n, k + 1) /\ x(k) = 0 /\ x(k + 1) = 0 /\ c = "e"
        <5>1. numberScan' = [numberScan EXCEPT !.inExp = TRUE, !.expLen = 0]
          BY <3>2, <3>3, <3>6, <4>2 DEF numberScanStep
        <5> QED
          BY <1>0, <3>3, <4>2, <5>1 DEF NumberStates
      <4>3. CASE PastE(n, k) /\ PastE(n, k + 1) /\ x(k + 1) = x(k) /\ c \in Sign
        <5>1. numberScan' = numberScan
          BY <3>2, <3>3, <3>6, <4>3 DEF numberScanStep
        <5> QED
          BY <1>0, <3>3, <4>3, <5>1
      <4>4. CASE PastE(n, k) /\ PastE(n, k + 1) /\ x(k + 1) = x(k) + 1 /\ c = "1"
        <5>1. c # "e" /\ c \notin Sign
          BY <4>4, CharsDiffer
        <5>0. numberScan.inExp /\ numberScan.expLen = x(k)
          BY <3>3, <4>4
        <5>2. numberScan' = [numberScan EXCEPT !.expLen = @ + 1,
                                               !.worst = Larger(@, numberScan.expLen + 1)]
          BY <3>2, <3>3, <3>6, <4>4, <5>0, <5>1 DEF numberScanStep
        <5>3. Larger(numberScan.worst, x(k) + 1) = Larger(truth.exponent, x(k) + 1)
              /\ Larger(truth.exponent, x(k) + 1) \in Nat /\ x(k) + 1 \in Nat
          <6> DEFINE t == truth.exponent
                     l == x(k)
          <6>1. t \in Nat /\ l \in Nat /\ numberScan.worst = Larger(t, l)
            BY <1>0, <3>3, <3>5
          <6> HIDE DEF t, l
          <6>2. Larger(Larger(t, l), l + 1) = Larger(t, l + 1) /\ Larger(t, l + 1) \in Nat /\ l + 1 \in Nat
            BY ONLY <6>1, LargerNext, Zenon
          <6> QED
            BY <6>1, <6>2 DEF t, l
        <5> QED
          BY <1>0, <3>3, <4>4, <5>0, <5>2, <5>3 DEF NumberStates
      <4>5. c \in {"-", "."} \/ c = "1" => c # "e"
        BY CharsDiffer DEF Sign
      <4> QED
        BY <3>5, <4>1, <4>2, <4>3, <4>4, <4>5
    <3>8. n = current.literal /\ current'.at # 0 /\ current'.at = k + 1
      BY <3>1, <3>4 DEF n, k
    <3> QED
      BY <3>4, <3>7, <3>8 DEF NumberInv, InLiteral, BetweenValues, x
  <2>2. CASE current.type = "word"
    <3>1. numberScan' = numberScanStep(numberScan, IF current.at = 0 THEN "a" ELSE "e")
      BY <1>3, <2>2, FedLiteral DEF Feed
    <3>2. /\ current.at = 0 => numberScan' = numberScan
          /\ numberScan' \in NumberStates /\ numberScan'.worst = numberScan.worst
          /\ numberScan'.inString = numberScan.inString
          /\ numberScan'.escaped = numberScan.escaped
      BY <1>0, <1>3, <2>2, <3>1, FedLiteral, CharsDiffer
      DEF NumberStates, NumberInv, numberScanStep, Sign, InLiteral, NumberChars
    <3> QED
      BY <1>0, <1>3, <2>2, <3>2, FedLiteral DEF NumberInv, InLiteral, BetweenValues
  <2> QED
    BY <1>3, <2>1, <2>2, FedLiteral
<1>4. CASE WriteBackslash \/ WriteUnit
  <2>1. /\ numberScan' \in NumberStates /\ numberScan'.inString = TRUE
        /\ numberScan'.escaped = current'.escaping
        /\ numberScan'.worst = numberScan.worst /\ numberScan'.inExp = numberScan.inExp
    BY <1>0, <1>4, FedText, CharsDiffer DEF NumberStates, NumberInv, Feed, numberScanStep, InString
  <2> QED
    BY <1>4, <2>1, FedText DEF NumberInv, BetweenValues, InLiteral
<1>5. CASE EndString \/ EndKey
  <2>1. numberScan' = [numberScan EXCEPT !.inString = FALSE]
    BY <1>0, <1>5, FedClosing, CharsDiffer DEF NumberStates, NumberInv, Feed, numberScanStep, InString
  <2>2. /\ numberScan' \in NumberStates /\ ~numberScan'.inString
        /\ numberScan'.inExp = numberScan.inExp
        /\ numberScan'.escaped = numberScan.escaped /\ numberScan'.worst = numberScan.worst
    BY <1>0, <2>1 DEF NumberStates
  <2> QED
    BY <1>5, <2>2, FedClosing DEF NumberInv, BetweenValues, InLiteral
<1>6. CASE \/ WriteColon \/ WriteComma
           \/ \E type \in {"object", "array"} : WriteOpen(type) \/ WriteClose(type)
  <2>1. PICK c \in Structural : numberScan' = numberScanStep(numberScan, c)
    BY <1>6, FedStructural DEF Feed
  <2>2. numberScan' = [numberScan EXCEPT !.inExp = FALSE, !.expLen = 0]
        \/ (numberScan' = numberScan /\ ~numberScan.inExp)
    BY <1>0, <1>6, <2>1, FedStructural, CharsDiffer
    DEF NumberStates, NumberInv, numberScanStep, NumberChars
  <2>3. /\ numberScan' \in NumberStates /\ ~numberScan'.inExp
        /\ numberScan'.inString = numberScan.inString
        /\ numberScan'.escaped = numberScan.escaped /\ numberScan'.worst = numberScan.worst
    <3>1. CASE numberScan' = [numberScan EXCEPT !.inExp = FALSE, !.expLen = 0]
      BY <1>0, <3>1 DEF NumberStates
    <3>2. CASE numberScan' = numberScan /\ ~numberScan.inExp
      BY <1>0, <3>2
    <3> QED
      BY <2>2, <3>1, <3>2
  <2> QED
    BY <1>6, <2>3, FedStructural DEF NumberInv, BetweenValues, InLiteral
<1> QED
  BY <1>1, <1>2, <1>3, <1>4, <1>5, <1>6 DEF WireNext
\* The scan of digits keeps up with the writer.
LEMMA DigitStep ==
  ASSUME WriterInv, DigitInv, [WireNext]_wireVars
  PROVE  DigitInv'
<1>0. digitScan \in DigitStates /\ truth.mantissa \in Nat
  BY DEF DigitInv, WriterInv
<1>1. CASE \/ \E n \in WireNumbers : BeginNumber(n)
           \/ BeginWord \/ EndNumber \/ EndWord \/ EndLine \/ UNCHANGED wireVars
  <2>1. digitScan' = digitScan
    BY <1>1, Silent DEF scanVars
  <2>2. CASE BetweenValues /\ UNCHANGED truth /\ current'.type = "word" /\ InLiteral'
             /\ ~InText /\ ~InText' /\ current.type = "none"
    BY <2>1, <2>2 DEF DigitInv, BetweenValues, InLiteral
  <2>3. CASE BetweenValues /\ UNCHANGED truth /\ current'.type = "number" /\ InLiteral'
             /\ ~InText /\ ~InText' /\ current.type = "none" /\ current'.at = 0
             /\ current'.literal \in Literal
    BY <1>0, <2>1, <2>3, LiteralDigits, LargerType DEF DigitInv, BetweenValues, InLiteral
  <2>4. CASE /\ current.type = "number" /\ EndNumber /\ current.literal \in Literal
             /\ current.at = NumberEnd(current.literal) /\ ~InText /\ ~InText'
             /\ current'.type = "none" /\ ~BetweenValues'
    <3>1. truth'.mantissa = Larger(truth.mantissa,
                                   current.literal.whole + current.literal.fraction)
      BY <2>4 DEF EndNumber, WriterInv
    <3> QED
      BY <1>0, <2>1, <2>4, <3>1, LiteralDigits DEF DigitInv, InLiteral
  <2>5. CASE /\ current.type = "word" /\ current'.type = "none" /\ ~BetweenValues'
             /\ ~InText /\ ~InText' /\ UNCHANGED truth
    BY <2>1, <2>5 DEF DigitInv, InLiteral
  <2>6. CASE UNCHANGED <<current, nesting, expects, truth>>
    BY <2>1, <2>6 DEF DigitInv, InText, InLiteral, BetweenValues
  <2> QED
    BY <1>1, <2>2, <2>3, <2>4, <2>5, <2>6, Silent
<1>2. ASSUME NEW s \in WireStrings, BeginString(s) \/ BeginKey(s) PROVE DigitInv'
  <2>1. digitScan' = [digitScan EXCEPT !.inString = TRUE, !.inExp = FALSE, !.run = 0]
    BY <1>0, <1>2, FedQuote DEF DigitStates, DigitInv, Feed, digitScanStep
  <2>2. /\ digitScan' \in DigitStates /\ digitScan'.inString /\ ~digitScan'.inExp
        /\ digitScan'.run = 0
        /\ digitScan'.escaped = digitScan.escaped /\ digitScan'.worst = digitScan.worst
    BY <1>0, <2>1 DEF DigitStates
  <2> QED
    BY <1>2, <2>2, FedQuote, Zenon DEF DigitInv, BetweenValues, InLiteral
<1>3. CASE WriteCharacter
  <2>1. CASE current.type = "number"
    <3> DEFINE n == current.literal
               k == current.at
               c == Written(n)[k + 1]
               m(i) == MantissaDigits(n, i)
               x(i) == ExponentDigits(n, i)
    <3>1. n \in Literal /\ k \in Nat /\ k < NumberEnd(n)
      BY <1>3, <2>1, FedLiteral, Tokens
    <3>2. digitScan' = digitScanStep(digitScan, c)
      BY <1>3, <2>1, FedLiteral DEF Feed
    <3>3. /\ digitScan.inString = FALSE /\ digitScan.worst = Larger(truth.mantissa, m(k))
          /\ digitScan.inExp <=> PastE(n, k)
          /\ digitScan.run = m(k)
      BY <1>0, <1>3, <2>1, FedLiteral DEF DigitInv, DigitStates
    <3>4. /\ current'.type = "number" /\ current'.literal = n /\ current'.at = k + 1
          /\ truth' = truth /\ ~InText /\ ~InText'
      BY <1>3, <2>1, FedLiteral
    <3>5. m(k) \in Nat
          /\ \/ /\ ~PastE(n, k) /\ ~PastE(n, k + 1) /\ c \in {"-", "."} /\ m(k + 1) = m(k)
             \/ /\ ~PastE(n, k) /\ ~PastE(n, k + 1) /\ c = "1" /\ m(k + 1) = m(k) + 1
             \/ /\ ~PastE(n, k) /\ PastE(n, k + 1) /\ c = "e" /\ m(k + 1) = m(k)
             \/ /\ PastE(n, k) /\ PastE(n, k + 1) /\ c \in Sign \cup {"1"} /\ m(k + 1) = m(k)
      BY <3>1, LiteralStep
    <3>6. c # Quote
      BY <3>5, CharsDiffer DEF NumberChars, Sign
    <3> HIDE DEF c, x, m, n, k
    <3>7. /\ digitScan' \in DigitStates /\ digitScan'.inString = FALSE
          /\ digitScan'.escaped = digitScan.escaped
          /\ digitScan'.worst = Larger(truth.mantissa, m(k + 1))
          /\ digitScan'.inExp <=> PastE(n, k + 1)
          /\ digitScan'.run = m(k + 1)
      <4>1. CASE ~PastE(n, k) /\ ~PastE(n, k + 1) /\ c \in {"-", "."} /\ m(k + 1) = m(k)
        <5>1. c # "e" /\ c \in Sign \cup {"."}
          BY <4>1, CharsDiffer DEF Sign
        <5>2. digitScan' = digitScan
          BY <3>2, <3>3, <3>6, <5>1 DEF digitScanStep
        <5> QED
          BY <1>0, <3>3, <4>1, <5>2
      <4>2. CASE ~PastE(n, k) /\ ~PastE(n, k + 1) /\ c = "1" /\ m(k + 1) = m(k) + 1
        <5>1. c # "e" /\ c \notin Sign \cup {"."} /\ ~digitScan.inExp
          BY <3>3, <4>2, CharsDiffer
        <5>2. digitScan' = [digitScan EXCEPT !.run = @ + 1,
                                             !.worst = Larger(@, digitScan.run + 1)]
          BY <3>2, <3>3, <3>6, <4>2, <5>1 DEF digitScanStep
        <5>3. Larger(digitScan.worst, m(k) + 1) = Larger(truth.mantissa, m(k) + 1)
              /\ Larger(truth.mantissa, m(k) + 1) \in Nat /\ m(k) + 1 \in Nat
          BY ONLY <1>0, <3>3, <3>5, LargerNext, Zenon
        <5> QED
          BY <1>0, <3>3, <4>2, <5>1, <5>2, <5>3 DEF DigitStates
      <4>3. CASE ~PastE(n, k) /\ PastE(n, k + 1) /\ c = "e" /\ m(k + 1) = m(k)
        <5>1. digitScan' = [digitScan EXCEPT !.inExp = TRUE]
          BY <3>2, <3>3, <3>6, <4>3 DEF digitScanStep
        <5> QED
          BY <1>0, <3>3, <4>3, <5>1 DEF DigitStates
      <4>4. CASE PastE(n, k) /\ PastE(n, k + 1) /\ c \in Sign \cup {"1"} /\ m(k + 1) = m(k)
        <5>1. c # "e" /\ (c \in Sign \cup {"."} \/ (c = "1" /\ digitScan.inExp))
          BY <3>3, <4>4, CharsDiffer
        <5>2. digitScan' = digitScan
          BY <3>2, <3>3, <3>6, <5>1 DEF digitScanStep
        <5> QED
          BY <1>0, <3>3, <4>4, <5>2
      <4> QED
        BY <3>5, <4>1, <4>2, <4>3, <4>4
    <3> QED
      BY <3>4, <3>7 DEF DigitInv, InLiteral, BetweenValues, m, n
  <2>2. CASE current.type = "word"
    <3>1. digitScan' = digitScanStep(digitScan, IF current.at = 0 THEN "a" ELSE "e")
      BY <1>3, <2>2, FedLiteral DEF Feed
    <3>2. /\ ~digitScan.inString /\ digitScan.run = 0
          /\ "a" \notin Sign \cup {".", "1", "e", Quote} /\ "e" # Quote
      BY <1>3, <2>2, FedLiteral, CharsDiffer DEF DigitInv, NumberChars, Sign
    <3>3. digitScan' = [digitScan EXCEPT !.inExp = FALSE, !.run = 0]
          \/ digitScan' = [digitScan EXCEPT !.inExp = TRUE]
      BY <3>1, <3>2 DEF digitScanStep
    <3>4. /\ digitScan' \in DigitStates /\ digitScan'.worst = digitScan.worst
          /\ digitScan'.inString = digitScan.inString /\ digitScan'.run = 0
          /\ digitScan'.escaped = digitScan.escaped
      <4>1. CASE digitScan' = [digitScan EXCEPT !.inExp = FALSE, !.run = 0]
        BY <1>0, <4>1 DEF DigitStates
      <4>2. CASE digitScan' = [digitScan EXCEPT !.inExp = TRUE]
        BY <1>0, <3>2, <4>2 DEF DigitStates
      <4> QED
        BY <3>3, <4>1, <4>2
    <3> QED
      BY <1>3, <2>2, <3>4, FedLiteral DEF DigitInv, InLiteral, BetweenValues
  <2> QED
    BY <1>3, <2>1, <2>2, FedLiteral
<1>4. CASE WriteBackslash \/ WriteUnit
  <2>1. /\ digitScan' \in DigitStates /\ digitScan'.inString = TRUE
        /\ digitScan'.escaped = current'.escaping /\ digitScan'.run = digitScan.run
        /\ digitScan'.worst = digitScan.worst /\ digitScan'.inExp = digitScan.inExp
    BY <1>0, <1>4, FedText, CharsDiffer DEF DigitStates, DigitInv, Feed, digitScanStep, InString
  <2> QED
    BY <1>4, <2>1, FedText DEF DigitInv, BetweenValues, InLiteral
<1>5. CASE EndString \/ EndKey
  <2>1. digitScan' = [digitScan EXCEPT !.inString = FALSE]
    BY <1>0, <1>5, FedClosing, CharsDiffer
    DEF DigitStates, DigitInv, Feed, digitScanStep, InString
  <2>2. /\ digitScan' \in DigitStates /\ ~digitScan'.inString
        /\ digitScan'.inExp = digitScan.inExp /\ digitScan'.run = digitScan.run
        /\ digitScan'.escaped = digitScan.escaped /\ digitScan'.worst = digitScan.worst
    BY <1>0, <2>1 DEF DigitStates
  <2> QED
    BY <1>5, <2>2, FedClosing DEF DigitInv, BetweenValues, InLiteral
<1>6. CASE \/ WriteColon \/ WriteComma
           \/ \E type \in {"object", "array"} : WriteOpen(type) \/ WriteClose(type)
  <2>1. PICK c \in Structural : digitScan' = digitScanStep(digitScan, c)
    BY <1>6, FedStructural DEF Feed
  <2>2. digitScan' = [digitScan EXCEPT !.inExp = FALSE, !.run = 0]
    BY <1>0, <1>6, <2>1, FedStructural, CharsDiffer
    DEF DigitStates, DigitInv, digitScanStep, NumberChars
  <2>3. /\ digitScan' \in DigitStates /\ ~digitScan'.inExp /\ digitScan'.run = 0
        /\ digitScan'.inString = digitScan.inString
        /\ digitScan'.escaped = digitScan.escaped /\ digitScan'.worst = digitScan.worst
    BY <1>0, <2>2 DEF DigitStates
  <2> QED
    BY <1>6, <2>3, FedStructural DEF DigitInv, BetweenValues, InLiteral
<1> QED
  BY <1>1, <1>2, <1>3, <1>4, <1>5, <1>6 DEF WireNext
\* The scan that judges literals keeps up with the writer.
LEMMA AgreementStep ==
  ASSUME WriterInv, AgreementInv, [WireNext]_wireVars
  PROVE  AgreementInv'
<1>0. agreementScan \in AgreementStates /\ truth.unsafe \in BOOLEAN
  BY DEF AgreementInv, WriterInv
<1>1. CASE \/ \E n \in WireNumbers : BeginNumber(n)
           \/ BeginWord \/ EndNumber \/ EndWord \/ EndLine \/ UNCHANGED wireVars
  <2>1. agreementScan' = agreementScan
    BY <1>1, Silent DEF scanVars
  <2>2. CASE BetweenValues /\ UNCHANGED truth /\ current'.type \in {"number", "word"}
             /\ ~InText /\ ~InText' /\ current.type = "none" /\ current'.at = 0
    <3>1. ~agreementScan.offending => ~agreementScan.inNumber
      BY <2>2 DEF AgreementInv
    <3>2. ~(current'.at > 0) /\ current'.type # "none" /\ ~BetweenValues'
      BY <2>2 DEF BetweenValues
    <3> QED
      BY <2>1, <2>2, <3>1, <3>2, Zenon DEF AgreementInv
  <2>3. CASE /\ current.type = "number" /\ EndNumber /\ current.literal \in Literal
             /\ current.at = NumberEnd(current.literal) /\ ~InText /\ ~InText'
             /\ current.text = Written(current.literal)
             /\ current'.type = "none" /\ ~BetweenValues'
    <3>1. truth'.unsafe <=> truth.unsafe \/ Written(current.literal) \in WireUnsafe
      BY <2>3 DEF EndNumber, WriterInv
    <3>2. /\ current.at > 0
          /\ [i \in 1 .. current.at |-> current.text[i]] = Written(current.literal)
      BY <2>3, LiteralText
    <3>3. ~agreementScan.offending =>
             agreementScan.inNumber /\ agreementScan.buf = Written(current.literal)
      BY <2>3, <3>2 DEF AgreementInv
    <3>4. truth.unsafe <=> agreementScan.offending
      BY <2>3 DEF AgreementInv
    <3> QED
      BY <2>1, <2>3, <3>1, <3>3, <3>4 DEF AgreementInv
  <2>4. CASE /\ current.type = "word" /\ current'.type = "none" /\ ~BetweenValues'
             /\ ~InText /\ ~InText' /\ UNCHANGED truth
    BY <2>1, <2>4 DEF AgreementInv
  <2>5. CASE UNCHANGED <<current, nesting, expects, truth>>
    BY <2>1, <2>5 DEF AgreementInv, InText, BetweenValues
  <2> QED
    BY <1>1, <2>2, <2>3, <2>4, <2>5, Silent
<1>2. CASE agreementScan.offending /\ UNCHANGED truth.unsafe
           /\ \E c : agreementScan' = agreementScanStep(agreementScan, c)
  <2>1. agreementScan' = agreementScan
    BY <1>2 DEF agreementScanStep
  <2> QED
    BY <1>2, <2>1 DEF AgreementInv
<1>3. ASSUME NEW s \in WireStrings, BeginString(s) \/ BeginKey(s) PROVE AgreementInv'
  <2>1. agreementScan' = agreementScanStep(agreementScan, Quote) /\ truth' = truth
    BY <1>3, FedQuote DEF Feed
  <2>2. CASE agreementScan.offending
    BY <1>2, <2>1, <2>2
  <2>3. CASE ~agreementScan.offending
    <3>1. BetweenValues
      BY <1>3, FedQuote DEF BetweenValues, ValueMayCome, KeyMayCome
    <3>2. ~agreementScan.inNumber /\ ~agreementScan.inString /\ ~agreementScan.escaped
      BY <1>3, <2>3, <3>1, FedQuote DEF AgreementInv
    <3>3. agreementScan' = [agreementScan EXCEPT !.inString = TRUE]
      BY <2>1, <2>3, <3>2 DEF agreementScanStep, agreementScanOutside, finishAgreementNumber
    <3>4. /\ agreementScan' \in AgreementStates /\ agreementScan'.inString
          /\ ~agreementScan'.escaped /\ ~agreementScan'.inNumber /\ ~agreementScan'.offending
      BY <1>0, <2>3, <3>2, <3>3 DEF AgreementStates
    <3>5. ~truth.unsafe
      BY <2>3, <3>2 DEF AgreementInv
    <3> QED
      BY <1>3, <2>1, <3>4, <3>5, FedQuote, Zenon DEF AgreementInv, BetweenValues
  <2> QED
    BY <2>2, <2>3
<1>4. CASE WriteCharacter
  <2>1. CASE current.type = "number"
    <3> DEFINE n == current.literal
               k == current.at
               c == Written(n)[k + 1]
    <3>1. n \in Literal /\ k \in Nat /\ k < NumberEnd(n)
      BY <1>4, <2>1, FedLiteral, Tokens
    <3>2. agreementScan' = agreementScanStep(agreementScan, c) /\ truth' = truth
      BY <1>4, <2>1, FedLiteral DEF Feed
    <3>3. /\ current'.type = "number" /\ current'.at = k + 1 /\ current'.text = Written(n)
          /\ current.text = Written(n) /\ ~InText /\ ~InText' /\ k + 1 > 0
      BY <1>4, <2>1, <3>1, FedLiteral
    <3>4. c \in Sign \cup {"1", ".", "e"} /\ c \in NumberChars /\ c # Quote
          /\ (k = 0 => c \in {"-", "1"})
      BY <3>1, LiteralText, CharsDiffer DEF NumberChars
    <3>5. CASE agreementScan.offending
      BY <1>2, <3>2, <3>5
    <3>6. CASE ~agreementScan.offending
      <4>1. /\ ~agreementScan.inString /\ ~agreementScan.escaped /\ ~truth.unsafe
            /\ agreementScan.inNumber <=> k > 0
            /\ k > 0 => agreementScan.buf = [i \in 1 .. k |-> Written(n)[i]]
        BY <2>1, <3>3, <3>6, Zenon DEF AgreementInv
      <4>2. agreementScan' = IF k = 0 THEN [agreementScan EXCEPT !.inNumber = TRUE, !.buf = <<c>>]
                             ELSE [agreementScan EXCEPT !.buf = Append(@, c)]
        <5>1. CASE k = 0
          <6>1. ~agreementScan.inNumber /\ c # Quote /\ c \in {"-", "1"}
            BY <3>4, <4>1, <5>1
          <6> HIDE DEF c, k
          <6> QED
            BY <3>2, <3>6, <4>1, <5>1, <6>1
            DEF agreementScanStep, agreementScanOutside, finishAgreementNumber
        <5>2. CASE k # 0
          <6>1. agreementScan.inNumber /\ c \in Sign \cup {"1", ".", "e"}
            BY <3>1, <3>4, <4>1, <5>2
          <6> HIDE DEF c, k
          <6> QED
            BY <3>2, <3>6, <4>1, <5>2, <6>1, Zenon DEF agreementScanStep
        <5> QED
          BY <5>1, <5>2
      <4>3. /\ agreementScan' \in AgreementStates /\ ~agreementScan'.inString
            /\ ~agreementScan'.escaped /\ ~agreementScan'.offending /\ agreementScan'.inNumber
            /\ agreementScan'.buf = [i \in 1 .. k + 1 |-> Written(n)[i]]
        <5>1. CASE k = 0
          <6>1. agreementScan' = [agreementScan EXCEPT !.inNumber = TRUE, !.buf = <<c>>]
            BY <4>2, <5>1
          <6>2. <<c>> = [i \in 1 .. k + 1 |-> Written(n)[i]] /\ <<c>> \in Seq(NumberChars)
            BY <3>4, <5>1
          <6> QED
            BY <1>0, <3>6, <4>1, <6>1, <6>2 DEF AgreementStates
        <5>2. CASE k > 0
          <6>1. agreementScan' = [agreementScan EXCEPT !.buf = Append(@, c)]
            BY <3>1, <4>2, <5>2
          <6>2. agreementScan.buf \in Seq(NumberChars) /\ agreementScan.inNumber
            BY <1>0, <4>1, <5>2 DEF AgreementStates
          <6>3. Append(agreementScan.buf, c) \in Seq(NumberChars)
            BY <3>4, <6>2
          <6>4. Append(agreementScan.buf, c) = [i \in 1 .. k + 1 |-> Written(n)[i]]
            BY <3>1, <4>1, <5>2
          <6> HIDE DEF c, n, k
          <6> QED
            BY <1>0, <3>6, <4>1, <6>1, <6>2, <6>3, <6>4 DEF AgreementStates
        <5> QED
          BY <3>1, <5>1, <5>2
      <4> QED
        BY <3>2, <3>3, <4>1, <4>3 DEF AgreementInv, BetweenValues
    <3> QED
      BY <3>5, <3>6
  <2>2. CASE current.type = "word"
    <3>1. PICK c \in {"a", "e"} : agreementScan' = agreementScanStep(agreementScan, c)
      BY <1>4, <2>2, FedLiteral DEF Feed
    <3>2. c # Quote /\ c \notin {"-", "1"}
      BY CharsDiffer DEF NumberChars, Sign
    <3>3. agreementScan' = agreementScan
      BY <1>4, <2>2, <3>1, <3>2, FedLiteral
      DEF AgreementInv, agreementScanStep, agreementScanOutside, finishAgreementNumber
    <3> QED
      BY <1>4, <2>2, <3>3, FedLiteral DEF AgreementInv, BetweenValues
  <2> QED
    BY <1>4, <2>1, <2>2, FedLiteral
<1>5. CASE WriteBackslash \/ WriteUnit
  <2>1. truth' = truth /\ \E c : agreementScan' = agreementScanStep(agreementScan, c)
    BY <1>5, FedText DEF Feed
  <2>2. CASE agreementScan.offending
    BY <1>2, <2>1, <2>2
  <2>3. CASE ~agreementScan.offending
    <3>1. /\ agreementScan.inString = TRUE /\ agreementScan.escaped = current.escaping
          /\ agreementScan.inNumber = FALSE /\ ~truth.unsafe
      BY <1>0, <1>5, <2>3, FedText DEF AgreementInv, AgreementStates
    <3>2. /\ agreementScan' \in AgreementStates /\ agreementScan'.inString
          /\ agreementScan'.escaped = current'.escaping
          /\ ~agreementScan'.inNumber /\ ~agreementScan'.offending
      BY <1>0, <1>5, <2>3, <3>1, FedText, CharsDiffer
      DEF AgreementStates, Feed, agreementScanStep, InString
    <3> QED
      BY <1>5, <2>1, <3>1, <3>2, FedText DEF AgreementInv, BetweenValues
  <2> QED
    BY <2>2, <2>3
<1>6. CASE EndString \/ EndKey
  <2>1. agreementScan' = agreementScanStep(agreementScan, Quote) /\ UNCHANGED truth.unsafe
    BY <1>6, FedClosing DEF Feed
  <2>2. CASE agreementScan.offending
    BY <1>2, <2>1, <2>2
  <2>3. CASE ~agreementScan.offending
    <3>1. /\ agreementScan.inString /\ ~agreementScan.escaped
          /\ ~agreementScan.inNumber /\ ~truth.unsafe
      BY <1>6, <2>3, FedClosing DEF AgreementInv
    <3>2. agreementScan' = [agreementScan EXCEPT !.inString = FALSE]
      BY <2>1, <2>3, <3>1, CharsDiffer DEF agreementScanStep, InString
    <3>3. /\ agreementScan' \in AgreementStates /\ ~agreementScan'.inString
          /\ ~agreementScan'.escaped /\ ~agreementScan'.inNumber /\ ~agreementScan'.offending
      BY <1>0, <2>3, <3>1, <3>2 DEF AgreementStates
    <3> QED
      BY <1>6, <2>1, <3>1, <3>3, FedClosing DEF AgreementInv
  <2> QED
    BY <2>2, <2>3
<1>7. CASE \/ WriteColon \/ WriteComma
           \/ \E type \in {"object", "array"} : WriteOpen(type) \/ WriteClose(type)
  <2>1. /\ \E c \in Structural : agreementScan' = agreementScanStep(agreementScan, c)
        /\ UNCHANGED truth.unsafe
    BY <1>7, FedStructural DEF Feed
  <2>2. CASE agreementScan.offending
    BY <1>2, <2>1, <2>2
  <2>3. CASE ~agreementScan.offending
    <3>1. /\ ~agreementScan.inString /\ ~agreementScan.escaped
          /\ truth.unsafe <=> agreementScan.inNumber /\ agreementScan.buf \in WireUnsafe
      BY <1>7, <2>3, FedStructural DEF AgreementInv
    <3>2. PICK c \in Structural : agreementScan' = agreementScanStep(agreementScan, c)
      BY <2>1
    <3>3. c # Quote /\ c \notin {"-", "1"} /\ c \notin Sign \cup {"1", ".", "e"}
      BY CharsDiffer DEF NumberChars, Sign
    <3>4. agreementScan' = finishAgreementNumber(agreementScan)
      <4> DEFINE f == finishAgreementNumber(agreementScan)
      <4>1. agreementScan' = agreementScanOutside(f, c)
        BY <2>3, <3>1, <3>2, <3>3, Zenon DEF agreementScanStep
      <4> HIDE DEF f
      <4>2. agreementScanOutside(f, c) = f
        BY <3>3, Zenon DEF agreementScanOutside
      <4> QED
        BY <4>1, <4>2 DEF f
    <3>5. /\ agreementScan' \in AgreementStates /\ ~agreementScan'.inString
          /\ ~agreementScan'.escaped /\ ~agreementScan'.inNumber
          /\ agreementScan'.offending <=> truth.unsafe
      <4>1. CASE agreementScan.inNumber
        <5> DEFINE b == agreementScan.buf \in WireUnsafe
                   e == <<>>
        <5>1. agreementScan' = [agreementScan EXCEPT !.inNumber = FALSE, !.buf = e,
                                                     !.offending = b]
          BY <3>4, <4>1 DEF finishAgreementNumber
        <5>2. b \in BOOLEAN /\ e \in Seq(NumberChars)
          OBVIOUS
        <5>3. b <=> truth.unsafe
          BY <3>1, <4>1
        <5> HIDE DEF b, e
        <5>4. /\ agreementScan' \in AgreementStates
              /\ agreementScan'.inString = agreementScan.inString
              /\ agreementScan'.escaped = agreementScan.escaped
              /\ agreementScan'.inNumber = FALSE /\ agreementScan'.offending = b
          BY <1>0, <5>1, <5>2 DEF AgreementStates
        <5> QED
          BY <3>1, <5>3, <5>4
      <4>2. CASE ~agreementScan.inNumber
        BY <1>0, <2>3, <3>1, <3>4, <4>2 DEF finishAgreementNumber
      <4> QED
        BY <4>1, <4>2
    <3> QED
      BY <1>7, <2>1, <3>5, FedStructural DEF AgreementInv, BetweenValues
  <2> QED
    BY <2>2, <2>3
<1> QED
  BY <1>1, <1>3, <1>4, <1>5, <1>6, <1>7 DEF WireNext
\* A string with no escape in it is written as it is read.
LEMMA PlainUnit ==
  ASSUME NEW k \in WireStrings, ~Escaped(k), NEW i \in DOMAIN k
  PROVE  k[i] = [escape |-> FALSE, char |-> k[i].char, means |-> k[i].char]
<1>1. k \in Seq(Unit)
  BY WireAssumption
<1>2. k[i] \in Unit
  BY <1>1
<1>3. ~k[i].escape
  BY DEF Escaped
<1>4. k[i].means = k[i].char
  BY <1>3, WireAssumption, Zenon
<1> QED
  BY <1>2, <1>3, <1>4 DEF Unit

\* Keys without an escape that are spelled alike, or mean the same, are the same.
LEMMA PlainKeys ==
  ASSUME NEW k \in WireStrings, NEW s \in WireStrings, ~Escaped(k), ~Escaped(s)
  PROVE  /\ Meaning(k) = Meaning(s) => k = s
         /\ Raw(k) = Raw(s) => k = s
<1>1. k \in Seq(Unit) /\ s \in Seq(Unit)
  BY WireAssumption
<1>2. \A i \in DOMAIN k : k[i] = [escape |-> FALSE, char |-> k[i].char, means |-> k[i].char]
  BY PlainUnit
<1>3. \A i \in DOMAIN s : s[i] = [escape |-> FALSE, char |-> s[i].char, means |-> s[i].char]
  BY PlainUnit
<1>4. ASSUME DOMAIN k = DOMAIN s, \A i \in DOMAIN k : k[i].char = s[i].char
      PROVE  k = s
  <2>1. \A i \in DOMAIN k : k[i] = s[i]
    BY <1>2, <1>3, <1>4, Zenon
  <2> QED
    BY <1>1, <1>4, <2>1
<1>5. ASSUME Meaning(k) = Meaning(s) PROVE k = s
  <2>1. DOMAIN k = DOMAIN s
    BY <1>5 DEF Meaning
  <2>2. \A i \in DOMAIN k : k[i].means = s[i].means
    BY <1>5, <2>1 DEF Meaning
  <2>3. \A i \in DOMAIN k : k[i].char = k[i].means /\ s[i].char = s[i].means
    BY <1>2, <1>3, <2>1
  <2> QED
    BY <1>4, <2>1, <2>2, <2>3
<1>6. ASSUME Raw(k) = Raw(s) PROVE k = s
  <2>1. Len(k) \in Nat /\ Len(s) \in Nat /\ DOMAIN k = 1 .. Len(k) /\ DOMAIN s = 1 .. Len(s)
    BY <1>1
  <2>2. 1 .. Len(k) = 1 .. Len(s)
    BY <1>6 DEF Raw, RawTo
  <2>3. \A i \in 1 .. Len(k) : k[i].char = s[i].char
    BY <1>6, <2>2 DEF Raw, RawTo
  <2> QED
    BY <1>4, <2>1, <2>2, <2>3
<1> QED
  BY <1>5, <1>6

\* The end of a key, what it adds to its container and to the truth.
LEMMA KeyEnded ==
  ASSUME WriterInv, EndKey
  PROVE  LET s == current.units
             c == nesting[1]
             d == [c EXCEPT !.means = @ \cup {Meaning(s)}, !.keys = @ \cup {s}]
         IN  /\ d.type = "object" /\ d.means = c.means \cup {Meaning(s)} /\ d.keys = c.keys \cup {s}
             /\ s \in WireStrings /\ c \in Container /\ c.type = "object" /\ d \in Container
             /\ c.keys \subseteq WireStrings
             /\ 1 \in DOMAIN nesting /\ DOMAIN nesting' = DOMAIN nesting /\ nesting # <<>>
             /\ nesting' = [i \in DOMAIN nesting |-> IF i = 1 THEN d ELSE nesting[i]]
             /\ truth'.collapses <=> truth.collapses \/ Meaning(s) \in c.means
             /\ truth'.repeats <=> truth.repeats \/ s \in c.keys
             /\ truth'.escapes <=> truth.escapes \/ Escaped(s)
             /\ truth'.broken <=> truth.broken
             /\ current.type = "key" /\ current.at = Len(current.units)
             /\ current'.type = "none" /\ expects' = "colon"
<1> DEFINE s == current.units
           c == nesting[1]
           d == [c EXCEPT !.means = @ \cup {Meaning(s)}, !.keys = @ \cup {s}]
<1>1. /\ current.type = "key" /\ current.at = Len(current.units) /\ current' = NoToken
      /\ expects' = "colon" /\ s \in WireStrings /\ KeyMayCome
  BY Tokens DEF WriterInv, EndKey, InText
<1>2. /\ nesting # <<>> /\ Head(nesting) = c /\ c \in Container /\ c.type = "object"
      /\ nesting \in Seq(Container) /\ 1 \in DOMAIN nesting
  BY <1>1 DEF WriterInv, KeyMayCome
<1>3. c.keys \subseteq WireStrings
  BY <1>2 DEF Container
<1>4. /\ d \in Container /\ d.type = "object"
      /\ d.means = c.means \cup {Meaning(s)} /\ d.keys = c.keys \cup {s}
  <2>1. Meaning(s) \in {Meaning(k) : k \in WireStrings}
    BY <1>1
  <2> QED
    BY <1>1, <1>2, <2>1 DEF Container
<1>7. nesting' = [nesting EXCEPT ![1] = d]
  BY DEF WriterInv, EndKey
<1>8. /\ truth'.collapses <=> truth.collapses \/ Meaning(s) \in c.means
      /\ truth'.repeats <=> truth.repeats \/ s \in c.keys
      /\ truth'.escapes <=> truth.escapes \/ Escaped(s)
      /\ truth'.broken <=> truth.broken
  BY <1>2 DEF WriterInv, EndKey
<1> HIDE DEF c, d, s
<1>9. nesting' = [i \in DOMAIN nesting |-> IF i = 1 THEN d ELSE nesting[i]]
      /\ DOMAIN nesting' = DOMAIN nesting
  BY ONLY <1>2, <1>4, <1>7, Touch
<1> QED
  BY <1>1, <1>2, <1>3, <1>4, <1>8, <1>9 DEF NoToken, c, d, s

\* What the line holds stays consistent.
LEMMA TruthStep ==
  ASSUME WriterInv, TruthInv, [WireNext]_wireVars
  PROVE  TruthInv'
<1>1. CASE UNCHANGED <<nesting, truth.escapes, truth.collapses, truth.repeats>>
  BY <1>1 DEF TruthInv
<1>2. CASE EndKey
  <2> DEFINE s == current.units
             c == nesting[1]
             d == [c EXCEPT !.means = @ \cup {Meaning(s)}, !.keys = @ \cup {s}]
  <2>1. /\ s \in WireStrings /\ c \in Container /\ c.type = "object" /\ d \in Container
        /\ c.keys \subseteq WireStrings
        /\ 1 \in DOMAIN nesting /\ DOMAIN nesting' = DOMAIN nesting
        /\ nesting' = [i \in DOMAIN nesting |-> IF i = 1 THEN d ELSE nesting[i]]
        /\ truth'.collapses <=> truth.collapses \/ Meaning(s) \in c.means
        /\ truth'.repeats <=> truth.repeats \/ s \in c.keys
        /\ truth'.escapes <=> truth.escapes \/ Escaped(s)
    BY <1>2, KeyEnded
  <2>2. d.means = c.means \cup {Meaning(s)} /\ d.keys = c.keys \cup {s}
    BY <1>2, KeyEnded
  <2>3. c.means = {Meaning(k) : k \in c.keys} /\ \A k \in c.keys : Escaped(k) => truth.escapes
    BY <2>1 DEF TruthInv
  <2> HIDE DEF c, d, s
  <2>4. \A i \in DOMAIN nesting' : /\ nesting'[i].means = {Meaning(k) : k \in nesting'[i].keys}
                                   /\ \A k \in nesting'[i].keys : Escaped(k) => truth'.escapes
    <3>1. d.means = {Meaning(k) : k \in d.keys} /\ \A k \in d.keys : Escaped(k) => truth'.escapes
      BY <2>1, <2>2, <2>3
    <3> QED
      BY <2>1, <3>1 DEF TruthInv
  <2>5. ASSUME Meaning(s) \in c.means PROVE truth'.repeats \/ truth'.escapes
    <3>1. PICK k \in c.keys : Meaning(k) = Meaning(s)
      BY <2>3, <2>5
    <3>2. CASE Escaped(k) \/ Escaped(s)
      BY <2>1, <2>3, <3>2
    <3>3. CASE ~Escaped(k) /\ ~Escaped(s)
      <4>1. k = s
        BY <2>1, <3>1, <3>3, PlainKeys
      <4> QED
        BY <2>1, <4>1
    <3> QED
      BY <3>2, <3>3
  <2> QED
    BY <2>1, <2>4, <2>5 DEF TruthInv
<1>3. ASSUME NEW type \in {"object", "array"}, WriteOpen(type) PROVE TruthInv'
  <2> DEFINE d == [type |-> type, means |-> {}, keys |-> {}]
  <2>1. nesting' = <<d>> \o nesting /\ truth' = truth
    BY <1>3 DEF WriteOpen
  <2>2. d.means = {} /\ d.keys = {} /\ d \in Container /\ nesting \in Seq(Container)
    BY DEF Container, WriterInv
  <2> HIDE DEF d
  <2>3. DOMAIN nesting' = 1 .. Len(nesting) + 1 /\ Len(nesting) \in Nat
        /\ nesting' = [i \in 1 .. Len(nesting) + 1 |-> IF i = 1 THEN d ELSE nesting[i - 1]]
    BY ONLY <2>1, <2>2, Push
  <2>4. \A i \in DOMAIN nesting' : nesting'[i] = d \/ \E j \in DOMAIN nesting : nesting'[i] = nesting[j]
    BY <2>2, <2>3
  <2>5. d.means = {Meaning(k) : k \in d.keys}
    BY <2>2
  <2> QED
    BY <2>1, <2>2, <2>4, <2>5 DEF TruthInv
<1>4. ASSUME NEW type \in {"object", "array"}, WriteClose(type) PROVE TruthInv'
  <2>1. CASE nesting # <<>> /\ nesting' = Tail(nesting) /\ truth' = truth
    <3>1. nesting \in Seq(Container)
      BY DEF WriterInv
    <3>2. /\ DOMAIN nesting' = 1 .. Len(nesting) - 1 /\ DOMAIN nesting = 1 .. Len(nesting)
          /\ nesting' = [i \in 1 .. Len(nesting) - 1 |-> nesting[i + 1]]
          /\ Len(nesting) \in Nat
      BY <2>1, <3>1, Pop, Zenon
    <3>3. \A i \in DOMAIN nesting' : \E j \in DOMAIN nesting : nesting'[i] = nesting[j]
      BY <3>2
    <3> QED
      BY <2>1, <3>3 DEF TruthInv
  <2>2. CASE truth' = [truth EXCEPT !.broken = TRUE] /\ nesting' = nesting
    <3>1. UNCHANGED <<nesting, truth.escapes, truth.collapses, truth.repeats>>
      BY <2>2 DEF WriterInv
    <3> QED
      BY <1>1, <3>1
  <2> QED
    BY <1>4, <2>1, <2>2 DEF WriteClose
<1>5. CASE EndNumber
  <2>1. UNCHANGED <<nesting, truth.escapes, truth.collapses, truth.repeats>>
    BY <1>5 DEF EndNumber, WriterInv
  <2> QED
    BY <1>1, <2>1
<1>6. ASSUME UNCHANGED <<nesting, truth>> PROVE TruthInv'
  BY <1>6 DEF TruthInv
<1> QED
  BY <1>2, <1>3, <1>4, <1>5, <1>6, Zenon
  DEF WireNext, BeginNumber, BeginWord, WriteCharacter, EndWord, BeginString, BeginKey,
      WriteBackslash, WriteUnit, EndString, WriteColon, WriteComma, EndLine, wireVars
\* What a frame of the key scan keeps of an open container.
LEMMA FrameFacts ==
  ASSUME NEW c \in Container, NEW e \in BOOLEAN
  PROVE  /\ Frame(c, e).type = "obj" <=> c.type = "object"
         /\ Frame(c, e).type = "arr" <=> c.type = "array"
         /\ c.type = "array" => Frame(c, e) = Frame(c, FALSE) /\ Frame(c, e) = ArrayFrame
         /\ c.type = "object" =>
              /\ Frame(c, e) = ObjectFrame({Raw(k) : k \in c.keys}, e)
              /\ Frame(c, e).seen = {Raw(k) : k \in c.keys} /\ Frame(c, e).expectKey = e
         /\ Frame(c, FALSE).expectKey = FALSE
<1> DEFINE r == {Raw(k) : k \in c.keys}
<1>1. c.type = "object" \/ c.type = "array"
  BY DEF Container
<1>2. Frame(c, e) = IF c.type = "object" THEN ObjectFrame(r, e) ELSE ArrayFrame
  BY DEF Frame
<1>3. Frame(c, FALSE) = IF c.type = "object" THEN ObjectFrame(r, FALSE) ELSE ArrayFrame
  BY DEF Frame
<1> HIDE DEF r
<1>4. /\ Frame(c, e).type = "obj" <=> c.type = "object"
      /\ Frame(c, e).type = "arr" <=> c.type = "array"
      /\ c.type = "array" => Frame(c, e) = Frame(c, FALSE) /\ Frame(c, e) = ArrayFrame
      /\ c.type = "object" =>
           /\ Frame(c, e) = ObjectFrame(r, e)
           /\ Frame(c, e).seen = r /\ Frame(c, e).expectKey = e
      /\ Frame(c, FALSE).expectKey = FALSE
  <2>1. /\ ObjectFrame(r, e).type = "obj" /\ ObjectFrame(r, e).seen = r
        /\ ObjectFrame(r, e).expectKey = e /\ ObjectFrame(r, FALSE).expectKey = FALSE
        /\ ArrayFrame.type = "arr" /\ ArrayFrame.expectKey = FALSE
    BY DEF ObjectFrame, ArrayFrame
  <2>2. "obj" # "arr" /\ "object" # "array"
    OBVIOUS
  <2>3. CASE c.type = "object"
    <3>1. Frame(c, e) = ObjectFrame(r, e) /\ Frame(c, FALSE) = ObjectFrame(r, FALSE)
      BY <1>2, <1>3, <2>3
    <3> QED
      BY <2>1, <2>2, <2>3, <3>1, Zenon
  <2>4. CASE c.type = "array"
    <3>1. Frame(c, e) = ArrayFrame /\ Frame(c, FALSE) = ArrayFrame
      BY <1>2, <1>3, <2>4
    <3> QED
      BY <2>1, <2>2, <2>4, <3>1, Zenon
  <2> QED
    BY <1>1, <2>3, <2>4
<1> QED
  BY <1>4 DEF r

\* The raw text of a key, as the scan buffers it.
LEMMA RawType ==
  ASSUME NEW s \in Seq(Unit), NEW k \in Nat, k <= Len(s)
  PROVE  RawTo(s, k) \in Seq(STRING) /\ Len(RawTo(s, k)) = k
<1>1. RawTo(s, k) \in [1 .. k -> STRING]
  <2>1. \A i \in 1 .. k : s[i] \in Unit
    OBVIOUS
  <2> QED
    BY <2>1 DEF RawTo, Unit
<1> QED
  BY <1>1, SeqDef

\* The frame of an open container is a frame.
LEMMA FrameType ==
  ASSUME NEW c \in Container, NEW e \in BOOLEAN
  PROVE  Frame(c, e) \in Frames
<1> DEFINE r == {Raw(k) : k \in c.keys}
<1>1. r \in SUBSET Seq(STRING)
  <2>1. ASSUME NEW k \in c.keys PROVE Raw(k) \in Seq(STRING)
    <3>1. k \in Seq(Unit)
      BY WireAssumption DEF Container
    <3>2. Len(k) \in Nat /\ Len(k) <= Len(k)
      BY <3>1
    <3> QED
      BY <3>1, <3>2, RawType DEF Raw
  <2> QED
    BY <2>1
<1>2. Frame(c, e) = IF c.type = "object" THEN ObjectFrame(r, e) ELSE ArrayFrame
  BY DEF Frame
<1> HIDE DEF r
<1>3. ObjectFrame(r, e) \in Frames /\ ArrayFrame \in Frames
  BY <1>1 DEF Frames, ObjectFrame, ArrayFrame
<1> QED
  BY <1>2, <1>3

\* The scan's stack follows the open containers.
LEMMA StackFacts ==
  ASSUME NEW open \in Seq(Container), NEW e \in BOOLEAN, NEW s, s = StackOf(open, e)
  PROVE  /\ DOMAIN s = DOMAIN open /\ DOMAIN open = 1 .. Len(open)
         /\ Len(open) \in Nat /\ Len(s) = Len(open)
         /\ s \in Seq(Frames)
         /\ s # <<>> <=> open # <<>>
         /\ open # <<>> =>
              /\ 1 \in DOMAIN open /\ open[1] \in Container
              /\ Head(open) = open[1] /\ Head(s) = Frame(open[1], e)
              /\ s[1] = Frame(open[1], e)
<1>2. /\ DOMAIN open = 1 .. Len(open) /\ Len(open) \in Nat
      /\ open # <<>> <=> Len(open) > 0
      /\ open # <<>> => open[1] \in Container /\ Head(open) = open[1]
  OBVIOUS
<1>3. /\ DOMAIN s = 1 .. Len(open)
      /\ \A i \in DOMAIN open : s[i] = Frame(open[i], i = 1 /\ e)
      /\ s = [i \in 1 .. Len(open) |-> s[i]]
  BY <1>2 DEF StackOf
<1>4. s \in [1 .. Len(open) -> Frames]
  <2>1. ASSUME NEW i \in DOMAIN open PROVE s[i] \in Frames
    <3>1. open[i] \in Container /\ (i = 1 /\ e) \in BOOLEAN
      OBVIOUS
    <3>2. s[i] = Frame(open[i], i = 1 /\ e)
      BY <1>3, Zenon
    <3> QED
      BY ONLY <3>1, <3>2, FrameType
  <2> QED
    BY <1>2, <1>3, <2>1
<1>5. s \in Seq(Frames) /\ Len(s) = Len(open)
  BY <1>2, <1>4, SeqDef
<1>6. s # <<>> <=> open # <<>>
  BY <1>2, <1>5, EmptySeq
<1>7. ASSUME open # <<>>
      PROVE  1 \in DOMAIN open /\ s[1] = Frame(open[1], e) /\ Head(s) = s[1]
  <2>1. 1 \in DOMAIN open
    BY <1>2, <1>7
  <2>2. s[1] = Frame(open[1], 1 = 1 /\ e)
    BY <1>3, <2>1, Zenon
  <2>3. (1 = 1 /\ e) = e
    OBVIOUS
  <2> QED
    BY <1>5, <1>6, <1>7, <2>1, <2>2, <2>3
<1> QED
  BY <1>2, <1>3, <1>5, <1>6, <1>7

\* Where a value may come, the scan does not expect a key.
LEMMA StackStays ==
  ASSUME WriterInv, ValueMayCome \/ expects = "more"
  PROVE  /\ StackOf(nesting, KeyExpected) = StackOf(nesting, FALSE)
         /\ (nesting # <<>> /\ Frame(nesting[1], KeyExpected).type = "obj") => ~KeyExpected
<1>1. CASE ~KeyExpected
  BY <1>1 DEF StackOf
<1>2. CASE KeyExpected
  <2>1. expects = "first" /\ nesting # <<>> /\ Head(nesting).type = "array"
    BY <1>2 DEF KeyExpected, ValueMayCome, WriterInv
  <2>2. nesting[1] \in Container /\ nesting[1].type = "array"
    BY <2>1 DEF WriterInv
  <2>3. /\ Frame(nesting[1], TRUE) = Frame(nesting[1], FALSE)
        /\ Frame(nesting[1], TRUE).type # "obj"
    BY <2>2, FrameFacts
  <2>4. \A i \in DOMAIN nesting : Frame(nesting[i], i = 1 /\ TRUE) = Frame(nesting[i], i = 1 /\ FALSE)
    BY <2>3
  <2>5. StackOf(nesting, TRUE) = StackOf(nesting, FALSE)
    BY <2>4, Zenon DEF StackOf
  <2>6. KeyExpected = TRUE
    BY <1>2
  <2> QED
    BY <2>3, <2>5, <2>6
<1> QED
  BY <1>1, <1>2

\* A refused line stays refused, and for the same reason.
LEMMA KeyStuck ==
  ASSUME WriterInv, KeyInv, keyScan.bad, [WireNext]_wireVars
  PROVE  KeyInv'
<1>1. keyScan' = keyScan
  <2>1. ASSUME NEW c, Feed(c) PROVE keyScan' = keyScan
    BY <2>1 DEF Feed, keyScanStep
  <2>2. CASE UNCHANGED scanVars
    BY <2>2 DEF scanVars
  <2> QED
    BY <2>1, <2>2, Zenon
    DEF WireNext, BeginNumber, BeginWord, WriteCharacter, EndNumber, EndWord, BeginString,
        BeginKey, WriteBackslash, WriteUnit, EndString, EndKey, WriteColon, WriteOpen,
        WriteClose, WriteComma, EndLine, wireVars, scanVars
<1>2. /\ truth.repeats => truth'.repeats
      /\ truth.escapes => truth'.escapes
      /\ truth.broken => truth'.broken
  <2>1. CASE truth' = truth
    BY <2>1
  <2>2. CASE EndNumber
    BY <2>2 DEF EndNumber, WriterInv
  <2>3. CASE EndKey
    BY <2>3, KeyEnded
  <2>4. ASSUME NEW type \in {"object", "array"}, WriteClose(type)
        PROVE  /\ truth.repeats => truth'.repeats
               /\ truth.escapes => truth'.escapes
               /\ truth.broken => truth'.broken
    BY <2>4 DEF WriteClose, WriterInv
  <2> QED
    BY <2>1, <2>2, <2>3, <2>4, Zenon
    DEF WireNext, BeginNumber, BeginWord, WriteCharacter, EndWord, BeginString,
        BeginKey, WriteBackslash, WriteUnit, EndString, WriteColon, WriteOpen,
        WriteComma, EndLine, wireVars
<1>3. EscapeSeen => EscapeSeen' \/ truth'.escapes
  <2> SUFFICES ASSUME EscapeSeen PROVE EscapeSeen' \/ truth'.escapes
    OBVIOUS
  <2>1. current.type = "key" /\ current # NoToken /\ InText
    BY DEF EscapeSeen, NoToken, InText
  <2>2. CASE current' = current
    BY <2>2 DEF EscapeSeen
  <2>3. CASE WriteBackslash \/ WriteUnit
    <3>1. /\ current'.type = "key" /\ current'.units = current.units /\ current.at \in Nat
          /\ \/ current'.escaping
             \/ /\ current'.at = current.at + 1
                /\ current.units[current.at + 1].escape = current.escaping
      BY <2>1, <2>3, FedText
    <3> QED
      BY <3>1 DEF EscapeSeen
  <2>4. CASE EndKey
    <3>1. /\ current.at = Len(current.units) /\ current.units \in Seq(Unit) /\ ~current.escaping
          /\ truth'.escapes <=> truth.escapes \/ Escaped(current.units)
      BY <2>1, <2>4, KeyEnded, FedClosing, Tokens
    <3>2. Escaped(current.units)
      BY <3>1 DEF EscapeSeen, Escaped
    <3> QED
      BY <3>1, <3>2
  <2> QED
    BY <2>1, <2>2, <2>3, <2>4, Zenon
    DEF WireNext, BeginNumber, BeginWord, Begins, WriteCharacter, EndNumber, EndWord, BeginString,
        BeginKey, EndString, WriteColon, WriteOpen,
        WriteClose, WriteComma, EndLine, wireVars, NoToken
<1> QED
  BY <1>1, <1>2, <1>3, Zenon DEF KeyInv
\* Outside strings, a character only changes the stack of the scan.
LEMMA KeyBetween ==
  ASSUME WriterInv, WriterInv', KeyInv, ~keyScan.bad, NEW s,
         s = StackOf(nesting', KeyExpected'), keyScan' = [keyScan EXCEPT !.stack = s],
         UNCHANGED <<truth.repeats, truth.escapes, truth.broken>>,
         current.type \notin {"string", "key"}, current'.type \notin {"string", "key"}
  PROVE  KeyInv'
<1>1. s \in Seq(Frames)
  <2>1. nesting' \in Seq(Container) /\ KeyExpected' \in BOOLEAN
    BY DEF WriterInv, KeyExpected
  <2> QED
    BY <2>1, StackFacts
<1>2. /\ keyScan' \in KeyStates /\ keyScan'.stack = s /\ keyScan'.bad = keyScan.bad
      /\ keyScan'.inString = keyScan.inString /\ keyScan'.escaped = keyScan.escaped
      /\ keyScan'.isKey = keyScan.isKey
  BY <1>1 DEF KeyInv, KeyStates
<1>3. ~InText /\ ~InText' /\ ~EscapeSeen /\ ~EscapeSeen'
  BY DEF InText, EscapeSeen
<1>4. ~keyScan.inString /\ ~keyScan.isKey /\ ~keyScan.escaped
  BY <1>3 DEF KeyInv
<1> QED
  BY <1>2, <1>3, <1>4 DEF KeyInv
\* What the scan of keys does outside strings.
LEMMA OutsideKey ==
  ASSUME NEW st, ~st.bad, ~st.isKey, ~st.inString
  PROVE  /\ keyScanStep(st, Quote)
              = [st EXCEPT !.inString = TRUE, !.buf = <<>>,
                           !.isKey = Innermost(st, "obj") /\ Head(st.stack).expectKey]
         /\ keyScanStep(st, ObjectStart) = [st EXCEPT !.stack = <<ObjectFrame({}, TRUE)>> \o @]
         /\ keyScanStep(st, ArrayStart) = [st EXCEPT !.stack = <<ArrayFrame>> \o @]
         /\ keyScanStep(st, ObjectEnd) = Close(st, "obj")
         /\ keyScanStep(st, ArrayEnd) = Close(st, "arr")
         /\ keyScanStep(st, Comma) = IF Innermost(st, "obj")
                                       THEN [st EXCEPT !.stack[1].expectKey = TRUE] ELSE st
         /\ \A c \in NumberChars \cup {"a", Colon} : keyScanStep(st, c) = st
<1>1. /\ Quote \notin Structural /\ ObjectStart # ArrayStart /\ ObjectStart # ObjectEnd
      /\ ObjectStart # ArrayEnd /\ ObjectStart # Comma /\ ArrayStart # ObjectEnd
      /\ ArrayStart # ArrayEnd /\ ArrayStart # Comma /\ ObjectEnd # ArrayEnd
      /\ ObjectEnd # Comma /\ ArrayEnd # Comma
      /\ \A c \in NumberChars \cup {"a", Colon} :
           c \notin {Quote, ObjectStart, ArrayStart, ObjectEnd, ArrayEnd, Comma}
  BY CharsDiffer DEF Structural
<1>2. keyScanStep(st, Quote)
        = [st EXCEPT !.inString = TRUE, !.buf = <<>>,
                     !.isKey = Innermost(st, "obj") /\ Head(st.stack).expectKey]
  BY <1>1 DEF keyScanStep, Structural
<1>3. keyScanStep(st, ObjectStart) = [st EXCEPT !.stack = <<ObjectFrame({}, TRUE)>> \o @]
  BY <1>1 DEF keyScanStep, Structural
<1>4. keyScanStep(st, ArrayStart) = [st EXCEPT !.stack = <<ArrayFrame>> \o @]
  BY <1>1 DEF keyScanStep, Structural
<1>5. keyScanStep(st, ObjectEnd) = Close(st, "obj")
  BY <1>1 DEF keyScanStep, Structural
<1>6. keyScanStep(st, ArrayEnd) = Close(st, "arr")
  BY <1>1 DEF keyScanStep, Structural
<1>7. keyScanStep(st, Comma) = IF Innermost(st, "obj")
                                 THEN [st EXCEPT !.stack[1].expectKey = TRUE] ELSE st
  BY <1>1 DEF keyScanStep, Structural
<1>8. \A c \in NumberChars \cup {"a", Colon} : keyScanStep(st, c) = st
  BY <1>1 DEF keyScanStep
<1> QED
  BY <1>2, <1>3, <1>4, <1>5, <1>6, <1>7, <1>8
\* Between tokens and within literals the scan is outside strings, and has the stack.
LEMMA KeyIdle ==
  ASSUME WriterInv, KeyInv, ~keyScan.bad, current.type \notin {"string", "key"}
  PROVE  /\ keyScan \in KeyStates /\ ~keyScan.inString /\ ~keyScan.isKey /\ ~keyScan.escaped
         /\ keyScan.stack = StackOf(nesting, KeyExpected) /\ keyScan.stack \in Seq(Frames)
         /\ ~truth.repeats /\ ~truth.escapes /\ ~truth.broken
         /\ nesting # <<>> => /\ nesting[1] \in Container /\ Head(nesting) = nesting[1]
                              /\ Head(keyScan.stack) = Frame(nesting[1], KeyExpected)
         /\ keyScan.stack # <<>> <=> nesting # <<>>
         /\ Innermost(keyScan, "obj") <=> nesting # <<>> /\ Head(nesting).type = "object"
         /\ Innermost(keyScan, "arr") <=> nesting # <<>> /\ Head(nesting).type = "array"
<1>1. /\ keyScan \in KeyStates /\ ~keyScan.inString /\ ~keyScan.isKey /\ ~keyScan.escaped
      /\ keyScan.stack = StackOf(nesting, KeyExpected)
      /\ ~truth.repeats /\ ~truth.escapes /\ ~truth.broken
  BY DEF KeyInv, InText
<1>2. nesting \in Seq(Container) /\ KeyExpected \in BOOLEAN
  BY DEF WriterInv, KeyExpected
<1>3. /\ nesting # <<>> => /\ nesting[1] \in Container /\ Head(nesting) = nesting[1]
                           /\ Head(keyScan.stack) = Frame(nesting[1], KeyExpected)
      /\ keyScan.stack # <<>> <=> nesting # <<>>
      /\ keyScan.stack \in Seq(Frames)
  BY <1>1, <1>2, StackFacts
<1>4. nesting # <<>> =>
         /\ Frame(nesting[1], KeyExpected).type = "obj" <=> nesting[1].type = "object"
         /\ Frame(nesting[1], KeyExpected).type = "arr" <=> nesting[1].type = "array"
  BY <1>2, <1>3, FrameFacts
<1> QED
  BY <1>1, <1>3, <1>4 DEF Innermost

\* A key or a string begins: the scan knows which.
LEMMA KeyBegins ==
  ASSUME WriterInv, KeyInv, ~keyScan.bad, NEW s \in WireStrings, BeginString(s) \/ BeginKey(s)
  PROVE  KeyInv'
<1> DEFINE b == Innermost(keyScan, "obj") /\ Head(keyScan.stack).expectKey
           e == <<>>
<1>1. /\ Feed(Quote) /\ UNCHANGED <<nesting, expects, truth>> /\ current.type = "none"
      /\ current'.type \in {"string", "key"} /\ current'.at = 0 /\ current'.escaping = FALSE
      /\ current'.units = s /\ InText'
      /\ current'.type = "string" => ValueMayCome
      /\ current'.type = "key" => KeyMayCome
  BY FedQuote
<1>2. current.type \notin {"string", "key"}
  BY <1>1
<1>3. keyScan' = [keyScan EXCEPT !.inString = TRUE, !.buf = e, !.isKey = b]
  BY <1>1, <1>2, KeyIdle, OutsideKey DEF Feed
<1>4. b <=> current'.type = "key"
  <2>1. CASE current'.type = "key"
    <3>1. nesting # <<>> /\ Head(nesting).type = "object" /\ KeyExpected = TRUE
      BY <1>1, <2>1 DEF KeyMayCome, WriterInv, KeyExpected
    <3>2. /\ nesting[1] \in Container /\ nesting[1].type = "object"
          /\ Head(keyScan.stack) = Frame(nesting[1], TRUE) /\ Innermost(keyScan, "obj")
      BY <1>2, <3>1, KeyIdle
    <3>3. Frame(nesting[1], TRUE).expectKey = TRUE
      BY <3>2, FrameFacts
    <3> QED
      BY <2>1, <3>2, <3>3
  <2>2. CASE current'.type = "string"
    <3>1. ASSUME Innermost(keyScan, "obj") PROVE ~Head(keyScan.stack).expectKey
      <4>1. /\ nesting # <<>> /\ nesting[1] \in Container
            /\ Head(keyScan.stack) = Frame(nesting[1], KeyExpected)
        BY <1>2, <3>1, KeyIdle
      <4>2. Frame(nesting[1], KeyExpected).type = "obj"
        BY <3>1, <4>1 DEF Innermost
      <4>3. KeyExpected = FALSE
        BY <1>1, <2>2, <4>1, <4>2, StackStays DEF KeyExpected
      <4> QED
        BY <4>1, <4>3, FrameFacts
    <3> QED
      BY <2>2, <3>1
  <2> QED
    BY <1>1, <2>1, <2>2
<1>5. b \in BOOLEAN /\ e \in Seq(STRING)
  <2>1. b \in BOOLEAN
    BY <1>4
  <2> QED
    BY <2>1
<1>6. e = RawTo(s, 0)
  BY DEF RawTo
<1> HIDE DEF b, e
<1>7. /\ keyScan' \in KeyStates /\ keyScan'.inString = TRUE /\ keyScan'.buf = e
      /\ keyScan'.isKey = b /\ keyScan'.escaped = keyScan.escaped
      /\ keyScan'.bad = keyScan.bad /\ keyScan'.stack = keyScan.stack
  BY <1>2, <1>3, <1>5, KeyIdle DEF KeyStates
<1>8. keyScan'.stack = StackOf(nesting, KeyExpected)' /\ ~keyScan'.escaped
  BY <1>1, <1>2, <1>7, KeyIdle DEF KeyExpected
<1>9. ~EscapeSeen'
  BY <1>1 DEF EscapeSeen
<1> QED
  BY <1>1, <1>2, <1>4, <1>6, <1>7, <1>8, <1>9, KeyIdle DEF KeyInv

\* A character of a key or a string.
LEMMA KeyText ==
  ASSUME WriterInv, KeyInv, ~keyScan.bad, WriteBackslash \/ WriteUnit
  PROVE  KeyInv'
<1> DEFINE u == current.units[current.at + 1]
<1>1. /\ InText /\ InText' /\ UNCHANGED <<nesting, expects, truth>>
      /\ current'.type = current.type /\ current'.units = current.units
      /\ current.type \in {"string", "key"} /\ current.escaping \in BOOLEAN
      /\ current.units \in WireStrings /\ current.units \in Seq(Unit)
      /\ current.at \in Nat /\ current.at < Len(current.units)
      /\ \/ /\ Feed(Backslash) /\ current'.at = current.at
            /\ ~current.escaping /\ current'.escaping = TRUE /\ u.escape = TRUE
         \/ /\ Feed(u.char) /\ current'.at = current.at + 1 /\ current'.escaping = FALSE
            /\ u.escape = current.escaping
            /\ ~current.escaping => u.char \notin {Quote, Backslash}
  BY FedText
<1>2. /\ keyScan \in KeyStates /\ keyScan.inString = TRUE
      /\ keyScan.isKey = (current.type = "key")
      /\ keyScan.escaped = (current.type = "string" /\ current.escaping)
      /\ keyScan.stack = StackOf(nesting, KeyExpected)
      /\ ~truth.repeats /\ ~truth.escapes /\ ~truth.broken /\ ~EscapeSeen
      /\ current.type = "key" => keyScan.buf = RawTo(current.units, current.at)
  BY <1>1 DEF KeyInv, KeyStates
<1>3. StackOf(nesting, KeyExpected)' = StackOf(nesting, KeyExpected)
  BY <1>1 DEF KeyExpected
<1>4. CASE current.type = "string"
  <2>1. ~EscapeSeen'
    BY <1>1, <1>4 DEF EscapeSeen
  <2>2. \E c : /\ keyScan' = InString(keyScan, c)
               /\ \/ c = Backslash /\ ~keyScan.escaped /\ current'.escaping
                  \/ keyScan.escaped /\ ~current'.escaping
                  \/ ~keyScan.escaped /\ c \notin {Quote, Backslash} /\ ~current'.escaping
    BY <1>1, <1>2, <1>4 DEF Feed, keyScanStep
  <2>3. /\ keyScan' \in KeyStates /\ keyScan'.inString = TRUE /\ ~keyScan'.isKey
        /\ ~keyScan'.bad
        /\ keyScan'.escaped <=> current'.escaping
        /\ keyScan'.stack = keyScan.stack
    BY <1>1, <1>2, <1>4, <2>2 DEF InString, KeyStates
  <2> QED
    BY <1>1, <1>2, <1>3, <1>4, <2>1, <2>3 DEF KeyInv
<1>5. CASE current.type = "key"
  <2>1. ~current.escaping /\ \A i \in 1 .. current.at : ~current.units[i].escape
    BY <1>2, <1>5 DEF EscapeSeen
  <2>2. CASE Feed(Backslash) /\ current'.escaping
    <3>1. keyScan' = [keyScan EXCEPT !.bad = TRUE]
      BY <1>2, <1>5, <2>2, CharsDiffer DEF Feed, keyScanStep, InKey
    <3>2. keyScan' \in KeyStates /\ keyScan'.bad = TRUE
      BY <1>2, <3>1 DEF KeyStates
    <3>3. EscapeSeen'
      BY <1>1, <1>5, <2>2 DEF EscapeSeen
    <3> QED
      BY <3>2, <3>3 DEF KeyInv
  <2>3. CASE /\ Feed(u.char) /\ current'.at = current.at + 1 /\ current'.escaping = FALSE
             /\ u.escape = FALSE /\ u.char \notin {Quote, Backslash}
    <3> DEFINE c == u.char
               q == Append(keyScan.buf, c)
    <3>1. keyScan' = [keyScan EXCEPT !.buf = q]
      BY <1>2, <1>5, <2>3 DEF Feed, keyScanStep, InKey
    <3>2. c \in STRING
      <4>1. u \in Unit
        BY <1>1
      <4> QED
        BY <4>1 DEF Unit
    <3>3. keyScan.buf \in Seq(STRING) /\ keyScan.buf = RawTo(current.units, current.at)
      BY <1>2, <1>5 DEF KeyStates
    <3>4. q \in Seq(STRING)
      BY <3>2, <3>3
    <3>5. q = RawTo(current.units, current.at + 1)
      BY <1>1, <3>3 DEF RawTo
    <3> HIDE DEF q
    <3>6. /\ keyScan' \in KeyStates /\ keyScan'.buf = q
          /\ keyScan'.bad = keyScan.bad /\ keyScan'.isKey = keyScan.isKey
          /\ keyScan'.inString = keyScan.inString /\ keyScan'.escaped = keyScan.escaped
          /\ keyScan'.stack = keyScan.stack
      BY <1>2, <3>1, <3>4 DEF KeyStates
    <3>7. ~EscapeSeen'
      <4>1. \A i \in 1 .. current.at + 1 : ~current.units[i].escape
        BY <1>1, <2>1, <2>3
      <4> QED
        BY <1>1, <2>3, <4>1 DEF EscapeSeen
    <3> QED
      BY <1>1, <1>2, <1>3, <1>5, <2>3, <3>5, <3>6, <3>7 DEF KeyInv
  <2> QED
    BY <1>1, <2>1, <2>2, <2>3
<1> QED
  BY <1>1, <1>4, <1>5

\* The closing quote of a string.
LEMMA KeyStringEnds ==
  ASSUME WriterInv, KeyInv, ~keyScan.bad, EndString
  PROVE  KeyInv'
<1>1. /\ current.type = "string" /\ current' = NoToken /\ expects' = "more"
      /\ Feed(Quote) /\ ~current.escaping /\ ValueMayCome /\ ~InText' /\ InText
      /\ UNCHANGED <<nesting, truth>>
  BY FedClosing DEF EndString, WriterInv, NoToken, InText
<1>2. /\ keyScan \in KeyStates /\ keyScan.inString /\ ~keyScan.isKey /\ ~keyScan.escaped
      /\ keyScan.stack = StackOf(nesting, KeyExpected)
      /\ ~truth.repeats /\ ~truth.escapes /\ ~truth.broken
  BY <1>1 DEF KeyInv
<1>3. keyScan' = [keyScan EXCEPT !.inString = FALSE]
  BY <1>1, <1>2, CharsDiffer DEF Feed, keyScanStep, InString
<1>4. /\ keyScan' \in KeyStates /\ ~keyScan'.inString /\ ~keyScan'.isKey /\ ~keyScan'.escaped
      /\ keyScan'.stack = keyScan.stack /\ ~keyScan'.bad
  BY <1>2, <1>3 DEF KeyStates
<1>5. keyScan'.stack = StackOf(nesting, KeyExpected)'
  <2>1. KeyExpected' = FALSE
    BY <1>1 DEF KeyExpected
  <2> QED
    BY <1>1, <1>2, <1>4, <2>1, StackStays
<1>6. current'.type = "none" /\ ~EscapeSeen'
  BY <1>1 DEF NoToken, EscapeSeen
<1> QED
  BY <1>1, <1>2, <1>4, <1>5, <1>6 DEF KeyInv
\* Below the innermost container, a frame never expects a key.
LEMMA StackAt ==
  ASSUME NEW open, NEW e \in BOOLEAN, NEW i \in DOMAIN open
  PROVE  StackOf(open, e)[i] = Frame(open[i], IF i = 1 THEN e ELSE FALSE)
<1>1. StackOf(open, e)[i] = Frame(open[i], i = 1 /\ e)
  BY Zenon DEF StackOf
<1>2. (i = 1 /\ e) = IF i = 1 THEN e ELSE FALSE
  OBVIOUS
<1> QED
  BY <1>1, <1>2, Zenon

\* The closing quote of a key: it is refused if the object has it already.
LEMMA KeyKeyEnds ==
  ASSUME WriterInv, WriterInv', TruthInv, KeyInv, ~keyScan.bad, EndKey
  PROVE  KeyInv'
<1> DEFINE s == current.units
           c == nesting[1]
           d == [c EXCEPT !.means = @ \cup {Meaning(s)}, !.keys = @ \cup {s}]
           r == {Raw(k) : k \in c.keys}
           x == ObjectFrame(r \cup {Raw(s)}, FALSE)
           e == <<>>
<1>1. /\ s \in WireStrings /\ c \in Container /\ c.type = "object" /\ d \in Container
      /\ d.type = "object" /\ d.keys = c.keys \cup {s} /\ c.keys \subseteq WireStrings
      /\ nesting # <<>> /\ 1 \in DOMAIN nesting /\ DOMAIN nesting' = DOMAIN nesting
      /\ nesting' = [i \in DOMAIN nesting |-> IF i = 1 THEN d ELSE nesting[i]]
      /\ truth'.repeats <=> truth.repeats \/ s \in c.keys
      /\ truth'.escapes <=> truth.escapes \/ Escaped(s)
      /\ truth'.broken <=> truth.broken
      /\ current.type = "key" /\ current.at = Len(s) /\ current'.type = "none"
  BY KeyEnded
<1>2. expects' = "colon" /\ Feed(Quote) /\ InText /\ ~InText' /\ ~KeyExpected'
  BY FedClosing DEF EndKey, KeyExpected
<1>3. /\ keyScan \in KeyStates /\ keyScan.isKey /\ ~keyScan.escaped
      /\ keyScan.stack = StackOf(nesting, KeyExpected) /\ keyScan.buf = Raw(s)
      /\ ~truth.repeats /\ ~truth.escapes /\ ~truth.broken /\ ~EscapeSeen
  BY <1>1 DEF KeyInv, Raw
<1>4. nesting \in Seq(Container) /\ KeyExpected \in BOOLEAN
  BY DEF WriterInv, KeyExpected
<1>5. /\ keyScan.stack \in Seq(Frames) /\ keyScan.stack # <<>>
      /\ DOMAIN keyScan.stack = DOMAIN nesting
      /\ Head(keyScan.stack) = Frame(c, KeyExpected) /\ keyScan.stack[1] = Frame(c, KeyExpected)
  <2>1. nesting # <<>> /\ keyScan.stack = StackOf(nesting, KeyExpected)
    BY <1>1, <1>3
  <2> QED
    BY ONLY <1>4, <2>1, StackFacts
<1>6. Head(keyScan.stack).seen = r /\ keyScan.stack[1].seen = r
  <2>1. nesting[1] \in Container /\ nesting[1].type = "object" /\ KeyExpected \in BOOLEAN
    BY <1>1, <1>4
  <2>2. Frame(nesting[1], KeyExpected).seen = {Raw(k) : k \in nesting[1].keys}
    BY ONLY <2>1, FrameFacts
  <2> QED
    BY <1>5, <2>2, Zenon
<1>7. ~Escaped(s)
  <2>1. s \in Seq(Unit) /\ DOMAIN s = 1 .. Len(s)
    BY <1>1, WireAssumption
  <2> QED
    BY <1>1, <1>3, <2>1 DEF EscapeSeen, Escaped
<1>8. Raw(s) \in r <=> s \in c.keys
  <2>1. ASSUME NEW k \in c.keys, Raw(s) = Raw(k) PROVE s = k
    <3>1. k \in WireStrings /\ ~Escaped(k)
      BY <1>1, <1>3 DEF TruthInv
    <3> QED
      BY <1>1, <1>7, <2>1, <3>1, PlainKeys
  <2> QED
    BY <2>1
<1>9. keyScan' = IF Raw(s) \in r THEN [keyScan EXCEPT !.bad = TRUE]
                 ELSE [keyScan EXCEPT !.inString = FALSE, !.isKey = FALSE, !.buf = e,
                                      !.stack = [@ EXCEPT ![1] = x]]
  <2>1. keyScan' = KeyEnds(keyScan)
    BY <1>2, <1>3, CharsDiffer DEF Feed, keyScanStep, InKey
  <2> HIDE DEF r
  <2>2. KeyEnds(keyScan)
          = IF Raw(s) \in r THEN [keyScan EXCEPT !.bad = TRUE]
            ELSE [keyScan EXCEPT !.inString = FALSE, !.isKey = FALSE, !.buf = e,
                                 !.stack = [@ EXCEPT ![1] = x]]
    BY <1>3, <1>6 DEF KeyEnds
  <2> QED
    BY <2>1, <2>2
<1>10. CASE s \in c.keys
  <2>1. keyScan' = [keyScan EXCEPT !.bad = TRUE]
    BY <1>8, <1>9, <1>10, Zenon
  <2>2. keyScan' \in KeyStates /\ keyScan'.bad = TRUE
    BY <1>3, <2>1 DEF KeyStates
  <2> QED
    BY <1>1, <1>10, <2>2 DEF KeyInv
<1>11. CASE s \notin c.keys
  <2> DEFINE t == [keyScan.stack EXCEPT ![1] = x]
  <2>1. keyScan' = [keyScan EXCEPT !.inString = FALSE, !.isKey = FALSE, !.buf = e, !.stack = t]
    BY <1>8, <1>9, <1>11, Zenon
  <2>2. Frame(d, FALSE) = x
    <3>1. {Raw(k) : k \in d.keys} = r \cup {Raw(s)}
      BY <1>1
    <3>2. Frame(d, FALSE) = ObjectFrame({Raw(k) : k \in d.keys}, FALSE)
      BY <1>1, FrameFacts
    <3> QED
      BY <3>1, <3>2, Zenon
  <2>3. x \in Frames
    BY <1>1, <2>2, FrameType
  <2> HIDE DEF x, d
  <2>4. /\ t \in Seq(Frames)
        /\ t = [i \in DOMAIN nesting |-> IF i = 1 THEN x ELSE keyScan.stack[i]]
    BY <1>5, <2>3, Touch
  <2> HIDE DEF t, e
  <2>5. t = StackOf(nesting', KeyExpected')
    <3>1. ASSUME NEW i \in DOMAIN nesting PROVE t[i] = Frame(nesting'[i], i = 1 /\ FALSE)
      <4>1. CASE i = 1
        <5>1. t[i] = x /\ nesting'[i] = d /\ (i = 1 /\ FALSE) = FALSE
          BY <1>1, <2>4, <4>1
        <5> QED
          BY <2>2, <5>1, Zenon
      <4>2. CASE i # 1
        <5>1. t[i] = keyScan.stack[i] /\ nesting'[i] = nesting[i] /\ (i = 1 /\ FALSE) = FALSE
          BY <1>1, <2>4, <4>2
        <5>2. keyScan.stack[i] = Frame(nesting[i], FALSE)
          <6>1. StackOf(nesting, KeyExpected)[i]
                  = Frame(nesting[i], IF i = 1 THEN KeyExpected ELSE FALSE)
            BY <1>4, StackAt
          <6> QED
            BY <1>3, <4>2, <6>1, Zenon
        <5> QED
          BY <5>1, <5>2, Zenon
      <4> QED
        BY <4>1, <4>2
    <3>2. t = [i \in DOMAIN nesting' |-> Frame(nesting'[i], i = 1 /\ FALSE)]
      BY <1>1, <2>4, <3>1
    <3>3. KeyExpected' = FALSE
      BY <1>2 DEF KeyExpected
    <3> QED
      BY <3>2, <3>3, Zenon DEF StackOf
  <2>6. e \in Seq(STRING)
    BY DEF e
  <2>7. /\ keyScan' \in KeyStates /\ ~keyScan'.inString /\ ~keyScan'.isKey
        /\ keyScan'.stack = t /\ keyScan'.escaped = keyScan.escaped /\ ~keyScan'.bad
    BY <1>3, <2>1, <2>4, <2>6 DEF KeyStates
  <2>8. ~EscapeSeen' /\ ~truth'.repeats /\ ~truth'.escapes /\ ~truth'.broken
    BY <1>1, <1>3, <1>7, <1>11 DEF EscapeSeen
  <2> QED
    BY <1>1, <1>2, <1>3, <2>5, <2>7, <2>8 DEF KeyInv
<1> QED
  BY <1>10, <1>11
\* A container opens: its frame goes on the stack.
LEMMA KeyOpens ==
  ASSUME WriterInv, WriterInv', KeyInv, ~keyScan.bad,
         NEW type \in {"object", "array"}, WriteOpen(type)
  PROVE  KeyInv'
<1> DEFINE d == [type |-> type, means |-> {}, keys |-> {}]
           x == IF type = "object" THEN ObjectFrame({}, TRUE) ELSE ArrayFrame
           t == <<x>> \o keyScan.stack
<1>1. /\ ValueMayCome /\ current = NoToken /\ current' = NoToken /\ expects' = "first"
      /\ nesting' = <<d>> \o nesting /\ truth' = truth
      /\ Feed(IF type = "object" THEN ObjectStart ELSE ArrayStart)
  BY DEF WriteOpen, Begins
<1>2. current.type = "none" /\ current'.type = "none"
  BY <1>1 DEF NoToken
<1>3. /\ keyScan \in KeyStates /\ ~keyScan.inString /\ ~keyScan.isKey
      /\ keyScan.stack = StackOf(nesting, KeyExpected) /\ keyScan.stack \in Seq(Frames)
  BY <1>2, KeyIdle
<1>4. keyScan' = [keyScan EXCEPT !.stack = t]
  <2>1. CASE type = "object"
    <3>1. keyScan' = keyScanStep(keyScan, ObjectStart) /\ x = ObjectFrame({}, TRUE)
      BY <1>1, <2>1 DEF Feed
    <3> QED
      BY <1>3, <3>1, OutsideKey
  <2>2. CASE type = "array"
    <3>1. keyScan' = keyScanStep(keyScan, ArrayStart) /\ x = ArrayFrame
      BY <1>1, <2>2 DEF Feed
    <3> QED
      BY <1>3, <3>1, OutsideKey
  <2> QED
    BY <2>1, <2>2
<1>5. d \in Container /\ Frame(d, TRUE) = x
  <2>1. d \in Container /\ d.type = type /\ d.keys = {}
    BY DEF Container
  <2>2. {Raw(k) : k \in d.keys} = {}
    BY <2>1
  <2> HIDE DEF d
  <2> QED
    BY <2>1, <2>2, Zenon DEF Frame
<1>6. x \in Frames
  BY <1>5, FrameType
<1> HIDE DEF d, x
<1>7. nesting \in Seq(Container)
  BY DEF WriterInv
<1>8. /\ DOMAIN nesting' = 1 .. Len(nesting) + 1 /\ Len(nesting) \in Nat
      /\ nesting' = [i \in 1 .. Len(nesting) + 1 |-> IF i = 1 THEN d ELSE nesting[i - 1]]
  BY ONLY <1>1, <1>5, <1>7, Push
<1>9. t = [i \in 1 .. Len(keyScan.stack) + 1 |-> IF i = 1 THEN x ELSE keyScan.stack[i - 1]]
  <2>1. t = <<x>> \o keyScan.stack
    OBVIOUS
  <2> HIDE DEF t
  <2> QED
    BY ONLY <1>3, <1>6, <2>1, Push
<1>10. keyScan.stack = StackOf(nesting, FALSE)
  BY <1>1, <1>3, StackStays
<1>11. Len(keyScan.stack) = Len(nesting) /\ DOMAIN nesting = 1 .. Len(nesting)
  BY ONLY <1>7, <1>10, StackFacts
<1> HIDE DEF t
<1>12. t = StackOf(nesting', TRUE)
  <2>1. ASSUME NEW i \in 1 .. Len(nesting) + 1 PROVE t[i] = Frame(nesting'[i], i = 1 /\ TRUE)
    <3>1. CASE i = 1
      <4>1. t[i] = x /\ nesting'[i] = d /\ (i = 1 /\ TRUE) = TRUE
        BY <1>8, <1>9, <1>11, <3>1
      <4> QED
        BY <1>5, <4>1, Zenon
    <3>2. CASE i # 1
      <4>1. /\ t[i] = keyScan.stack[i - 1] /\ nesting'[i] = nesting[i - 1]
            /\ (i = 1 /\ TRUE) = FALSE /\ i - 1 \in DOMAIN nesting
        BY <1>8, <1>9, <1>11, <3>2
      <4>2. StackOf(nesting, FALSE)[i - 1]
              = Frame(nesting[i - 1], IF i - 1 = 1 THEN FALSE ELSE FALSE)
        BY <4>1, StackAt
      <4>3. keyScan.stack[i - 1] = Frame(nesting[i - 1], FALSE)
        BY <1>10, <4>2, Zenon
      <4> QED
        BY <4>1, <4>3, Zenon
    <3> QED
      BY <3>1, <3>2
  <2>2. t = [i \in DOMAIN nesting' |-> Frame(nesting'[i], i = 1 /\ TRUE)]
    BY <1>8, <1>9, <1>11, <2>1
  <2> QED
    BY <2>2, Zenon DEF StackOf
<1>13. KeyExpected' = TRUE
  BY <1>1 DEF KeyExpected
<1>14. /\ t = StackOf(nesting', KeyExpected')
       /\ UNCHANGED <<truth.repeats, truth.escapes, truth.broken>>
       /\ current.type \notin {"string", "key"} /\ current'.type \notin {"string", "key"}
  BY <1>1, <1>2, <1>12, <1>13
<1> QED
  BY <1>4, <1>14, KeyBetween

\* A container closes: its frame leaves the stack, or the line is refused.
LEMMA KeyCloses ==
  ASSUME WriterInv, WriterInv', KeyInv, ~keyScan.bad,
         NEW type \in {"object", "array"}, WriteClose(type)
  PROVE  KeyInv'
<1>1. /\ current = NoToken /\ current' = NoToken /\ expects' = "more"
      /\ expects \in {"first", "more"}
      /\ Feed(IF type = "object" THEN ObjectEnd ELSE ArrayEnd)
      /\ IF nesting # <<>> /\ Head(nesting).type = type
           THEN nesting' = Tail(nesting) /\ UNCHANGED truth
           ELSE truth' = [truth EXCEPT !.broken = TRUE] /\ UNCHANGED nesting
  BY DEF WriteClose, Begins
<1>2. current.type = "none" /\ current'.type = "none"
  BY <1>1 DEF NoToken
<1>3. /\ keyScan \in KeyStates /\ ~keyScan.inString /\ ~keyScan.isKey
      /\ keyScan.stack = StackOf(nesting, KeyExpected) /\ keyScan.stack \in Seq(Frames)
      /\ keyScan.stack # <<>> <=> nesting # <<>>
      /\ Innermost(keyScan, "obj") <=> nesting # <<>> /\ Head(nesting).type = "object"
      /\ Innermost(keyScan, "arr") <=> nesting # <<>> /\ Head(nesting).type = "array"
  BY <1>2, KeyIdle
<1>4. keyScan' = IF nesting # <<>> /\ Head(nesting).type = type
                   THEN [keyScan EXCEPT !.stack = Tail(keyScan.stack)]
                   ELSE [keyScan EXCEPT !.bad = TRUE]
  <2>1. CASE type = "object"
    <3>1. keyScan' = keyScanStep(keyScan, ObjectEnd)
      BY <1>1, <2>1 DEF Feed
    <3>2. keyScan' = Close(keyScan, "obj")
      BY <1>3, <3>1, OutsideKey
    <3> QED
      BY <1>3, <2>1, <3>2, Zenon DEF Close
  <2>2. CASE type = "array"
    <3>1. keyScan' = keyScanStep(keyScan, ArrayEnd)
      BY <1>1, <2>2 DEF Feed
    <3>2. keyScan' = Close(keyScan, "arr")
      BY <1>3, <3>1, OutsideKey
    <3> QED
      BY <1>3, <2>2, <3>2, Zenon DEF Close
  <2> QED
    BY <2>1, <2>2
<1>5. CASE nesting # <<>> /\ Head(nesting).type = type
  <2> DEFINE t == Tail(keyScan.stack)
  <2>1. nesting \in Seq(Container) /\ nesting # <<>> /\ KeyExpected \in BOOLEAN
    BY <1>5 DEF WriterInv, KeyExpected
  <2>2. /\ DOMAIN nesting' = 1 .. Len(nesting) - 1 /\ Len(nesting) \in Nat
        /\ nesting' = [i \in 1 .. Len(nesting) - 1 |-> nesting[i + 1]]
        /\ DOMAIN nesting = 1 .. Len(nesting)
    <3>1. nesting' = Tail(nesting)
      BY <1>1, <1>5
    <3> QED
      BY ONLY <2>1, <3>1, Pop
  <2>3. Len(keyScan.stack) = Len(nesting)
    BY ONLY <1>3, <2>1, StackFacts
  <2>4. t = [i \in 1 .. Len(keyScan.stack) - 1 |-> keyScan.stack[i + 1]]
    <3>1. keyScan.stack # <<>>
      BY <1>3, <2>1
    <3> QED
      BY ONLY <1>3, <3>1, Pop
  <2> HIDE DEF t
  <2>5. t = StackOf(nesting', FALSE)
    <3>1. ASSUME NEW i \in 1 .. Len(nesting) - 1
          PROVE  t[i] = Frame(nesting'[i], i = 1 /\ FALSE)
      <4>1. /\ t[i] = keyScan.stack[i + 1] /\ nesting'[i] = nesting[i + 1]
            /\ (i = 1 /\ FALSE) = FALSE /\ i + 1 \in DOMAIN nesting /\ i + 1 # 1
        BY <2>2, <2>3, <2>4
      <4>2. StackOf(nesting, KeyExpected)[i + 1]
              = Frame(nesting[i + 1], IF i + 1 = 1 THEN KeyExpected ELSE FALSE)
        BY <2>1, <4>1, StackAt
      <4>3. keyScan.stack[i + 1] = Frame(nesting[i + 1], FALSE)
        BY <1>3, <4>1, <4>2, Zenon
      <4> QED
        BY <4>1, <4>3, Zenon
    <3>2. t = [i \in DOMAIN nesting' |-> Frame(nesting'[i], i = 1 /\ FALSE)]
      BY <2>2, <2>3, <2>4, <3>1
    <3> QED
      BY <3>2, Zenon DEF StackOf
  <2>6. KeyExpected' = FALSE
    BY <1>1 DEF KeyExpected
  <2>7. /\ t = StackOf(nesting', KeyExpected') /\ keyScan' = [keyScan EXCEPT !.stack = t]
        /\ UNCHANGED <<truth.repeats, truth.escapes, truth.broken>>
        /\ current.type \notin {"string", "key"} /\ current'.type \notin {"string", "key"}
    BY <1>1, <1>2, <1>4, <1>5, <2>5, <2>6 DEF t
  <2> QED
    BY <2>7, KeyBetween
<1>6. CASE ~(nesting # <<>> /\ Head(nesting).type = type)
  <2>1. truth'.broken = TRUE
    BY <1>1, <1>6 DEF WriterInv
  <2>2. keyScan' = [keyScan EXCEPT !.bad = TRUE]
    BY <1>4, <1>6
  <2>3. keyScan' \in KeyStates /\ keyScan'.bad = TRUE
    BY <1>3, <2>2 DEF KeyStates
  <2> QED
    BY <2>1, <2>3 DEF KeyInv
<1> QED
  BY <1>5, <1>6

\* After a comma, an object expects a key.
LEMMA KeyComma ==
  ASSUME WriterInv, WriterInv', KeyInv, ~keyScan.bad, WriteComma
  PROVE  KeyInv'
<1> DEFINE x == [Head(keyScan.stack) EXCEPT !.expectKey = TRUE]
           t == [keyScan.stack EXCEPT ![1] = x]
<1>1. /\ current = NoToken /\ current' = NoToken /\ expects = "more" /\ nesting # <<>>
      /\ expects' = IF Head(nesting).type = "object" THEN "key" ELSE "value"
      /\ UNCHANGED <<nesting, truth>> /\ Feed(Comma)
  BY DEF WriteComma, Begins
<1>2. current.type = "none" /\ current'.type = "none"
  BY <1>1 DEF NoToken
<1>3. /\ keyScan \in KeyStates /\ ~keyScan.inString /\ ~keyScan.isKey
      /\ keyScan.stack = StackOf(nesting, KeyExpected) /\ keyScan.stack \in Seq(Frames)
      /\ nesting[1] \in Container /\ Head(nesting) = nesting[1]
      /\ Head(keyScan.stack) = Frame(nesting[1], KeyExpected) /\ keyScan.stack # <<>>
      /\ Innermost(keyScan, "obj") <=> Head(nesting).type = "object"
  BY <1>1, <1>2, KeyIdle
<1>4. KeyExpected = FALSE
  BY <1>1 DEF KeyExpected
<1>5. CASE Head(nesting).type = "object"
  <2>1. keyScan' = [keyScan EXCEPT !.stack[1].expectKey = TRUE]
    BY <1>1, <1>3, <1>5, OutsideKey DEF Feed
  <2>2. keyScan.stack[1] = Head(keyScan.stack) /\ Head(keyScan.stack) \in Frames
        /\ DOMAIN keyScan.stack = DOMAIN nesting /\ 1 \in DOMAIN nesting
    <3>1. nesting \in Seq(Container)
      BY DEF WriterInv
    <3>2. DOMAIN keyScan.stack = DOMAIN nesting /\ 1 \in DOMAIN nesting
      BY ONLY <1>1, <1>3, <1>4, <3>1, StackFacts
    <3> QED
      BY <1>3, <3>2
  <2>3. keyScan' = [keyScan EXCEPT !.stack = t]
    BY <2>1, <2>2
  <2>4. x = Frame(nesting[1], TRUE) /\ x \in Frames
    <3> DEFINE y == Head(keyScan.stack)
               z == Frame(nesting[1], TRUE)
    <3>1. y = Frame(nesting[1], FALSE) /\ nesting[1] \in Container /\ nesting[1].type = "object"
      BY <1>3, <1>4, <1>5
    <3>2. y \in Frames /\ z \in Frames
      BY ONLY <3>1, FrameType
    <3>3. y.type = z.type /\ y.seen = z.seen /\ z.expectKey = TRUE
      <4>1. /\ Frame(nesting[1], FALSE).type = "obj" /\ Frame(nesting[1], TRUE).type = "obj"
            /\ Frame(nesting[1], FALSE).seen = {Raw(k) : k \in nesting[1].keys}
            /\ Frame(nesting[1], TRUE).seen = {Raw(k) : k \in nesting[1].keys}
            /\ Frame(nesting[1], TRUE).expectKey = TRUE
        BY ONLY <3>1, FrameFacts
      <4> QED
        BY <3>1, <4>1, Zenon
    <3>4. x = [y EXCEPT !.expectKey = TRUE]
      OBVIOUS
    <3> HIDE DEF x, y, z
    <3>5. x \in Frames /\ x.type = y.type /\ x.seen = y.seen /\ x.expectKey = TRUE
      BY <3>2, <3>4 DEF Frames
    <3>6. x = z
      BY <3>2, <3>3, <3>5 DEF Frames
    <3> QED
      BY <3>2, <3>6 DEF z
  <2> HIDE DEF x
  <2>5. t = [i \in DOMAIN nesting |-> IF i = 1 THEN x ELSE keyScan.stack[i]]
    <3>1. t = [keyScan.stack EXCEPT ![1] = x]
      OBVIOUS
    <3> HIDE DEF t
    <3> QED
      BY <1>3, <2>2, <2>4, <3>1, Touch
  <2> HIDE DEF t
  <2>6. t = StackOf(nesting, TRUE)
    <3>1. ASSUME NEW i \in DOMAIN nesting PROVE t[i] = Frame(nesting[i], i = 1 /\ TRUE)
      <4>1. CASE i = 1
        <5>1. t[i] = x /\ (i = 1 /\ TRUE) = TRUE
          BY <2>5, <4>1
        <5> QED
          BY <2>4, <4>1, <5>1, Zenon
      <4>2. CASE i # 1
        <5>1. t[i] = keyScan.stack[i] /\ (i = 1 /\ TRUE) = FALSE
          BY <2>5, <4>2
        <5>2. StackOf(nesting, FALSE)[i] = Frame(nesting[i], IF i = 1 THEN FALSE ELSE FALSE)
          BY StackAt
        <5>3. keyScan.stack[i] = Frame(nesting[i], FALSE)
          BY <1>3, <1>4, <5>2, Zenon
        <5> QED
          BY <5>1, <5>3, Zenon
      <4> QED
        BY <4>1, <4>2
    <3>2. t = [i \in DOMAIN nesting |-> Frame(nesting[i], i = 1 /\ TRUE)]
      BY <2>5, <3>1
    <3> QED
      BY <3>2, Zenon DEF StackOf
  <2>7. KeyExpected' = TRUE /\ nesting' = nesting
    BY <1>1, <1>5 DEF KeyExpected
  <2>8. /\ t = StackOf(nesting', KeyExpected')
        /\ UNCHANGED <<truth.repeats, truth.escapes, truth.broken>>
        /\ current.type \notin {"string", "key"} /\ current'.type \notin {"string", "key"}
    BY <1>1, <1>2, <2>6, <2>7
  <2> QED
    BY <2>3, <2>8, KeyBetween
<1>6. CASE Head(nesting).type # "object"
  <2>1. keyScan' = keyScan
    BY <1>1, <1>3, <1>6, OutsideKey DEF Feed
  <2>2. keyScan' = [keyScan EXCEPT !.stack = keyScan.stack]
    BY <1>3, <2>1 DEF KeyStates
  <2>3. KeyExpected' = FALSE /\ nesting' = nesting
    BY <1>1, <1>6 DEF KeyExpected
  <2>4. /\ keyScan.stack = StackOf(nesting', KeyExpected')
        /\ UNCHANGED <<truth.repeats, truth.escapes, truth.broken>>
        /\ current.type \notin {"string", "key"} /\ current'.type \notin {"string", "key"}
    BY <1>1, <1>2, <1>3, <1>4, <2>3
  <2> QED
    BY <2>2, <2>4, KeyBetween
<1> QED
  BY <1>5, <1>6
\* The scan of keys keeps up with the writer.
LEMMA KeyStep ==
  ASSUME WriterInv, WriterInv', TruthInv, KeyInv, [WireNext]_wireVars
  PROVE  KeyInv'
<1>1. CASE keyScan.bad
  BY <1>1, KeyStuck
<1>2. CASE ~keyScan.bad
  <2>1. ASSUME keyScan' = keyScan, current.type \notin {"string", "key"},
               current'.type \notin {"string", "key"}, nesting' = nesting,
               StackOf(nesting, KeyExpected') = StackOf(nesting, KeyExpected),
               UNCHANGED <<truth.repeats, truth.escapes, truth.broken>>
        PROVE  KeyInv'
    <3>1. keyScan.stack = StackOf(nesting', KeyExpected')
      BY <1>2, <2>1, KeyIdle
    <3>2. keyScan' = [keyScan EXCEPT !.stack = keyScan.stack]
      BY <2>1 DEF KeyInv, KeyStates
    <3> QED
      BY <1>2, <2>1, <3>1, <3>2, KeyBetween
  <2>2. CASE \/ \E n \in WireNumbers : BeginNumber(n)
             \/ BeginWord \/ EndNumber \/ EndWord \/ EndLine \/ UNCHANGED wireVars
    <3>1. keyScan' = keyScan /\ nesting' = nesting
      BY <2>2, Silent DEF scanVars
    <3>2. UNCHANGED <<truth.repeats, truth.escapes, truth.broken>>
      BY <2>2, Silent DEF EndNumber, WriterInv
    <3>3. CASE UNCHANGED <<current, nesting, expects, truth>>
      BY <3>1, <3>3 DEF KeyInv, InText, EscapeSeen, KeyExpected
    <3>4. CASE BeginWord \/ \E n \in WireNumbers : BeginNumber(n)
      <4>1. expects' = expects
        BY <3>4 DEF BeginWord, BeginNumber
      <4>2. /\ current.type \notin {"string", "key"} /\ current'.type \notin {"string", "key"}
            /\ StackOf(nesting, KeyExpected') = StackOf(nesting, KeyExpected)
        <5>1. ASSUME NEW n \in WireNumbers, BeginNumber(n)
              PROVE  current.type = "none" /\ current'.type = "number"
          BY <5>1 DEF BeginNumber, Begins, NoToken
        <5>2. ASSUME BeginWord PROVE current.type = "none" /\ current'.type = "word"
          BY <5>2 DEF BeginWord, Begins, NoToken
        <5>3. KeyExpected' = KeyExpected
          BY <4>1 DEF KeyExpected
        <5> QED
          BY <3>4, <5>1, <5>2, <5>3
      <4> QED
        BY <2>1, <3>1, <3>2, <4>2
    <3>5. CASE EndNumber \/ EndWord
      <4>1. /\ current.type \in {"number", "word"} /\ current' = NoToken /\ expects' = "more"
        BY <3>5 DEF EndNumber, EndWord
      <4>2. ValueMayCome
        BY <4>1 DEF WriterInv, InLiteral
      <4>3. KeyExpected' = FALSE
        BY <4>1 DEF KeyExpected
      <4>4. StackOf(nesting, KeyExpected') = StackOf(nesting, KeyExpected)
        BY <4>2, <4>3, StackStays
      <4>5. current.type \notin {"string", "key"} /\ current'.type \notin {"string", "key"}
        BY <4>1 DEF NoToken
      <4> QED
        BY <2>1, <3>1, <3>2, <4>4, <4>5
    <3> QED
      BY <2>2, <3>3, <3>4, <3>5 DEF EndLine, wireVars
  <2>3. CASE WriteCharacter
    <3>1. /\ UNCHANGED <<nesting, expects, truth>> /\ current'.type = current.type
          /\ current.type \in {"number", "word"}
          /\ \E c \in NumberChars \cup {"a"} : Feed(c)
      <4>1. CASE current.type = "number"
        <5> DEFINE c == Written(current.literal)[current.at + 1]
        <5>1. Feed(c) /\ current.at \in Nat /\ current.at < NumberEnd(current.literal)
          BY <2>3, <4>1, FedLiteral
        <5>2. current.literal \in Literal
          BY <4>1, Tokens
        <5>3. c \in NumberChars
          <6>1. current.at + 1 \in 1 .. NumberEnd(current.literal)
            BY <5>1, <5>2, LiteralEnds
          <6> QED
            BY <5>2, <6>1, LiteralText DEF NumberChars
        <5> QED
          BY <2>3, <4>1, <5>1, <5>3, FedLiteral
      <4>2. CASE current.type = "word"
        <5>1. Feed("a") \/ Feed("e")
          BY <2>3, <4>2, FedLiteral
        <5>2. "e" \in NumberChars
          BY DEF NumberChars
        <5> QED
          BY <2>3, <4>2, <5>1, <5>2, FedLiteral
      <4> QED
        BY <2>3, <4>1, <4>2, FedLiteral
    <3>2. keyScan' = keyScan
      BY <1>2, <3>1, KeyIdle, OutsideKey DEF Feed
    <3> QED
      BY <2>1, <3>1, <3>2 DEF KeyExpected
  <2>4. CASE WriteColon
    <3>1. /\ current = NoToken /\ UNCHANGED <<current, nesting, truth>> /\ Feed(Colon)
          /\ expects = "colon" /\ expects' = "value"
      BY <2>4 DEF WriteColon
    <3>2. current.type = "none" /\ ~KeyExpected /\ ~KeyExpected'
      BY <3>1 DEF NoToken, KeyExpected
    <3>3. keyScan' = keyScan
      BY <1>2, <3>1, <3>2, KeyIdle, OutsideKey DEF Feed
    <3>4. KeyExpected = FALSE /\ KeyExpected' = FALSE
      BY <3>2 DEF KeyExpected
    <3> QED
      BY <2>1, <3>1, <3>2, <3>3, <3>4
  <2> QED
    BY <1>2, <2>2, <2>3, <2>4, KeyBegins, KeyText, KeyStringEnds, KeyKeyEnds, KeyOpens, KeyCloses,
       KeyComma, Zenon DEF WireNext
<1> QED
  BY <1>1, <1>2

\* The verdict is given once, on what the scans and the writer agree about.
VerdictInv == verdict # "none" => tokens = -1 /\ current = NoToken /\ expects = "more"

\* At the end of the line the gates refuse what they should and nothing else.
LEMMA VerdictIsExact ==
  ASSUME WireInv, EndLine
  PROVE  GatesAreExact'
<1>1. current.type = "none" /\ expects = "more" /\ verdict' = Gated /\ truth' = truth
  BY DEF EndLine, NoToken
<1>2. numberScan.worst = truth.exponent /\ digitScan.worst = truth.mantissa
      /\ truth.exponent \in Nat /\ truth.mantissa \in Nat
  BY <1>1 DEF WireInv, NumberInv, DigitInv, WriterInv
<1>3. finishAgreementNumber(agreementScan).offending <=> truth.unsafe
  <2>1. agreementScan \in AgreementStates
    BY DEF WireInv, AgreementInv
  <2>2. CASE agreementScan.inNumber
    <3> DEFINE b == agreementScan.buf \in WireUnsafe
               e == <<>>
    <3>1. truth.unsafe <=> b
      BY <1>1, <2>2 DEF WireInv, AgreementInv
    <3>2. finishAgreementNumber(agreementScan)
            = [agreementScan EXCEPT !.inNumber = FALSE, !.buf = e, !.offending = b]
      BY <2>2 DEF finishAgreementNumber
    <3>3. b \in BOOLEAN
      OBVIOUS
    <3> HIDE DEF b, e
    <3>4. finishAgreementNumber(agreementScan).offending = b
      BY <2>1, <3>2, <3>3 DEF AgreementStates
    <3> QED
      BY <3>1, <3>4
  <2>3. CASE ~agreementScan.inNumber
    BY <1>1, <2>3 DEF WireInv, AgreementInv, finishAgreementNumber
  <2> QED
    BY <2>2, <2>3
<1>4. keyScan.bad <=> truth.repeats \/ truth.escapes \/ truth.broken
  BY <1>1 DEF WireInv, KeyInv, EscapeSeen
<1>5. truth.collapses => truth.repeats \/ truth.escapes
  BY DEF WireInv, TruthInv
<1>6. /\ MaxExponentDigits \in Nat /\ MaxSignificantDigits \in Nat
  BY WireAssumption
<1>7. verdict' = "parsed" <=>
        /\ numberScan.worst <= MaxExponentDigits
        /\ ~finishAgreementNumber(agreementScan).offending
        /\ ~keyScan.bad /\ digitScan.worst <= MaxSignificantDigits
  BY <1>1, <1>2, <1>6 DEF Gated
<1> QED
  BY <1>1, <1>2, <1>3, <1>4, <1>5, <1>7, Zenon DEF GatesAreExact

\* The verdict is given at the end of the line and stands.
LEMMA VerdictStep ==
  ASSUME WireInv, VerdictInv, GatesAreExact, [WireNext]_wireVars
  PROVE  VerdictInv' /\ GatesAreExact'
<1>1. CASE EndLine
  BY <1>1, VerdictIsExact DEF EndLine, VerdictInv
<1>2. CASE ~EndLine /\ verdict = "none"
  <2>1. ASSUME NEW c, Feed(c) PROVE verdict' = verdict
    BY <2>1 DEF Feed
  <2>2. verdict' = verdict
    BY <1>2, <2>1, Zenon
    DEF WireNext, BeginNumber, BeginWord, WriteCharacter, EndNumber, EndWord, BeginString,
        BeginKey, WriteBackslash, WriteUnit, EndString, EndKey, WriteColon, WriteOpen,
        WriteClose, WriteComma, wireVars
  <2> QED
    BY <1>2, <2>2 DEF VerdictInv, GatesAreExact
<1>3. CASE ~EndLine /\ verdict # "none"
  <2>1. tokens = -1 /\ current = NoToken /\ current.type = "none" /\ expects = "more" /\ ~InText
    BY <1>3 DEF VerdictInv, NoToken, InText
  <2>2. \A token : ~Begins(token)
    BY <2>1, WireAssumption DEF Begins
  <2>3. ~WriteCharacter /\ ~EndNumber /\ ~EndWord /\ ~WriteBackslash /\ ~WriteUnit
        /\ ~EndString /\ ~EndKey /\ ~WriteColon
    BY <2>1 DEF WriteCharacter, EndNumber, EndWord, WriteBackslash, WriteUnit, EndString,
                EndKey, WriteColon
  <2>4. UNCHANGED wireVars
    BY <1>3, <2>2, <2>3, Zenon
    DEF WireNext, BeginNumber, BeginWord, BeginString, BeginKey, WriteOpen, WriteClose, WriteComma
  <2> QED
    BY <2>4 DEF wireVars, VerdictInv, GatesAreExact
<1> QED
  BY <1>1, <1>2, <1>3

\* The scans start outside everything, as the writer does.
LEMMA WireStarts ==
  ASSUME WireInit
  PROVE  WireInv /\ VerdictInv /\ GatesAreExact
<1>1. /\ current = NoToken /\ nesting = <<>> /\ expects = "value" /\ verdict = "none"
      /\ current.type = "none" /\ ~InText /\ ~InLiteral /\ ~EscapeSeen
  BY DEF WireInit, NoToken, InText, InLiteral, EscapeSeen
<1>2. truth = [collapses |-> FALSE, repeats |-> FALSE, escapes |-> FALSE, broken |-> FALSE,
               exponent |-> 0, mantissa |-> 0, unsafe |-> FALSE]
  BY DEF WireInit
<1>3. WriterInv
  BY <1>1, <1>2 DEF WriterInv
<1>4. NumberInv
  BY <1>1, <1>2 DEF WireInit, NumberInv, NumberStates
<1>5. DigitInv
  BY <1>1, <1>2 DEF WireInit, DigitInv, DigitStates
<1>6. AgreementInv
  BY <1>1, <1>2 DEF WireInit, AgreementInv, AgreementStates, BetweenValues
<1>7. TruthInv
  BY <1>1, <1>2 DEF TruthInv
<1>8. KeyInv
  <2>1. keyScan = [stack |-> <<>>, inString |-> FALSE, escaped |-> FALSE, isKey |-> FALSE,
                   buf |-> <<>>, bad |-> FALSE]
    BY DEF WireInit
  <2>2. StackOf(nesting, KeyExpected) = <<>>
    BY <1>1 DEF StackOf
  <2>3. keyScan \in KeyStates
    BY <2>1 DEF KeyStates
  <2> QED
    BY <1>1, <1>2, <2>1, <2>2, <2>3 DEF KeyInv
<1> QED
  BY <1>1, <1>3, <1>4, <1>5, <1>6, <1>7, <1>8 DEF WireInv, VerdictInv, GatesAreExact

\* GatesAreExact of every line: the scans agree with the grammar, whatever the
\* strings, the numbers and the bounds, so that no object whose keys the parser
\* would collapse into one reaches it.
THEOREM GatesExact == WireSpec => []GatesAreExact
<1>1. WireInit => WireInv /\ VerdictInv /\ GatesAreExact
  BY WireStarts
<1>2. WireInv /\ VerdictInv /\ GatesAreExact /\ [WireNext]_wireVars
        => (WireInv /\ VerdictInv /\ GatesAreExact)'
  <2> SUFFICES ASSUME WireInv, VerdictInv, GatesAreExact, [WireNext]_wireVars
               PROVE  (WireInv /\ VerdictInv /\ GatesAreExact)'
    OBVIOUS
  <2>1. WriterInv /\ NumberInv /\ DigitInv /\ AgreementInv /\ TruthInv /\ KeyInv
    BY DEF WireInv
  <2>2. WriterInv'
    BY <2>1, WriterStep
  <2>3. NumberInv' /\ DigitInv' /\ AgreementInv' /\ TruthInv'
    BY <2>1, NumberStep, DigitStep, AgreementStep, TruthStep
  <2>4. KeyInv'
    BY <2>1, <2>2, KeyStep
  <2>5. VerdictInv' /\ GatesAreExact'
    BY VerdictStep
  <2> QED
    BY <2>2, <2>3, <2>4, <2>5 DEF WireInv
<1> QED
  BY <1>1, <1>2, PTL DEF WireSpec
=============================================================================
