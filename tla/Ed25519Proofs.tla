---------------------------- MODULE Ed25519Proofs ----------------------------
(***************************************************************************)
(* For all widths, curves, hashes, signers and callers: the verifier stays *)
(* typed and inside its memory, and answers 1 only to arrays of the right  *)
(* lengths whose S passed the range check; and the answer to a call given  *)
(* its memory is the equation's: 1 exactly when S is below the order, the  *)
(* key decodes and R encodes the sum of the two products.                  *)
(*                                                                         *)
(* From the laws of the curve and of encodings, named as hypotheses where  *)
(* they are used, and from the reduction by the order, which is proved:    *)
(* both ladders walk the multiples of their point, one S is accepted for a *)
(* key, a message and an R, the answer is that of RFC 8032, and what was   *)
(* signed is accepted.                                                     *)
(*                                                                         *)
(* LeafInv says what each point of the call has established about its      *)
(* arguments and its buffers, AnswerInv which rung each ladder is on, and  *)
(* SignedInv where signed records come from.                               *)
(***************************************************************************)
EXTENDS Ed25519, ScalarReductionProofs

\* Where the lengths have been checked, and where the range has.
AfterRange == {"alloc", "copy", "open", "timesH", "timesS", "free"}

InRange(c) ==
  /\ Len(c.pk) = N
  /\ Len(c.sig) = 2 * N
  /\ Below(Half(c.sig, 2))

\* Every call answered 1 passed both checks of lean_seal_ed25519_verify.
AcceptedInRange == \A c \in accepted : InRange(c)

CallInv ==
  /\ pc \in {"range"} \cup AfterRange => LengthsRight
  /\ pc \in AfterRange => InRange(call)
  /\ pc \in {"open", "timesH", "timesS"} => sm \in Seq(Byte) /\ Len(sm) = SmLen
  /\ pc \in {"timesH", "timesS"} => m \in Seq(Byte) /\ Len(m) = SmLen

LeafInv ==
  /\ TypeOK
  /\ MemorySafe
  /\ CallInv
  /\ AcceptedInRange

-----------------------------------------------------------------------------
\* The widths are natural numbers, the number of bytes at least one.
LEMMA Widths == N \in Nat /\ N >= 1 /\ Bits \in Nat
BY WidthAssumption DEF Bits

\* A slice within a byte string has the length of its bounds.
LEMMA Slice ==
  ASSUME NEW b \in Seq(Byte), NEW i \in Nat, NEW j \in Nat, 1 <= i, i <= j + 1, j <= Len(b)
  PROVE  SubSeq(b, i, j) \in Seq(Byte) /\ Len(SubSeq(b, i, j)) = j - i + 1
<1>1. \A k \in i .. j : b[k] \in Byte
  BY LenProperties
<1>2. i \in Int /\ j \in Int
  OBVIOUS
<1> QED
  BY <1>1, <1>2, SubSeqProperties

\* The copy has the length of the two arrays it is made of.
LEMMA CopyLength ==
  ASSUME call \in Calls, LengthsRight
  PROVE  /\ SubSeq(call.sig, 1, 2 * N) \o call.msg \in Seq(Byte)
         /\ Len(SubSeq(call.sig, 1, 2 * N) \o call.msg) = SmLen
<1>1. call.sig \in Seq(Byte) /\ call.msg \in Seq(Byte)
  BY DEF Calls
<1>2. Len(call.sig) = 2 * N /\ 2 * N \in Nat /\ Len(call.msg) \in Nat
  BY <1>1, Widths, LenProperties DEF LengthsRight
<1>3. /\ SubSeq(call.sig, 1, 2 * N) \in Seq(Byte)
      /\ Len(SubSeq(call.sig, 1, 2 * N)) = 2 * N
  <2>1. 1 <= 2 * N + 1 /\ 1 \in Nat
    BY Widths
  <2> QED
    BY <1>1, <1>2, <2>1, Slice
<1> QED
  BY <1>1, <1>2, <1>3, ConcatProperties DEF SmLen

\* So has the hash input, in which the key takes the place of S.
LEMMA InputLength ==
  ASSUME call \in Calls, LengthsRight, sm \in Seq(Byte), Len(sm) = SmLen
  PROVE  HashInput \in Seq(Byte) /\ Len(HashInput) = SmLen
<1>1. call.sig \in Seq(Byte) /\ call.msg \in Seq(Byte) /\ call.pk \in Seq(Byte)
  BY DEF Calls
<1> DEFINE key == call.pk
           extra == Len(call.msg)
           start == SubSeq(sm, 1, N)
           front == start \o key
           rest == SubSeq(sm, 2 * N + 1, SmLen)
<1>2. /\ key \in Seq(Byte) /\ Len(key) = N
      /\ SmLen = 2 * N + extra /\ extra \in Nat
  BY <1>1, Widths, LenProperties DEF LengthsRight, SmLen
<1>3. HashInput = front \o rest
  BY DEF HashInput
<1> HIDE DEF key, extra
<1>4. /\ N \in Nat /\ 1 <= N + 1 /\ N <= SmLen /\ N - 1 + 1 = N
      /\ 2 * N + 1 \in Nat /\ SmLen \in Nat
      /\ 1 <= 2 * N + 1 /\ 2 * N + 1 <= SmLen + 1
      /\ SmLen - (2 * N + 1) + 1 = SmLen - 2 * N
      /\ N + N + (SmLen - 2 * N) = SmLen
  BY <1>2, Widths
<1>5. start \in Seq(Byte) /\ Len(start) = N - 1 + 1
  BY <1>4, Slice
<1>6. rest \in Seq(Byte) /\ Len(rest) = SmLen - (2 * N + 1) + 1
  BY <1>4, Slice
<1> HIDE DEF start, rest
<1>7. front \in Seq(Byte) /\ Len(front) = N + N
  <2>1. front \in Seq(Byte) /\ Len(front) = Len(start) + Len(key)
    BY <1>2, <1>5, ConcatProperties
  <2> HIDE DEF front
  <2> QED
    BY <1>2, <1>4, <1>5, <2>1
<1> HIDE DEF front
<1>8. HashInput \in Seq(Byte) /\ Len(HashInput) = N + N + (SmLen - 2 * N)
  <2>1. HashInput \in Seq(Byte) /\ Len(HashInput) = Len(front) + Len(rest)
    BY <1>3, <1>6, <1>7, ConcatProperties
  <2> QED
    BY <1>4, <1>6, <1>7, <2>1
<1> QED
  BY <1>4, <1>8

-----------------------------------------------------------------------------
\* No call has been made when the signer and the verifier start.
LEMMA LeafInit == Init => LeafInv
<1> SUFFICES ASSUME Init PROVE LeafInv
  OBVIOUS
<1>1. call \in Calls
  BY DEF Init, NoCall, Calls
<1>2. TypeOK
  <2>1. 0 \in 0 .. Bits
    BY Widths
  <2> QED
    BY <1>1, <2>1 DEF Init, TypeOK
<1>3. MemorySafe
  BY DEF Init, MemorySafe, Computing
<1>4. CallInv
  BY DEF Init, CallInv, AfterRange
<1>5. AcceptedInRange
  BY DEF Init, AcceptedInRange
<1> QED
  BY <1>2, <1>3, <1>4, <1>5 DEF LeafInv

\* The signer (crypto_sign) touches no variable of a call.
LEMMA SignStep ==
  ASSUME LeafInv, NEW seed, NEW msg, crypto_sign(seed, msg)
  PROVE  LeafInv'
BY DEF LeafInv, TypeOK, MemorySafe, CallInv, AcceptedInRange, AfterRange, InRange, LengthsRight,
   SmLen, Computing, crypto_sign, leaf

\* A call begins with no buffer and no answer.
LEMMA PresentStep ==
  ASSUME LeafInv, NEW c, Present(c)
  PROVE  LeafInv'
<1>1. pc = "idle" /\ pc' = "lengths" /\ call' \in Calls /\ answer' = NoAnswer /\ starved' = FALSE
  BY DEF Present
<1>2. UNCHANGED <<live, turns, rc, fault, accepted>>
  BY DEF Present
<1>3. TypeOK' /\ AcceptedInRange'
  BY <1>1, <1>2 DEF LeafInv, TypeOK, AcceptedInRange, InRange
<1>4. MemorySafe' /\ CallInv'
  BY <1>1, <1>2 DEF LeafInv, MemorySafe, CallInv, Computing, AfterRange
<1> QED
  BY <1>3, <1>4 DEF LeafInv

\* A call that passes the length checks has arrays of the right lengths.
LEMMA LengthsStep ==
  ASSUME LeafInv, CheckLengths
  PROVE  LeafInv'
<1>1. UNCHANGED <<call, live, turns, rc, starved, fault, accepted>>
  BY DEF CheckLengths, Return
<1>2. pc = "lengths" /\ (pc' = "idle" \/ (pc' = "range" /\ LengthsRight))
  BY DEF CheckLengths, Return
<1>3. answer' = answer \/ answer' = 0
  BY DEF CheckLengths, Return
<1>t. TypeOK'
  BY <1>1, <1>2, <1>3 DEF LeafInv, TypeOK
<1>m. MemorySafe'
  BY <1>1, <1>2 DEF LeafInv, MemorySafe, Computing
<1>c. CallInv'
  BY <1>1, <1>2 DEF CallInv, AfterRange, LengthsRight
<1>a. AcceptedInRange'
  BY <1>1 DEF LeafInv, AcceptedInRange, InRange
<1> QED
  BY <1>t, <1>m, <1>c, <1>a DEF LeafInv

\* A call that passes the range check has an S below the order.
LEMMA RangeStep ==
  ASSUME LeafInv, CheckRange
  PROVE  LeafInv'
<1>1. call' = call /\ pc = "range" /\ LengthsRight /\ LengthsRight'
  BY DEF LeafInv, CallInv, CheckRange, LengthsRight
<1>2. ~fault'
  <2>1. ~(Len(call.sig) < 2 * N)
    BY <1>1, Widths DEF LengthsRight
  <2> QED
    BY <2>1, Zenon DEF LeafInv, MemorySafe, CheckRange
<1>3. accepted' = accepted /\ (pc' = "idle" \/ (pc' = "alloc" /\ Below(Half(call.sig, 2))))
  BY DEF CheckRange, Return
<1>4. TypeOK' /\ MemorySafe'
  BY <1>2, <1>3 DEF LeafInv, TypeOK, MemorySafe, Computing, CheckRange, Return
<1>5. CallInv'
  BY <1>1, <1>3 DEF CallInv, AfterRange, InRange, LengthsRight
<1>6. AcceptedInRange'
  BY <1>3 DEF LeafInv, AcceptedInRange, InRange
<1> QED
  BY <1>4, <1>5, <1>6 DEF LeafInv

\* An allocation, granted or refused, writes no buffer.
LEMMA AllocateStep ==
  ASSUME LeafInv, Allocate
  PROVE  LeafInv'
BY DEF LeafInv, TypeOK, MemorySafe, CallInv, AcceptedInRange, AfterRange, InRange, Computing,
   LengthsRight, Allocate

\* The copy loops fill sm to its last byte and stay inside every array.
LEMMA CopyStep ==
  ASSUME LeafInv, Copy
  PROVE  LeafInv'
<1>1. call \in Calls /\ LengthsRight /\ live = {"sm", "m"} /\ pc = "copy" /\ pc' = "open"
  BY DEF LeafInv, TypeOK, MemorySafe, CallInv, Computing, AfterRange, Copy
<1>2. sm' \in Seq(Byte) /\ Len(sm') = SmLen
  BY <1>1, CopyLength DEF Copy
<1>3. ~fault'
  <2>1. ~(Len(call.sig) < 2 * N) /\ "sm" \in live
    BY <1>1, Widths DEF LengthsRight
  <2> QED
    BY <2>1, Zenon DEF LeafInv, MemorySafe, Copy
<1>4. UNCHANGED <<call, live, turns, rc, answer, starved, accepted>>
  BY DEF Copy
<1>t. TypeOK'
  BY <1>1, <1>2, <1>3, <1>4 DEF LeafInv, TypeOK
<1>m. MemorySafe'
  BY <1>1, <1>2, <1>3, <1>4 DEF LeafInv, MemorySafe, Computing
<1>c. CallInv'
  BY <1>1, <1>2, <1>3, <1>4 DEF LeafInv, CallInv, AfterRange, InRange, LengthsRight, SmLen
<1>a. AcceptedInRange'
  BY <1>1, <1>2, <1>3, <1>4 DEF LeafInv, AcceptedInRange, InRange
<1> QED
  BY <1>t, <1>m, <1>c, <1>a DEF LeafInv

\* The call returns 1 only after both checks, and frees what it allocated.
LEMMA FreeStep ==
  ASSUME LeafInv, Free
  PROVE  LeafInv'
<1>1. pc = "free" /\ pc' = "idle" /\ live' = {} /\ InRange(call)
  BY DEF LeafInv, CallInv, AfterRange, Free, Return
<1>2. UNCHANGED <<call, turns, rc, starved, fault>>
  BY DEF Free
<1>3. answer' \in {0, 1} /\ accepted' \subseteq accepted \cup {call}
  BY DEF Free, Return
<1> QED
  BY <1>1, <1>2, <1>3 DEF LeafInv, TypeOK, MemorySafe, CallInv, AcceptedInRange, AfterRange,
     InRange, Computing

-----------------------------------------------------------------------------
\* crypto_sign_open gives up without writing on a key off the curve.
LEMMA OpenFailsStep ==
  ASSUME LeafInv, OpenFails
  PROVE  LeafInv'
BY DEF LeafInv, TypeOK, MemorySafe, CallInv, AcceptedInRange, AfterRange, InRange, Computing,
   LengthsRight, OpenFails

\* crypto_sign_open copies sm into m within both buffers.
LEMMA OpenHashesStep ==
  ASSUME LeafInv, OpenHashes
  PROVE  LeafInv'
<1>1. /\ call \in Calls /\ LengthsRight /\ live = {"sm", "m"}
      /\ sm \in Seq(Byte) /\ Len(sm) = SmLen /\ pc = "open" /\ pc' = "timesH"
  BY DEF LeafInv, TypeOK, MemorySafe, CallInv, Computing, AfterRange, OpenHashes
<1>2. m' \in Seq(Byte) /\ Len(m') = SmLen
  BY <1>1, InputLength DEF OpenHashes
<1>3. ~fault'
  <2>1. ~(Len(call.pk) < N)
    BY <1>1, Widths DEF LengthsRight
  <2> QED
    BY <1>1, <2>1, Zenon DEF LeafInv, MemorySafe, OpenHashes
<1>4. UNCHANGED <<call, live, sm, rc, answer, starved, accepted>> /\ turns' = Bits
  BY DEF OpenHashes
<1>t. TypeOK'
  BY <1>1, <1>2, <1>3, <1>4, Widths DEF LeafInv, TypeOK
<1>m. MemorySafe'
  BY <1>1, <1>2, <1>3, <1>4 DEF LeafInv, MemorySafe, Computing
<1>c. CallInv'
  BY <1>1, <1>2, <1>3, <1>4 DEF LeafInv, CallInv, AfterRange, InRange, LengthsRight, SmLen
<1>a. AcceptedInRange'
  BY <1>1, <1>2, <1>3, <1>4 DEF LeafInv, AcceptedInRange, InRange
<1> QED
  BY <1>t, <1>m, <1>c, <1>a DEF LeafInv

\* A turn of the ladder moves nothing but the ladder.
LEMMA TurnStep ==
  ASSUME LeafInv, Turn
  PROVE  LeafInv'
<1>1. UNCHANGED <<pc, call, live, sm, m, rc, answer, starved, fault, accepted>>
  BY DEF Turn
<1>2. turns' \in 0 .. Bits
  <2>1. turns \in 0 .. Bits
    BY DEF LeafInv, TypeOK
  <2>2. turns > 0 /\ turns' = turns - 1
    BY DEF Turn
  <2> QED
    BY <2>1, <2>2, Widths
<1>t. TypeOK'
  BY <1>1, <1>2 DEF LeafInv, TypeOK
<1>m. MemorySafe'
  BY <1>1, <1>2 DEF LeafInv, MemorySafe, Computing
<1>c. CallInv'
  BY <1>1, <1>2 DEF LeafInv, CallInv, AfterRange, InRange, LengthsRight, SmLen
<1>a. AcceptedInRange'
  BY <1>1, <1>2 DEF LeafInv, AcceptedInRange, InRange
<1> QED
  BY <1>t, <1>m, <1>c, <1>a DEF LeafInv

\* Starting the second ladder moves nothing but the ladder.
LEMMA OpenMultipliesBaseStep ==
  ASSUME LeafInv, OpenMultipliesBase
  PROVE  LeafInv'
<1>1. UNCHANGED <<call, live, sm, m, rc, answer, starved, fault, accepted>>
  BY DEF OpenMultipliesBase
<1>2. turns' = Bits /\ pc = "timesH" /\ pc' = "timesS"
  BY DEF OpenMultipliesBase
<1>3. turns' \in 0 .. Bits
  BY <1>2, Widths
<1>t. TypeOK'
  BY <1>1, <1>2, <1>3 DEF LeafInv, TypeOK
<1>m. MemorySafe'
  BY <1>1, <1>2 DEF LeafInv, MemorySafe, Computing
<1>c. CallInv'
  BY <1>1, <1>2 DEF LeafInv, CallInv, AfterRange, InRange, LengthsRight, SmLen
<1>a. AcceptedInRange'
  BY <1>1, <1>2 DEF LeafInv, AcceptedInRange, InRange
<1> QED
  BY <1>t, <1>m, <1>c, <1>a DEF LeafInv

\* The comparison of R reads within m and writes within it.
LEMMA OpenComparesStep ==
  ASSUME LeafInv, OpenCompares
  PROVE  LeafInv'
<1>1. UNCHANGED <<call, live, sm, turns, answer, starved, accepted>>
  BY DEF OpenCompares
<1>2. pc = "timesS" /\ pc' = "free" /\ rc' \in {0, -1}
  BY DEF OpenCompares
<1>3. ~fault'
  <2>1. ~(Len(m) # SmLen) /\ ~(live # {"sm", "m"})
    BY <1>2 DEF LeafInv, MemorySafe, CallInv, Computing
  <2> QED
    BY <2>1, Zenon DEF LeafInv, MemorySafe, OpenCompares
<1>t. TypeOK'
  BY <1>1, <1>2, <1>3 DEF LeafInv, TypeOK
<1>m. MemorySafe'
  BY <1>1, <1>2, <1>3 DEF LeafInv, MemorySafe, Computing
<1>c. CallInv'
  BY <1>1, <1>2, <1>3 DEF LeafInv, CallInv, AfterRange, InRange, LengthsRight, SmLen
<1>a. AcceptedInRange'
  BY <1>1, <1>2, <1>3 DEF LeafInv, AcceptedInRange, InRange
<1> QED
  BY <1>t, <1>m, <1>c, <1>a DEF LeafInv

-----------------------------------------------------------------------------
\* Every step of the signer, the caller or the verifier preserves LeafInv.
LEMMA LeafStep == LeafInv /\ [Next]_vars => LeafInv'
<1> SUFFICES ASSUME LeafInv, [Next]_vars PROVE LeafInv'
  OBVIOUS
<1>1. CASE \E seed \in Seeds, msg \in Messages : crypto_sign(seed, msg)
  BY <1>1, SignStep
<1>2. CASE \E s \in signed : \E c \in Altered(s) : Present(c)
  BY <1>2, PresentStep
<1>3. CASE CheckLengths \/ CheckRange \/ Allocate \/ Copy \/ Free
  BY <1>3, LengthsStep, RangeStep, AllocateStep, CopyStep, FreeStep
<1>4. CASE Open
  BY <1>4, OpenFailsStep, OpenHashesStep, TurnStep, OpenMultipliesBaseStep, OpenComparesStep
     DEF Open
<1>5. CASE UNCHANGED vars
  <2>1. TypeOK'
    BY <1>5 DEF vars, leaf, LeafInv, TypeOK
  <2>2. MemorySafe'
    BY <1>5 DEF vars, leaf, LeafInv, MemorySafe
  <2>3. CallInv'
    BY <1>5 DEF vars, leaf, LeafInv, CallInv, AfterRange, InRange, LengthsRight, SmLen
  <2>4. AcceptedInRange'
    BY <1>5 DEF vars, leaf, LeafInv, AcceptedInRange, InRange
  <2> QED
    BY <2>1, <2>2, <2>3, <2>4 DEF LeafInv
<1> QED
  BY <1>1, <1>2, <1>3, <1>4, <1>5 DEF Next, Verify

\* LeafInv holds in every reachable state.
LEMMA LeafAlways == Spec => []LeafInv
BY LeafInit, LeafStep, PTL DEF Spec

\* The verifier's state keeps to its types.
THEOREM LeafTypeCorrect == Spec => []TypeOK
<1>1. LeafInv => TypeOK
  BY DEF LeafInv
<1> QED
  BY <1>1, LeafAlways, PTL

\* lean_seal_ed25519_verify: on every path, the refused allocations included, no
\* access is outside an array, and no buffer outlives the call.
THEOREM VerifierMemorySafe == Spec => []MemorySafe
<1>1. LeafInv => MemorySafe
  BY DEF LeafInv
<1> QED
  BY <1>1, LeafAlways, PTL

\* lean_seal_ed25519_verify: what is answered 1 has a key and a signature of the
\* lengths of the standard and an S that the scan found below the order.
THEOREM OnlyInRangeAccepted == Spec => []AcceptedInRange
<1>1. LeafInv => AcceptedInRange
  BY DEF LeafInv
<1> QED
  BY <1>1, LeafAlways, PTL

-----------------------------------------------------------------------------
(***************************************************************************)
(* The range check.                                                        *)
(***************************************************************************)

Comparison(s) ==
  LET scan[k \in 0 .. N] ==
        IF k = 0 THEN [lt |-> FALSE, gt |-> FALSE]
        ELSE LET i == N - k + 1
                 lt == scan[k - 1].lt \/ (~scan[k - 1].gt /\ s[i] < L[i])
             IN [lt |-> lt, gt |-> scan[k - 1].gt \/ (~lt /\ s[i] > L[i])]
  IN scan

\* The range check is the verdict of its loop after the last digit.
LEMMA BelowIsComparison == ASSUME NEW s PROVE Below(s) = Comparison(s)[N].lt
  BY DEF Below, Comparison

\* The scan settles on the first digit that differs.
LEMMA ComparisonStep ==
  ASSUME NEW s
  PROVE  /\ ~Comparison(s)[0].lt /\ ~Comparison(s)[0].gt
         /\ \A k \in 1 .. N :
              /\ Comparison(s)[k].lt <=>
                   \/ Comparison(s)[k - 1].lt
                   \/ ~Comparison(s)[k - 1].gt /\ s[N - k + 1] < L[N - k + 1]
              /\ Comparison(s)[k].gt <=>
                   \/ Comparison(s)[k - 1].gt
                   \/ ~Comparison(s)[k].lt /\ s[N - k + 1] > L[N - k + 1]
<1> DEFINE Lt(v, k) == v.lt \/ (~v.gt /\ s[N - k + 1] < L[N - k + 1])
           Gt(v, k) == v.gt \/ (~Lt(v, k) /\ s[N - k + 1] > L[N - k + 1])
           first == [lt |-> FALSE, gt |-> FALSE]
           Next_(v, k) == [lt |-> Lt(v, k), gt |-> Gt(v, k)]
           Rec(f) == [k \in 0 .. N |-> IF k = 0 THEN first ELSE Next_(f[k - 1], k)]
           Values == [lt : BOOLEAN, gt : BOOLEAN]
           step == [k \in 1 .. N |-> [v \in Values |-> Next_(v, k)]]
           F == [0 .. N -> Values]
           G == [1 .. N -> [Values -> Values]]
<1>1. N \in Nat
  BY Widths
<1>2. Comparison(s) = CHOOSE f : f = Rec(f)
  BY DEF Comparison
<1>a. ASSUME NEW v, NEW k
      PROVE  Next_(v, k) \in Values /\ Next_(v, k).lt = Lt(v, k) /\ Next_(v, k).gt = Gt(v, k)
  OBVIOUS
<1>b. first \in Values /\ first.lt = FALSE /\ first.gt = FALSE
  OBVIOUS
<1> HIDE DEF Next_, first, Values
<1>3. step \in G
  BY <1>a
<1>4. \A k \in 1 .. N : \A v \in Values : step[k][v] = Next_(v, k)
  OBVIOUS
<1> HIDE DEF step
<1>5. PICK f \in F : f[0] = first /\ \A k \in 1 .. N : f[k] = step[k][f[k - 1]]
  <2>1. F = [0 .. N -> Values] /\ G = [1 .. N -> [Values -> Values]]
    OBVIOUS
  <2> HIDE DEF F, G
  <2>2. \E f \in F : Steps(f, first, N, step)
    BY ONLY <1>1, <1>b, <2>1, <1>3, Recursion, Zenon
  <2> QED
    BY <2>2 DEF Steps
<1>6. ASSUME NEW k \in 0 .. N PROVE f[k] = Rec(f)[k]
  <2>1. CASE k = 0
    BY <1>5, <2>1
  <2>2. CASE k # 0
    <3>1. k \in 1 .. N /\ k - 1 \in 0 .. N
      BY <1>1, <2>2
    <3>2. f[k] = Next_(f[k - 1], k)
      BY <1>4, <1>5, <3>1
    <3> QED
      BY <2>2, <3>2
  <2> QED
    BY <2>1, <2>2
<1>7. f = Rec(f)
  BY <1>6
<1> DEFINE c == Comparison(s)
<1> HIDE DEF Rec
<1>8. c = Rec(c)
  BY <1>2, <1>7
<1> HIDE DEF c
<1>9. c[0] = first /\ \A k \in 1 .. N : c[k] = Next_(c[k - 1], k)
  <2>1. 0 \in 0 .. N /\ \A k \in 1 .. N : k \in 0 .. N /\ k # 0
    BY <1>1
  <2>2. Rec(c)[0] = first /\ \A k \in 1 .. N : Rec(c)[k] = Next_(c[k - 1], k)
    BY <2>1 DEF Rec
  <2> QED
    BY <1>8, <2>2
<1>10. ASSUME NEW k \in 1 .. N
       PROVE  c[k].lt = Lt(c[k - 1], k) /\ c[k].gt = Gt(c[k - 1], k)
  BY <1>9, <1>a
<1>11. ~c[0].lt /\ ~c[0].gt
  BY <1>9, <1>b
<1> QED
  BY <1>10, <1>11, Zenon DEF c

\* The range check is exact: it finds an S below the order, and no other.
LEMMA RangeIsExact ==
  ASSUME NEW s \in Seq(Byte), Len(s) = N
  PROVE  Below(s) <=> Number(s) < Order
<1> DEFINE c == Comparison(s)
           p == Prefixes(s)
           q == Prefixes(L)
           T == {k \in 0 .. N : (c[k].lt <=> p[k] < q[k]) /\ (c[k].gt <=> p[k] > q[k])}
<1>1. /\ N \in Nat /\ Radix \in Nat
      /\ \A k \in 1 .. N : N - k + 1 \in 1 .. N /\ k - 1 \in 0 .. N
  BY Widths, Digits
<1>2. /\ ~c[0].lt /\ ~c[0].gt
      /\ \A k \in 1 .. N :
           /\ c[k].lt <=> c[k - 1].lt \/ (~c[k - 1].gt /\ s[N - k + 1] < L[N - k + 1])
           /\ c[k].gt <=> c[k - 1].gt \/ (~c[k].lt /\ s[N - k + 1] > L[N - k + 1])
  BY ComparisonStep, Zenon
<1>3. /\ p[0] = 0 /\ q[0] = 0
      /\ \A k \in 0 .. N : p[k] \in Int /\ q[k] \in Int
      /\ \A k \in 1 .. N : p[k] = Radix * p[k - 1] + s[N - k + 1]
      /\ \A k \in 1 .. N : q[k] = Radix * q[k - 1] + L[N - k + 1]
  <2>1. L \in Seq(Byte) /\ Len(L) = N
    BY Digits
  <2> QED
    BY <2>1, PrefixStep
<1>4. \A i \in 1 .. N : s[i] \in 0 .. Radix - 1 /\ L[i] \in 0 .. Radix - 1
  BY Digits, LenProperties DEF Byte
<1>5. Below(s) = c[N].lt /\ Number(s) = p[N] /\ Order = q[N]
  BY Digits, BelowIsComparison, NumberIsPrefix DEF Order
<1> HIDE DEF c, p, q
<1>6. 0 \in T
  BY <1>1, <1>2, <1>3
<1>7. ASSUME NEW j \in 0 .. N - 1, j \in T PROVE j + 1 \in T
  <2> DEFINE k == j + 1
             i == N - k + 1
  <2>1. k \in 1 .. N /\ k \in 0 .. N /\ k - 1 = j /\ i \in 1 .. N /\ j \in 0 .. N
    BY <1>1
  <2>2. (c[j].lt <=> p[j] < q[j]) /\ (c[j].gt <=> p[j] > q[j])
    BY <1>7
  <2> HIDE DEF k, T
  <2>3. /\ c[k].lt <=> c[j].lt \/ (~c[j].gt /\ s[i] < L[i])
        /\ c[k].gt <=> c[j].gt \/ (~c[k].lt /\ s[i] > L[i])
    BY <1>2, <2>1
  <2>4. p[k] = Radix * p[j] + s[i] /\ q[k] = Radix * q[j] + L[i]
    BY <1>3, <2>1
  <2> HIDE DEF i
  <2>5. p[j] \in Int /\ q[j] \in Int /\ s[i] \in 0 .. Radix - 1 /\ L[i] \in 0 .. Radix - 1
    BY <1>3, <1>4, <2>1
  <2>6. /\ p[k] < q[k] <=> p[j] < q[j] \/ (p[j] = q[j] /\ s[i] < L[i])
        /\ p[k] > q[k] <=> p[j] > q[j] \/ (p[j] = q[j] /\ s[i] > L[i])
    <3> DEFINE x == p[j]
               y == q[j]
               u == s[i]
               v == L[i]
    <3>1. x \in Int /\ y \in Int /\ u \in 0 .. Radix - 1 /\ v \in 0 .. Radix - 1
      BY <2>5
    <3>2. p[k] = Radix * x + u /\ q[k] = Radix * y + v
      BY <2>4
    <3> HIDE DEF x, y, u, v
    <3>3. /\ (Radix * x + u < Radix * y + v) <=> (x < y \/ (x = y /\ u < v))
          /\ (Radix * x + u > Radix * y + v) <=> (x > y \/ (x = y /\ u > v))
      BY ONLY <1>1, <3>1, DigitDecides
    <3> QED
      BY <3>2, <3>3 DEF x, y, u, v
  <2>7. /\ p[j] = q[j] <=> ~(p[j] < q[j]) /\ ~(p[j] > q[j])
        /\ ~(p[j] < q[j] /\ p[j] > q[j]) /\ ~(s[i] < L[i] /\ s[i] > L[i])
    BY <2>5
  <2>8. (c[k].lt <=> p[k] < q[k]) /\ (c[k].gt <=> p[k] > q[k])
    BY <2>2, <2>3, <2>6, <2>7, Zenon
  <2> QED
    BY <2>1, <2>8 DEF T, k
<1>8. \A k \in T : c[k].lt <=> p[k] < q[k]
  OBVIOUS
<1> HIDE DEF T
<1>9. \A k \in 0 .. N : k \in T
  BY ONLY <1>1, <1>6, <1>7, Upwards
<1>10. N \in T
  BY <1>1, <1>9
<1> QED
  BY <1>5, <1>8, <1>10

-----------------------------------------------------------------------------
(***************************************************************************)
(* The ladder, turn for turn, is scalarmult.                               *)
(***************************************************************************)
Rungs(q, s) ==
  LET ladder[k \in 0 .. Bits] ==
        IF k = 0 THEN <<Neutral, q>>
        ELSE With(ladder[k - 1], LAMBDA pr : LadderTurn(pr, Bit(s, Bits - k)))
  IN ladder

\* scalarmult is the first point of the last rung.
LEMMA ScalarmultIsTop == ASSUME NEW q, NEW s PROVE scalarmult(q, s) = Rungs(q, s)[Bits][1]
  BY DEF scalarmult, Rungs

\* A turn of the ladder takes its pair of points by the bit it reads.
LEMMA WithTurn ==
  ASSUME NEW v, NEW b
  PROVE  With(v, LAMBDA pr : LadderTurn(pr, b)) = LadderTurn(v, b)
<1>1. {LadderTurn(w, b) : w \in {v}} = {LadderTurn(v, b)}
  OBVIOUS
<1>2. (CHOOSE result \in {LadderTurn(v, b)} : TRUE) = LadderTurn(v, b)
  OBVIOUS
<1> QED
  BY <1>1, <1>2 DEF With

\* One turn of the ladder climbs one rung.
LEMMA RungStep ==
  ASSUME NEW q, NEW s
  PROVE  /\ Rungs(q, s)[0] = <<Neutral, q>>
         /\ \A k \in 1 .. Bits :
              Rungs(q, s)[k] = LadderTurn(Rungs(q, s)[k - 1], Bit(s, Bits - k))
<1> DEFINE first == <<Neutral, q>>
           Turned(v, k) == LadderTurn(v, Bit(s, Bits - k))
           Rec(f) == [k \in 0 .. Bits |-> IF k = 0 THEN first ELSE Turned(f[k - 1], k)]
           RecW(f) == [k \in 0 .. Bits |->
                         IF k = 0 THEN first
                         ELSE With(f[k - 1], LAMBDA pr : LadderTurn(pr, Bit(s, Bits - k)))]
           To(n, f) == f = [k \in 0 .. n |-> IF k = 0 THEN first ELSE Turned(f[k - 1], k)]
           T == {n \in 0 .. Bits : \E f : To(n, f)}
<1>1. Bits \in Nat
  BY Widths
<1>2. Rungs(q, s) = CHOOSE f : f = RecW(f)
  BY DEF Rungs
<1>w. ASSUME NEW f PROVE RecW(f) = Rec(f)
  <2>1. ASSUME NEW v, NEW k
        PROVE  With(v, LAMBDA pr : LadderTurn(pr, Bit(s, Bits - k))) = Turned(v, k)
    BY WithTurn
  <2> HIDE DEF Turned, first
  <2> QED
    BY <2>1
<1> HIDE DEF RecW
<1> HIDE DEF Turned, first
<1>3. \E f : To(0, f)
  <2> DEFINE f == [k \in 0 .. 0 |-> first]
  <2>1. f = [k \in 0 .. 0 |-> IF k = 0 THEN first ELSE Turned(f[k - 1], k)]
    OBVIOUS
  <2> QED
    BY <2>1
<1>4. ASSUME NEW n \in 0 .. Bits - 1, NEW f, To(n, f)
      PROVE  \E g : To(n + 1, g)
  <2> DEFINE g == [k \in 0 .. n + 1 |-> IF k = n + 1 THEN Turned(f[n], n + 1) ELSE f[k]]
  <2>1. n \in Nat
    BY <1>1
  <2>2. \A k \in 0 .. n : f[k] = IF k = 0 THEN first ELSE Turned(f[k - 1], k)
    BY <1>4
  <2>3. ASSUME NEW k \in 0 .. n + 1
        PROVE  g[k] = IF k = 0 THEN first ELSE Turned(g[k - 1], k)
    <3>1. CASE k = n + 1
      <4>1. g[k] = Turned(f[n], n + 1) /\ g[k - 1] = f[n] /\ k # 0
        BY <2>1, <3>1
      <4> QED
        BY <3>1, <4>1
    <3>2. CASE k = 0
      <4>1. g[k] = f[0] /\ f[0] = first
        BY <2>1, <2>2, <3>2
      <4> QED
        BY <3>2, <4>1
    <3>3. CASE k \in 1 .. n
      <4>1. g[k] = f[k] /\ g[k - 1] = f[k - 1] /\ k # 0 /\ k \in 0 .. n
        BY <2>1, <3>3
      <4> QED
        BY <2>2, <4>1
    <3> QED
      BY <2>1, <3>1, <3>2, <3>3
  <2>4. g = [k \in 0 .. n + 1 |-> g[k]]
    OBVIOUS
  <2> HIDE DEF g
  <2>5. To(n + 1, g)
    BY <2>3, <2>4
  <2> QED
    BY <2>5
<1> HIDE DEF To
<1>5. 0 \in T
  BY <1>1, <1>3
<1>6. ASSUME NEW n \in 0 .. Bits - 1, n \in T PROVE n + 1 \in T
  <2>1. PICK f : To(n, f)
    BY <1>6
  <2>2. \E g : To(n + 1, g)
    BY <1>4, <2>1
  <2> QED
    BY <1>1, <2>2
<1>7. \A n \in T : \E f : To(n, f)
  OBVIOUS
<1> HIDE DEF T
<1>8. \A n \in 0 .. Bits : n \in T
  BY ONLY <1>1, <1>5, <1>6, Upwards
<1>9. PICK f : f = Rec(f)
  <2>1. Bits \in T
    BY <1>1, <1>8
  <2>2. PICK f : To(Bits, f)
    BY <1>7, <2>1
  <2> QED
    BY <2>2 DEF To
<1> DEFINE r == Rungs(q, s)
<1> HIDE DEF Rec
<1>10. r = Rec(r)
  BY <1>2, <1>9, <1>w
<1> HIDE DEF r
<1>11. r[0] = first /\ \A k \in 1 .. Bits : r[k] = Turned(r[k - 1], k)
  <2>1. 0 \in 0 .. Bits /\ \A k \in 1 .. Bits : k \in 0 .. Bits /\ k # 0
    BY <1>1
  <2>2. Rec(r)[0] = first /\ \A k \in 1 .. Bits : Rec(r)[k] = Turned(r[k - 1], k)
    BY <2>1 DEF Rec
  <2> QED
    BY <1>10, <2>2
<1> QED
  BY <1>11 DEF r, first, Turned

-----------------------------------------------------------------------------
(***************************************************************************)
(* What the verifier answers, in one formula over the operators: the       *)
(* equation as the code evaluates it, on the arguments of the call alone.  *)
(***************************************************************************)
Challenge(c) == reduce(Hash(Half(c.sig, 1) \o c.pk \o c.msg))

\* What crypto_sign_open decides: the key decodes and R encodes the sum.
EquationHolds(c) ==
  /\ unpackneg(c.pk) # NoPoint
  /\ Half(c.sig, 1) = pack(add(scalarmult(unpackneg(c.pk), Challenge(c)),
                               scalarbase(Half(c.sig, 2))))

Verifies(c) ==
  /\ Len(c.pk) = N /\ Len(c.sig) = 2 * N
  /\ Number(Half(c.sig, 2)) < Order
  /\ EquationHolds(c)

\* Every call answered 1 verifies, and the answer to each is as its arguments say.
AnswersAreCorrect ==
  /\ \A c \in accepted : Verifies(c)
  /\ pc = "idle" /\ answer # NoAnswer =>
       answer = IF starved \/ ~Verifies(call) THEN 0 ELSE 1

WalkInv ==
  /\ pc \in {"open", "timesH", "timesS"} => sm = call.sig \o call.msg
  /\ pc \in {"timesH", "timesS"} => unpackneg(call.pk) # NoPoint
  /\ pc = "timesH" =>
       /\ scalar = Challenge(call)
       /\ pair = Rungs(unpackneg(call.pk), Challenge(call))[Bits - turns]
  /\ pc = "timesS" =>
       /\ minusHA = scalarmult(unpackneg(call.pk), Challenge(call))
       /\ scalar = Half(call.sig, 2)
       /\ pair = Rungs(BasePoint, Half(call.sig, 2))[Bits - turns]

AnswerInv ==
  /\ WalkInv
  /\ pc \notin {"idle", "free"} => ~starved
  /\ pc = "free" => rc = IF starved \/ ~Verifies(call) THEN -1 ELSE 0
  /\ AnswersAreCorrect

\* In range is below the order.
LEMMA InRangeIsBelow ==
  ASSUME NEW c \in Calls
  PROVE  InRange(c) <=> /\ Len(c.pk) = N /\ Len(c.sig) = 2 * N
                        /\ Number(Half(c.sig, 2)) < Order
<1>1. ASSUME Len(c.sig) = 2 * N
      PROVE  Half(c.sig, 2) \in Seq(Byte) /\ Len(Half(c.sig, 2)) = N
  <2>1. c.sig \in Seq(Byte)
    BY DEF Calls
  <2>2. /\ (2 - 1) * N + 1 = N + 1 /\ N + 1 \in Nat /\ 2 * N \in Nat /\ 1 <= N + 1
        /\ N + 1 <= 2 * N + 1 /\ 2 * N <= Len(c.sig) /\ 2 * N - (N + 1) + 1 = N
    BY <1>1, Widths
  <2>3. SubSeq(c.sig, N + 1, 2 * N) \in Seq(Byte) /\ Len(SubSeq(c.sig, N + 1, 2 * N)) = N
    BY <2>1, <2>2, Slice
  <2> QED
    BY <2>2, <2>3 DEF Half
<1> QED
  BY <1>1, RangeIsExact DEF InRange

\* A slice, element for element.
LEMMA SliceOf ==
  ASSUME NEW U, NEW b \in Seq(U), NEW i \in Nat, NEW n \in Nat, i + n <= Len(b),
         NEW t, t = SubSeq(b, i + 1, i + n)
  PROVE  t \in Seq(U) /\ Len(t) = n /\ \A k \in 1 .. n : t[k] = b[i + k]
<1>1. Len(b) \in Nat /\ \A k \in 1 .. Len(b) : b[k] \in U
  BY LenProperties
<1> DEFINE lo == i + 1
           hi == i + n
<1>2. /\ lo \in Int /\ hi \in Int /\ \A k \in lo .. hi : b[k] \in U
      /\ (IF lo <= hi THEN hi - lo + 1 ELSE 0) = n /\ hi - lo + 1 = n
      /\ \A k \in 1 .. n : lo + k - 1 = i + k
  BY <1>1
<1>3. t = SubSeq(b, lo, hi)
  OBVIOUS
<1> HIDE DEF lo, hi
<1>4. /\ t \in Seq(U) /\ Len(t) = (IF lo <= hi THEN hi - lo + 1 ELSE 0)
      /\ \A k \in 1 .. hi - lo + 1 : t[k] = b[lo + k - 1]
  BY <1>2, <1>3, SubSeqProperties
<1> QED
  BY <1>2, <1>4

\* A slice of bytes.
LEMMA SliceIs ==
  ASSUME NEW b \in Seq(Byte), NEW i \in Nat, NEW n \in Nat, i + n <= Len(b),
         NEW t, t = SubSeq(b, i + 1, i + n)
  PROVE  t \in Seq(Byte) /\ Len(t) = n /\ \A k \in 1 .. n : t[k] = b[i + k]
BY SliceOf

\* The copy is signature and message, and its parts are theirs.
LEMMA CopyIs ==
  ASSUME call \in Calls, LengthsRight
  PROVE  SubSeq(call.sig, 1, 2 * N) = call.sig
<1>1. call.sig \in Seq(Byte) /\ Len(call.sig) = 2 * N
  BY DEF Calls, LengthsRight
<1> QED
  BY <1>1, SubSeqFull

PartsOf(b, sig, msg, r) ==
  /\ SubSeq(b, 1, N) = r
  /\ SubSeq(b, 2 * N + 1, 2 * N + Len(msg)) = msg
  /\ SubSeq(b, N + 1, 2 * N) = SubSeq(sig, N + 1, 2 * N)
  /\ \A k \in 1 .. N : b[k] = r[k]
  /\ r = [k \in 1 .. N |-> r[k]]

\* What the halves of a signature and the parts of m are, as slices.
LEMMA Parts ==
  ASSUME NEW sig \in Seq(Byte), NEW msg \in Seq(Byte), Len(sig) = 2 * N,
         NEW b, b = sig \o msg, NEW r, r = SubSeq(sig, 1, N)
  PROVE  PartsOf(b, sig, msg, r)
<1> DEFINE extra == Len(msg)
           rest == SubSeq(b, 2 * N + 1, 2 * N + extra)
           u == SubSeq(b, N + 1, 2 * N)
           v == SubSeq(sig, N + 1, 2 * N)
           w == SubSeq(b, 1, N)
<1>1. N \in Nat /\ extra \in Nat /\ 2 * N \in Nat /\ N + N = 2 * N /\ 0 + N = N /\ 0 + 1 = 1
  BY Widths, LenProperties
<1>2. /\ b \in Seq(Byte) /\ Len(b) = 2 * N + extra
      /\ \A i \in 1 .. 2 * N + extra : b[i] = IF i <= 2 * N THEN sig[i] ELSE msg[i - 2 * N]
  <2>1. /\ sig \o msg \in Seq(Byte) /\ Len(sig \o msg) = Len(sig) + Len(msg)
        /\ \A i \in 1 .. Len(sig) + Len(msg) :
             (sig \o msg)[i] = IF i <= Len(sig) THEN sig[i] ELSE msg[i - Len(sig)]
    BY ONLY sig \in Seq(Byte), msg \in Seq(Byte), ConcatProperties
  <2> QED
    BY <2>1
<1>3. /\ \A i \in 1 .. 2 * N : b[i] = sig[i]
      /\ \A i \in 1 .. extra : b[2 * N + i] = msg[i]
  <2>1. \A i \in 1 .. 2 * N : i \in 1 .. 2 * N + extra /\ i <= 2 * N
    BY <1>1
  <2>2. \A i \in 1 .. extra : /\ 2 * N + i \in 1 .. 2 * N + extra /\ ~(2 * N + i <= 2 * N)
                              /\ 2 * N + i - 2 * N = i
    BY <1>1
  <2>3. \A i \in 1 .. 2 * N : b[i] = sig[i]
    BY <1>2, <2>1
  <2>4. ASSUME NEW i \in 1 .. extra PROVE b[2 * N + i] = msg[i]
    <3> DEFINE k == 2 * N + i
    <3>1. k \in 1 .. 2 * N + extra /\ ~(k <= 2 * N) /\ k - 2 * N = i
      BY <2>2
    <3> HIDE DEF k
    <3>2. b[k] = msg[k - 2 * N]
      BY <1>2, <3>1
    <3> QED
      BY <3>1, <3>2 DEF k
  <2> QED
    BY <2>3, <2>4
<1>4. w \in Seq(Byte) /\ Len(w) = N /\ \A k \in 1 .. N : w[k] = b[k]
  <2>1. w = SubSeq(b, 0 + 1, 0 + N) /\ 0 \in Nat /\ 0 + N <= Len(b)
    BY <1>1, <1>2
  <2> HIDE DEF w
  <2>2. w \in Seq(Byte) /\ Len(w) = N /\ \A k \in 1 .. N : w[k] = b[0 + k]
    BY ONLY <1>1, <1>2, <2>1, SliceIs
  <2> QED
    BY <2>2
<1>5. r \in Seq(Byte) /\ Len(r) = N /\ \A k \in 1 .. N : r[k] = sig[k]
  <2>1. r = SubSeq(sig, 0 + 1, 0 + N) /\ 0 \in Nat /\ 0 + N <= Len(sig)
    BY <1>1
  <2>2. r \in Seq(Byte) /\ Len(r) = N /\ \A k \in 1 .. N : r[k] = sig[0 + k]
    BY ONLY <1>1, <2>1, sig \in Seq(Byte), SliceIs
  <2> QED
    BY <2>2
<1>6. u \in Seq(Byte) /\ Len(u) = N /\ \A k \in 1 .. N : u[k] = b[N + k]
  <2> DEFINE start == N
  <2>1. u = SubSeq(b, start + 1, start + N)
    BY <1>1
  <2>2. start + N <= Len(b) /\ start \in Nat /\ N \in Nat /\ b \in Seq(Byte)
    BY <1>1, <1>2
  <2> HIDE DEF u, start
  <2>3. u \in Seq(Byte) /\ Len(u) = N /\ \A k \in 1 .. N : u[k] = b[start + k]
    BY ONLY <2>1, <2>2, SliceIs
  <2> QED
    BY <2>3 DEF start
<1>7. v \in Seq(Byte) /\ Len(v) = N /\ \A k \in 1 .. N : v[k] = sig[N + k]
  <2> DEFINE start == N
  <2>1. v = SubSeq(sig, start + 1, start + N)
    BY <1>1
  <2>2. start + N <= Len(sig) /\ start \in Nat /\ N \in Nat /\ sig \in Seq(Byte)
    BY <1>1
  <2> HIDE DEF v, start
  <2>3. v \in Seq(Byte) /\ Len(v) = N /\ \A k \in 1 .. N : v[k] = sig[start + k]
    BY ONLY <2>1, <2>2, SliceIs
  <2> QED
    BY <2>3 DEF start
<1>8. rest \in Seq(Byte) /\ Len(rest) = extra /\ \A k \in 1 .. extra : rest[k] = b[2 * N + k]
  <2>1. 2 * N + extra <= Len(b)
    BY <1>1, <1>2
  <2> DEFINE start == 2 * N
  <2>2. rest = SubSeq(b, start + 1, start + extra) /\ start \in Nat /\ start + extra <= Len(b)
    BY <1>1, <2>1
  <2> HIDE DEF rest, start
  <2>3. rest \in Seq(Byte) /\ Len(rest) = extra /\ \A k \in 1 .. extra : rest[k] = b[start + k]
    BY ONLY <1>1, <1>2, <2>2, SliceIs
  <2> QED
    BY <2>3 DEF start
<1> HIDE DEF rest, u, v, w
<1>9. \A k \in 1 .. N : k \in 1 .. 2 * N /\ N + k \in 1 .. 2 * N
  BY <1>1
<1>10. w = r
  BY <1>3, <1>4, <1>5, <1>9, SeqEqual
<1>11. u = v
  <2>1. \A k \in 1 .. N : u[k] = v[k]
    BY <1>3, <1>6, <1>7, <1>9
  <2>2. /\ u \in Seq(Byte) /\ v \in Seq(Byte) /\ Len(u) = Len(v)
        /\ \A k \in 1 .. Len(u) : u[k] = v[k]
    BY <1>6, <1>7, <2>1
  <2> QED
    BY ONLY <2>2, SeqEqual
<1>12. rest = msg
  BY <1>3, <1>8, SeqEqual
<1>13. r = [k \in 1 .. N |-> r[k]]
  BY <1>5, LenProperties
<1>14. \A k \in 1 .. N : b[k] = r[k]
  BY <1>4, <1>10
<1> QED
  BY <1>10, <1>11, <1>12, <1>13, <1>14 DEF rest, u, v, w, PartsOf

\* The copied buffer holds R, S and the message, in this order.
LEMMA CopyParts ==
  ASSUME call \in Calls, LengthsRight, sm = call.sig \o call.msg
  PROVE  /\ SubSeq(sm, 1, N) = Half(call.sig, 1)
         /\ SubSeq(sm, 2 * N + 1, SmLen) = call.msg
         /\ Half(sm, 2) = Half(call.sig, 2)
         /\ \A k \in 1 .. N : sm[k] = Half(call.sig, 1)[k]
         /\ Half(call.sig, 1) = [k \in 1 .. N |-> Half(call.sig, 1)[k]]
<1>1. call.sig \in Seq(Byte) /\ call.msg \in Seq(Byte) /\ Len(call.sig) = 2 * N
  BY DEF Calls, LengthsRight
<1>2. N \in Nat /\ SmLen = 2 * N + Len(call.msg)
  BY <1>1, Widths DEF SmLen
<1>3. /\ Half(call.sig, 1) = SubSeq(call.sig, 1, N)
      /\ Half(call.sig, 2) = SubSeq(call.sig, N + 1, 2 * N)
      /\ Half(sm, 2) = SubSeq(sm, N + 1, 2 * N)
  <2>1. (1 - 1) * N + 1 = 1 /\ 1 * N = N /\ (2 - 1) * N + 1 = N + 1
    BY <1>2
  <2> QED
    BY <2>1 DEF Half
<1> DEFINE sig == call.sig
           msg == call.msg
           r == SubSeq(sig, 1, N)
<1>4. /\ sig \in Seq(Byte) /\ msg \in Seq(Byte) /\ Len(sig) = 2 * N
      /\ sm = sig \o msg /\ r = SubSeq(sig, 1, N)
  BY <1>1
<1> HIDE DEF sig, msg, r
<1>5. PartsOf(sm, sig, msg, r)
  BY ONLY <1>4, Parts, Zenon
<1> QED
  BY <1>2, <1>3, <1>5 DEF sig, msg, r, PartsOf

-----------------------------------------------------------------------------
\* Before the first call nothing has been answered.
LEMMA AnswerInit == Init => AnswerInv
BY DEF Init, AnswerInv, WalkInv, AnswersAreCorrect

\* A signer leaves the verifier alone.
LEMMA SignAnswer ==
  ASSUME AnswerInv, NEW seed, NEW msg, crypto_sign(seed, msg)
  PROVE  AnswerInv'
<1>1. UNCHANGED <<pc, leaf, accepted>>
  BY DEF crypto_sign
<1> QED
  BY <1>1 DEF leaf, AnswerInv, WalkInv, AnswersAreCorrect, Verifies, EquationHolds, Challenge

\* AnswerInv survives the presentation of arrays.
LEMMA PresentAnswer ==
  ASSUME AnswerInv, NEW c, Present(c)
  PROVE  AnswerInv'
<1>1. pc' = "lengths" /\ ~starved' /\ accepted' = accepted
  BY DEF Present
<1> QED
  BY <1>1 DEF AnswerInv, WalkInv, AnswersAreCorrect

\* A call refused for its lengths is rightly answered 0.
LEMMA LengthsAnswer ==
  ASSUME LeafInv, AnswerInv, CheckLengths
  PROVE  AnswerInv'
<1>1. /\ pc = "lengths" /\ call' = call /\ starved' = starved /\ accepted' = accepted
      /\ \/ LengthsRight /\ pc' = "range" /\ answer' = answer
         \/ ~LengthsRight /\ pc' = "idle" /\ answer' = 0
  BY DEF CheckLengths, Return
<1>2. ~starved /\ \A c \in accepted : Verifies(c)
  BY <1>1 DEF AnswerInv, AnswersAreCorrect
<1>3. ~LengthsRight => ~Verifies(call)
  BY DEF LengthsRight, Verifies
<1>4. Verifies(call)' = Verifies(call)
  BY <1>1
<1>5. WalkInv'
  BY <1>1 DEF WalkInv
<1> QED
  BY <1>1, <1>2, <1>3, <1>4, <1>5 DEF AnswerInv, AnswersAreCorrect

\* A call refused for its S is rightly answered 0.
LEMMA RangeAnswer ==
  ASSUME LeafInv, AnswerInv, CheckRange
  PROVE  AnswerInv'
<1>1. /\ pc = "range" /\ call' = call /\ starved' = starved /\ accepted' = accepted
      /\ \/ Below(Half(call.sig, 2)) /\ pc' = "alloc" /\ answer' = answer
         \/ ~Below(Half(call.sig, 2)) /\ pc' = "idle" /\ answer' = 0
  BY DEF CheckRange, Return
<1>2. ~starved /\ \A c \in accepted : Verifies(c)
  BY <1>1 DEF AnswerInv, AnswersAreCorrect
<1>3. ~Below(Half(call.sig, 2)) => ~Verifies(call)
  <2>1. call \in Calls
    BY DEF LeafInv, TypeOK
  <2>2. Verifies(call) => InRange(call)
    BY <2>1, InRangeIsBelow DEF Verifies
  <2> QED
    BY <2>2 DEF InRange
<1>4. Verifies(call)' = Verifies(call)
  BY <1>1
<1>5. WalkInv'
  BY <1>1 DEF WalkInv
<1> QED
  BY <1>1, <1>2, <1>3, <1>4, <1>5 DEF AnswerInv, AnswersAreCorrect

\* A refused allocation leaves a call that was not given its memory.
LEMMA AllocateAnswer ==
  ASSUME LeafInv, AnswerInv, Allocate
  PROVE  AnswerInv'
<1>1. /\ pc = "alloc" /\ accepted' = accepted /\ rc' = -1
      /\ \/ pc' = "copy" /\ ~starved'
         \/ pc' = "free" /\ starved'
  BY DEF Allocate
<1> QED
  BY <1>1 DEF AnswerInv, WalkInv, AnswersAreCorrect

\* After the copy, sm is the signature followed by the message.
LEMMA CopyAnswer ==
  ASSUME LeafInv, AnswerInv, Copy
  PROVE  AnswerInv'
<1>1. /\ pc = "copy" /\ pc' = "open" /\ call' = call /\ starved' = starved
      /\ accepted' = accepted /\ sm' = SubSeq(call.sig, 1, 2 * N) \o call.msg
  BY DEF Copy
<1>2. call \in Calls /\ LengthsRight
  BY <1>1 DEF LeafInv, TypeOK, CallInv, AfterRange
<1>3. sm' = call'.sig \o call'.msg
  BY <1>1, <1>2, CopyIs
<1> QED
  BY <1>1, <1>3 DEF AnswerInv, WalkInv, AnswersAreCorrect

\* The answer returned is the verdict of crypto_sign_open.
LEMMA FreeAnswer ==
  ASSUME LeafInv, AnswerInv, Free
  PROVE  AnswerInv'
<1>1. /\ pc = "free" /\ pc' = "idle" /\ call' = call /\ starved' = starved
      /\ answer' = (IF rc = 0 THEN 1 ELSE 0)
      /\ accepted' = IF rc = 0 THEN accepted \cup {call} ELSE accepted
  BY DEF Free, Return
<1>2. rc = IF starved \/ ~Verifies(call) THEN -1 ELSE 0
  BY <1>1 DEF AnswerInv
<1>3. rc = 0 <=> ~starved /\ Verifies(call)
  BY <1>2
<1>4. Verifies(call)' = Verifies(call)
  BY <1>1
<1>5. \A c \in accepted' : Verifies(c)
  BY <1>1, <1>3 DEF AnswerInv, AnswersAreCorrect
<1>6. answer' = IF starved' \/ ~Verifies(call)' THEN 0 ELSE 1
  BY <1>1, <1>3, <1>4
<1>7. WalkInv'
  BY <1>1 DEF WalkInv
<1> QED
  BY <1>1, <1>5, <1>6, <1>7 DEF AnswerInv, AnswersAreCorrect

\* Both lengths are right wherever crypto_sign_open is at work.
LEMMA AtWork ==
  ASSUME LeafInv, AnswerInv, pc \in {"open", "timesH", "timesS"}
  PROVE  /\ call \in Calls /\ LengthsRight /\ ~starved /\ sm = call.sig \o call.msg
         /\ Verifies(call) <=> EquationHolds(call)
         /\ ~(SmLen < 2 * N)
<1>1. call \in Calls /\ LengthsRight /\ InRange(call) /\ ~starved /\ sm = call.sig \o call.msg
  BY DEF LeafInv, TypeOK, CallInv, AfterRange, AnswerInv, WalkInv
<1>2. Verifies(call) <=> EquationHolds(call)
  BY <1>1, InRangeIsBelow DEF Verifies
<1>3. ~(SmLen < 2 * N)
  <2>1. Len(call.msg) \in Nat /\ Len(call.sig) = 2 * N /\ N \in Nat
    BY <1>1, Widths, LenProperties DEF Calls, LengthsRight
  <2> DEFINE extra == Len(call.msg)
  <2>2. SmLen = 2 * N + extra /\ extra \in Nat /\ N \in Nat
    BY <2>1 DEF SmLen
  <2> HIDE DEF extra
  <2> QED
    BY <2>2
<1> QED
  BY <1>1, <1>2, <1>3

\* A key that does not decode is rightly answered 0.
LEMMA OpenFailsAnswer ==
  ASSUME LeafInv, AnswerInv, OpenFails
  PROVE  AnswerInv'
<1>1. /\ pc = "open" /\ pc' = "free" /\ rc' = -1
      /\ UNCHANGED <<call, starved, accepted>>
      /\ SmLen < 2 * N \/ unpackneg(call.pk) = NoPoint
  BY DEF OpenFails
<1>2. ~Verifies(call)
  BY <1>1, AtWork DEF EquationHolds
<1>3. Verifies(call)' = Verifies(call)
  BY <1>1
<1> QED
  BY <1>1, <1>2, <1>3 DEF AnswerInv, WalkInv, AnswersAreCorrect

\* The challenge is the hash of R, the key and the message; its ladder starts on the lowest rung.
LEMMA OpenHashesAnswer ==
  ASSUME LeafInv, AnswerInv, OpenHashes
  PROVE  AnswerInv'
<1>1. /\ pc = "open" /\ pc' = "timesH" /\ unpackneg(call.pk) # NoPoint
      /\ UNCHANGED <<call, sm, starved, accepted>>
      /\ turns' = Bits /\ pair' = <<Neutral, unpackneg(call.pk)>>
      /\ scalar' = reduce(Hash(HashInput))
  BY DEF OpenHashes
<1>2. HashInput = Half(call.sig, 1) \o call.pk \o call.msg
  BY <1>1, AtWork, CopyParts DEF HashInput
<1>3. scalar' = Challenge(call)
  BY <1>1, <1>2 DEF Challenge
<1>4. pair' = Rungs(unpackneg(call.pk), Challenge(call))[Bits - turns']
  <2>1. Bits - turns' = 0
    BY <1>1, Widths
  <2> QED
    BY <1>1, <2>1, RungStep
<1>5. WalkInv'
  BY <1>1, <1>3, <1>4, AtWork DEF WalkInv
<1> QED
  BY <1>1, <1>5 DEF AnswerInv, AnswersAreCorrect

\* The turn of either ladder keeps it on the rungs of its scalar.
LEMMA TurnAnswer ==
  ASSUME LeafInv, AnswerInv, Turn
  PROVE  AnswerInv'
<1>1. /\ pc \in {"timesH", "timesS"} /\ turns > 0 /\ turns' = turns - 1
      /\ pair' = LadderTurn(pair, Bit(scalar, turns - 1))
      /\ UNCHANGED <<pc, call, sm, scalar, minusHA, starved, accepted>>
  BY DEF Turn
<1>2. /\ Bits - turns' \in 1 .. Bits /\ (Bits - turns') - 1 = Bits - turns
      /\ Bits - (Bits - turns') = turns - 1
  <2>1. turns \in 0 .. Bits /\ Bits \in Nat
    BY Widths DEF LeafInv, TypeOK
  <2> QED
    BY <1>1, <2>1
<1>3. ASSUME NEW q, pair = Rungs(q, scalar)[Bits - turns]
      PROVE  pair' = Rungs(q, scalar)[Bits - turns']
  BY <1>1, <1>2, <1>3, RungStep
<1>4. WalkInv'
  BY <1>1, <1>3 DEF AnswerInv, WalkInv
<1> QED
  BY <1>1, <1>4 DEF AnswerInv, AnswersAreCorrect

\* The first ladder has ended on its top rung, the second starts on its lowest.
LEMMA OpenMultipliesBaseAnswer ==
  ASSUME LeafInv, AnswerInv, OpenMultipliesBase
  PROVE  AnswerInv'
<1>1. /\ pc = "timesH" /\ turns = 0 /\ pc' = "timesS"
      /\ minusHA' = pair[1] /\ scalar' = Half(sm, 2) /\ turns' = Bits
      /\ pair' = <<Neutral, BasePoint>>
      /\ UNCHANGED <<call, sm, starved, accepted>>
  BY DEF OpenMultipliesBase
<1>2. minusHA' = scalarmult(unpackneg(call.pk), Challenge(call))
  <2>1. Bits - turns = Bits
    BY <1>1, Widths
  <2>2. pair = Rungs(unpackneg(call.pk), Challenge(call))[Bits]
    BY <1>1, <2>1 DEF AnswerInv, WalkInv
  <2> QED
    BY <1>1, <2>2, ScalarmultIsTop
<1>3. scalar' = Half(call.sig, 2)
  BY <1>1, AtWork, CopyParts
<1>4. pair' = Rungs(BasePoint, Half(call.sig, 2))[Bits - turns']
  <2>1. Bits - turns' = 0
    BY <1>1, Widths
  <2> QED
    BY <1>1, <2>1, RungStep
<1>5. WalkInv'
  BY <1>1, <1>2, <1>3, <1>4, AtWork DEF AnswerInv, WalkInv
<1> QED
  BY <1>1, <1>5 DEF AnswerInv, AnswersAreCorrect

\* The verdict is whether R encodes the sum of what both ladders end with.
LEMMA OpenComparesAnswer ==
  ASSUME LeafInv, AnswerInv, OpenCompares
  PROVE  AnswerInv'
<1> DEFINE t == pack(add(minusHA, pair[1]))
<1>1. /\ pc = "timesS" /\ turns = 0 /\ pc' = "free"
      /\ rc' = IF Same(sm, t) THEN 0 ELSE -1
      /\ UNCHANGED <<call, starved, accepted>>
  BY DEF OpenCompares
<1>2. pair[1] = scalarbase(Half(call.sig, 2))
  <2>1. Bits - turns = Bits
    BY <1>1, Widths
  <2>2. pair = Rungs(BasePoint, Half(call.sig, 2))[Bits]
    BY <1>1, <2>1 DEF AnswerInv, WalkInv
  <2> QED
    BY <2>2, ScalarmultIsTop DEF scalarbase
<1>3. /\ minusHA = scalarmult(unpackneg(call.pk), Challenge(call))
      /\ unpackneg(call.pk) # NoPoint
  BY <1>1 DEF AnswerInv, WalkInv
<1>4. t = [k \in 1 .. N |-> t[k]]
  BY DEF pack, pack25519
<1>5. EquationHolds(call) <=> Half(call.sig, 1) = t
  BY <1>2, <1>3 DEF EquationHolds
<1> HIDE DEF t
<1>6. Same(sm, t) <=> Half(call.sig, 1) = t
  <2>1. /\ \A k \in 1 .. N : sm[k] = Half(call.sig, 1)[k]
        /\ Half(call.sig, 1) = [k \in 1 .. N |-> Half(call.sig, 1)[k]]
    BY <1>1, AtWork, CopyParts
  <2> DEFINE r == Half(call.sig, 1)
  <2> HIDE DEF r
  <2>2. (\A k \in 1 .. N : r[k] = t[k]) <=> r = t
    BY <1>4, <2>1 DEF r
  <2> QED
    BY <2>1, <2>2 DEF r, Same
<1>7. rc' = IF starved \/ ~Verifies(call) THEN -1 ELSE 0
  BY <1>1, <1>5, <1>6, AtWork
<1>8. Verifies(call)' = Verifies(call)
  BY <1>1
<1>9. WalkInv'
  BY <1>1 DEF WalkInv
<1> QED
  BY <1>1, <1>7, <1>8, <1>9 DEF AnswerInv, AnswersAreCorrect

\* Every step of the system preserves AnswerInv.
LEMMA AnswerStep == LeafInv /\ AnswerInv /\ [Next]_vars => AnswerInv'
<1> SUFFICES ASSUME LeafInv, AnswerInv, [Next]_vars PROVE AnswerInv'
  OBVIOUS
<1>1. CASE \E seed \in Seeds, msg \in Messages : crypto_sign(seed, msg)
  BY <1>1, SignAnswer
<1>2. CASE \E s \in signed : \E c \in Altered(s) : Present(c)
  BY <1>2, PresentAnswer
<1>3. CASE CheckLengths \/ CheckRange \/ Allocate \/ Copy \/ Free
  BY <1>3, LengthsAnswer, RangeAnswer, AllocateAnswer, CopyAnswer, FreeAnswer
<1>4. CASE Open
  BY <1>4, OpenFailsAnswer, OpenHashesAnswer, TurnAnswer, OpenMultipliesBaseAnswer,
     OpenComparesAnswer DEF Open
<1>5. CASE UNCHANGED vars
  BY <1>5 DEF vars, leaf, AnswerInv, WalkInv, AnswersAreCorrect, Verifies, EquationHolds, Challenge
<1> QED
  BY <1>1, <1>2, <1>3, <1>4, <1>5 DEF Next, Verify

\* lean_seal_ed25519_verify: a call that was given its memory is answered 1 if and
\* only if the lengths are right, S is below the order, the key decodes and R is
\* the encoding of what the two ladders add up to; any other call is answered 0.
\* It holds for any widths, curve and hash and whatever was verified before.
THEOREM VerifierAnswersItsEquation == Spec => []AnswersAreCorrect
<1>1. AnswerInv => AnswersAreCorrect
  BY DEF AnswerInv
<1> QED
  BY <1>1, AnswerInit, AnswerStep, LeafAlways, PTL DEF Spec

(***************************************************************************)
(* The laws of the curve, and what follows from them.                      *)
(***************************************************************************)
CurveLaws ==
  /\ BasePoint \in Points
  /\ GroupLaw(Curve)
  /\ AdditionLaw(Points)
  /\ DecodingLaw([1 .. N -> Byte])

\* Each value is made of an earlier one.
Descends(f, first, n, from, step) ==
  f[0] = first /\ \A k \in 1 .. n : f[k] = step[k][f[from[k]]]

\* A value in S_ for 0 and a step from some earlier value to each are a function.
LEMMA Descent ==
  ASSUME NEW S_, NEW first \in S_, NEW n \in Nat, NEW from, \A k \in 1 .. n : from[k] \in 0 .. k - 1,
         NEW F, F = [0 .. n -> S_], NEW G, G = [1 .. n -> [S_ -> S_]], NEW step \in G
  PROVE  \E f \in F : Descends(f, first, n, from, step)
<1> DEFINE Good(k, f) == f[0] = first /\ \A j \in 1 .. k : f[j] = step[j][f[from[j]]]
<1>1. \E f \in [0 .. 0 -> S_] : Good(0, f)
  <2>1. [i \in 0 .. 0 |-> first] \in [0 .. 0 -> S_] /\ Good(0, [i \in 0 .. 0 |-> first])
    OBVIOUS
  <2> QED
    BY <2>1
<1>2. ASSUME NEW k \in 0 .. n - 1, NEW f \in [0 .. k -> S_], Good(k, f)
      PROVE  \E g \in [0 .. k + 1 -> S_] : Good(k + 1, g)
  <2> DEFINE last == step[k + 1][f[from[k + 1]]]
             g == [i \in 0 .. k + 1 |-> IF i = k + 1 THEN last ELSE f[i]]
  <2>2. k + 1 \in 1 .. n /\ k \in Nat /\ from[k + 1] \in 0 .. k
    <3>1. k + 1 \in 1 .. n /\ k \in Nat /\ (k + 1) - 1 = k
      OBVIOUS
    <3> QED
      BY <3>1
  <2>3. last \in S_
    <3>1. f[from[k + 1]] \in S_ /\ step[k + 1] \in [S_ -> S_]
      BY <2>2
    <3> QED
      BY <3>1
  <2> HIDE DEF last
  <2>4. g \in [0 .. k + 1 -> S_]
    BY <2>3
  <2>5. ASSUME NEW j \in 1 .. k + 1 PROVE g[j] = step[j][g[from[j]]]
    <3>0. from[j] \in 0 .. j - 1 /\ from[j] \in 0 .. k /\ from[j] # k + 1 /\ from[j] \in 0 .. k + 1
      <4>1. j \in 1 .. n
        BY <2>2
      <4> QED
        BY <2>2, <4>1
    <3>1. g[from[j]] = f[from[j]]
      BY <3>0
    <3>2. CASE j \in 1 .. k
      <4>1. g[j] = f[j]
        BY <3>2, <2>2
      <4> QED
        BY <1>2, <3>1, <3>2, <4>1
    <3>3. CASE j = k + 1
      <4>1. g[j] = last
        BY <3>3, <2>2
      <4> QED
        BY <3>1, <3>3, <4>1 DEF last
    <3> QED
      BY <3>2, <3>3, <2>2
  <2>6. g[0] = first
    BY <1>2, <2>2
  <2> HIDE DEF g
  <2>7. Good(k + 1, g)
    BY <2>5, <2>6
  <2> QED
    BY <2>4, <2>7
<1> DEFINE T == {k \in 0 .. n : \E f \in [0 .. k -> S_] : Good(k, f)}
<1> HIDE DEF Good
<1>3. 0 \in T /\ \A k \in 0 .. n - 1 : k \in T => k + 1 \in T
  <2>1. 0 \in T
    BY <1>1
  <2>2. ASSUME NEW k \in 0 .. n - 1, k \in T PROVE k + 1 \in T
    <3>1. PICK f \in [0 .. k -> S_] : Good(k, f)
      BY <2>2
    <3>2. \E g \in [0 .. k + 1 -> S_] : Good(k + 1, g)
      BY <1>2, <3>1
    <3> QED
      BY <3>2
  <2> QED
    BY <2>1, <2>2
<1>4. T \subseteq 0 .. n /\ \A k \in T : \E f \in [0 .. k -> S_] : Good(k, f)
  OBVIOUS
<1> HIDE DEF T
<1>5. n \in T
  <2>1. \A k \in 0 .. n : k \in T
    BY ONLY n \in Nat, <1>3, Upwards
  <2> QED
    BY <2>1
<1>6. PICK f \in [0 .. n -> S_] : Good(n, f)
  BY <1>4, <1>5
<1> QED
  BY <1>6 DEF Good, Descends

\* The field is not empty, and what its operations return is in it.
LEMMA FieldIsClosed ==
  /\ P \in Nat /\ P >= 1
  /\ \A a, b \in Int : M(a, b) \in Residues /\ A(a, b) \in Residues /\ Z(a, b) \in Residues
  /\ \A a \in Int : S(a) \in Residues
  /\ D \in Residues /\ X \in Residues /\ Y \in Residues /\ Residues \subseteq Int
<1>1. N \in Nat /\ ByteBits \in Nat
  BY WidthAssumption
<1>2. FieldBits \in Nat
  <2>1. N >= 1 /\ ByteBits >= 4
    BY WidthAssumption
  <2>2. N * ByteBits >= 4
    <3>1. (N - 1) * ByteBits >= 0
      BY <1>1, <2>1
    <3>2. (N - 1) * ByteBits = N * ByteBits - ByteBits
      BY <1>1
    <3>3. N * ByteBits \in Int
      BY <1>1
    <3> QED
      BY <1>1, <2>1, <3>1, <3>2, <3>3
  <2>3. N * ByteBits \in Int
    BY <1>1
  <2> QED
    BY <2>2, <2>3, FieldAssumption
<1>3. P \in Int
  BY <1>2 DEF P
<1>4. P \in Nat /\ P >= 1 /\ D \in Residues /\ X \in Residues /\ Y \in Residues
  BY <1>3, FieldAssumption DEF Residues
<1>5. \A n \in Int : n % P \in Residues
  BY <1>4 DEF Residues
<1>6. \A a, b \in Int : a * b \in Int /\ a + b \in Int /\ a - b \in Int
  OBVIOUS
<1>7. \A a, b \in Int : M(a, b) \in Residues /\ A(a, b) \in Residues /\ Z(a, b) \in Residues
  BY <1>5, <1>6 DEF M, A, Z
<1> QED
  BY <1>4, <1>7 DEF S, Residues

\* All the powers on the way to the n-th.
Powers(x, n) ==
  LET power[k \in 0 .. n] ==
        IF k = 0 THEN 1
        ELSE IF k % 2 = 1 THEN With(power[k - 1], LAMBDA y : M(x, y))
             ELSE With(power[k \div 2], S)
  IN power

\* `With` only names the value its operator is applied to.
LEMMA WithFactor == ASSUME NEW v, NEW x PROVE With(v, LAMBDA y : M(x, y)) = M(x, v)
<1>1. {M(x, w) : w \in {v}} = {M(x, v)}
  OBVIOUS
<1>2. (CHOOSE result \in {M(x, v)} : TRUE) = M(x, v)
  OBVIOUS
<1> QED
  BY <1>1, <1>2 DEF With

\* So with squaring.
LEMMA WithSquare == ASSUME NEW v PROVE With(v, S) = S(v)
<1>1. {S(w) : w \in {v}} = {S(v)}
  OBVIOUS
<1>2. (CHOOSE result \in {S(v)} : TRUE) = S(v)
  OBVIOUS
<1> QED
  BY <1>1, <1>2 DEF With

\* Where the recursion of a binary exponent goes.
LEMMA Halves ==
  ASSUME NEW k \in Nat, k >= 1
  PROVE  /\ k \div 2 \in 0 .. k - 1 /\ k - 1 \in 0 .. k - 1
         /\ k % 2 \in {0, 1} /\ k = 2 * (k \div 2) + (k % 2)
<1>1. k % 2 \in {0, 1} /\ k \div 2 \in Int /\ k \div 2 \in 0 .. k - 1
  OBVIOUS
<1>2. k = 2 * (k \div 2) + (k % 2)
  OBVIOUS
<1> QED
  BY <1>1, <1>2

\* Power squares and multiplies residues.
LEMMA PowerStep ==
  ASSUME NEW x \in Residues, 1 \in Residues, NEW n \in Nat
  PROVE  /\ Powers(x, n)[0] = 1
         /\ \A k \in 1 .. n :
              Powers(x, n)[k] = IF k % 2 = 1 THEN M(x, Powers(x, n)[k - 1])
                                ELSE S(Powers(x, n)[k \div 2])
         /\ \A k \in 0 .. n : Powers(x, n)[k] \in Residues
<1> DEFINE Rec(f) == [k \in 0 .. n |->
                        IF k = 0 THEN 1
                        ELSE IF k % 2 = 1 THEN M(x, f[k - 1]) ELSE S(f[k \div 2])]
           RecW(f) == [k \in 0 .. n |->
                         IF k = 0 THEN 1
                         ELSE IF k % 2 = 1 THEN With(f[k - 1], LAMBDA y : M(x, y))
                              ELSE With(f[k \div 2], S)]
           from == [k \in 1 .. n |-> IF k % 2 = 1 THEN k - 1 ELSE k \div 2]
           step == [k \in 1 .. n |-> [v \in Residues |-> IF k % 2 = 1 THEN M(x, v) ELSE S(v)]]
           F == [0 .. n -> Residues]
           G == [1 .. n -> [Residues -> Residues]]
           first == 1
<1>1. Powers(x, n) = CHOOSE f : f = RecW(f)
  BY DEF Powers
<1>2. ASSUME NEW f PROVE RecW(f) = Rec(f)
  <2>1. ASSUME NEW v PROVE With(v, LAMBDA y : M(x, y)) = M(x, v) /\ With(v, S) = S(v)
    BY WithFactor, WithSquare
  <2> QED
    BY <2>1
<1> HIDE DEF RecW
<1>3. \A v \in Residues : M(x, v) \in Residues /\ S(v) \in Residues
  BY FieldIsClosed
<1>4. step \in G
  BY <1>3
<1>5. \A k \in 1 .. n : from[k] \in 0 .. k - 1
  BY Halves
<1>6. \A k \in 1 .. n : \A v \in Residues : step[k][v] = IF k % 2 = 1 THEN M(x, v) ELSE S(v)
  OBVIOUS
<1>7. \A k \in 1 .. n : from[k] = IF k % 2 = 1 THEN k - 1 ELSE k \div 2
  OBVIOUS
<1> HIDE DEF step, from
<1>8. PICK f \in F : f[0] = first /\ \A k \in 1 .. n : f[k] = step[k][f[from[k]]]
  <2>1. F = [0 .. n -> Residues] /\ G = [1 .. n -> [Residues -> Residues]] /\ first \in Residues
    OBVIOUS
  <2> HIDE DEF F, G, first
  <2>2. \E f \in F : Descends(f, first, n, from, step)
    BY ONLY <2>1, <1>4, <1>5, n \in Nat, Descent, Zenon
  <2> QED
    BY <2>2 DEF Descends
<1>9. ASSUME NEW k \in 0 .. n PROVE f[k] = Rec(f)[k]
  <2>1. CASE k = 0
    BY <1>8, <2>1
  <2>2. CASE k # 0
    <3>1. k \in 1 .. n
      BY <2>2
    <3>2. from[k] \in 0 .. n
      BY <1>5, <3>1
    <3>3. f[k] = IF k % 2 = 1 THEN M(x, f[from[k]]) ELSE S(f[from[k]])
      BY <1>6, <1>8, <3>1, <3>2
    <3> QED
      BY <1>7, <2>2, <3>1, <3>3
  <2> QED
    BY <2>1, <2>2
<1>10. f = Rec(f)
  BY <1>9
<1> DEFINE p == Powers(x, n)
<1>11. p = RecW(p)
  BY <1>1, <1>2, <1>10
<1> HIDE DEF p
<1>12. p = Rec(p)
  BY <1>2, <1>11
<1>13. /\ p[0] = 1
       /\ \A k \in 1 .. n : p[k] = IF k % 2 = 1 THEN M(x, p[k - 1]) ELSE S(p[k \div 2])
  <2>1. 0 \in 0 .. n /\ \A k \in 1 .. n : k \in 0 .. n /\ k # 0
    OBVIOUS
  <2>2. /\ Rec(p)[0] = 1
        /\ \A k \in 1 .. n : Rec(p)[k] = IF k % 2 = 1 THEN M(x, p[k - 1]) ELSE S(p[k \div 2])
    BY <2>1
  <2> HIDE DEF Rec
  <2> QED
    BY <1>12, <2>2
<1>14. \A k \in 0 .. n : p[k] \in Residues
  <2> DEFINE T == {k \in 0 .. n : \A j \in 0 .. k : p[j] \in Residues}
  <2>1. 0 \in T
    BY <1>13
  <2>2. ASSUME NEW k \in 0 .. n - 1, k \in T PROVE k + 1 \in T
    <3> DEFINE j == k + 1
    <3>1. j \in 1 .. n /\ j \in Nat /\ j >= 1 /\ j - 1 = k
      OBVIOUS
    <3>2. j \div 2 \in 0 .. k /\ k \in 0 .. k
      BY <3>1, Halves
    <3>3. p[j - 1] \in Residues /\ p[j \div 2] \in Residues
      BY <3>1, <3>2, <2>2
    <3>4. p[j] \in Residues
      BY <1>3, <1>13, <3>1, <3>3
    <3> QED
      BY <2>2, <3>1, <3>4
  <2> HIDE DEF T
  <2>3. \A k \in 0 .. n : k \in T
    BY ONLY <2>1, <2>2, n \in Nat, Upwards
  <2> QED
    BY <2>3 DEF T
<1> QED
  BY <1>13, <1>14 DEF p

\* A power is the last of its row.
LEMMA PowerIsLast == ASSUME NEW x, NEW n PROVE Power(x, n) = Powers(x, n)[n]
  BY DEF Power, Powers

\* One is its own power.
LEMMA PowerOfOne ==
  ASSUME 1 \in Residues, NEW n \in Nat
  PROVE  Power(1, n) = 1
<1> DEFINE p == Powers(1, n)
           T == {k \in 0 .. n : \A j \in 0 .. k : p[j] = 1}
<1>1. /\ p[0] = 1
      /\ \A k \in 1 .. n : p[k] = IF k % 2 = 1 THEN M(1, p[k - 1]) ELSE S(p[k \div 2])
  BY PowerStep
<1>2. M(1, 1) = 1 /\ S(1) = 1
  <2>1. P \in Nat /\ P > 1
    BY FieldIsClosed DEF Residues
  <2>2. 1 % P = 1 /\ 1 * 1 = 1
    BY <2>1
  <2> QED
    BY <2>2 DEF M, S
<1> HIDE DEF p
<1>3. 0 \in T
  BY <1>1
<1>4. ASSUME NEW k \in 0 .. n - 1, k \in T PROVE k + 1 \in T
  <2> DEFINE j == k + 1
  <2>1. j \in 1 .. n /\ j \in Nat /\ j >= 1 /\ j - 1 = k
    OBVIOUS
  <2>2. j \div 2 \in 0 .. k /\ k \in 0 .. k
    BY <2>1, Halves
  <2>3. p[j - 1] = 1 /\ p[j \div 2] = 1
    BY <2>1, <2>2, <1>4
  <2>4. p[j] = 1
    BY <1>1, <1>2, <2>1, <2>3
  <2> QED
    BY <1>4, <2>1, <2>4
<1>5. n \in 0 .. n /\ \A k \in T : p[k] = 1
  OBVIOUS
<1> HIDE DEF T
<1>6. n \in T
  BY ONLY <1>3, <1>4, <1>5, n \in Nat, Upwards
<1> QED
  BY <1>5, <1>6, PowerIsLast DEF p

\* One is a residue, since the base point has it for z.
LEMMA OneIsResidue == ASSUME CurveLaws PROVE 1 \in Residues /\ P >= 2
<1>1. BasePoint.z \in Residues
  BY DEF CurveLaws, Points
<1> QED
  BY <1>1, FieldIsClosed DEF BasePoint, Residues

\* With z = 1 the affine point is x and y.
LEMMA AffineOfUnit ==
  ASSUME CurveLaws, NEW x \in Residues, NEW y \in Residues, NEW t
  PROVE  Affine([x |-> x, y |-> y, z |-> 1, t |-> t]) = <<x, y>>
<1>1. P \in Nat /\ P >= 2 /\ P - 2 \in Nat /\ x \in 0 .. P - 1 /\ y \in 0 .. P - 1 /\ 1 \in Residues
  BY OneIsResidue, FieldIsClosed DEF Residues
<1>2. Power(1, P - 2) = 1
  BY <1>1, PowerOfOne
<1>3. M(x, 1) = x /\ M(y, 1) = y
  <2>1. x * 1 = x /\ y * 1 = y /\ x % P = x /\ y % P = y
    BY <1>1
  <2> QED
    BY <2>1 DEF M
<1>4. Quotient(x, 1) = x /\ Quotient(y, 1) = y
  BY <1>2, <1>3 DEF Quotient
<1> QED
  BY <1>4 DEF Affine

\* The base point and the neutral one, and what they are in the plane.
LEMMA SpecialPoints ==
  ASSUME CurveLaws
  PROVE  /\ Neutral \in Points /\ Affine(Neutral) = Zero
         /\ BasePoint \in Points /\ Affine(BasePoint) = <<X, Y>>
<1>1. P \in Nat /\ P >= 2 /\ 0 \in Residues /\ 1 \in Residues /\ D \in Residues /\ D \in Int
  BY OneIsResidue, FieldIsClosed DEF Residues
<1>2. Affine(Neutral) = Zero
  BY <1>1, AffineOfUnit DEF Neutral, Zero
<1>3. Affine(BasePoint) = <<X, Y>>
  BY FieldIsClosed, AffineOfUnit DEF BasePoint
<1>4. 0 % P = 0 /\ 1 % P = 1
  BY <1>1
<1>5. M(0, 1) = 0 /\ S(0) = 0 /\ S(1) = 1 /\ M(D, 0) = 0 /\ Z(1, 0) = 1 /\ A(1, 0) = 1
  BY <1>1, <1>4 DEF M, S, Z, A
<1>6. OnCurve(Zero)
  <2>1. Zero[1] = 0 /\ Zero[2] = 1
    BY DEF Zero
  <2> QED
    BY <1>5, <2>1 DEF OnCurve
<1>7. Neutral \in [x : Residues, y : Residues, z : Residues, t : Residues]
  BY <1>1 DEF Neutral
<1>8. Neutral.z # 0 /\ M(Neutral.t, Neutral.z) = M(Neutral.x, Neutral.y)
  BY DEF Neutral
<1> QED
  BY <1>2, <1>3, <1>6, <1>7, <1>8 DEF CurveLaws, Points

\* A point's place in the plane is on the curve.
LEMMA AffineIsOnCurve ==
  ASSUME CurveLaws, NEW p \in Points
  PROVE  Affine(p) \in Curve
<1>1. p.x \in Residues /\ p.y \in Residues /\ p.z \in Residues /\ OnCurve(Affine(p))
  BY DEF Points
<1>2. P - 2 \in Nat /\ 1 \in Residues /\ Residues \subseteq Int
  BY OneIsResidue, FieldIsClosed
<1>3. Power(p.z, P - 2) \in Residues
  <2>1. P - 2 \in 0 .. P - 2
    BY <1>2
  <2> QED
    BY <1>1, <1>2, <2>1, PowerStep, PowerIsLast
<1>4. Affine(p) \in Residues \X Residues
  BY <1>1, <1>2, <1>3, FieldIsClosed DEF Affine, Quotient
<1> QED
  BY <1>1, <1>4 DEF Curve

\* The neutral element is a point of the curve.
LEMMA ZeroIsOnCurve == ASSUME CurveLaws PROVE Zero \in Curve
  BY SpecialPoints, AffineIsOnCurve

-----------------------------------------------------------------------------
(***************************************************************************)
(* Multiples.                                                              *)
(***************************************************************************)

\* Twice a multiple, and once more the point when the number is odd.
Raise(v, k, a) == IF k % 2 = 1 THEN AffineSum(AffineSum(v, v), a) ELSE AffineSum(v, v)

\* All the multiples on the way to the n-th.
Multiples(n, p) ==
  LET multiple[k \in 0 .. n] ==
        IF k = 0 THEN <<0, 1>>
        ELSE With(With(multiple[k \div 2], LAMBDA q : AffineSum(q, q)),
                  LAMBDA even : IF k % 2 = 1 THEN AffineSum(even, p) ELSE even)
  IN multiple

\* A multiple is the last of its row.
LEMMA MultipleIsLast == ASSUME NEW n, NEW p PROVE Multiple(n, p) = Multiples(n, p)[n]
  BY DEF Multiple, Multiples

\* The step of the recursion is Raise.
LEMMA WithRaise ==
  ASSUME NEW v, NEW k, NEW p
  PROVE  With(With(v, LAMBDA q : AffineSum(q, q)),
              LAMBDA even : IF k % 2 = 1 THEN AffineSum(even, p) ELSE even) = Raise(v, k, p)
<1>1. {AffineSum(w, w) : w \in {v}} = {AffineSum(v, v)}
  OBVIOUS
<1> DEFINE twice == AffineSum(v, v)
<1>2. With(v, LAMBDA q : AffineSum(q, q)) = twice
  <2>1. (CHOOSE result \in {AffineSum(v, v)} : TRUE) = AffineSum(v, v)
    OBVIOUS
  <2> QED
    BY <1>1, <2>1 DEF With
<1> DEFINE Odd(even) == IF k % 2 = 1 THEN AffineSum(even, p) ELSE even
<1>3. With(twice, LAMBDA even : IF k % 2 = 1 THEN AffineSum(even, p) ELSE even) = Odd(twice)
  <2> HIDE DEF twice
  <2>1. {IF k % 2 = 1 THEN AffineSum(w, p) ELSE w : w \in {twice}} = {Odd(twice)}
    OBVIOUS
  <2>2. (CHOOSE result \in {Odd(twice)} : TRUE) = Odd(twice)
    OBVIOUS
  <2> QED
    BY <2>1, <2>2 DEF With
<1> QED
  BY <1>2, <1>3 DEF Raise

\* The multiples of a point up to any number, all on the curve.
LEMMA MultiplesStep ==
  ASSUME CurveLaws, NEW a \in Curve, NEW n \in Nat
  PROVE  /\ Multiples(n, a)[0] = Zero
         /\ \A k \in 1 .. n : Multiples(n, a)[k] = Raise(Multiples(n, a)[k \div 2], k, a)
         /\ \A k \in 0 .. n : Multiples(n, a)[k] \in Curve
<1> DEFINE Rec(f) == [k \in 0 .. n |-> IF k = 0 THEN <<0, 1>> ELSE Raise(f[k \div 2], k, a)]
           RecW(f) == [k \in 0 .. n |->
                         IF k = 0 THEN <<0, 1>>
                         ELSE With(With(f[k \div 2], LAMBDA q : AffineSum(q, q)),
                                   LAMBDA even : IF k % 2 = 1 THEN AffineSum(even, a) ELSE even)]
           from == [k \in 1 .. n |-> k \div 2]
           step == [k \in 1 .. n |-> [v \in Curve |-> Raise(v, k, a)]]
           F == [0 .. n -> Curve]
           G == [1 .. n -> [Curve -> Curve]]
<1>1. Multiples(n, a) = CHOOSE f : f = RecW(f)
  BY DEF Multiples
<1>2. ASSUME NEW f PROVE RecW(f) = Rec(f)
  BY WithRaise
<1> HIDE DEF RecW
<1>3. ASSUME NEW v \in Curve, NEW k PROVE Raise(v, k, a) \in Curve
  <2>1. AffineSum(v, v) \in Curve
    BY DEF CurveLaws, GroupLaw
  <2>2. AffineSum(AffineSum(v, v), a) \in Curve
    BY <2>1 DEF CurveLaws, GroupLaw
  <2> QED
    BY <2>1, <2>2 DEF Raise
<1>4. step \in G
  BY <1>3
<1>5. \A k \in 1 .. n : from[k] \in 0 .. k - 1
  BY Halves
<1>6. \A k \in 1 .. n : from[k] = k \div 2 /\ \A v \in Curve : step[k][v] = Raise(v, k, a)
  OBVIOUS
<1> HIDE DEF step, from
<1>7. PICK f \in F : f[0] = Zero /\ \A k \in 1 .. n : f[k] = step[k][f[from[k]]]
  <2>1. F = [0 .. n -> Curve] /\ G = [1 .. n -> [Curve -> Curve]] /\ Zero \in Curve
    BY ZeroIsOnCurve
  <2> HIDE DEF F, G
  <2>2. \E f \in F : Descends(f, Zero, n, from, step)
    BY ONLY <2>1, <1>4, <1>5, n \in Nat, Descent, Zenon
  <2> QED
    BY <2>2 DEF Descends
<1>8. ASSUME NEW k \in 0 .. n PROVE f[k] = Rec(f)[k]
  <2>1. CASE k = 0
    BY <1>7, <2>1 DEF Zero
  <2>2. CASE k # 0
    <3>1. k \in 1 .. n
      BY <2>2
    <3>2. from[k] \in 0 .. n
      BY <1>5, <3>1
    <3>3. f[k] = Raise(f[from[k]], k, a)
      BY <1>6, <1>7, <3>1, <3>2
    <3> QED
      BY <1>6, <2>2, <3>1, <3>3
  <2> QED
    BY <2>1, <2>2
<1>9. f = Rec(f)
  BY <1>8
<1> DEFINE p == Multiples(n, a)
<1>10. p = RecW(p)
  BY <1>1, <1>2, <1>9
<1> HIDE DEF p
<1>11. p = Rec(p)
  BY <1>2, <1>10
<1>12. p[0] = Zero /\ \A k \in 1 .. n : p[k] = Raise(p[k \div 2], k, a)
  <2>1. 0 \in 0 .. n /\ \A k \in 1 .. n : k \in 0 .. n /\ k # 0
    OBVIOUS
  <2>2. Rec(p)[0] = <<0, 1>> /\ \A k \in 1 .. n : Rec(p)[k] = Raise(p[k \div 2], k, a)
    BY <2>1
  <2> HIDE DEF Rec
  <2> QED
    BY <1>11, <2>2 DEF Zero
<1>13. \A k \in 0 .. n : p[k] \in Curve
  <2> DEFINE T == {k \in 0 .. n : \A j \in 0 .. k : p[j] \in Curve}
  <2>1. 0 \in T
    BY <1>12, ZeroIsOnCurve
  <2>2. ASSUME NEW k \in 0 .. n - 1, k \in T PROVE k + 1 \in T
    <3> DEFINE j == k + 1
    <3>1. j \in 1 .. n /\ j \in Nat /\ j >= 1 /\ j - 1 = k
      OBVIOUS
    <3>2. p[j \div 2] \in Curve
      BY <2>2, <3>1, Halves
    <3>3. p[j] \in Curve
      BY <1>3, <1>12, <3>1, <3>2
    <3> QED
      BY <2>2, <3>1, <3>3
  <2> HIDE DEF T
  <2>3. \A k \in 0 .. n : k \in T
    BY ONLY <2>1, <2>2, n \in Nat, Upwards
  <2> QED
    BY <2>3 DEF T
<1> QED
  BY <1>12, <1>13 DEF p

\* How far the recursion was taken does not matter to what it holds.
LEMMA MultiplesAgree ==
  ASSUME CurveLaws, NEW a \in Curve, NEW n \in Nat, NEW k \in 0 .. n
  PROVE  Multiples(n, a)[k] = Multiple(k, a)
<1> DEFINE f == Multiples(n, a)
           g == Multiples(k, a)
           T == {i \in 0 .. k : \A j \in 0 .. i : f[j] = g[j]}
<1>1. /\ f[0] = Zero /\ \A j \in 1 .. n : f[j] = Raise(f[j \div 2], j, a)
      /\ g[0] = Zero /\ \A j \in 1 .. k : g[j] = Raise(g[j \div 2], j, a)
  BY MultiplesStep
<1> HIDE DEF f, g
<1>2. 0 \in T
  BY <1>1
<1>3. ASSUME NEW i \in 0 .. k - 1, i \in T PROVE i + 1 \in T
  <2> DEFINE j == i + 1
  <2>1. j \in 1 .. n /\ j \in 1 .. k /\ j \in Nat /\ j >= 1 /\ j - 1 = i
    OBVIOUS
  <2>2. f[j \div 2] = g[j \div 2]
    BY <1>3, <2>1, Halves
  <2>3. f[j] = g[j]
    BY <1>1, <2>1, <2>2
  <2> QED
    BY <1>3, <2>1, <2>3
<1>4. k \in Nat /\ k \in 0 .. k /\ \A i \in T : f[i] = g[i]
  OBVIOUS
<1> HIDE DEF T
<1>5. k \in T
  BY ONLY <1>2, <1>3, <1>4, Upwards
<1> QED
  BY <1>4, <1>5, MultipleIsLast DEF f, g

\* The recursion of a multiple.
LEMMA MultipleStep ==
  ASSUME CurveLaws, NEW a \in Curve
  PROVE  /\ Multiple(0, a) = Zero
         /\ \A k \in Nat : Multiple(k, a) \in Curve
         /\ \A k \in Nat : k >= 1 => Multiple(k, a) = Raise(Multiple(k \div 2, a), k, a)
<1>1. Multiple(0, a) = Zero
  BY MultiplesStep, MultipleIsLast
<1>2. ASSUME NEW k \in Nat PROVE Multiple(k, a) \in Curve
  <2>1. k \in 0 .. k
    OBVIOUS
  <2> QED
    BY <2>1, MultiplesStep, MultipleIsLast
<1>3. ASSUME NEW k \in Nat, k >= 1 PROVE Multiple(k, a) = Raise(Multiple(k \div 2, a), k, a)
  <2>1. k \in 1 .. k /\ k \div 2 \in 0 .. k
    BY <1>3, Halves
  <2>2. Multiples(k, a)[k] = Raise(Multiples(k, a)[k \div 2], k, a)
    BY <2>1, MultiplesStep
  <2>3. Multiples(k, a)[k \div 2] = Multiple(k \div 2, a)
    BY <2>1, MultiplesAgree
  <2> QED
    BY <2>2, <2>3, MultipleIsLast
<1> QED
  BY <1>1, <1>2, <1>3

\* The double of a multiple, and the one after it.
LEMMA MultipleDoubles ==
  ASSUME CurveLaws, NEW a \in Curve, NEW n \in Nat
  PROVE  /\ Multiple(2 * n, a) = AffineSum(Multiple(n, a), Multiple(n, a))
         /\ Multiple(2 * n + 1, a) = AffineSum(Multiple(2 * n, a), a)
<1> DEFINE v == Multiple(n, a)
<1>1. v \in Curve /\ Zero \in Curve
  BY MultipleStep, ZeroIsOnCurve
<1>2. Multiple(2 * n, a) = AffineSum(v, v)
  <2>1. CASE n = 0
    <3>1. 2 * n = 0 /\ v = Zero
      BY <2>1, MultipleStep
    <3>2. AffineSum(Zero, Zero) = Zero
      BY <1>1 DEF CurveLaws, GroupLaw
    <3> QED
      BY <3>1, <3>2, MultipleStep
  <2>2. CASE n # 0
    <3> DEFINE k == 2 * n
    <3>1. k \in Nat /\ k >= 1 /\ k \div 2 = n /\ k % 2 = 0
      BY <2>2
    <3>2. Multiple(k, a) = Raise(Multiple(k \div 2, a), k, a)
      BY <3>1, MultipleStep
    <3> QED
      BY <3>1, <3>2 DEF Raise
  <2> QED
    BY <2>1, <2>2
<1>3. Multiple(2 * n + 1, a) = AffineSum(AffineSum(v, v), a)
  <2> DEFINE k == 2 * n + 1
  <2>1. k \in Nat /\ k >= 1 /\ k \div 2 = n /\ k % 2 = 1
    OBVIOUS
  <2>2. Multiple(k, a) = Raise(Multiple(k \div 2, a), k, a)
    BY <2>1, MultipleStep
  <2> QED
    BY <2>1, <2>2 DEF Raise
<1> QED
  BY <1>2, <1>3

\* One more of the point is the next multiple.
LEMMA MultipleSuccessor ==
  ASSUME CurveLaws, NEW a \in Curve, NEW n \in Nat
  PROVE  Multiple(n + 1, a) = AffineSum(Multiple(n, a), a)
<1> DEFINE Next_(k) == Multiple(k + 1, a) = AffineSum(Multiple(k, a), a)
           T == {k \in 0 .. n : \A j \in 0 .. k : Next_(j)}
<1>1. ASSUME NEW v \in Nat PROVE Next_(2 * v)
  BY MultipleDoubles
<1>2. ASSUME NEW v \in Nat, Next_(v) PROVE Next_(2 * v + 1)
  <2> DEFINE m_ == Multiple(v, a)
             w == AffineSum(m_, m_)
  <2>1. m_ \in Curve /\ w \in Curve /\ AffineSum(m_, a) \in Curve
    BY MultipleStep DEF CurveLaws, GroupLaw
  <2>2. Multiple(2 * v + 1, a) = AffineSum(w, a)
    BY MultipleDoubles
  <2>3. Multiple(2 * v + 1 + 1, a) = AffineSum(AffineSum(m_, a), AffineSum(m_, a))
    <3>1. 2 * v + 1 + 1 = 2 * (v + 1) /\ v + 1 \in Nat
      OBVIOUS
    <3> QED
      BY <1>2, <3>1, MultipleDoubles
  <2> HIDE DEF m_, w
  <2>4. AffineSum(AffineSum(m_, a), AffineSum(m_, a)) = AffineSum(AffineSum(w, a), a)
    <3> DEFINE u == AffineSum(m_, a)
    <3>1. AffineSum(u, AffineSum(m_, a)) = AffineSum(AffineSum(u, m_), a)
      BY <2>1 DEF CurveLaws, GroupLaw
    <3>2. AffineSum(u, m_) = AffineSum(m_, u)
      BY <2>1 DEF CurveLaws, GroupLaw
    <3>3. AffineSum(m_, u) = AffineSum(AffineSum(m_, m_), a)
      BY <2>1 DEF CurveLaws, GroupLaw
    <3> QED
      BY <3>1, <3>2, <3>3 DEF w
  <2> QED
    BY <2>2, <2>3, <2>4
<1>3. Next_(0)
  BY <1>1
<1> HIDE DEF Next_
<1>4. 0 \in T
  BY <1>3
<1>5. ASSUME NEW k \in 0 .. n - 1, k \in T PROVE k + 1 \in T
  <2> DEFINE j == k + 1
             v == j \div 2
  <2>1. j \in 1 .. n /\ j \in Nat /\ j >= 1 /\ j - 1 = k
    OBVIOUS
  <2>2. v \in 0 .. k /\ v \in Nat /\ (j = 2 * v \/ j = 2 * v + 1)
    BY <2>1, Halves
  <2>3. Next_(v)
    BY <1>5, <2>2
  <2>4. Next_(2 * v) /\ Next_(2 * v + 1)
    BY <1>1, <1>2, <2>2, <2>3
  <2>5. Next_(j)
    BY <2>2, <2>4
  <2> QED
    BY <1>5, <2>1, <2>5
<1>6. n \in 0 .. n /\ \A k \in T : Next_(k)
  OBVIOUS
<1> HIDE DEF T
<1>7. n \in T
  BY ONLY <1>4, <1>5, <1>6, n \in Nat, Upwards
<1> QED
  BY <1>6, <1>7 DEF Next_

\* Multiples add up.
LEMMA MultiplesAdd ==
  ASSUME CurveLaws, NEW a \in Curve, NEW n \in Nat, NEW k \in Nat
  PROVE  Multiple(n + k, a) = AffineSum(Multiple(n, a), Multiple(k, a))
<1> DEFINE Adds(i) == Multiple(n + i, a) = AffineSum(Multiple(n, a), Multiple(i, a))
           T == {i \in 0 .. k : Adds(i)}
<1>1. Adds(0)
  <2>1. n + 0 = n /\ Multiple(n, a) \in Curve
    BY MultipleStep
  <2> QED
    BY <2>1, MultipleStep DEF CurveLaws, GroupLaw
<1>2. ASSUME NEW i \in Nat, Adds(i) PROVE Adds(i + 1)
  <2>1. n + (i + 1) = (n + i) + 1 /\ n + i \in Nat
    OBVIOUS
  <2>2. Multiple(n + (i + 1), a) = AffineSum(AffineSum(Multiple(n, a), Multiple(i, a)), a)
    BY <1>2, <2>1, MultipleSuccessor
  <2>3. Multiple(n, a) \in Curve /\ Multiple(i, a) \in Curve
    BY MultipleStep
  <2>4. AffineSum(AffineSum(Multiple(n, a), Multiple(i, a)), a)
          = AffineSum(Multiple(n, a), AffineSum(Multiple(i, a), a))
    BY <2>3 DEF CurveLaws, GroupLaw
  <2> QED
    BY <2>2, <2>4, MultipleSuccessor
<1> HIDE DEF Adds
<1>3. 0 \in T
  BY <1>1
<1>4. ASSUME NEW i \in 0 .. k - 1, i \in T PROVE i + 1 \in T
  BY <1>2, <1>4
<1>5. k \in 0 .. k /\ \A i \in T : Adds(i)
  OBVIOUS
<1> HIDE DEF T
<1>6. k \in T
  BY ONLY <1>3, <1>4, <1>5, k \in Nat, Upwards
<1> QED
  BY <1>5, <1>6 DEF Adds

-----------------------------------------------------------------------------
(***************************************************************************)
(* The bits of a scalar.                                                   *)
(***************************************************************************)

\* Dividing twice is dividing by the product.
LEMMA QuotientOfProduct ==
  ASSUME NEW v \in Nat, NEW b \in Nat, b >= 1, NEW c \in Nat, c >= 1
  PROVE  v \div (b * c) = (v \div b) \div c
<1> DEFINE q == v \div b
           x == v % b
           u == q \div c
           y == q % c
<1>1. q \in Int /\ x \in 0 .. b - 1 /\ v = b * q + x
  OBVIOUS
<1> HIDE DEF q, x
<1>2. u \in Int /\ y \in 0 .. c - 1 /\ q = c * u + y
  BY <1>1
<1> HIDE DEF u, y
<1>3. b * c \in Nat /\ b * c >= 1
  OBVIOUS
<1>4. b * y + x \in 0 .. b * c - 1
  <2>1. b * y >= 0 /\ b * y \in Int
    BY <1>2
  <2>2. b * y <= b * (c - 1)
    <3>1. c - 1 - y \in Nat
      BY <1>2
    <3>2. b * (c - 1 - y) >= 0
      BY <3>1
    <3>3. b * (c - 1 - y) = b * (c - 1) - b * y
      BY <1>2
    <3>4. b * (c - 1) \in Int
      OBVIOUS
    <3> QED
      BY <2>1, <3>2, <3>3, <3>4
  <2>3. b * (c - 1) = b * c - b
    OBVIOUS
  <2> QED
    BY <1>1, <1>3, <2>1, <2>2, <2>3
<1>5. v = (b * c) * u + (b * y + x)
  <2>1. b * q = b * (c * u) + b * y
    BY <1>2
  <2>2. b * (c * u) = (b * c) * u
    BY <1>2
  <2>3. (b * c) * u \in Int /\ b * y \in Int
    BY <1>2, <1>3
  <2> QED
    BY <1>1, <2>1, <2>2, <2>3
<1>6. v \div (b * c) = u
  BY ONLY <1>2, <1>3, <1>4, <1>5, QuotientIs
<1> QED
  BY <1>6 DEF u, q

\* A power of two as far as a scalar has bits.
LEMMA Powers2 ==
  /\ 2 ^ 0 = 1 /\ Bits \in Nat /\ Bits = N * ByteBits
  /\ \A k \in 0 .. Bits : 2 ^ k \in Nat /\ 2 ^ k >= 1 /\ 2 ^ (k + 1) = 2 * 2 ^ k
<1>1. Bits \in Nat
  BY Widths
<1>2. /\ 2 ^ 0 = 1 /\ \A k \in 0 .. Bits : 2 ^ (k + 1) = 2 * 2 ^ k
  BY PowersAssumption DEF Bits
<1> DEFINE T == {k \in 0 .. Bits : 2 ^ k \in Nat /\ 2 ^ k >= 1}
<1>3. 0 \in T
  BY <1>1, <1>2
<1>4. ASSUME NEW k \in 0 .. Bits - 1, k \in T PROVE k + 1 \in T
  <2>1. 2 ^ k \in Nat /\ 2 ^ k >= 1 /\ k \in 0 .. Bits /\ k + 1 \in 0 .. Bits
    BY <1>1, <1>4
  <2>2. 2 ^ (k + 1) = 2 * 2 ^ k
    BY <1>2, <2>1
  <2> QED
    BY <2>1, <2>2
<1>5. \A k \in T : 2 ^ k \in Nat /\ 2 ^ k >= 1
  OBVIOUS
<1> HIDE DEF T
<1>6. \A k \in 0 .. Bits : k \in T
  BY ONLY <1>1, <1>3, <1>4, Upwards
<1> QED
  BY <1>1, <1>2, <1>5, <1>6 DEF Bits

\* The product of powers is the power of the sum.
LEMMA PowersAdd ==
  ASSUME NEW i \in Nat, NEW j \in Nat, i + j <= Bits
  PROVE  2 ^ (i + j) = 2 ^ i * 2 ^ j
<1> DEFINE T == {k \in 0 .. j : 2 ^ (i + k) = 2 ^ i * 2 ^ k}
<1>1. \A k \in 0 .. Bits : 2 ^ k \in Nat /\ 2 ^ (k + 1) = 2 * 2 ^ k
  BY Powers2
<1>2. 0 \in T
  <2>1. i + 0 = i /\ 2 ^ i \in Nat /\ 2 ^ 0 = 1
    BY <1>1, Powers2
  <2> QED
    BY <2>1
<1>3. ASSUME NEW k \in 0 .. j - 1, k \in T PROVE k + 1 \in T
  <2>1. /\ k \in 0 .. Bits /\ i + k \in 0 .. Bits /\ i \in 0 .. Bits
        /\ i + (k + 1) = (i + k) + 1 /\ k + 1 \in 0 .. j
    BY Powers2
  <2>2. 2 ^ (i + (k + 1)) = 2 * (2 ^ i * 2 ^ k) /\ 2 ^ (k + 1) = 2 * 2 ^ k
    BY <1>1, <1>3, <2>1
  <2>3. 2 ^ i \in Nat /\ 2 ^ k \in Nat
    BY <1>1, <2>1
  <2> DEFINE x == 2 ^ i
             y == 2 ^ k
  <2>4. 2 * (x * y) = x * (2 * y)
    <3>1. x \in Nat /\ y \in Nat
      BY <2>3
    <3> HIDE DEF x, y
    <3> QED
      BY <3>1
  <2> QED
    BY <2>1, <2>2, <2>4
<1>4. j \in 0 .. j /\ \A k \in T : 2 ^ (i + k) = 2 ^ i * 2 ^ k
  OBVIOUS
<1> HIDE DEF T
<1>5. j \in T
  BY ONLY <1>2, <1>3, <1>4, j \in Nat, Upwards
<1> QED
  BY <1>4, <1>5

\* What the upper bytes of a scalar are worth: its number without the q lowest.
LEMMA BytesAbove ==
  ASSUME NEW s \in Seq(Byte), Len(s) = N
  PROVE  /\ \A k \in 0 .. N : Prefixes(s)[k] \in Nat
         /\ \A q \in 0 .. N : q * ByteBits \in 0 .. Bits
         /\ \A q \in 0 .. N : Number(s) \div 2 ^ (q * ByteBits) = Prefixes(s)[N - q]
<1> DEFINE p == Prefixes(s)
<1>1. N \in Nat /\ N >= 1 /\ ByteBits \in Nat /\ Radix \in Nat /\ Radix >= 1 /\ Radix = 2 ^ ByteBits
  BY Widths, Digits, WidthAssumption DEF Radix
<1>2. /\ p[0] = 0 /\ \A k \in 0 .. N : p[k] \in Int
      /\ \A k \in 1 .. N : p[k] = Radix * p[k - 1] + s[N - k + 1]
  BY PrefixStep
<1>3. \A k \in 1 .. N : s[N - k + 1] \in 0 .. Radix - 1
  <2>1. \A k \in 1 .. N : N - k + 1 \in 1 .. Len(s)
    BY <1>1
  <2> QED
    BY <2>1, LenProperties DEF Byte
<1>4. Number(s) = p[N]
  BY NumberIsPrefix
<1> HIDE DEF p
<1>5. \A k \in 0 .. N : p[k] \in Nat
  <2> DEFINE T == {k \in 0 .. N : p[k] \in Nat}
  <2>1. 0 \in T
    BY <1>1, <1>2
  <2>2. ASSUME NEW k \in 0 .. N - 1, k \in T PROVE k + 1 \in T
    <3> DEFINE j == k + 1
    <3>1. j \in 1 .. N /\ j - 1 = k /\ j \in 0 .. N /\ p[k] \in Nat
      BY <1>1, <2>2
    <3>2. p[j] = Radix * p[k] + s[N - j + 1]
      BY <1>2, <3>1
    <3>3. Radix * p[k] \in Nat
      BY <1>1, <3>1
    <3>4. s[N - j + 1] \in Nat
      BY <1>1, <1>3, <3>1
    <3>5. p[j] \in Nat
      BY <3>2, <3>3, <3>4
    <3> QED
      BY <3>1, <3>5
  <2> HIDE DEF T
  <2>3. \A k \in 0 .. N : k \in T
    BY ONLY <1>1, <2>1, <2>2, Upwards
  <2> QED
    BY <2>3 DEF T
<1>6. ASSUME NEW q \in 0 .. N PROVE q * ByteBits \in 0 .. Bits
  <2>1. (N - q) * ByteBits >= 0 /\ q * ByteBits >= 0
    BY <1>1
  <2>2. (N - q) * ByteBits = N * ByteBits - q * ByteBits
    BY <1>1
  <2>3. q * ByteBits \in Int /\ N * ByteBits \in Int
    BY <1>1
  <2> QED
    BY <2>1, <2>2, <2>3 DEF Bits
<1>7. \A q \in 0 .. N : p[N] \div 2 ^ (q * ByteBits) = p[N - q]
  <2> DEFINE T == {q \in 0 .. N : p[N] \div 2 ^ (q * ByteBits) = p[N - q]}
  <2>1. 0 \in T
    <3>1. 0 * ByteBits = 0 /\ 2 ^ 0 = 1 /\ N - 0 = N /\ 0 \in 0 .. N /\ N \in 0 .. N
      BY <1>1, Powers2
    <3>2. p[N] \div 1 = p[N]
      BY <1>5, <3>1
    <3> QED
      BY <3>1, <3>2
  <2>2. ASSUME NEW q \in 0 .. N - 1, q \in T PROVE q + 1 \in T
    <3> DEFINE k == N - q
               i == q * ByteBits
               b == 2 ^ i
               v == p[N]
               u == p[k - 1]
               w == s[N - k + 1]
    <3>1. q \in 0 .. N /\ q + 1 \in 0 .. N /\ k \in 1 .. N /\ k - 1 = N - (q + 1) /\ k - 1 \in 0 .. N
          /\ N \in 0 .. N
      BY <1>1
    <3>2. /\ i \in Nat /\ i \in 0 .. Bits /\ (q + 1) * ByteBits \in 0 .. Bits
          /\ (q + 1) * ByteBits = i + ByteBits
      <4>1. (q + 1) * ByteBits = i + ByteBits
        BY <1>1
      <4> QED
        BY <1>6, <3>1, <4>1
    <3>3. 2 ^ ((q + 1) * ByteBits) = b * Radix /\ b \in Nat /\ b >= 1
      BY <1>1, <3>2, Powers2, PowersAdd
    <3>4. v \in Nat /\ v \div b = p[k]
      BY <1>5, <2>2, <3>1
    <3>5. p[k] = Radix * u + w /\ u \in Int /\ w \in 0 .. Radix - 1
      BY <1>2, <1>3, <3>1
    <3> HIDE DEF b, v, u, w, i, k
    <3>6. v \div (b * Radix) = (v \div b) \div Radix
      BY ONLY <1>1, <3>3, <3>4, QuotientOfProduct
    <3> DEFINE y == v \div b
    <3>9. y = Radix * u + w
      BY <3>4, <3>5
    <3> HIDE DEF y
    <3>7. y \div Radix = u
      BY ONLY <1>1, <3>5, <3>9, QuotientIs, Zenon
    <3>8. v \div 2 ^ ((q + 1) * ByteBits) = u
      BY <3>3, <3>6, <3>7 DEF y
    <3> QED
      BY <3>1, <3>8 DEF u, v
  <2> HIDE DEF T
  <2>3. \A q \in 0 .. N : q \in T
    BY ONLY <1>1, <2>1, <2>2, Upwards
  <2> QED
    BY <2>3 DEF T
<1> QED
  BY <1>4, <1>5, <1>6, <1>7 DEF p

\* Above w, twice e times u: the bit of w at c is that of the sum.
BitsAbove(c, e, u, w) == (((c * (2 * e)) * u + w) \div c) % 2 = (w \div c) % 2

\* A byte below an even multiple of its power does not meet the bit.
LEMMA LowBits ==
  ASSUME NEW c \in Nat, c >= 1, NEW e \in Nat, NEW u \in Nat, NEW w \in Nat
  PROVE  BitsAbove(c, e, u, w)
<1> DEFINE d == w \div c
           z == w % c
           g == e * u
<1>1. d \in Int /\ z \in 0 .. c - 1 /\ w = c * d + z
  OBVIOUS
<1> HIDE DEF d, z
<1>2. g \in Int
  OBVIOUS
<1>3. (c * (2 * e)) * u = c * (2 * g)
  OBVIOUS
<1> HIDE DEF g
<1>4. c * (2 * g) + c * d = c * (2 * g + d)
  BY <1>1, <1>2
<1>5. c * (2 * g) \in Int /\ c * d \in Int /\ 2 * g + d \in Int
  BY <1>1, <1>2
<1>6. (c * (2 * e)) * u + w = c * (2 * g + d) + z
  BY <1>1, <1>3, <1>4, <1>5
<1>7. ((c * (2 * e)) * u + w) \div c = 2 * g + d
  BY ONLY <1>1, <1>5, <1>6, QuotientIs
<1>8. (2 * g + d) % 2 = d % 2
  BY <1>1, <1>2
<1> QED
  BY <1>7, <1>8 DEF d, BitsAbove

\* The ladder reads the scalar bit by bit from the top.
LEMMA BitStep ==
  ASSUME NEW s \in Seq(Byte), Len(s) = N
  PROVE  /\ Number(s) \in Nat
         /\ Number(s) \div 2 ^ Bits = 0 /\ Number(s) \div 2 ^ 0 = Number(s)
         /\ \A i \in 0 .. Bits - 1 :
              /\ Bit(s, i) \in {0, 1}
              /\ Number(s) \div 2 ^ i = 2 * (Number(s) \div 2 ^ (i + 1)) + Bit(s, i)
              /\ Number(s) \div 2 ^ (i + 1) \in Nat
<1> DEFINE p == Prefixes(s)
           v == Number(s)
<1>1. N \in Nat /\ N >= 1 /\ ByteBits \in Nat /\ ByteBits >= 1 /\ Radix = 2 ^ ByteBits /\ Radix \in Nat
  BY Widths, Digits, WidthAssumption DEF Radix
<1>2. /\ p[0] = 0 /\ \A k \in 0 .. N : p[k] \in Nat
      /\ \A k \in 1 .. N : p[k] = Radix * p[k - 1] + s[N - k + 1]
      /\ \A q \in 0 .. N : v \div 2 ^ (q * ByteBits) = p[N - q]
      /\ \A q \in 0 .. N : q * ByteBits \in 0 .. Bits
  BY BytesAbove, PrefixStep
<1>3. v \in Nat
  BY <1>1, <1>2, NumberIsPrefix
<1>4. v \div 2 ^ Bits = 0
  <2>1. N \in 0 .. N /\ N * ByteBits = Bits /\ N - N = 0
    BY <1>1 DEF Bits
  <2> QED
    BY <1>2, <2>1
<1>5. v \div 2 ^ 0 = v
  <2>1. v \div 1 = v
    BY <1>3
  <2> QED
    BY <2>1, Powers2
<1>6. \A k \in 1 .. N : s[N - k + 1] \in Nat
  <2>1. \A k \in 1 .. N : N - k + 1 \in 1 .. Len(s)
    BY <1>1
  <2> QED
    BY <1>1, <2>1, LenProperties DEF Byte
<1> HIDE DEF p, v
<1>7. ASSUME NEW i \in 0 .. Bits - 1
      PROVE  /\ Bit(s, i) \in {0, 1}
             /\ v \div 2 ^ i = 2 * (v \div 2 ^ (i + 1)) + Bit(s, i)
             /\ v \div 2 ^ (i + 1) \in Nat
  <2> DEFINE q == i \div ByteBits
             r == i % ByteBits
             k == N - q
  <2>1. q \in Int /\ r \in 0 .. ByteBits - 1 /\ i = ByteBits * q + r /\ i \in Nat /\ Bits \in Nat
        /\ i + 1 \in 0 .. Bits /\ i \in 0 .. Bits
    BY <1>1, Powers2
  <2>2. q \in 0 .. N - 1
    <3>1. q >= 0
      BY <1>1, <2>1
    <3>2. ~(q >= N)
      <4>1. SUFFICES ASSUME q >= N PROVE FALSE
        OBVIOUS
      <4>2. ByteBits * (q - N) >= 0
        BY <1>1, <2>1, <4>1
      <4>3. ByteBits * (q - N) = ByteBits * q - N * ByteBits
        BY <1>1, <2>1
      <4>4. ByteBits * q \in Int /\ N * ByteBits \in Int
        BY <1>1, <2>1
      <4> QED
        BY <1>1, <2>1, <4>2, <4>3, <4>4 DEF Bits
    <3> QED
      BY <1>1, <2>1, <3>1, <3>2
  <2>3. Bit(s, i) = (s[q + 1] \div 2 ^ r) % 2
    BY DEF Bit
  <2> HIDE DEF q, r
  <2> DEFINE a == 2 ^ (q * ByteBits)
             c == 2 ^ r
             t == p[k]
             w == s[q + 1]
             u == p[k - 1]
             e == 2 ^ (ByteBits - r - 1)
  <2>4. /\ k \in 1 .. N /\ k - 1 \in 0 .. N /\ k \in 0 .. N /\ N - k + 1 = q + 1 /\ q \in 0 .. N
        /\ N - q = k
    BY <1>1, <2>2
  <2>5. t = Radix * u + w /\ u \in Nat /\ w \in Nat /\ t \in Nat /\ v \div a = t
    BY <1>2, <1>6, <2>4
  <2>6. /\ q * ByteBits \in Nat /\ q * ByteBits + r = i /\ q * ByteBits \in 0 .. Bits
        /\ r \in Nat /\ r \in 0 .. Bits
    <3>1. q * ByteBits = ByteBits * q /\ q * ByteBits \in 0 .. Bits
      BY <1>1, <1>2, <2>1, <2>4
    <3> QED
      BY <1>1, <2>1, <3>1
  <2>7. /\ a \in Nat /\ a >= 1 /\ c \in Nat /\ c >= 1
        /\ 2 ^ i = a * c /\ 2 ^ (i + 1) = 2 * 2 ^ i /\ 2 ^ i \in Nat /\ 2 ^ i >= 1
    <3>1. q * ByteBits + r <= Bits
      BY <2>1, <2>6
    <3>2. 2 ^ (q * ByteBits + r) = 2 ^ (q * ByteBits) * 2 ^ r
      BY <2>6, <3>1, PowersAdd
    <3> QED
      BY <2>1, <2>6, <3>2, Powers2
  <2>8. Radix = c * (2 * e) /\ e \in Nat
    <3> DEFINE j == ByteBits - r - 1
    <3>1. j \in Nat /\ j + 1 \in Nat /\ r + (j + 1) = ByteBits /\ ByteBits <= Bits
      <4>1. 1 \in 0 .. N /\ 1 * ByteBits = ByteBits
        BY <1>1
      <4>2. ByteBits \in 0 .. Bits
        BY <1>2, <4>1
      <4> QED
        BY <1>1, <2>1, <4>2
    <3>2. j \in 0 .. Bits
      <4>1. r \in Nat /\ Bits \in Nat /\ ByteBits \in Nat
        BY <1>1, <2>1, <2>6
      <4> HIDE DEF j
      <4> QED
        BY ONLY <3>1, <4>1
    <3>3. 2 ^ (j + 1) = 2 * 2 ^ j /\ 2 ^ j \in Nat
      BY <3>2, Powers2
    <3>4. 2 ^ (r + (j + 1)) = 2 ^ r * 2 ^ (j + 1)
      BY <2>6, <3>1, PowersAdd
    <3> QED
      BY <1>1, <3>1, <3>3, <3>4
  <2> HIDE DEF a, c, t, w, u, e, k
  <2>9. v \div 2 ^ i = t \div c
    <3>1. v \div (a * c) = (v \div a) \div c
      BY ONLY <1>3, <2>7, QuotientOfProduct
    <3> QED
      BY <2>5, <2>7, <3>1
  <2>10. v \div 2 ^ (i + 1) = (v \div 2 ^ i) \div 2
    <3> DEFINE b == 2 ^ i
    <3>1. b \in Nat /\ b >= 1 /\ 2 ^ (i + 1) = b * 2
      BY <2>7
    <3> HIDE DEF b
    <3>2. v \div (b * 2) = (v \div b) \div 2
      BY <1>3, <3>1, QuotientOfProduct
    <3> QED
      BY <3>1, <3>2 DEF b
  <2>11. (t \div c) % 2 = (w \div c) % 2
    <3>0. c \in Nat /\ c >= 1 /\ e \in Nat /\ u \in Nat /\ w \in Nat
      BY <2>5, <2>7, <2>8
    <3>1. BitsAbove(c, e, u, w)
      BY ONLY <3>0, LowBits
    <3>2. (((c * (2 * e)) * u + w) \div c) % 2 = (w \div c) % 2
      BY ONLY <3>1 DEF BitsAbove
    <3> QED
      BY <2>5, <2>8, <3>2
  <2>12. Bit(s, i) = (v \div 2 ^ i) % 2
    BY <2>3, <2>9, <2>11 DEF c, w
  <2> DEFINE x == v \div 2 ^ i
  <2>13. x \in Nat
    <3>1. t \in Nat /\ c \in Nat /\ c >= 1
      BY <2>5, <2>7
    <3>2. t \div c \in Nat
      BY <3>1
    <3> QED
      BY <2>9, <3>2
  <2> HIDE DEF x
  <2>14. x = 2 * (x \div 2) + (x % 2) /\ x % 2 \in {0, 1} /\ x \div 2 \in Nat
    <3>1. x % 2 \in {0, 1} /\ x \div 2 \in Nat
      BY <2>13
    <3>2. x = 2 * (x \div 2) + (x % 2)
      BY <2>13
    <3> QED
      BY <3>1, <3>2
  <2> QED
    BY <2>10, <2>12, <2>14 DEF x
<1> QED
  BY <1>3, <1>4, <1>5, <1>7 DEF v

-----------------------------------------------------------------------------
(***************************************************************************)
(* Both points of the ladder are multiples, one apart.                     *)
(***************************************************************************)
OnRung(pr, n, a) ==
  /\ pr[1] \in Points /\ pr[2] \in Points
  /\ Affine(pr[1]) = Multiple(n, a)
  /\ Affine(pr[2]) = Multiple(n + 1, a)

\* A turn doubles the number and adds the bit.
LEMMA TurnRaises ==
  ASSUME CurveLaws, NEW a \in Curve, NEW n \in Nat, NEW b \in {0, 1}, NEW pr, OnRung(pr, n, a)
  PROVE  OnRung(LadderTurn(pr, b), 2 * n + b, a)
<1> DEFINE u == pr[1]
           v == pr[2]
<1>1. u \in Points /\ v \in Points /\ Affine(u) = Multiple(n, a) /\ Affine(v) = Multiple(n + 1, a)
  BY DEF OnRung
<1> HIDE DEF u, v
<1>2. /\ add(u, u) \in Points /\ Affine(add(u, u)) = AffineSum(Affine(u), Affine(u))
      /\ add(v, u) \in Points /\ Affine(add(v, u)) = AffineSum(Affine(v), Affine(u))
      /\ add(u, v) \in Points /\ Affine(add(u, v)) = AffineSum(Affine(u), Affine(v))
      /\ add(v, v) \in Points /\ Affine(add(v, v)) = AffineSum(Affine(v), Affine(v))
  BY <1>1 DEF CurveLaws, AdditionLaw
<1>3. Affine(add(u, u)) = Multiple(2 * n, a)
  BY <1>1, <1>2, MultipleDoubles
<1>4. Affine(add(u, v)) = Multiple(2 * n + 1, a)
  <2>1. n + (n + 1) = 2 * n + 1 /\ n + 1 \in Nat
    OBVIOUS
  <2> QED
    BY <1>1, <1>2, <2>1, MultiplesAdd
<1>5. Affine(add(v, u)) = Multiple(2 * n + 1, a)
  <2>1. (n + 1) + n = 2 * n + 1 /\ n + 1 \in Nat
    OBVIOUS
  <2> QED
    BY <1>1, <1>2, <2>1, MultiplesAdd
<1>6. Affine(add(v, v)) = Multiple(2 * n + 2, a)
  <2>1. 2 * (n + 1) = 2 * n + 2 /\ n + 1 \in Nat
    OBVIOUS
  <2> QED
    BY <1>1, <1>2, <2>1, MultipleDoubles
<1>7. CASE b = 0
  <2>1. LadderTurn(pr, b) = <<add(u, u), add(v, u)>>
    BY <1>7 DEF LadderTurn, cswap, u, v
  <2>2. 2 * n + b = 2 * n
    BY <1>7
  <2> QED
    BY <1>2, <1>3, <1>5, <2>1, <2>2 DEF OnRung
<1>8. CASE b = 1
  <2>1. LadderTurn(pr, b) = <<add(u, v), add(v, v)>>
    BY <1>8 DEF LadderTurn, cswap, u, v
  <2>2. 2 * n + b = 2 * n + 1 /\ 2 * n + 1 + 1 = 2 * n + 2
    BY <1>8
  <2> QED
    BY <1>2, <1>4, <1>6, <2>1, <2>2 DEF OnRung
<1> QED
  BY <1>7, <1>8

\* The rungs of a ladder are the multiples by the upper bits of its scalar.
LEMMA RungsAreMultiples ==
  ASSUME CurveLaws, NEW q \in Points, NEW s \in Seq(Byte), Len(s) = N
  PROVE  \A k \in 0 .. Bits : OnRung(Rungs(q, s)[k], Number(s) \div 2 ^ (Bits - k), Affine(q))
<1> DEFINE a == Affine(q)
           f == Rungs(q, s)
           W(k) == Number(s) \div 2 ^ (Bits - k)
           T == {k \in 0 .. Bits : OnRung(f[k], W(k), a)}
<1>1. a \in Curve /\ Bits \in Nat
  BY AffineIsOnCurve, Widths
<1>2. f[0] = <<Neutral, q>> /\ \A k \in 1 .. Bits : f[k] = LadderTurn(f[k - 1], Bit(s, Bits - k))
  BY RungStep
<1>3. W(0) = 0
  <2>1. Bits - 0 = Bits
    BY <1>1
  <2> QED
    BY <2>1, BitStep
<1>4. \A k \in 1 .. Bits : /\ Bit(s, Bits - k) \in {0, 1} /\ W(k - 1) \in Nat
                           /\ W(k) = 2 * W(k - 1) + Bit(s, Bits - k)
  <2>1. \A k \in 1 .. Bits : Bits - k \in 0 .. Bits - 1 /\ Bits - (k - 1) = Bits - k + 1
    BY <1>1
  <2> QED
    BY <2>1, BitStep
<1> HIDE DEF f, W, a
<1>5. 0 \in T
  <2>1. Multiple(0, a) = Zero /\ Multiple(0 + 1, a) = a
    <3>1. Multiple(0 + 1, a) = AffineSum(Zero, a)
      BY <1>1, MultipleSuccessor, MultipleStep
    <3>2. Zero \in Curve
      BY ZeroIsOnCurve
    <3>3. AffineSum(Zero, a) = AffineSum(a, Zero) /\ AffineSum(a, Zero) = a
      BY <1>1, <3>2 DEF CurveLaws, GroupLaw
    <3> QED
      BY <1>1, <3>1, <3>3, MultipleStep
  <2>2. OnRung(<<Neutral, q>>, 0, a)
    BY <2>1, SpecialPoints DEF OnRung, a
  <2> QED
    BY <1>1, <1>2, <1>3, <2>2
<1>6. ASSUME NEW k \in 0 .. Bits - 1, k \in T PROVE k + 1 \in T
  <2> DEFINE j == k + 1
  <2>1. j \in 1 .. Bits /\ j - 1 = k /\ j \in 0 .. Bits
    BY <1>1
  <2>2. OnRung(f[k], W(k), a) /\ W(k) \in Nat
    BY <1>4, <1>6, <2>1
  <2> DEFINE b == Bit(s, Bits - j)
             pr == f[k]
             n == W(k)
  <2>3. b \in {0, 1} /\ W(j) = 2 * n + b /\ f[j] = LadderTurn(pr, b)
    BY <1>2, <1>4, <2>1
  <2> HIDE DEF b, pr, n
  <2>4. OnRung(LadderTurn(pr, b), 2 * n + b, a)
    BY <1>1, <2>2, <2>3, TurnRaises DEF pr, n
  <2> QED
    BY <2>1, <2>3, <2>4
<1>7. \A k \in T : OnRung(f[k], W(k), a)
  OBVIOUS
<1> HIDE DEF T
<1>8. \A k \in 0 .. Bits : k \in T
  BY ONLY <1>1, <1>5, <1>6, Upwards
<1> QED
  BY <1>7, <1>8 DEF f, W, a

\* scalarmult multiplies: in the plane it gives that many times the point.
LEMMA ScalarmultIsMultiple ==
  ASSUME CurveLaws, NEW q \in Points, NEW s \in Seq(Byte), Len(s) = N
  PROVE  /\ scalarmult(q, s) \in Points
         /\ Affine(scalarmult(q, s)) = Multiple(Number(s), Affine(q))
<1>1. Bits \in 0 .. Bits /\ Bits - Bits = 0
  BY Widths
<1>2. Number(s) \div 2 ^ 0 = Number(s)
  BY BitStep
<1>3. OnRung(Rungs(q, s)[Bits], Number(s), Affine(q))
  BY <1>1, <1>2, RungsAreMultiples
<1> QED
  BY <1>3, ScalarmultIsTop DEF OnRung

-----------------------------------------------------------------------------
(***************************************************************************)
(* The ladders of a call.                                                  *)
(***************************************************************************)

\* The halves of a signature are byte strings of N bytes.
LEMMA HalvesAreBytes ==
  ASSUME NEW c \in Calls, Len(c.sig) = 2 * N
  PROVE  /\ Half(c.sig, 1) \in Seq(Byte) /\ Len(Half(c.sig, 1)) = N
         /\ Half(c.sig, 2) \in Seq(Byte) /\ Len(Half(c.sig, 2)) = N
         /\ \A k \in 1 .. N : /\ Half(c.sig, 1)[k] = c.sig[k]
                              /\ Half(c.sig, 2)[k] = c.sig[N + k]
<1>1. c.sig \in Seq(Byte) /\ N \in Nat /\ 0 \in Nat
  BY Widths DEF Calls
<1> DEFINE t == Half(c.sig, 1)
           u == Half(c.sig, 2)
<1>2. t = SubSeq(c.sig, 0 + 1, 0 + N) /\ u = SubSeq(c.sig, N + 1, N + N)
  <2>1. (1 - 1) * N + 1 = 0 + 1 /\ 1 * N = 0 + N /\ (2 - 1) * N + 1 = N + 1 /\ 2 * N = N + N
    BY <1>1
  <2> QED
    BY <2>1 DEF Half
<1>3. 0 + N <= Len(c.sig) /\ N + N <= Len(c.sig)
  BY <1>1
<1> HIDE DEF t, u
<1>4. t \in Seq(Byte) /\ Len(t) = N /\ \A k \in 1 .. N : t[k] = c.sig[0 + k]
  BY <1>1, <1>2, <1>3, SliceIs
<1>5. u \in Seq(Byte) /\ Len(u) = N /\ \A k \in 1 .. N : u[k] = c.sig[N + k]
  BY <1>1, <1>2, <1>3, SliceIs
<1>6. \A k \in 1 .. N : 0 + k = k
  OBVIOUS
<1> QED
  BY <1>4, <1>5, <1>6 DEF t, u

\* The challenge of a call is a scalar of N bytes.
LEMMA ChallengeIsBytes ==
  ASSUME DigestLaw(Seq(Byte)), NEW c \in Calls, Len(c.sig) = 2 * N
  PROVE  Challenge(c) \in Seq(Byte) /\ Len(Challenge(c)) = N
<1> DEFINE b == Half(c.sig, 1) \o c.pk \o c.msg
<1>1. b \in Seq(Byte)
  <2> DEFINE r == Half(c.sig, 1)
  <2>1. r \in Seq(Byte) /\ c.pk \in Seq(Byte) /\ c.msg \in Seq(Byte)
    BY HalvesAreBytes DEF Calls
  <2> HIDE DEF r
  <2>2. r \o c.pk \in Seq(Byte)
    BY <2>1, ConcatProperties
  <2>3. (r \o c.pk) \o c.msg \in Seq(Byte)
    BY <2>1, <2>2, ConcatProperties
  <2> QED
    BY <2>3 DEF r
<1> HIDE DEF b
<1>2. Hash(b) \in [1 .. 2 * N -> Byte]
  BY <1>1 DEF DigestLaw
<1>3. reduce(Hash(b)) \in [1 .. N -> Byte]
  BY <1>2, ReduceIsRemainder
<1> DEFINE h == reduce(Hash(b))
<1> HIDE DEF h
<1>4. h \in [1 .. N -> Byte]
  BY <1>3 DEF h
<1>5. h \in Seq(Byte) /\ Len(h) = N
  BY <1>4, Widths
<1> QED
  BY <1>5 DEF Challenge, b, h

\* The key of a call that decodes is a point.
LEMMA KeyIsPoint ==
  ASSUME CurveLaws, NEW c \in Calls, Len(c.pk) = N, unpackneg(c.pk) # NoPoint
  PROVE  unpackneg(c.pk) \in Points
<1>1. c.pk \in [1 .. N -> Byte]
  BY LenProperties DEF Calls
<1> QED
  BY <1>1 DEF CurveLaws, DecodingLaw

\* What a rung says is what the property asks of the pair.
LEMMA OnRungWalks ==
  ASSUME NEW pr, NEW n, NEW a, OnRung(pr, n, a)
  PROVE  /\ Affine(pr[1]) = Multiple(n, a)
         /\ Affine(pr[2]) = Multiple(n + 1, a)
         /\ \A k \in {1, 2} : pr[k].z # 0 /\ M(pr[k].t, pr[k].z) = M(pr[k].x, pr[k].y)
  BY DEF OnRung, Points

\* What each ladder holds on the way.
LEMMA LadderWalks ==
  ASSUME CurveLaws, DigestLaw(Seq(Byte)), LeafInv, AnswerInv
  PROVE  Ladder
<1> SUFFICES ASSUME pc \in {"timesH", "timesS"} PROVE Ladder
  BY DEF Ladder
<1>1. /\ call \in Calls /\ Len(call.pk) = N /\ Len(call.sig) = 2 * N
      /\ turns \in 0 .. Bits /\ Bits \in Nat
  BY Widths DEF LeafInv, TypeOK, CallInv, AfterRange, LengthsRight
<1>2. Bits - turns \in 0 .. Bits /\ Bits - (Bits - turns) = turns
  BY <1>1
<1>3. CASE pc = "timesH"
  <2> DEFINE q == unpackneg(call.pk)
             s == Challenge(call)
             a == Affine(q)
             n == Number(s) \div 2 ^ turns
  <2>1. scalar = s /\ pair = Rungs(q, s)[Bits - turns] /\ q # NoPoint
    BY <1>3 DEF AnswerInv, WalkInv
  <2>2. q \in Points /\ s \in Seq(Byte) /\ Len(s) = N
    BY <1>1, <2>1, KeyIsPoint, ChallengeIsBytes
  <2>3. OnRung(pair, n, a)
    <3> HIDE DEF q, s
    <3> QED
      BY <1>2, <2>1, <2>2, RungsAreMultiples
  <2>4. n = Number(scalar) \div 2 ^ turns /\ pc # "timesS"
    BY <1>3, <2>1
  <2> HIDE DEF n, s
  <2> QED
    BY <2>3, <2>4, OnRungWalks DEF Ladder
<1>4. CASE pc = "timesS"
  <2> DEFINE s == Half(call.sig, 2)
             a == <<X, Y>>
             n == Number(s) \div 2 ^ turns
  <2>1. scalar = s /\ pair = Rungs(BasePoint, s)[Bits - turns]
    BY <1>4 DEF AnswerInv, WalkInv
  <2>2. s \in Seq(Byte) /\ Len(s) = N /\ BasePoint \in Points /\ Affine(BasePoint) = a
    BY <1>1, HalvesAreBytes, SpecialPoints
  <2>3. OnRung(pair, n, a)
    <3> HIDE DEF s, a
    <3>1. OnRung(Rungs(BasePoint, s)[Bits - turns], Number(s) \div 2 ^ turns, Affine(BasePoint))
      BY <1>2, <2>2, RungsAreMultiples
    <3> QED
      BY <2>1, <2>2, <3>1
  <2>4. n = Number(scalar) \div 2 ^ turns
    BY <2>1
  <2> HIDE DEF n, s
  <2> QED
    BY <1>4, <2>3, <2>4, OnRungWalks DEF Ladder
<1> QED
  BY <1>3, <1>4

\* scalarmult: in every state of either ladder of crypto_sign_open the pair is
\* two consecutive multiples of its point, by the bits of the scalar read so far,
\* for any widths, curve and hash, whatever was presented.  Supposed are the laws
\* of the curve: its points are a commutative group, `add` computes the group's
\* sum without exception, and a key decodes to a point or to nothing.
THEOREM LadderMultiplies ==
  ASSUME CurveLaws, DigestLaw(Seq(Byte))
  PROVE  Spec => []Ladder
<1>1. LeafInv /\ AnswerInv => Ladder
  BY LadderWalks
<1> QED
  BY <1>1, AnswerInit, AnswerStep, LeafAlways, PTL DEF Spec

-----------------------------------------------------------------------------
(***************************************************************************)
(* One S for a key, a message and an R.                                    *)
(***************************************************************************)

\* The sum of points is associative.
LEMMA Associates ==
  ASSUME CurveLaws, NEW a \in Curve, NEW b \in Curve, NEW c \in Curve
  PROVE  AffineSum(AffineSum(a, b), c) = AffineSum(a, AffineSum(b, c))
  BY DEF CurveLaws, GroupLaw

\* A summand cancels.
LEMMA SummandCancels ==
  ASSUME CurveLaws, NEW a \in Curve, NEW u \in Curve, NEW v \in Curve,
         AffineSum(a, u) = AffineSum(a, v)
  PROVE  u = v
<1> DEFINE o == Opposite(a)
<1>1. o \in Curve /\ AffineSum(a, o) = Zero /\ Zero \in Curve
  BY ZeroIsOnCurve DEF CurveLaws, GroupLaw
<1> HIDE DEF o
<1>2. AffineSum(o, a) = Zero
  BY <1>1 DEF CurveLaws, GroupLaw
<1>3. ASSUME NEW w \in Curve PROVE AffineSum(o, AffineSum(a, w)) = w
  <2>1. AffineSum(AffineSum(o, a), w) = AffineSum(o, AffineSum(a, w))
    BY <1>1, Associates, Zenon
  <2>2. AffineSum(Zero, w) = AffineSum(w, Zero)
    BY <1>1 DEF CurveLaws, GroupLaw
  <2>3. AffineSum(w, Zero) = w
    BY <1>1 DEF CurveLaws, GroupLaw
  <2> QED
    BY <1>2, <2>1, <2>2, <2>3
<1> QED
  BY <1>3

\* An inverse is the only one.
LEMMA InverseIs ==
  ASSUME CurveLaws, NEW a \in Curve, NEW b \in Curve, AffineSum(a, b) = Zero
  PROVE  b = Opposite(a)
<1>1. Opposite(a) \in Curve /\ AffineSum(a, Opposite(a)) = Zero
  BY DEF CurveLaws, GroupLaw
<1> QED
  BY <1>1, SummandCancels

\* The opposite of the opposite is the point.
LEMMA OppositeTwice ==
  ASSUME CurveLaws, NEW a \in Curve
  PROVE  Opposite(a) \in Curve /\ Opposite(Opposite(a)) = a
<1> DEFINE o == Opposite(a)
<1>1. o \in Curve /\ AffineSum(a, o) = Zero
  BY DEF CurveLaws, GroupLaw
<1> HIDE DEF o
<1>2. AffineSum(o, a) = Zero
  BY <1>1 DEF CurveLaws, GroupLaw
<1>3. a = Opposite(o)
  BY <1>1, <1>2, InverseIs
<1> QED
  BY <1>1, <1>3 DEF o

\* An encoding is that of one point.
LEMMA EncodingIsOfOne ==
  ASSUME CurveLaws, EncodingLaw(Points), NEW p \in Points, NEW q \in Points, pack(p) = pack(q)
  PROVE  Affine(p) = Affine(q)
<1>1. Opposite(Affine(p)) = Opposite(Affine(q))
  BY DEF EncodingLaw
<1> QED
  BY <1>1, AffineIsOnCurve, OppositeTwice

\* Below the order the multiples of the base point differ.
LEMMA MultiplesDiffer ==
  ASSUME CurveLaws, NEW bound, OrderLaw(bound), NEW i \in Nat, NEW j \in Nat, i < j, bound \in Int,
         j < bound
  PROVE  Multiple(i, <<X, Y>>) # Multiple(j, <<X, Y>>)
<1> SUFFICES ASSUME Multiple(i, <<X, Y>>) = Multiple(j, <<X, Y>>) PROVE FALSE
  OBVIOUS
<1> DEFINE a == <<X, Y>>
           k == j - i
<1>1. a \in Curve
  BY SpecialPoints, AffineIsOnCurve
<1>2. k \in Nat /\ k \in 1 .. bound - 1 /\ i + k = j
  OBVIOUS
<1>3. Multiple(k, a) # Zero
  BY <1>2 DEF OrderLaw
<1> HIDE DEF a, k
<1>4. Multiple(j, a) = AffineSum(Multiple(i, a), Multiple(k, a))
  BY <1>1, <1>2, MultiplesAdd
<1>5. Multiple(i, a) \in Curve /\ Multiple(k, a) \in Curve /\ Zero \in Curve
  BY <1>1, <1>2, MultipleStep, ZeroIsOnCurve
<1>6. AffineSum(Multiple(i, a), Zero) = Multiple(i, a)
  BY <1>5 DEF CurveLaws, GroupLaw
<1>7. AffineSum(Multiple(i, a), Multiple(k, a)) = AffineSum(Multiple(i, a), Zero)
  BY <1>4, <1>6 DEF a
<1>8. Multiple(k, a) = Zero
  BY <1>5, <1>7, SummandCancels
<1> QED
  BY <1>3, <1>8

\* A scalar is determined by its number.
LEMMA NumberDetermines ==
  ASSUME NEW s \in Seq(Byte), Len(s) = N, NEW t \in Seq(Byte), Len(t) = N, Number(s) = Number(t)
  PROVE  s = t
<1> DEFINE p == Prefixes(s)
           q == Prefixes(t)
           T == {j \in 0 .. N : p[N - j] = q[N - j]}
<1>1. N \in Nat /\ Radix \in Nat /\ \A k \in 1 .. N : N - k + 1 \in 1 .. N
  BY Widths, Digits
<1>2. /\ \A k \in 1 .. N : p[k] = Radix * p[k - 1] + s[N - k + 1]
      /\ \A k \in 1 .. N : q[k] = Radix * q[k - 1] + t[N - k + 1]
      /\ \A k \in 0 .. N : p[k] \in Int /\ q[k] \in Int
      /\ p[N] = q[N]
  BY PrefixStep, NumberIsPrefix
<1>3. \A k \in 1 .. N : s[k] \in 0 .. Radix - 1 /\ t[k] \in 0 .. Radix - 1
  BY LenProperties DEF Byte
<1> HIDE DEF p, q
<1>4. ASSUME NEW k \in 1 .. N, p[k] = q[k]
      PROVE  p[k - 1] = q[k - 1] /\ s[N - k + 1] = t[N - k + 1]
  <2> DEFINE x == p[k - 1]
             y == q[k - 1]
             u == s[N - k + 1]
             v == t[N - k + 1]
  <2>1. k - 1 \in 0 .. N
    BY <1>1
  <2>2. x \in Int /\ y \in Int /\ u \in 0 .. Radix - 1 /\ v \in 0 .. Radix - 1
        /\ Radix * x + u = Radix * y + v
    BY <1>1, <1>2, <1>3, <1>4, <2>1
  <2> HIDE DEF x, y, u, v
  <2>3. /\ (Radix * x + u < Radix * y + v) <=> (x < y \/ (x = y /\ u < v))
        /\ (Radix * x + u > Radix * y + v) <=> (x > y \/ (x = y /\ u > v))
    BY ONLY <1>1, <2>2, DigitDecides
  <2>4. Radix * x + u \in Int /\ Radix * y + v \in Int
    <3>1. Radix * x \in Int /\ Radix * y \in Int
      BY <1>1, <2>2
    <3> QED
      BY <2>2, <3>1
  <2>5. x = y /\ u = v
    <3> DEFINE a == Radix * x + u
               b == Radix * y + v
    <3>1. /\ a = b /\ a \in Int /\ b \in Int
          /\ (a < b) <=> (x < y \/ (x = y /\ u < v))
          /\ (a > b) <=> (x > y \/ (x = y /\ u > v))
      BY <2>2, <2>3, <2>4
    <3> HIDE DEF a, b
    <3> QED
      BY <2>2, <3>1
  <2> QED
    BY <2>5 DEF x, y, u, v
<1>5. 0 \in T
  <2>1. N - 0 = N
    BY <1>1
  <2> QED
    BY <1>1, <1>2, <2>1
<1>6. ASSUME NEW j \in 0 .. N - 1, j \in T PROVE j + 1 \in T
  <2>1. N - j \in 1 .. N /\ N - (j + 1) = (N - j) - 1 /\ j + 1 \in 0 .. N
    BY <1>1
  <2> QED
    BY <1>4, <1>6, <2>1
<1>7. \A j \in T : p[N - j] = q[N - j]
  OBVIOUS
<1> HIDE DEF T
<1>8. \A j \in 0 .. N : j \in T
  BY ONLY <1>1, <1>5, <1>6, Upwards
<1>9. ASSUME NEW i \in 1 .. N PROVE s[i] = t[i]
  <2> DEFINE k == N - i + 1
  <2>1. k \in 1 .. N /\ N - k + 1 = i /\ N - k \in 0 .. N /\ N - (N - k) = k
    BY <1>1
  <2>2. p[k] = q[k]
    BY <1>7, <1>8, <2>1
  <2> QED
    BY <1>4, <2>1, <2>2
<1>10. s = [i \in 1 .. N |-> s[i]] /\ t = [i \in 1 .. N |-> t[i]]
  BY LenProperties
<1> QED
  BY <1>9, <1>10

\* A signature is its halves.
LEMMA HalvesDetermine ==
  ASSUME NEW c \in Calls, NEW d \in Calls, Len(c.sig) = 2 * N, Len(d.sig) = 2 * N,
         Half(c.sig, 1) = Half(d.sig, 1), Half(c.sig, 2) = Half(d.sig, 2)
  PROVE  c.sig = d.sig
<1>1. c.sig \in Seq(Byte) /\ d.sig \in Seq(Byte) /\ N \in Nat
  BY Widths DEF Calls
<1>2. ASSUME NEW k \in 1 .. 2 * N PROVE c.sig[k] = d.sig[k]
  <2>1. CASE k \in 1 .. N
    <3>1. Half(c.sig, 1)[k] = c.sig[k] /\ Half(d.sig, 1)[k] = d.sig[k]
      BY <2>1, HalvesAreBytes
    <3>2. Half(c.sig, 1)[k] = Half(d.sig, 1)[k]
      OBVIOUS
    <3> QED
      BY ONLY <3>1, <3>2
  <2>2. CASE k \notin 1 .. N
    <3>1. k - N \in 1 .. N /\ N + (k - N) = k
      BY <1>1, <2>2
    <3>2. Half(c.sig, 2)[k - N] = c.sig[N + (k - N)] /\ Half(d.sig, 2)[k - N] = d.sig[N + (k - N)]
      BY <3>1, HalvesAreBytes
    <3> QED
      BY <3>1, <3>2
  <2> QED
    BY <2>1, <2>2
<1>3. c.sig = [k \in 1 .. 2 * N |-> c.sig[k]] /\ d.sig = [k \in 1 .. 2 * N |-> d.sig[k]]
  BY <1>1, LenProperties
<1> QED
  BY <1>2, <1>3

\* Of two calls that verify with the same key, message and R, both have the same S.
LEMMA SameRSameS ==
  ASSUME CurveLaws, DigestLaw(Seq(Byte)), EncodingLaw(Points), OrderLaw(Order),
         NEW c \in Calls, NEW d \in Calls, Verifies(c), Verifies(d),
         c.pk = d.pk, c.msg = d.msg, Half(c.sig, 1) = Half(d.sig, 1)
  PROVE  c.sig = d.sig
<1> DEFINE q == unpackneg(c.pk)
           h == Challenge(c)
           s == Half(c.sig, 2)
           t == Half(d.sig, 2)
           w == scalarmult(q, h)
           u == scalarbase(s)
           v == scalarbase(t)
           a == <<X, Y>>
<1>1. /\ Len(c.pk) = N /\ Len(c.sig) = 2 * N /\ Len(d.sig) = 2 * N /\ unpackneg(c.pk) # NoPoint
      /\ Number(s) < Order /\ Number(t) < Order
  BY DEF Verifies, EquationHolds
<1>2. pack(add(w, u)) = pack(add(w, v))
  <2>1. Challenge(d) = h
    BY DEF Challenge
  <2> QED
    BY <2>1 DEF Verifies, EquationHolds
<1>3. q \in Points /\ h \in Seq(Byte) /\ Len(h) = N
  BY <1>1, KeyIsPoint, ChallengeIsBytes
<1>4. s \in Seq(Byte) /\ Len(s) = N /\ t \in Seq(Byte) /\ Len(t) = N
  BY <1>1, HalvesAreBytes
<1>5. BasePoint \in Points /\ Affine(BasePoint) = a
  BY SpecialPoints
<1>6. w \in Points
  <2> HIDE DEF q, h
  <2> QED
    BY <1>3, ScalarmultIsMultiple
<1>7. /\ u \in Points /\ Affine(u) = Multiple(Number(s), a)
      /\ v \in Points /\ Affine(v) = Multiple(Number(t), a)
  <2> HIDE DEF s, t, a
  <2> QED
    BY <1>4, <1>5, ScalarmultIsMultiple DEF scalarbase
<1> HIDE DEF w, u, v
<1>8. AffineSum(Affine(w), Affine(u)) = AffineSum(Affine(w), Affine(v))
  <2>1. /\ add(w, u) \in Points /\ Affine(add(w, u)) = AffineSum(Affine(w), Affine(u))
        /\ add(w, v) \in Points /\ Affine(add(w, v)) = AffineSum(Affine(w), Affine(v))
    BY <1>6, <1>7 DEF CurveLaws, AdditionLaw
  <2> QED
    BY <1>2, <2>1, EncodingIsOfOne
<1>9. Affine(u) = Affine(v)
  BY <1>6, <1>7, <1>8, AffineIsOnCurve, SummandCancels
<1>10. Multiple(Number(s), a) = Multiple(Number(t), a)
  BY <1>7, <1>9
<1>11. Number(s) = Number(t)
  <2>1. Number(s) \in Nat /\ Number(t) \in Nat /\ Order \in Int
    <3>1. Order \in Nat
      BY Digits, BitStep DEF Order
    <3> HIDE DEF s, t
    <3> QED
      BY <1>4, <3>1, BitStep
  <2> DEFINE i == Number(s)
             j == Number(t)
  <2>2. i \in Nat /\ j \in Nat /\ i < Order /\ j < Order
        /\ Multiple(i, <<X, Y>>) = Multiple(j, <<X, Y>>)
    BY <1>1, <1>10, <2>1
  <2> HIDE DEF i, j
  <2>3. ~(i < j) /\ ~(j < i)
    BY <2>1, <2>2, MultiplesDiffer
  <2>4. i = j
    BY <2>2, <2>3
  <2> QED
    BY <2>4 DEF i, j
<1>12. s = t
  <2> HIDE DEF s, t
  <2> QED
    BY <1>4, <1>11, NumberDetermines
<1> QED
  BY <1>1, <1>12, HalvesDetermine

\* The comment above the range check of lean_seal_ed25519_verify: the S of an
\* accepted signature is the only one accepted for its key, message and R, for any
\* widths and hash and whatever was presented.  Besides the laws of the curve it
\* is supposed that what is encoded decodes to the negative of its point, and that
\* no multiple of the base point below the order is neutral.
THEOREM AcceptedSIsUnique ==
  ASSUME CurveLaws, DigestLaw(Seq(Byte)), EncodingLaw(Points), OrderLaw(Order)
  PROVE  Spec => []NotMalleable
<1>1. LeafInv /\ AnswerInv => NotMalleable
  BY SameRSameS DEF LeafInv, TypeOK, AnswerInv, AnswersAreCorrect, NotMalleable
<1> QED
  BY <1>1, AnswerInit, AnswerStep, LeafAlways, PTL DEF Spec

-----------------------------------------------------------------------------
(***************************************************************************)
(* The equation of the standard.                                           *)
(***************************************************************************)

\* Four summands in any order.
LEMMA Rearranged ==
  ASSUME CurveLaws, NEW a \in Curve, NEW b \in Curve, NEW c \in Curve, NEW d \in Curve
  PROVE  AffineSum(AffineSum(a, b), AffineSum(c, d)) = AffineSum(AffineSum(a, c), AffineSum(b, d))
<1>0. \A x, y, p \in Curve : AffineSum(AffineSum(x, y), p) = AffineSum(x, AffineSum(y, p))
  BY Associates
<1>1. AffineSum(b, AffineSum(c, d)) = AffineSum(c, AffineSum(b, d))
  <2>1. AffineSum(AffineSum(b, c), d) = AffineSum(b, AffineSum(c, d))
    BY <1>0
  <2>2. AffineSum(AffineSum(c, b), d) = AffineSum(c, AffineSum(b, d))
    BY <1>0
  <2>3. AffineSum(b, c) = AffineSum(c, b)
    BY DEF CurveLaws, GroupLaw
  <2> QED
    BY <2>1, <2>2, <2>3
<1>2. AffineSum(c, d) \in Curve /\ AffineSum(b, d) \in Curve
  BY DEF CurveLaws, GroupLaw
<1> DEFINE u == AffineSum(c, d)
           v == AffineSum(b, d)
<1>3. u \in Curve /\ v \in Curve
  BY <1>2
<1> HIDE DEF u, v
<1>4. AffineSum(AffineSum(a, b), u) = AffineSum(a, AffineSum(b, u))
  BY ONLY <1>0, <1>3, a \in Curve, b \in Curve
<1>5. AffineSum(AffineSum(a, c), v) = AffineSum(a, AffineSum(c, v))
  BY ONLY <1>0, <1>3, a \in Curve, c \in Curve
<1> QED
  BY <1>1, <1>4, <1>5 DEF u, v

\* The opposite of a sum is the sum of the opposites.
LEMMA OppositeOfSum ==
  ASSUME CurveLaws, NEW a \in Curve, NEW b \in Curve
  PROVE  Opposite(AffineSum(a, b)) = AffineSum(Opposite(a), Opposite(b))
<1> DEFINE c == Opposite(a)
           d == Opposite(b)
<1>1. c \in Curve /\ d \in Curve /\ AffineSum(a, c) = Zero /\ AffineSum(b, d) = Zero
  BY DEF CurveLaws, GroupLaw
<1> HIDE DEF c, d
<1>2. AffineSum(AffineSum(a, b), AffineSum(c, d)) = AffineSum(AffineSum(a, c), AffineSum(b, d))
  BY <1>1, Rearranged
<1>3. AffineSum(Zero, Zero) = Zero
  BY ZeroIsOnCurve DEF CurveLaws, GroupLaw
<1> DEFINE u == AffineSum(a, b)
           v == AffineSum(c, d)
<1>4. u \in Curve /\ v \in Curve
  BY <1>1 DEF CurveLaws, GroupLaw
<1>5. AffineSum(u, v) = Zero
  BY <1>1, <1>2, <1>3
<1> HIDE DEF u, v
<1>6. v = Opposite(u)
  BY <1>4, <1>5, InverseIs
<1> QED
  BY <1>6 DEF u, v, c, d

\* The multiples of the opposite are the opposites of the multiples.
LEMMA MultipleOfOpposite ==
  ASSUME CurveLaws, NEW a \in Curve, NEW n \in Nat
  PROVE  Multiple(n, Opposite(a)) = Opposite(Multiple(n, a))
<1> DEFINE o == Opposite(a)
           Opp(k) == Multiple(k, o) = Opposite(Multiple(k, a))
           T == {k \in 0 .. n : Opp(k)}
<1>1. o \in Curve
  BY OppositeTwice
<1>2. Opp(0)
  <2>1. AffineSum(Zero, Zero) = Zero /\ Zero \in Curve
    BY ZeroIsOnCurve DEF CurveLaws, GroupLaw
  <2>2. Zero = Opposite(Zero)
    BY <2>1, InverseIs
  <2>3. Multiple(0, o) = Zero /\ Multiple(0, a) = Zero
    BY <1>1, MultipleStep
  <2> QED
    BY <2>2, <2>3
<1>3. ASSUME NEW k \in Nat, Opp(k) PROVE Opp(k + 1)
  <2>1. Multiple(k + 1, o) = AffineSum(Multiple(k, o), o)
    BY <1>1, MultipleSuccessor
  <2>2. Multiple(k + 1, a) = AffineSum(Multiple(k, a), a)
    BY MultipleSuccessor
  <2>3. Multiple(k, a) \in Curve
    BY MultipleStep
  <2>4. Opposite(AffineSum(Multiple(k, a), a)) = AffineSum(Opposite(Multiple(k, a)), o)
    BY <2>3, OppositeOfSum
  <2> QED
    BY <1>3, <2>1, <2>2, <2>4
<1> HIDE DEF Opp
<1>4. 0 \in T
  BY <1>2
<1>5. ASSUME NEW k \in 0 .. n - 1, k \in T PROVE k + 1 \in T
  BY <1>3, <1>5
<1>6. n \in 0 .. n /\ \A k \in T : Opp(k)
  OBVIOUS
<1> HIDE DEF T
<1>7. n \in T
  BY ONLY <1>4, <1>5, <1>6, n \in Nat, Upwards
<1> QED
  BY <1>6, <1>7 DEF Opp, o

\* What the code computes is whether the signature solves the equation.
LEMMA VerifiesSolves ==
  ASSUME CurveLaws, DigestLaw(Seq(Byte)), KeyLaw([1 .. N -> Byte]), EncodingLaw(Points),
         NEW c \in Calls
  PROVE  Verifies(c) <=> Solves(c)
<1> DEFINE q == unpackneg(c.pk)
           key == Decode(Reencoded(c.pk))
           s == Half(c.sig, 2)
<1>1. SUFFICES ASSUME Len(c.pk) = N, Len(c.sig) = 2 * N, Number(s) < Order
               PROVE  Verifies(c) <=> Solves(c)
  BY DEF Verifies, Solves, ValidFor
<1>2. c.pk \in [1 .. N -> Byte]
  BY <1>1, LenProperties DEF Calls
<1>3. /\ q # NoPoint <=> key # NoPoint
      /\ q # NoPoint => key = Opposite(Affine(q))
  BY <1>2 DEF KeyLaw
<1>4. CASE q = NoPoint
  BY <1>3, <1>4 DEF Verifies, EquationHolds, Solves, ValidFor
<1>5. CASE q # NoPoint
  <2> DEFINE digest == Hash(Half(c.sig, 1) \o c.pk \o c.msg)
             h == reduce(digest)
             n == Residue(LAMBDA k : digest[k + 1], 2 * N, Order)
             a == Affine(q)
             b == <<X, Y>>
             w == scalarmult(q, h)
             u == scalarbase(s)
             point == Opposite(a)
  <2>1. q \in Points /\ a \in Curve
    BY <1>1, <1>5, KeyIsPoint, AffineIsOnCurve
  <2>2. h \in Seq(Byte) /\ Len(h) = N /\ h = Challenge(c)
    BY <1>1, ChallengeIsBytes DEF Challenge
  <2>3. Number(h) = n
    <3>1. digest \in [1 .. 2 * N -> Byte]
      <4>1. Half(c.sig, 1) \o c.pk \o c.msg \in Seq(Byte)
        <5> DEFINE r == Half(c.sig, 1)
        <5>1. r \in Seq(Byte) /\ c.pk \in Seq(Byte) /\ c.msg \in Seq(Byte)
          BY <1>1, HalvesAreBytes DEF Calls
        <5> HIDE DEF r
        <5>2. r \o c.pk \in Seq(Byte)
          BY <5>1, ConcatProperties
        <5>3. (r \o c.pk) \o c.msg \in Seq(Byte)
          BY <5>1, <5>2, ConcatProperties
        <5> QED
          BY <5>3 DEF r
      <4> QED
        BY <4>1 DEF DigestLaw
    <3> HIDE DEF digest
    <3> QED
      BY <3>1, ReduceIsRemainder
  <2>4. w \in Points /\ Affine(w) = Multiple(Number(h), a)
    <3> HIDE DEF q, h
    <3> QED
      BY <2>1, <2>2, ScalarmultIsMultiple
  <2>5. u \in Points /\ Affine(u) = Multiple(Number(s), b)
    <3>1. s \in Seq(Byte) /\ Len(s) = N /\ BasePoint \in Points /\ Affine(BasePoint) = b
      BY <1>1, HalvesAreBytes, SpecialPoints
    <3> HIDE DEF s, b
    <3> QED
      BY <3>1, ScalarmultIsMultiple DEF scalarbase
  <2>6. Multiple(Number(h), a) = Opposite(Multiple(n, point))
    <3>1. Number(h) \in Nat
      <4> HIDE DEF h
      <4> QED
        BY <2>2, BitStep
    <3>2. point \in Curve /\ a = Opposite(point)
      BY <2>1, OppositeTwice
    <3> HIDE DEF point, a, n, h
    <3>3. Multiple(Number(h), a) = Opposite(Multiple(Number(h), point))
      BY <3>1, <3>2, MultipleOfOpposite
    <3> QED
      BY <2>3, <3>3
  <2> DEFINE sum == AffineSum(Multiple(Number(s), b), Opposite(Multiple(n, point)))
  <2>7. add(w, u) \in Points /\ Affine(add(w, u)) = sum
    <3> HIDE DEF w, u
    <3>1. add(w, u) \in Points /\ Affine(add(w, u)) = AffineSum(Affine(w), Affine(u))
      BY <2>4, <2>5 DEF CurveLaws, AdditionLaw
    <3>2. Affine(w) \in Curve /\ Affine(u) \in Curve
      BY <2>4, <2>5, AffineIsOnCurve
    <3>3. AffineSum(Affine(w), Affine(u)) = AffineSum(Affine(u), Affine(w))
      BY <3>2 DEF CurveLaws, GroupLaw
    <3> HIDE DEF s, b, n, point
    <3> QED
      BY <2>4, <2>5, <2>6, <3>1, <3>3
  <2>8. pack(add(w, u)) = Encoding(sum)
    <3> HIDE DEF w, u, sum
    <3> QED
      BY <2>7 DEF EncodingLaw
  <2>9. EquationHolds(c) <=> Half(c.sig, 1) = Encoding(sum)
    <3>1. EquationHolds(c) <=> q # NoPoint /\ Half(c.sig, 1) = pack(add(scalarmult(q, Challenge(c)), u))
      BY DEF EquationHolds
    <3>2. scalarmult(q, Challenge(c)) = w
      <4> HIDE DEF q, h
      <4> QED
        BY <2>2
    <3> HIDE DEF w, u, sum, q
    <3> QED
      BY <1>5, <2>8, <3>1, <3>2
  <2>10. Solves(c) <=> Half(c.sig, 1) = Encoding(sum)
    <3>1. key # NoPoint /\ key = point
      BY <1>3, <1>5
    <3>2. Solves(c) <=> ValidFor(c, key)
      BY <1>1 DEF Solves
    <3>3. ValidFor(c, point) <=> point # NoPoint /\ Half(c.sig, 1) = Encoding(sum)
      BY <1>1 DEF ValidFor
    <3> HIDE DEF key, point, sum
    <3> QED
      BY <3>1, <3>2, <3>3
  <2>11. Verifies(c) <=> EquationHolds(c)
    BY <1>1 DEF Verifies
  <2> HIDE DEF sum
  <2> QED
    BY <2>9, <2>10, <2>11
<1> QED
  BY <1>4, <1>5

\* For a canonical key the equation is the standard's, and a signature of the
\* standard solves it.
LEMMA SolvesIsValid ==
  ASSUME KeyLaw([1 .. N -> Byte]), NEW c \in Calls
  PROVE  /\ Canonical(c.pk) => (Solves(c) <=> Valid(c))
         /\ Valid(c) => Solves(c)
<1>1. Canonical(c.pk) => (Solves(c) <=> Valid(c))
  BY DEF Canonical, Solves, Valid
<1>2. ASSUME Valid(c) PROVE Canonical(c.pk)
  <2>1. Len(c.pk) = N /\ Decode(c.pk) # NoPoint
    BY <1>2 DEF Valid, ValidFor
  <2>2. c.pk \in [1 .. N -> Byte]
    BY <2>1, LenProperties DEF Calls
  <2> QED
    BY <2>1, <2>2 DEF KeyLaw
<1> QED
  BY <1>1, <1>2

\* lean_seal_ed25519_verify: the answer is 1 if and only if the signature solves the
\* equation for the point the key stands for; every signature of the standard is
\* answered 1, and under a canonical key nothing else is; for any widths and hash
\* and whatever was verified before.  Besides the laws of the curve it is supposed
\* that unpackneg gives the negative of what the key, encoded anew, decodes to by
\* the standard, and that points are encoded as the standard has it.
THEOREM VerifierDecidesTheEquation ==
  ASSUME CurveLaws, DigestLaw(Seq(Byte)), KeyLaw([1 .. N -> Byte]), EncodingLaw(Points)
  PROVE  Spec => []AnswersTheEquation
<1>1. ASSUME LeafInv, AnswerInv PROVE AnswersTheEquation
  <2>1. call \in Calls /\ accepted \subseteq Calls
    BY <1>1 DEF LeafInv, TypeOK
  <2>2. /\ \A c \in Calls : Verifies(c) <=> Solves(c)
        /\ \A c \in Calls : Canonical(c.pk) => (Solves(c) <=> Valid(c))
        /\ \A c \in Calls : Valid(c) => Solves(c)
    BY VerifiesSolves, SolvesIsValid
  <2>3. /\ \A c \in accepted : Verifies(c)
        /\ pc = "idle" /\ answer # NoAnswer => answer = IF starved \/ ~Verifies(call) THEN 0 ELSE 1
    BY <1>1 DEF AnswerInv, AnswersAreCorrect
  <2> QED
    BY <2>1, <2>2, <2>3 DEF AnswersTheEquation
<1> QED
  BY <1>1, AnswerInit, AnswerStep, LeafAlways, PTL DEF Spec

-----------------------------------------------------------------------------
(***************************************************************************)
(* What a signer produces.                                                 *)
(***************************************************************************)
SignedRecord(seed, msg) ==
  LET d == SecretScalar(seed)
      r == reduce(Hash(Half(Hash(seed), 2) \o msg))
      R == pack(scalarbase(r))
      pk == PublicKey(seed)
      h == reduce(Hash(R \o pk \o msg))
  IN [pk |-> pk, msg |-> msg, sig |-> R \o modL(SignDigits(r, h, d))]

\* Signed records are a signer's, and an idle verifier has answered the last call.
SignedInv ==
  /\ \A c \in signed : \E seed \in Seeds, msg \in Messages : c = SignedRecord(seed, msg)
  /\ pc = "idle" => answer # NoAnswer \/ call = NoCall

\* A multiple of a multiple is the multiple by the product.
LEMMA MultipleOfMultiple ==
  ASSUME CurveLaws, NEW a \in Curve, NEW n \in Nat, NEW k \in Nat
  PROVE  Multiple(n, Multiple(k, a)) = Multiple(n * k, a)
<1> DEFINE b == Multiple(k, a)
           Is(i) == Multiple(i, b) = Multiple(i * k, a)
           T == {i \in 0 .. n : Is(i)}
<1>1. b \in Curve
  BY MultipleStep
<1>2. Is(0)
  <2>1. 0 * k = 0
    OBVIOUS
  <2> QED
    BY <1>1, <2>1, MultipleStep
<1>3. ASSUME NEW i \in Nat, Is(i) PROVE Is(i + 1)
  <2>1. Multiple(i + 1, b) = AffineSum(Multiple(i, b), b)
    BY <1>1, MultipleSuccessor
  <2>2. (i + 1) * k = i * k + k /\ i * k \in Nat
    OBVIOUS
  <2> DEFINE j == i * k
  <2>3. (i + 1) * k = j + k /\ j \in Nat /\ Multiple(i, b) = Multiple(j, a)
    BY <1>3, <2>2
  <2> HIDE DEF j
  <2>4. Multiple(j + k, a) = AffineSum(Multiple(j, a), Multiple(k, a))
    BY <2>3, MultiplesAdd
  <2> QED
    BY <2>1, <2>3, <2>4
<1> HIDE DEF Is
<1>4. 0 \in T
  BY <1>2
<1>5. ASSUME NEW i \in 0 .. n - 1, i \in T PROVE i + 1 \in T
  BY <1>3, <1>5
<1>6. n \in 0 .. n /\ \A i \in T : Is(i)
  OBVIOUS
<1> HIDE DEF T
<1>7. n \in T
  BY ONLY <1>4, <1>5, <1>6, n \in Nat, Upwards
<1> QED
  BY <1>6, <1>7 DEF Is, b

\* Zero has no other multiple.
LEMMA MultipleOfZero ==
  ASSUME CurveLaws, NEW n \in Nat
  PROVE  Multiple(n, Zero) = Zero
<1>1. Zero \in Curve
  BY ZeroIsOnCurve
<1>2. Multiple(0, Zero) = Zero
  BY <1>1, MultipleStep
<1>3. n * 0 = 0
  OBVIOUS
<1>4. Multiple(n, Multiple(0, Zero)) = Multiple(n * 0, Zero)
  BY <1>1, MultipleOfMultiple
<1> QED
  BY <1>2, <1>3, <1>4

\* If the order of the point is `o`, its multiples are those of the remainders.
LEMMA MultipleOfRemainder ==
  ASSUME CurveLaws, NEW a \in Curve, NEW o \in Nat, o >= 1, Multiple(o, a) = Zero, NEW n \in Nat
  PROVE  Multiple(n % o, a) = Multiple(n, a)
<1> DEFINE q == n \div o
           r == n % o
           k == q * o
<1>1. q \in Nat /\ r \in Nat /\ n = o * q + r
  OBVIOUS
<1> HIDE DEF q, r
<1>2. k \in Nat /\ n = k + r
  BY <1>1
<1>3. Multiple(k, a) = Zero
  <2>1. Multiple(q, Multiple(o, a)) = Multiple(k, a)
    BY <1>1, MultipleOfMultiple
  <2> QED
    BY <1>1, <2>1, MultipleOfZero
<1> HIDE DEF k
<1>4. Multiple(k + r, a) = AffineSum(Zero, Multiple(r, a))
  BY <1>1, <1>2, <1>3, MultiplesAdd
<1>5. Zero \in Curve /\ Multiple(r, a) \in Curve
  BY <1>1, ZeroIsOnCurve, MultipleStep
<1>6. AffineSum(Zero, Multiple(r, a)) = AffineSum(Multiple(r, a), Zero)
  BY <1>5 DEF CurveLaws, GroupLaw
<1>7. AffineSum(Multiple(r, a), Zero) = Multiple(r, a)
  BY <1>5 DEF CurveLaws, GroupLaw
<1> QED
  BY <1>2, <1>4, <1>6, <1>7 DEF r

\* The clamped half of a digest is a scalar.
LEMMA ClampIsBytes ==
  ASSUME NEW d \in [1 .. 2 * N -> Byte]
  PROVE  Clamp(d) \in [1 .. N -> Byte]
<1>1. ASSUME NEW k \in 1 .. N
      PROVE  (LET low == IF k = 1 THEN d[k] - (d[k] % 8) ELSE d[k]
              IN IF k = N THEN (low % (Radix \div 4)) + Radix \div 4 ELSE low) \in Byte
  <2> DEFINE b == d[k]
             low == IF k = 1 THEN b - (b % 8) ELSE b
             f == Radix \div 4
  <2>1. b \in 0 .. Radix - 1 /\ Radix \in Nat /\ Radix >= 16
    <3>1. k \in 1 .. 2 * N
      BY Widths
    <3> QED
      BY <3>1, RadixParts DEF Byte
  <2>2. f \in Nat /\ f >= 1 /\ 4 * f <= Radix
    BY <2>1
  <2>3. low \in 0 .. Radix - 1
    <3>1. b % 8 \in Int /\ b % 8 >= 0 /\ b % 8 <= b
      BY <2>1
    <3> QED
      BY <2>1, <3>1
  <2> HIDE DEF low, f
  <2>4. (low % f) + f \in 0 .. Radix - 1
    <3>1. low % f \in 0 .. f - 1
      BY <2>1, <2>2, <2>3
    <3> QED
      BY <2>1, <2>2, <3>1
  <2>5. (IF k = N THEN (low % f) + f ELSE low) \in Byte
    BY <2>3, <2>4 DEF Byte
  <2> QED
    BY <2>5 DEF low, f
<1> QED
  BY <1>1 DEF Clamp

\* The second half of a digest.
LEMMA DigestHalf ==
  ASSUME NEW d \in [1 .. 2 * N -> Byte]
  PROVE  Half(d, 2) \in Seq(Byte)
<1> DEFINE t == Half(d, 2)
<1>1. N \in Nat /\ d \in Seq(Byte) /\ Len(d) = 2 * N
  BY Widths
<1>2. t = SubSeq(d, N + 1, N + N)
  <2>1. (2 - 1) * N + 1 = N + 1 /\ 2 * N = N + N
    BY <1>1
  <2> QED
    BY <2>1 DEF Half
<1>3. N + N <= Len(d)
  BY <1>1
<1> HIDE DEF t
<1>4. t \in Seq(Byte)
  BY <1>1, <1>2, <1>3, SliceIs
<1> QED
  BY <1>4 DEF t

\* The halves of two strings of N elements put together are the two.
HalvesAre(r, s) == Half(r \o s, 1) = r /\ Half(r \o s, 2) = s /\ Len(r \o s) = 2 * N

\* They are, whatever the elements.
LEMMA HalvesOfConcat ==
  ASSUME NEW U, NEW r \in [1 .. N -> U], NEW s \in [1 .. N -> U]
  PROVE  HalvesAre(r, s)
<1>1. N \in Nat /\ r \in Seq(U) /\ s \in Seq(U) /\ Len(r) = N /\ Len(s) = N
  BY Widths
<1> DEFINE b == r \o s
<1>2. /\ b \in Seq(U) /\ Len(b) = N + N
      /\ \A k \in 1 .. N : b[k] = r[k]
      /\ \A k \in 1 .. N : b[N + k] = s[k]
  <2>1. /\ b \in Seq(U) /\ Len(b) = Len(r) + Len(s)
        /\ \A k \in 1 .. Len(r) + Len(s) : b[k] = IF k <= Len(r) THEN r[k] ELSE s[k - Len(r)]
    BY <1>1, ConcatProperties
  <2>2. \A k \in 1 .. N : k \in 1 .. N + N /\ k <= N
                          /\ N + k \in 1 .. N + N /\ ~(N + k <= N) /\ N + k - N = k
    BY <1>1
  <2> HIDE DEF b
  <2>3. Len(b) = N + N /\ \A k \in 1 .. N + N : b[k] = IF k <= N THEN r[k] ELSE s[k - N]
    BY <1>1, <2>1
  <2>4. ASSUME NEW k \in 1 .. N PROVE b[k] = r[k] /\ b[N + k] = s[k]
    <3>1. b[k] = r[k]
      BY <2>2, <2>3
    <3> DEFINE j == N + k
    <3>2. j \in 1 .. N + N /\ ~(j <= N) /\ j - N = k
      BY <1>1
    <3> HIDE DEF j
    <3>3. b[j] = s[k]
      BY <2>3, <3>2
    <3> QED
      BY <3>1, <3>3 DEF j
  <2> QED
    BY <2>1, <2>3, <2>4
<1> HIDE DEF b
<1> DEFINE t == Half(b, 1)
           u == Half(b, 2)
<1>3. t = SubSeq(b, 0 + 1, 0 + N) /\ u = SubSeq(b, N + 1, N + N)
  <2>1. (1 - 1) * N + 1 = 0 + 1 /\ 1 * N = 0 + N /\ (2 - 1) * N + 1 = N + 1 /\ 2 * N = N + N
    BY <1>1
  <2> QED
    BY <2>1 DEF Half
<1> HIDE DEF t, u
<1>4. t \in Seq(U) /\ Len(t) = N /\ \A k \in 1 .. N : t[k] = b[0 + k]
  <2>1. 0 + N <= Len(b) /\ 0 \in Nat
    BY <1>1, <1>2
  <2> QED
    BY <1>1, <1>2, <1>3, <2>1, SliceOf
<1>5. u \in Seq(U) /\ Len(u) = N /\ \A k \in 1 .. N : u[k] = b[N + k]
  <2>1. N + N <= Len(b)
    BY <1>1, <1>2
  <2> QED
    BY <1>1, <1>2, <1>3, <2>1, SliceOf
<1>6. t = r
  <2>1. \A k \in 1 .. N : t[k] = r[k]
    <3>1. \A k \in 1 .. N : 0 + k = k
      OBVIOUS
    <3> QED
      BY <1>2, <1>4, <3>1
  <2>2. t = [k \in 1 .. N |-> t[k]] /\ r = [k \in 1 .. N |-> r[k]]
    BY <1>4, LenProperties
  <2> QED
    BY <2>1, <2>2
<1>7. u = s
  <2>1. \A k \in 1 .. N : u[k] = s[k]
    BY <1>2, <1>5
  <2>2. u = [k \in 1 .. N |-> u[k]] /\ s = [k \in 1 .. N |-> s[k]]
    BY <1>5, LenProperties
  <2> QED
    BY <2>1, <2>2
<1>8. Len(b) = 2 * N
  BY <1>1, <1>2
<1> QED
  BY <1>6, <1>7, <1>8 DEF b, t, u, HalvesAre

\* A signed record that is a call, taken apart.
LEMMA SignedParts ==
  ASSUME DigestLaw(Seq(Byte)), InputsAreBytes,
         NEW seed \in Seeds, NEW msg \in Messages, NEW c \in Calls, c = SignedRecord(seed, msg),
         NEW d, d = SecretScalar(seed),
         NEW r, r = reduce(Hash(Half(Hash(seed), 2) \o msg)),
         NEW h, h = Challenge(c)
  PROVE  /\ d \in [1 .. N -> Byte] /\ r \in [1 .. N -> Byte] /\ h \in [1 .. N -> Byte]
         /\ c.pk = pack(scalarbase(d)) /\ c.pk \in [1 .. N -> Byte]
         /\ Half(c.sig, 1) = pack(scalarbase(r))
         /\ Half(c.sig, 2) = modL(SignDigits(r, h, d))
         /\ Len(c.pk) = N /\ Len(c.sig) = 2 * N
<1> DEFINE R == pack(scalarbase(r))
           s == modL(SignDigits(r, reduce(Hash(R \o c.pk \o msg)), d))
<1>1. /\ c.msg = msg /\ c.pk = PublicKey(seed) /\ c.sig = R \o s
  BY DEF SignedRecord
<1>2. c.pk = pack(scalarbase(d))
  BY <1>1 DEF PublicKey
<1>3. seed \in Seq(Byte) /\ msg \in Seq(Byte)
  BY DEF InputsAreBytes
<1>4. Hash(seed) \in [1 .. 2 * N -> Byte]
  BY <1>3 DEF DigestLaw
<1>5. d \in [1 .. N -> Byte]
  BY <1>4, ClampIsBytes DEF SecretScalar
<1>6. r \in [1 .. N -> Byte]
  <2> DEFINE b == Half(Hash(seed), 2)
  <2>1. b \in Seq(Byte)
    BY <1>4, DigestHalf
  <2> HIDE DEF b
  <2>2. b \o msg \in Seq(Byte)
    BY <1>3, <2>1, ConcatProperties
  <2>3. Hash(b \o msg) \in [1 .. 2 * N -> Byte]
    BY <2>2 DEF DigestLaw
  <2> QED
    BY <2>3, ReduceIsRemainder DEF b
<1>7. \A p : pack(p) = [k \in 1 .. N |-> pack(p)[k]]
  BY DEF pack, pack25519
<1>8. c.pk \in Seq(Byte) /\ c.sig \in Seq(Byte)
  BY DEF Calls
<1>9. c.pk \in [1 .. N -> Byte] /\ Len(c.pk) = N
  <2> DEFINE k == c.pk
  <2>1. k = [i \in 1 .. N |-> k[i]] /\ k \in Seq(Byte) /\ N \in Nat
    BY <1>2, <1>7, <1>8, Widths
  <2> HIDE DEF k
  <2>2. DOMAIN k = 1 .. N /\ DOMAIN k = 1 .. Len(k) /\ Len(k) \in Nat
        /\ \A i \in 1 .. Len(k) : k[i] \in Byte
    BY <2>1, LenProperties
  <2>3. Len(k) = N
    BY <2>1, <2>2
  <2>4. k \in [1 .. N -> Byte]
    BY <2>1, <2>2, <2>3
  <2> QED
    BY <2>3, <2>4 DEF k
<1> HIDE DEF R
<1>10. s \in [1 .. N -> Byte] /\ Half(c.sig, 1) = R /\ Len(c.sig) = 2 * N /\ Half(c.sig, 2) = s
  <2> DEFINE g == reduce(Hash(R \o c.pk \o msg))
             U == {R[k] : k \in 1 .. N} \cup {s[k] : k \in 1 .. N}
  <2>1. R = [k \in 1 .. N |-> R[k]]
    BY <1>7 DEF R
  <2>2. s = [k \in 1 .. N |-> s[k]]
    BY DEF modL, Carry
  <2> HIDE DEF s
  <2>3. R \in [1 .. N -> U] /\ s \in [1 .. N -> U]
    BY <2>1, <2>2
  <2> HIDE DEF U
  <2>4. Half(R \o s, 1) = R /\ Half(R \o s, 2) = s /\ Len(R \o s) = 2 * N
    <3>1. HalvesAre(R, s)
      BY ONLY <2>3, HalvesOfConcat
    <3> QED
      BY ONLY <3>1 DEF HalvesAre
  <2>5. Half(c.sig, 1) = R /\ Half(c.sig, 2) = s /\ Len(c.sig) = 2 * N
    BY <1>1, <2>4
  <2>6. s \in Seq(Byte) /\ Len(s) = N
    BY <2>5, HalvesAreBytes
  <2> QED
    BY <2>5, <2>6, LenProperties
<1>11. h = reduce(Hash(R \o c.pk \o msg))
  BY <1>1, <1>10 DEF Challenge
<1>12. h \in [1 .. N -> Byte]
  <2>1. h \in Seq(Byte) /\ Len(h) = N
    BY <1>10, ChallengeIsBytes
  <2> QED
    BY <2>1, LenProperties
<1> QED
  BY <1>2, <1>5, <1>6, <1>9, <1>10, <1>11, <1>12 DEF R

\* R less the product of the key gives back R.
LEMMA ProductCancels ==
  ASSUME CurveLaws, NEW x \in Curve, NEW y \in Curve
  PROVE  AffineSum(Opposite(x), AffineSum(y, x)) = y
<1> DEFINE o == Opposite(x)
<1>1. o \in Curve /\ AffineSum(x, o) = Zero
  BY DEF CurveLaws, GroupLaw
<1> HIDE DEF o
<1>2. AffineSum(y, x) \in Curve
  BY DEF CurveLaws, GroupLaw
<1>3. AffineSum(o, AffineSum(y, x)) = AffineSum(AffineSum(y, x), o)
  BY <1>1, <1>2 DEF CurveLaws, GroupLaw
<1>4. AffineSum(AffineSum(y, x), o) = AffineSum(y, AffineSum(x, o))
  BY <1>1, Associates, Zenon
<1>5. AffineSum(y, Zero) = y
  BY DEF CurveLaws, GroupLaw
<1> QED
  BY <1>1, <1>3, <1>4, <1>5 DEF o

\* What a signer produced verifies.
LEMMA SignedVerifies ==
  ASSUME CurveLaws, DigestLaw(Seq(Byte)), EncodingLaw(Points),
         Multiple(Order, <<X, Y>>) = Zero, InputsAreBytes,
         NEW seed \in Seeds, NEW msg \in Messages, NEW c \in Calls, c = SignedRecord(seed, msg)
  PROVE  Verifies(c)
<1> DEFINE d == SecretScalar(seed)
           r == reduce(Hash(Half(Hash(seed), 2) \o msg))
           h == Challenge(c)
           s == Half(c.sig, 2)
           q == unpackneg(c.pk)
           B == <<X, Y>>
           nd == Number(d)
           nr == Number(r)
           nh == Number(h)
           ns == Number(s)
<1>1. /\ d \in [1 .. N -> Byte] /\ r \in [1 .. N -> Byte] /\ h \in [1 .. N -> Byte]
      /\ c.pk = pack(scalarbase(d)) /\ c.pk \in [1 .. N -> Byte]
      /\ Half(c.sig, 1) = pack(scalarbase(r))
      /\ s = modL(SignDigits(r, h, d))
      /\ Len(c.pk) = N /\ Len(c.sig) = 2 * N
  BY SignedParts
<1> HIDE DEF d, r, h, s
<1>2. s \in [1 .. N -> Byte] /\ ns = (nr + nh * nd) % Order
  <2>1. d \in [1 .. N -> Byte] /\ r \in [1 .. N -> Byte] /\ h \in [1 .. N -> Byte]
    BY <1>1
  <2>2. /\ modL(SignDigits(r, h, d)) \in [1 .. N -> Byte]
        /\ Number(modL(SignDigits(r, h, d))) = (Number(r) + Number(h) * Number(d)) % Order
    BY ONLY <2>1, SignerScalarIs
  <2>3. s = modL(SignDigits(r, h, d))
    BY <1>1
  <2> QED
    BY ONLY <2>2, <2>3 DEF ns, nr, nh, nd
<1>3. \A f \in [1 .. N -> Byte] : f \in Seq(Byte) /\ Len(f) = N
  BY Widths
<1>4. nd \in Nat /\ nr \in Nat /\ nh \in Nat /\ ns \in Nat
  BY <1>1, <1>2, <1>3, BitStep
<1>5. Order \in Nat /\ Order >= 1
  BY OrderIs
<1>6. BasePoint \in Points /\ Affine(BasePoint) = B /\ B \in Curve
  BY SpecialPoints, AffineIsOnCurve
<1>7. \A f \in [1 .. N -> Byte] : /\ scalarbase(f) \in Points
                                 /\ Affine(scalarbase(f)) = Multiple(Number(f), B)
  BY <1>3, <1>6, ScalarmultIsMultiple DEF scalarbase
<1>8. /\ scalarbase(d) \in Points /\ Affine(scalarbase(d)) = Multiple(nd, B)
      /\ scalarbase(r) \in Points /\ Affine(scalarbase(r)) = Multiple(nr, B)
      /\ scalarbase(s) \in Points /\ Affine(scalarbase(s)) = Multiple(ns, B)
  BY <1>1, <1>2, <1>7
<1>9. q # NoPoint /\ Affine(q) = Opposite(Multiple(nd, B))
  BY <1>1, <1>8 DEF EncodingLaw
<1>10. q \in Points
  BY <1>1, <1>9, KeyIsPoint
<1> DEFINE w == scalarmult(q, h)
           u == scalarbase(s)
           x == Multiple(nh * nd, B)
           y == Multiple(nr, B)
<1>11. w \in Points /\ Affine(w) = Multiple(nh, Affine(q))
  <2> HIDE DEF q
  <2> QED
    BY <1>1, <1>3, <1>10, ScalarmultIsMultiple
<1> HIDE DEF q, w, u, B, nd, nr, nh, ns
<1>12. nh * nd \in Nat /\ nr + nh * nd \in Nat
  BY <1>4
<1>13. Affine(w) = Opposite(x)
  <2>1. Multiple(nd, B) \in Curve
    BY <1>4, <1>6, MultipleStep
  <2>2. Multiple(nh, Opposite(Multiple(nd, B))) = Opposite(Multiple(nh, Multiple(nd, B)))
    BY <1>4, <2>1, MultipleOfOpposite
  <2>3. Multiple(nh, Multiple(nd, B)) = x
    BY <1>4, <1>6, MultipleOfMultiple
  <2> QED
    BY <1>9, <1>11, <2>2, <2>3
<1>14. Affine(u) = AffineSum(y, x)
  <2> DEFINE p == nh * nd
             n == nr + p
  <2>1. p \in Nat /\ n \in Nat /\ ns = n % Order
    BY <1>2, <1>12
  <2> HIDE DEF p
  <2>2. Multiple(nr + p, B) = AffineSum(Multiple(nr, B), Multiple(p, B))
    BY <1>4, <1>6, <2>1, MultiplesAdd
  <2> HIDE DEF n
  <2>3. Multiple(n % Order, B) = Multiple(n, B)
    BY <1>5, <1>6, <2>1, MultipleOfRemainder DEF B
  <2> QED
    BY <1>8, <2>1, <2>2, <2>3 DEF u, n, p
<1>15. x \in Curve /\ y \in Curve
  BY <1>4, <1>6, <1>12, MultipleStep
<1> HIDE DEF x
<1>16. add(w, u) \in Points /\ Affine(add(w, u)) = y
  <2>1. u \in Points
    BY <1>8 DEF u
  <2>2. add(w, u) \in Points /\ Affine(add(w, u)) = AffineSum(Affine(w), Affine(u))
    BY <1>11, <2>1 DEF CurveLaws, AdditionLaw
  <2> QED
    BY <1>13, <1>14, <1>15, <2>2, ProductCancels
<1>17. pack(add(w, u)) = pack(scalarbase(r))
  <2>1. Affine(add(w, u)) = Affine(scalarbase(r))
    BY <1>8, <1>16
  <2> QED
    BY <1>8, <1>16, <2>1 DEF EncodingLaw
<1>18. EquationHolds(c)
  BY <1>1, <1>9, <1>17 DEF EquationHolds, w, u, q, h, s
<1>19. ns < Order
  <2>1. nr + nh * nd \in Nat
    BY <1>12
  <2> DEFINE n == nr + nh * nd
  <2> HIDE DEF n
  <2>2. n % Order < Order
    BY <1>5, <2>1 DEF n
  <2> QED
    BY <1>2, <2>2 DEF n
<1> QED
  BY <1>1, <1>18, <1>19 DEF Verifies, ns, s

\* Before the first call there is no answer and nothing is signed.
LEMMA SignedInit == Init => SignedInv
BY DEF Init, SignedInv

\* A step that signs nothing and either answers or leaves the verifier busy.
LEMMA SignedKept ==
  ASSUME SignedInv, UNCHANGED signed, pc' = "idle" => answer' # NoAnswer
  PROVE  SignedInv'
BY DEF SignedInv

\* The verifier's own steps sign nothing, and an idle verifier has answered.
LEMMA VerifyKeepsSigned ==
  ASSUME SignedInv, Verify, NoAnswer \notin {0, 1}
  PROVE  SignedInv'
<1>1. UNCHANGED signed
  BY DEF Verify, Open, CheckLengths, CheckRange, Allocate, Copy, Free, OpenFails, OpenHashes,
         Turn, OpenMultipliesBase, OpenCompares
<1>2. CASE CheckLengths \/ CheckRange \/ Free
  <2>1. pc' = "idle" => answer' \in {0, 1}
    BY <1>2 DEF CheckLengths, CheckRange, Free, Return
  <2> QED
    BY <1>1, <2>1, SignedKept
<1>3. CASE Allocate \/ Copy \/ Open
  <2>1. pc' # "idle"
    BY <1>3 DEF Allocate, Copy, Open, OpenFails, OpenHashes, Turn, OpenMultipliesBase,
                OpenCompares
  <2> QED
    BY <1>1, <2>1, SignedKept
<1> QED
  BY <1>2, <1>3 DEF Verify

\* Every step of the system preserves SignedInv.
LEMMA SignedStep == SignedInv /\ [Next]_vars /\ NoAnswer \notin {0, 1} => SignedInv'
<1> SUFFICES ASSUME SignedInv, [Next]_vars, NoAnswer \notin {0, 1} PROVE SignedInv'
  OBVIOUS
<1>1. ASSUME NEW seed \in Seeds, NEW msg \in Messages, crypto_sign(seed, msg)
      PROVE  SignedInv'
  <2>1. signed' = signed \cup {SignedRecord(seed, msg)}
    BY <1>1 DEF crypto_sign, SignedRecord
  <2>2. UNCHANGED <<pc, call, answer>>
    BY <1>1 DEF crypto_sign, leaf
  <2> QED
    BY <2>1, <2>2 DEF SignedInv, SignedRecord
<1>2. ASSUME NEW c, Present(c)
      PROVE  SignedInv'
  <2>1. UNCHANGED signed /\ pc' = "lengths"
    BY <1>2 DEF Present
  <2> QED
    BY <2>1, SignedKept
<1>3. CASE Verify
  BY <1>3, VerifyKeepsSigned
<1>4. CASE UNCHANGED vars
  <2>1. UNCHANGED <<pc, call, answer, signed>>
    BY <1>4 DEF vars, leaf
  <2> QED
    BY <2>1 DEF SignedInv
<1> QED
  BY <1>1, <1>2, <1>3, <1>4 DEF Next

\* What a signer produced verifies, so it was answered 1 if it got its memory.
LEMMA SignedIsAnswered ==
  ASSUME CurveLaws, DigestLaw(Seq(Byte)), EncodingLaw(Points),
         Multiple(Order, <<X, Y>>) = Zero, InputsAreBytes,
         LeafInv, AnswerInv, SignedInv
  PROVE  SignedIsAccepted
<1> SUFFICES ASSUME pc = "idle", call \in signed, ~starved PROVE answer = 1
  BY DEF SignedIsAccepted
<1>1. PICK seed \in Seeds, msg \in Messages : call = SignedRecord(seed, msg)
  BY DEF SignedInv
<1>2. call \in Calls
  BY DEF LeafInv, TypeOK
<1>3. Verifies(call)
  BY <1>1, <1>2, SignedVerifies
<1>4. call # NoCall
  <2>1. Len(call.pk) = N
    BY <1>3 DEF Verifies
  <2>2. Len(NoCall.pk) = 0
    BY DEF NoCall
  <2> QED
    BY <2>1, <2>2, Widths
<1>5. answer # NoAnswer
  BY <1>4 DEF SignedInv
<1> QED
  BY <1>3, <1>5 DEF AnswerInv, AnswersAreCorrect

\* crypto_sign and crypto_sign_open agree: what a signer produced is answered 1,
\* unless memory was refused, whatever else was verified before.  Besides the laws
\* of the curve it is supposed that a point encodes to what decodes to its
\* negative, and that the order is one of the base point.
THEOREM SignedCallsAreAccepted ==
  ASSUME CurveLaws, DigestLaw(Seq(Byte)), EncodingLaw(Points),
         Multiple(Order, <<X, Y>>) = Zero, InputsAreBytes,
         NoAnswer \notin {0, 1}
  PROVE  Spec => []SignedIsAccepted
<1>1. LeafInv /\ AnswerInv /\ SignedInv => SignedIsAccepted
  BY SignedIsAnswered
<1>2. SignedInv /\ [Next]_vars => SignedInv'
  BY SignedStep
<1> QED
  BY <1>1, <1>2, SignedInit, AnswerInit, AnswerStep, LeafAlways, PTL DEF Spec
=============================================================================
