------------------------------- MODULE Ed25519 -------------------------------
(***************************************************************************)
(* The Ed25519 leaf of v2: lean_seal_ed25519_verify of                     *)
(* src/c/seal_ed25519.c, which Lean calls with three byte arrays, and      *)
(* crypto_sign_open of the vendored TweetNaCl below it.  The verifier runs *)
(* call after call; the two buffers it allocates may each be refused.      *)
(*                                                                         *)
(* Signers run elsewhere: they are TweetNaCl's crypto_sign_keypair and     *)
(* crypto_sign, which this build links and never calls.  The callers       *)
(* present what was signed, or something made of it by `Altered`.          *)
(*                                                                         *)
(* SHA-512 is the parameter `Hash` (Sha512 models it).  Memory is modelled *)
(* as far as it can go wrong: what is live, and whether an access was ever *)
(* outside its array.                                                      *)
(***************************************************************************)
EXTENDS EdwardsCurve

CONSTANTS
  Hash(_),      \* a byte string to 2 * N bytes
  Seeds,        \* the secret seeds, N bytes each
  Messages,     \* what is signed
  Altered(_),   \* what a caller may make of a signed record
  NoAnswer

VARIABLES
  pc,        \* where the verifier is
  call,      \* its arguments: [pk, msg, sig]
  live,      \* the buffers it holds: "sm", "m"
  sm,        \* what is in the first: signature and message
  m,         \* and in the second: the hash input, then the message
  turns,     \* the bits of the scalar still to come
  scalar,    \* the scalar the ladder walks
  pair,      \* the two points of the ladder
  minusHA,   \* the result of the first ladder
  rc,        \* what crypto_sign_open returned
  answer,    \* what the last call returned
  starved,   \* an allocation of this call was refused
  fault,     \* history: some access was outside its array
  signed,    \* history: what signers produced
  accepted   \* history: the calls answered 1

\* Seeds and messages are byte strings.
InputsAreBytes == Seeds \subseteq Seq(Byte) /\ Messages \subseteq Seq(Byte)

\* A digest of any of the inputs is a string of 2 * N bytes.
DigestLaw(Inputs) == \A b \in Inputs : Hash(b) \in [1 .. 2 * N -> Byte]

leaf == <<call, live, sm, m, turns, scalar, pair, minusHA, rc, answer, starved, fault>>
vars == <<pc, leaf, signed, accepted>>

-----------------------------------------------------------------------------
(***************************************************************************)
(* The signer.                                                             *)
(***************************************************************************)

\* The low half of a digest as a secret scalar: a multiple of 8, highest bit set.
Clamp(d) ==
  [k \in 1 .. N |->
     LET low == IF k = 1 THEN d[k] - (d[k] % 8) ELSE d[k]
     IN IF k = N THEN (low % (Radix \div 4)) + Radix \div 4 ELSE low]

SecretScalar(seed) == Clamp(Hash(seed))

PublicKey(seed) == pack(scalarbase(SecretScalar(seed)))

Half(b, k) == SubSeq(b, (k - 1) * N + 1, k * N)

\* crypto_sign with the key pair of a seed.
crypto_sign(seed, msg) ==
  /\ pc = "idle"
  /\ \E d \in {SecretScalar(seed)}, r \in {reduce(Hash(Half(Hash(seed), 2) \o msg))} :
       \E R \in {pack(scalarbase(r))}, pk \in {PublicKey(seed)} :
         \E h \in {reduce(Hash(R \o pk \o msg))} :
           signed' = signed \cup
             {[pk |-> pk, msg |-> msg, sig |-> R \o modL(SignDigits(r, h, d))]}
  /\ UNCHANGED <<pc, leaf, accepted>>

-----------------------------------------------------------------------------
(***************************************************************************)
(* lean_seal_ed25519_verify.                                               *)
(***************************************************************************)
SmLen == Len(call.sig) + Len(call.msg)

Return(result) ==
  /\ pc' = "idle"
  /\ answer' = result
  /\ accepted' = IF result = 1 THEN accepted \cup {call} ELSE accepted

Calls == [pk : Seq(Byte), msg : Seq(Byte), sig : Seq(Byte)]

Present(c) ==
  /\ pc = "idle"
  /\ c \in Calls
  /\ pc' = "lengths"
  /\ call' = c
  /\ answer' = NoAnswer
  /\ starved' = FALSE
  /\ UNCHANGED <<live, sm, m, turns, scalar, pair, minusHA, rc, fault, signed, accepted>>

LengthsRight == Len(call.pk) = N /\ Len(call.sig) = 2 * N

CheckLengths ==
  /\ pc = "lengths"
  /\ IF LengthsRight
       THEN pc' = "range" /\ UNCHANGED <<answer, accepted>>
       ELSE Return(0)
  /\ UNCHANGED <<call, live, sm, m, turns, scalar, pair, minusHA, rc, starved, fault, signed>>

\* Mutant of Below: the least significant byte decides.
BelowFromTheBottom(s) ==
  LET scan[i \in 0 .. N] ==
        IF i = 0 THEN [lt |-> FALSE, gt |-> FALSE]
        ELSE LET lt == scan[i - 1].lt \/ (~scan[i - 1].gt /\ s[i] < L[i])
             IN [lt |-> lt, gt |-> scan[i - 1].gt \/ (~lt /\ s[i] > L[i])]
  IN scan[N].lt

\* The loop from the most significant byte: what is below or above first, stays.
Below(s) ==
  LET scan[k \in 0 .. N] ==
        IF k = 0 THEN [lt |-> FALSE, gt |-> FALSE]
        ELSE LET i == N - k + 1
                 lt == scan[k - 1].lt \/ (~scan[k - 1].gt /\ s[i] < L[i])
             IN [lt |-> lt, gt |-> scan[k - 1].gt \/ (~lt /\ s[i] > L[i])]
  IN scan[N].lt

\* Reads the second half of the signature.
CheckRange ==
  /\ pc = "range"
  /\ fault' = (fault \/ Len(call.sig) < 2 * N)
  /\ IF Below(Half(call.sig, 2))
       THEN pc' = "alloc" /\ UNCHANGED <<answer, accepted>>
       ELSE Return(0)
  /\ UNCHANGED <<call, live, sm, m, turns, scalar, pair, minusHA, rc, starved, signed>>

\* Mutant of Allocate: refused one buffer, the other is not freed.
AllocateLeaks ==
  /\ pc = "alloc"
  /\ \E got \in SUBSET {"sm", "m"} :
       /\ live' = got
       /\ starved' = (got # {"sm", "m"})
       /\ IF got = {"sm", "m"}
            THEN pc' = "copy" /\ UNCHANGED <<answer, accepted>>
            ELSE Return(0)
  /\ rc' = -1
  /\ UNCHANGED <<call, sm, m, turns, scalar, pair, minusHA, fault, signed>>

\* Both buffers have SmLen bytes; malloc may refuse either.
Allocate ==
  /\ pc = "alloc"
  /\ \E got \in SUBSET {"sm", "m"} :
       /\ live' = got
       /\ starved' = (got # {"sm", "m"})
       /\ pc' = IF got = {"sm", "m"} THEN "copy" ELSE "free"
  /\ rc' = -1
  /\ UNCHANGED <<call, sm, m, turns, scalar, pair, minusHA, answer, fault, signed, accepted>>

Copy ==
  /\ pc = "copy"
  /\ pc' = "open"
  /\ sm' = SubSeq(call.sig, 1, 2 * N) \o call.msg
  /\ fault' = (fault \/ Len(call.sig) < 2 * N \/ "sm" \notin live)
  /\ UNCHANGED <<call, live, m, turns, scalar, pair, minusHA, rc, answer, starved, signed,
                 accepted>>

\* Mutant of Free: what crypto_sign_open returned is handed on.
FreeReturnsRc ==
  /\ pc = "free"
  /\ live' = {}
  /\ Return(rc)
  /\ UNCHANGED <<call, sm, m, turns, scalar, pair, minusHA, rc, starved, fault, signed>>

Free ==
  /\ pc = "free"
  /\ live' = {}
  /\ Return(IF rc = 0 THEN 1 ELSE 0)
  /\ UNCHANGED <<call, sm, m, turns, scalar, pair, minusHA, rc, starved, fault, signed>>
-----------------------------------------------------------------------------
(***************************************************************************)
(* crypto_sign_open(m, &mlen, sm, SmLen, pk).                              *)
(***************************************************************************)

\* Mutant of HashInput: the key is not put in the place of S.
HashInputKeepsS == sm

\* The message with the public key in the place of S, hashed and reduced.
HashInput == SubSeq(sm, 1, N) \o call.pk \o SubSeq(sm, 2 * N + 1, SmLen)

OpenFails ==
  /\ pc = "open"
  /\ SmLen < 2 * N \/ unpackneg(call.pk) = NoPoint
  /\ pc' = "free"
  /\ rc' = -1
  /\ UNCHANGED <<call, live, sm, m, turns, scalar, pair, minusHA, answer, starved, fault,
                 signed, accepted>>

OpenHashes ==
  /\ pc = "open"
  /\ SmLen >= 2 * N
  /\ unpackneg(call.pk) # NoPoint
  /\ pc' = "timesH"
  /\ m' = HashInput
  /\ scalar' = reduce(Hash(m'))
  /\ turns' = Bits
  /\ pair' = <<Neutral, unpackneg(call.pk)>>
  /\ fault' = (fault \/ Len(call.pk) < N \/ Len(sm) # SmLen \/ live # {"sm", "m"})
  /\ UNCHANGED <<call, live, sm, minusHA, rc, answer, starved, signed, accepted>>

Turn ==
  /\ pc \in {"timesH", "timesS"}
  /\ turns > 0
  /\ turns' = turns - 1
  /\ pair' = LadderTurn(pair, Bit(scalar, turns - 1))
  /\ UNCHANGED <<pc, call, live, sm, m, scalar, minusHA, rc, answer, starved, fault, signed,
                 accepted>>

\* The second scalar is what the buffer holds at N, the S of the signature.
OpenMultipliesBase ==
  /\ pc = "timesH"
  /\ turns = 0
  /\ pc' = "timesS"
  /\ minusHA' = pair[1]
  /\ scalar' = Half(sm, 2)
  /\ turns' = Bits
  /\ pair' = <<Neutral, BasePoint>>
  /\ UNCHANGED <<call, live, sm, m, rc, answer, starved, fault, signed, accepted>>

Same(x, y) == \A k \in 1 .. N : x[k] = y[k]

\* Only the first SmLen - 2 * N bytes are wiped or filled.
OpenCompares ==
  /\ pc = "timesS"
  /\ turns = 0
  /\ pc' = "free"
  /\ LET t == pack(add(minusHA, pair[1]))
         n == SmLen - 2 * N
     IN IF Same(sm, t)
          THEN /\ rc' = 0
               /\ m' = [k \in 1 .. Len(m) |-> IF k <= n THEN sm[k + 2 * N] ELSE m[k]]
          ELSE /\ rc' = -1
               /\ m' = [k \in 1 .. Len(m) |-> IF k <= n THEN 0 ELSE m[k]]
  /\ fault' = (fault \/ Len(m) # SmLen \/ live # {"sm", "m"})
  /\ UNCHANGED <<call, live, sm, turns, scalar, pair, minusHA, answer, starved, signed,
                 accepted>>
-----------------------------------------------------------------------------
NoCall == [pk |-> <<>>, msg |-> <<>>, sig |-> <<>>]

Init ==
  /\ pc = "idle"
  /\ call = NoCall
  /\ live = {}
  /\ sm = <<>> /\ m = <<>>
  /\ turns = 0
  /\ scalar = <<>>
  /\ pair = <<Neutral, Neutral>>
  /\ minusHA = Neutral
  /\ rc = -1
  /\ answer = NoAnswer
  /\ starved = FALSE
  /\ fault = FALSE
  /\ signed = {}
  /\ accepted = {}

Open == OpenFails \/ OpenHashes \/ Turn \/ OpenMultipliesBase \/ OpenCompares

Verify == CheckLengths \/ CheckRange \/ Allocate \/ Copy \/ Open \/ Free

Next ==
  \/ \E seed \in Seeds, msg \in Messages : crypto_sign(seed, msg)
  \/ \E s \in signed : \E c \in Altered(s) : Present(c)
  \/ Verify

Spec == Init /\ [][Next]_vars
-----------------------------------------------------------------------------
(***************************************************************************)
(* Properties.                                                             *)
(***************************************************************************)
TypeOK ==
  /\ pc \in {"idle", "lengths", "range", "alloc", "copy", "open", "timesH", "timesS",
             "free"}
  /\ live \subseteq {"sm", "m"}
  /\ turns \in 0 .. Bits
  /\ rc \in {0, -1}
  /\ answer \in {0, 1, NoAnswer}
  /\ starved \in BOOLEAN
  /\ call \in Calls
  /\ accepted \subseteq Calls

Computing == {"copy", "open", "timesH", "timesS"}

\* Whatever path a call takes, it holds both buffers while it computes and none
\* once it has returned; and it never touched a byte outside an array.
MemorySafe ==
  /\ ~fault
  /\ pc \in Computing => live = {"sm", "m"}
  /\ pc \notin Computing \cup {"free"} => live = {}

\* In the middle of a ladder the pair is two consecutive multiples of its point
\* in the group of the standard, the extended coordinate in step.
Ladder ==
  pc \in {"timesH", "timesS"} =>
    LET point == IF pc = "timesS" THEN <<X, Y>> ELSE Affine(unpackneg(call.pk))
        walked == Number(scalar) \div 2 ^ turns
    IN /\ Affine(pair[1]) = Multiple(walked, point)
       /\ Affine(pair[2]) = Multiple(walked + 1, point)
       /\ \A k \in {1, 2} :
            /\ pair[k].z # 0
            /\ M(pair[k].t, pair[k].z) = M(pair[k].x, pair[k].y)

Encoding(p) ==
  [k \in 1 .. N |-> pack25519(p[2])[k] + IF k = N THEN par25519(p[1]) * (Radix \div 2) ELSE 0]

\* RFC 8032, 5.1.7, for a key that stands for `point`: S is below the order and R
\* the encoding of S times the base point less h times the point.
ValidFor(c, point) ==
  /\ Len(c.pk) = N /\ Len(c.sig) = 2 * N
  /\ Number(Half(c.sig, 2)) < Order
  /\ point # NoPoint
  /\ LET digest == Hash(Half(c.sig, 1) \o c.pk \o c.msg)
         h == Residue(LAMBDA k : digest[k + 1], 2 * N, Order)
     IN Half(c.sig, 1) = Encoding(AffineSum(Multiple(Number(Half(c.sig, 2)), <<X, Y>>),
                                            Opposite(Multiple(h, point))))

\* A signature of the standard: the key is decoded by 5.1.3.
Valid(c) == Len(c.pk) = N /\ ValidFor(c, Decode(c.pk))

\* A signature under the key that is meant, were it encoded as the standard has it.
Solves(c) == Len(c.pk) = N /\ ValidFor(c, Decode(Reencoded(c.pk)))

\* What the answer of lean_seal_ed25519_verify means.  It is 1 if and only if the
\* signature solves the equation for the point the key stands for, however the key
\* is encoded; so a signature of the standard is answered 1, and under a canonical
\* key no other is.  A call that was refused memory is answered 0.
AnswersTheEquation ==
  /\ \A c \in accepted : Solves(c)
  /\ pc = "idle" /\ answer # NoAnswer =>
       /\ answer = IF starved \/ ~Solves(call) THEN 0 ELSE 1
       /\ Valid(call) /\ ~starved => answer = 1
       /\ answer = 1 /\ Canonical(call.pk) => Valid(call)

\* docs/TCB.md:52-53: "Non-canonical R/A encodings and off-curve points are
\* rejected."  unpackneg reduces a y of P or more and takes an x of 0 with either
\* sign, so that a key which 5.1.3 does not decode can be accepted.
KeysAreDecoded == \A c \in accepted : Decode(c.pk) # NoPoint

\* The comment above the range check: the S of an accepted signature is the only
\* one accepted for that key, message and R.
NotMalleable ==
  \A c, d \in accepted :
    c.pk = d.pk /\ c.msg = d.msg /\ Half(c.sig, 1) = Half(d.sig, 1) => c.sig = d.sig

\* What a signer produced is accepted, unless memory was refused.
SignedIsAccepted ==
  pc = "idle" /\ call \in signed /\ ~starved => answer = 1

-----------------------------------------------------------------------------
(***************************************************************************)
(* What theorems suppose of encodings and scalars, over sets of each.      *)
(***************************************************************************)

\* unpackneg gives the negative of what the key, encoded anew, decodes to, or no
\* point if that has none; and only canonical keys decode as they are.
KeyLaw(Keys) ==
  \A b \in Keys :
    LET point == Decode(Reencoded(b))
    IN /\ unpackneg(b) # NoPoint <=> point # NoPoint
       /\ unpackneg(b) # NoPoint => point = Opposite(Affine(unpackneg(b)))
       /\ Decode(b) # NoPoint => Canonical(b)

\* pack encodes the affine point, and what it encodes decodes to its negative.
EncodingLaw(G) ==
  \A p \in G :
    /\ pack(p) = Encoding(Affine(p))
    /\ unpackneg(pack(p)) # NoPoint
    /\ Affine(unpackneg(pack(p))) = Opposite(Affine(p))
=============================================================================
