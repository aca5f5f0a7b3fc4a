-------------------------------- MODULE Sha512 --------------------------------
(***************************************************************************)
(* The hash of the vendored TweetNaCl (src/c/tweetnacl.c): crypto_hash and *)
(* crypto_hashblocks, one round of the compression to a step.  The machine *)
(* hashes message after message.                                           *)
(*                                                                         *)
(* The widths, the number of rounds, the round constants and the rotations *)
(* are parameters; a block has 16 words, the state 8, as in C.  Byte       *)
(* strings and words of an array are sequences: index i is element i + 1.  *)
(***************************************************************************)
EXTENDS Integers, Sequences

CONSTANTS
  WordBytes,   \* 8 in C
  LengthShift, \* a byte has 2 ^ LengthShift bits: 3 in C
  Rounds,      \* 80 in C
  K,           \* the constant of each round
  IV,          \* the initial state, in bytes
  BigSigma0, BigSigma1,      \* three rotations
  SmallSigma0, SmallSigma1,  \* two rotations and a shift
  Texts        \* the messages to hash

VARIABLES
  stage,    \* "ready", "message", "tail": what crypto_hashblocks works on
  text,     \* the message
  rest,     \* the bytes it has not taken yet
  h,        \* the state between the calls, in bytes
  z,        \* the state before the block
  a,        \* the state within it
  w,        \* the 16 words of the schedule
  round,    \* the next round; -1 = no block loaded
  out,      \* the digest of the last message, or <<>>
  standard  \* history: FIPS 180-4 at the same point, on the padded message

hashVars == <<stage, text, rest, h, z, a, w, round, out, standard>>

ByteSize == 2 ^ (2 ^ LengthShift)
WordBits == WordBytes * 2 ^ LengthShift
WordSize == 2 ^ WordBits
Block == 16 * WordBytes

Octet == 0 .. ByteSize - 1
Word == 0 .. WordSize - 1

\* The round constants are words, a rotation is by the bits of a word at most, and
\* the length of a message is a word, as the type of its parameter says.
ASSUME HashAssumption ==
  /\ WordBytes \in Nat \ {0} /\ LengthShift \in Nat
  /\ Rounds \in Nat \ {0} /\ Rounds % 16 = 0
  /\ K \in [1 .. Rounds -> Word]
  /\ IV \in [1 .. 8 * WordBytes -> Octet]
  /\ \A c \in {BigSigma0, BigSigma1, SmallSigma0, SmallSigma1} : c \in [1 .. 3 -> 0 .. WordBits]
  /\ Texts \subseteq Seq(Octet)
  /\ \A m \in Texts : Len(m) < WordSize

\* What the provers do not know of powers.
ASSUME WordPowersAssumption ==
  /\ ByteSize \in Nat /\ WordBits \in Nat
  /\ 2 ^ LengthShift \in 1 .. ByteSize - 1
  /\ 2 ^ 0 = 1 /\ \A k \in 0 .. WordBits : 2 ^ (k + 1) = 2 * 2 ^ k
  /\ ByteSize ^ 0 = 1
  /\ \A k \in 0 .. 2 * WordBytes : ByteSize ^ (k + 1) = ByteSize * ByteSize ^ k
  /\ WordSize = ByteSize ^ WordBytes

-----------------------------------------------------------------------------
(***************************************************************************)
(* Words.                                                                  *)
(***************************************************************************)
dl64(x) ==
  LET u[k \in 0 .. WordBytes] == IF k = 0 THEN 0 ELSE u[k - 1] * ByteSize + x[k]
  IN u[WordBytes]

ts64(u) == [k \in 1 .. WordBytes |-> (u \div ByteSize ^ (WordBytes - k)) % ByteSize]

Words(bytes) ==
  [i \in 1 .. Len(bytes) \div WordBytes |->
     dl64(SubSeq(bytes, (i - 1) * WordBytes + 1, i * WordBytes))]

BytesOf(words) ==
  [i \in 1 .. Len(words) * WordBytes |->
     ts64(words[(i - 1) \div WordBytes + 1])[((i - 1) % WordBytes) + 1]]

R(x, c) == x \div 2 ^ c + ((x * 2 ^ (WordBits - c)) % WordSize)

WordBit(x, k) == (x \div 2 ^ k) % 2

\* The operators & and ^ of C on words, bit for bit from the highest.
BitAnd(x, y) ==
  LET high[k \in 0 .. WordBits] ==
        IF k = 0 THEN 0
        ELSE high[k - 1] * 2 + WordBit(x, WordBits - k) * WordBit(y, WordBits - k)
  IN high[WordBits]

BitXor(x, y) ==
  LET high[k \in 0 .. WordBits] ==
        IF k = 0 THEN 0
        ELSE high[k - 1] * 2 + ((WordBit(x, WordBits - k) + WordBit(y, WordBits - k)) % 2)
  IN high[WordBits]

Ch(x, y, v) == BitXor(BitAnd(x, y), BitAnd(WordSize - 1 - x, v))

Maj(x, y, v) == BitXor(BitXor(BitAnd(x, y), BitAnd(x, v)), BitAnd(y, v))

Rotations(x, c) == BitXor(BitXor(R(x, c[1]), R(x, c[2])), R(x, c[3]))

RotationsShift(x, c) == BitXor(BitXor(R(x, c[1]), R(x, c[2])), x \div 2 ^ c[3])

Sigma0(x) == Rotations(x, BigSigma0)
Sigma1(x) == Rotations(x, BigSigma1)
sigma0(x) == RotationsShift(x, SmallSigma0)
sigma1(x) == RotationsShift(x, SmallSigma1)

-----------------------------------------------------------------------------
(***************************************************************************)
(* Reference: FIPS 180-4, along the padded message, block for block and    *)
(* round for round with the code, but on data of its own.                  *)
(***************************************************************************)

\* The least number of zero bytes that fills the last block.
Padded(m) ==
  LET zeros == CHOOSE k \in 0 .. Block - 1 : (Len(m) + 1 + k + 2 * WordBytes) % Block = 0
      bits(k) == (Len(m) * 2 ^ LengthShift) \div (ByteSize ^ k)
  IN m \o <<ByteSize \div 2>> \o [k \in 1 .. zeros |-> 0]
       \o [k \in 1 .. 2 * WordBytes |-> bits(2 * WordBytes - k) % ByteSize]

\* Section 6.4.2: the schedule of a block, and the round on the eight working
\* variables by their names.
Schedule(words) ==
  LET upto[t \in 16 .. Rounds] ==
        IF t = 16 THEN words
        ELSE LET v == upto[t - 1]
             IN Append(v, (sigma1(v[t - 2]) + v[t - 7] + sigma0(v[t - 15]) + v[t - 16])
                            % WordSize)
  IN upto[Rounds]

StandardRound(s, t, v) ==
  LET T1 == s.h + Sigma1(s.e) + Ch(s.e, s.f, s.g) + K[t] + v
      T2 == Sigma0(s.a) + Maj(s.a, s.b, s.c)
  IN [a |-> (T1 + T2) % WordSize, b |-> s.a, c |-> s.b, d |-> s.c,
      e |-> (s.d + T1) % WordSize, f |-> s.e, g |-> s.f, h |-> s.g]

Named(s) == [a |-> s[1], b |-> s[2], c |-> s[3], d |-> s[4],
             e |-> s[5], f |-> s[6], g |-> s[7], h |-> s[8]]

Listed(s) == <<s.a, s.b, s.c, s.d, s.e, s.f, s.g, s.h>>

StandardStarts(m) ==
  [padded |-> Padded(m), taken |-> 0, schedule |-> <<>>,
   chain |-> Words(IV), working |-> Named(Words(IV))]

StandardLoads ==
  [standard EXCEPT
     !.taken = @ + 1,
     !.schedule = IF standard.taken * Block = Len(standard.padded) THEN @
                  ELSE Schedule(Words(SubSeq(standard.padded, standard.taken * Block + 1,
                                             (standard.taken + 1) * Block)))]

StandardSteps(t) ==
  [standard EXCEPT !.working = StandardRound(@, t, standard.schedule[t])]

StandardAdds ==
  LET sum == [i \in 1 .. 8 |-> (standard.chain[i] + Listed(standard.working)[i]) % WordSize]
  IN [standard EXCEPT !.chain = sum, !.working = Named(sum)]

-----------------------------------------------------------------------------
(***************************************************************************)
(* crypto_hashblocks.                                                      *)
(***************************************************************************)

\* After the last round of sixteen the words are advanced in place, the first
\* one first: the later ones take what the earlier ones have become.
Advance(words) ==
  LET done[j \in 0 .. 16] ==
        IF j = 0 THEN words
        ELSE LET v == done[j - 1]
                 at(k) == v[((j - 1 + k) % 16) + 1]
             IN [v EXCEPT ![j] = (@ + at(9) + sigma0(at(1)) + sigma1(at(14))) % WordSize]
  IN done[16]

RoundState(s, i, word) ==
  LET t == s[8] + Sigma1(s[5]) + Ch(s[5], s[6], s[7]) + K[i + 1] + word
      b == [s EXCEPT ![8] = (t + Sigma0(s[1]) + Maj(s[1], s[2], s[3])) % WordSize,
                     ![4] = (@ + t) % WordSize]
  IN [j \in 1 .. 8 |-> b[((j + 6) % 8) + 1]]

LoadBlock ==
  /\ stage # "ready"
  /\ round = -1
  /\ Len(rest) >= Block
  /\ w' = Words(SubSeq(rest, 1, Block))
  /\ round' = 0
  /\ standard' = StandardLoads
  /\ UNCHANGED <<stage, text, rest, h, z, a, out>>

Round ==
  /\ round \in 0 .. Rounds - 1
  /\ a' = RoundState(a, round, w[(round % 16) + 1])
  /\ w' = IF round % 16 = 15 THEN Advance(w) ELSE w
  /\ round' = round + 1
  /\ standard' = StandardSteps(round + 1)
  /\ UNCHANGED <<stage, text, rest, h, z, out>>

EndBlock ==
  /\ round = Rounds
  /\ a' = [i \in 1 .. 8 |-> (a[i] + z[i]) % WordSize]
  /\ z' = a'
  /\ rest' = SubSeq(rest, Block + 1, Len(rest))
  /\ round' = -1
  /\ standard' = StandardAdds
  /\ UNCHANGED <<stage, text, h, w, out>>

-----------------------------------------------------------------------------
(***************************************************************************)
(* crypto_hash.                                                            *)
(***************************************************************************)
EnterHashBlocks(state, bytes) ==
  /\ rest' = bytes
  /\ z' = Words(state)
  /\ a' = Words(state)

crypto_hash(m) ==
  /\ stage = "ready"
  /\ stage' = "message"
  /\ text' = m
  /\ h' = IV
  /\ EnterHashBlocks(IV, m)
  /\ out' = <<>>
  /\ standard' = StandardStarts(m)
  /\ UNCHANGED <<w, round>>

\* Mutant of LastBlocks: one byte too many in the last block.
LastBlocksTight(r, n) ==
  LET size == IF Len(r) <= Block - 2 * WordBytes THEN Block ELSE 2 * Block
      length == ts64((n * 2 ^ LengthShift) % WordSize)
  IN [k \in 1 .. size |->
        CASE k <= Len(r) -> r[k]
          [] k = size - WordBytes -> (n * 2 ^ LengthShift) \div WordSize
          [] k = Len(r) + 1 -> ByteSize \div 2
          [] k > size - WordBytes -> length[k - size + WordBytes]
          [] OTHER -> 0]

\* One block or two of what is left of n bytes: a set bit, zeros, and in the last
\* word the length in bits, whose excess goes into the byte before it.
LastBlocks(r, n) ==
  LET size == IF Len(r) < Block - 2 * WordBytes THEN Block ELSE 2 * Block
      length == ts64((n * 2 ^ LengthShift) % WordSize)
  IN [k \in 1 .. size |->
        CASE k <= Len(r) -> r[k]
          [] k = Len(r) + 1 -> ByteSize \div 2
          [] k = size - WordBytes -> (n * 2 ^ LengthShift) \div WordSize
          [] k > size - WordBytes -> length[k - size + WordBytes]
          [] OTHER -> 0]

Pad ==
  /\ stage = "message"
  /\ round = -1
  /\ Len(rest) < Block
  /\ h' = BytesOf(z)
  /\ stage' = "tail"
  /\ EnterHashBlocks(h', LastBlocks(rest, Len(text)))
  /\ UNCHANGED <<text, w, round, out, standard>>

Output ==
  /\ stage = "tail"
  /\ round = -1
  /\ rest = <<>>
  /\ h' = BytesOf(z)
  /\ out' = h'
  /\ stage' = "ready"
  /\ UNCHANGED <<text, rest, z, a, w, round, standard>>

HashInit ==
  /\ stage = "ready"
  /\ text = <<>> /\ rest = <<>> /\ h = <<>> /\ z = <<>> /\ a = <<>> /\ w = <<>>
  /\ round = -1
  /\ out = <<>>
  /\ standard = <<>>

HashNext ==
  \/ \E m \in Texts : crypto_hash(m)
  \/ LoadBlock
  \/ Round
  \/ EndBlock
  \/ Pad
  \/ Output

HashSpec == HashInit /\ [][HashNext]_hashVars

-----------------------------------------------------------------------------
(***************************************************************************)
(* Properties.                                                             *)
(***************************************************************************)

\* The sixteen words kept in place are the ones of the standard's schedule that
\* this round and the rest of its sixteen use.
ScheduleIsStandard ==
  round \in 0 .. Rounds - 1 =>
    \A j \in 1 .. 16 : w[j] = standard.schedule[16 * (round \div 16) + j]

\* What crypto_hashblocks is given over its two calls is the padded message: no
\* byte lost, none twice, and the length in its place.
PaddingIsStandard ==
  stage = "tail" /\ round = -1 /\ rest # <<>> =>
    rest = SubSeq(standard.padded, Len(standard.padded) - Len(rest) + 1,
                  Len(standard.padded))

\* The digest is the one the standard defines, whatever was hashed before.
DigestIsStandard ==
  out # <<>> => /\ standard.taken * Block = Len(standard.padded)
                /\ out = BytesOf(standard.chain)

\* crypto_hash is SHA-512 on every message: its schedule in place, its padding
\* around every boundary of a block, and the state it carries between calls.
HashIsStandard == ScheduleIsStandard /\ PaddingIsStandard /\ DigestIsStandard
=============================================================================
