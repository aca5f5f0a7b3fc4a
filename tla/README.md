# Verification of Seal in TLA+

Seal is a gate for MCP tool calls. A v1 sidecar (Lean, `src/Seal`, `src/SealCore`)
sits on the stdio of a client and a child server: guarded calls reach the child
only against an approval that somebody has written to a control file. The v2 line
(`src/SealV2`, `src/Ffi.lean`, `src/rust`) decides against approvals signed with
Ed25519 and is called over an FFI by a Rust host.

The repository proves much about single steps in Lean (`SealCore/Safety.lean`,
`LifecycleTheorems.lean`, ...). This project is about what those theorems leave
open: sequences of steps, several threads, the control file and the clock that
others change, crashes and restarts, and the C code that both lines of proof take
on trust.

## Inventory

| Component | State | Operations | Works with |
|---|---|---|---|
| v1 decision core (`SealCore/Automaton`, `Event`) | map target -> deadline | `step`, `live`, `prune` | folded by the call handler |
| v1 approval channel, call handling (`Channel`, `Main`) | `approvalSeenRef`, `stateRef`, the control file | read the fresh lines, fold, decide, forward or answer | core, rule resolution, file, wall clock |
| v1 relay and shutdown (`Main`) | two threads, `stdoutLock`, pipes, child process | `hostLoop`, `relayChildStdout`, `writeLocked`, kill, wait, join | client and child through bounded pipes |
| v1 rule resolution (`Classify`) | the policy of the process | find the call, match rules, compute the target, resolve several rules | policy, call handling |
| v1 policy loading (`Policy*`, `SignedPolicy`, `Scaffold`, `GoldenPath`) | none after start | parse, verify, refuse | start of `main` |
| v1 wire gates (`JsonUtil`) | four scan states per line | refuse duplicate keys, unsafe numbers | the raw line, before any parsing |
| v1 effect commitment (`EffectCommitment`, `EncodingInjective`, `Block`, SHA-256) | none | encode, hash | rule resolution |
| v2 session (`Ffi`, `Validation`, `Decide`) | `stateRef`: approvals, consumed nonces, clock, configuration | `init`, `add_approval`, `decide`, `challenge` | the Rust host |
| v2 Rust host (`lean.rs`, `main.rs`, `ffi_shim.c`) | `LeanHost.lock` | a call under the mutex, `serve` | v2 session |
| v2 nonce ledger (`NonceLedger`) | entries, generation | consume, prune, rotate, fence | effect envelope |
| v2 transport (`ClassifyTransport`, `ResponseTransport`, `ResponseNI`) | approval plane, dead flag | frame and relay the child, refuse, forward or decide a line | validation, client, child |
| v2 effect envelope (`EffectEnvelope`, ...) | none | gates in order | ledger |
| v2 version gate (`McpVersionGate`) | none | admit, refuse | transport |
| v2 parser, serializer, escapes | none | parse, serialize | everything in v2 |
| Ed25519 (`Crypto`, `c/seal_ed25519.c`, `c/tweetnacl.c`) | two buffers per call | check, copy, hash, multiply, compare | called by the session with three byte arrays |

What makes each correct, and what is hard about it:

- **Approval channel.** An approval is worth one call, in time, for its target.
  Hard: the file is edited, cut, half written or removed between any two steps;
  the wall clock jumps; the approval is consumed before the call is written, and
  the process may die in between; a restart forgets what was consumed.
- **Relay.** Lines are relayed whole, in order, none lost, and the process ends
  when the client does. Hard: two threads write to one stdout; four bounded pipes
  can wait on each other; client and child stop reading, close an end or go at any
  moment, and the child may leave its ends to a descendant.
- **v2 session.** A token is used once, acknowledged tokens are not lost, good
  tokens are not refused. Hard: read, consume and write are atomic only by the
  mutex of another language; `now` is an argument, older than the mutex; nonces
  are pruned by it.
- **Rule resolution.** Several matching rules resolve by precedence in every order, and a
  target says exactly which call it is for. Hard: an absent field is not a null one; a
  refusal must show the target the next decision looks for; after a restart under
  another policy or server name the old approvals are still in the file.
- **Wire gates.** What the parser would collapse or change never reaches it, and nothing
  else is refused. Hard: four scans with four ideas of where a string, a key or a number
  ends, on nested containers and escapes.
- **Policy loading.** Boundaries of the scans. Pure; hard only at the edges.
- **Ledger and envelope.** An envelope is released once per generation, and a released
  decision is executed only under the generation it was made in. Hard: stores are mounted
  and rotated in any order, pruned by the clock, and decisions arrive late or repeatedly.
- **Transport.** The child can end the stream and do nothing else; no call reaches a child
  undecided. Hard: frames at the bound, broken ones in the middle, and lines that mean one
  thing to the strict parser and another to a lenient child.
- **Ed25519.** The answer is 1 for a valid signature and 0 for anything else. Hard:
  allocations that fail, a second encoding of S or of a key, carries of unreduced limbs, a reduction
  that subtracts too much, padding at the edge of a block.

`PROJECT.json` lists the hazards with their source lines and the properties that
cover them.

## Modules

| Module | What it is |
|---|---|
| `SealAutomaton` | the decision core as operators; no state of its own |
| `SealGate` | the main thread of v1, control file, clock, crash and restart |
| `OneShotApprovals` | abstract: an approval that was issued is used before its deadline, and by a process at most once unless the promise is void for that process; implemented by `SealGate` |
| `SealGateClock` | `SealGate` beside an approval map that is never pruned |
| `SealRelay` | both threads of v1, the mutex, pipes, child, client, shutdown |
| `ReplaySession` | the v2 session, the FFI calls, the mutex and the threads of the host |
| `EffectLedger` | the gates of a signed envelope behind the nonce ledger, its stores, and the executor |
| `RuleResolution` | v1: loading a policy, finding and resolving the call in a request, which call an approval is for |
| `SingleUseTokens` | abstract: what v2 promises about the use of a token; implemented by `ReplaySession` and by `EffectLedger` |
| `Validation` | v2: the state of approvals and the replay-protected validation, as operators; used by `ReplaySession` and `SealTransport` |
| `SealTransport` | v2: framing, the dead flag, classification of lines, the run of a host |
| `WireScan` | v1: a writer of JSON lines and the four scans that follow it |
| `Ed25519` | the C leaf: `lean_seal_ed25519_verify`, `crypto_sign_open`, and `crypto_sign` as the source of signatures |
| `EdwardsCurve` | the field on residues, the point formulas, the ladder, packing; as reference the group, and the decoding of RFC 8032, 5.1.3 |
| `ScalarModL`, `ScalarReduction` | `modL` and its callers as operators; `modL` row by row |
| `Sha512` | `crypto_hash` and `crypto_hashblocks`, round by round, beside FIPS 180-4 |
| `GfLimbs` | the field on limbs, carried as in C |
| `MCSealGate`, `MCSealGateClock`, `MCReplaySession`, `MCEffectLedger`, `MCRuleResolution`, `MCTweetNaCl` | small instances for TLC |
| `MCRequestPath` | `WireScan` and `RuleResolution` on one path: what passes the one is the input of the other |
| `MCServePath` | `ReplaySession` and `SealTransport`: the two hosts of the validation |
| `SealGateProofs` (`SealGate` and `SealGateClock`), `SealRelayProofs`, `ServePathProofs` (`ReplaySession` and `SealTransport`), `EffectLedgerProofs`, `RequestPathProofs` (`RuleResolution` and `WireScan`), `ScalarReductionProofs` (`ScalarModL` and `ScalarReduction`), `HashAndFieldProofs` (`Sha512` and `GfLimbs`), `Ed25519Proofs` | theorems |

Operators marked "mutant" in the modules are wrong on purpose. Each stands for a
plausible slip in the definition next to it, and `PROJECT.json` says which property
fails when it takes that definition's place. No run uses them otherwise.

### SealGate and the code

`pc` follows `processHostLine`; there is one action between any two points where
the world can do something the thread would notice.

| Action | Code |
|---|---|
| `Start` | `main` up to `hostLoop`: `ensureApprovalFile`, fresh `IO.Ref`s |
| `ReadLine` | `hostIn.getLine`, the wire gates, `Json.parse`, `toolsCallWithContext?`, by what they lead to |
| `ReadClock` | `Timestamp.now` |
| `IngestFile`, `IngestAbsent`, `IngestThrows` | the three outcomes of `readApprovalsFrom`, with `approvalSeenRef.set` and the fold of `step` |
| `Decide` | `step` on the call, `prune`, `stateRef.set` |
| `Forward`, `Reply`, `WriteThrows` | the write to the child or the host, or its failure |
| `EndOfInput`, `Crash` | `hostLoop` returns; the process is killed anywhere |
| `Tick`, `AppendRecord`, `CompleteRecord`, `RewriteRecord`, `InsertRecord`, `DeleteRecord`, `RemoveFile`, `Relink` | the world: the clock and the control file |

`file` is the list of non-blank lines, each with an identity (`id`) that its bytes do not
have; a malformed or torn line has no target. The fold over the fresh lines is written in
closed form (`WithApprovals`: the last line for a target counts), and `IngestIsTheFold`
checks it against the fold itself. `ingested`, `ticket`, `inHand`, `served` and `epoch` are
history: they say which line an entry of `approved` came from and never influence a guard,
except that `served` and `epoch` bound the exploration. So are `setBack`, `edited` and
`displaced`, which note what the world has done: a clock that stepped back, a file that was
not only appended to, and the processes under which a line was put in ahead of lines they
had read. The counter drops lines by number (`Channel.lean:67-68`), so such a process takes
a line it has read for a fresh one. `OneShot`, `ExpiredStaysExpired` and the abstract
promise (`void`) except these processes and no others; the code breaks the promise there.
The exception path of `readApprovalsFrom` covers a symlink and a file that disappears before
it is read; it is one step, so a file replaced between the check and the read is not
explored.

Abstracted: what a line says beyond its event. `SealAutomaton.Target` stands for the
64-hex commitments (equal targets are equal commitments, which is collision
resistance). `toInt.toNat` of a time before 1970 is not modelled.

### SealRelay and the code

`mainAt` and `relayAt` are the program counters of the two threads. A line is its
number in its stream. A write is two pieces (`putStr`, `flush`), since bytes of one
line may reach the pipe in pieces; `LinesNeverInterleave` is about those. What
`processHostLine` decides is a free choice of `MainGate` (forward, answer, or
throw). `MainKill`, `MainWait`, `MainJoin` are the end of `main`.

`hostEnd` and `inEnd` say of the ends that client and child read whether they are read,
held and no longer read, or closed; `outOpen` whether anybody holds the end the child
writes. Client and child may leave or close an end at any moment (`ClientLeaves`,
`ClientGone`, `ChildLeaves`), and the child may die. Each of its ends then closes, or a
descendant has it and may read and write on; the kill at the end of `main` kills the child
only. The relay's stream ends when nobody holds the end that is written and the pipe is
empty. What was written stays readable, as with any pipe.

### ReplaySession and the code

A call is `Call` (arguments fixed), `Lock`, `Get` (`stateRef.get`), one of
`RunInit`, `RunAddApproval`, `RunDecide`, `RunChallenge` (everything to the
`stateRef.set`), `Unlock`. `Validates` and `Consume` are `validate` and
`validateAndConsumeWithStore listReplayStore`, both checks of the nonce included.
A token is its signed content plus the key that signed it, so a forged or tampered
one has another key. A request is one that parses to a `tools/call` or is not;
`config.tools` is the set of requests for which `findToolSpec` finds a tool. The
list of consumed nonces is a set (only membership is asked). `life` counts the
sessions: `init` and a restart begin a new one. The state and its validation are in `Validation`,
which `SealTransport` uses too.

`HonestClock` says what callers pass for `now`: the wall clock at the time of the
call, or any time or no number at all.

### EffectLedger and the code

`effectStepLedgered` is one action per outcome: `RefuseStore` (no store, or the generation
gate says no: fence 0), `RefuseEnvelope` (`effectStep` blocks, or `consumeNonce` finds the
key: the ledger stays), `Release` (the Allow and the new ledger together). `EffectStep`
is the conjunction of the code's gates; `VerifyEffect` asks whether the envelope is
signed by the key that the registry has for its key id. `Execute` is the executor that
`executorAccepts` specifies, handed any released decision at any time, any number of times.

The repository specifies these steps and leaves the host to bind to them, so the rest is
the environment: `Resign` (the authority signs the configuration for the next generation
and changes nothing else in it), `Mount` and `Unmount` (any store or none), `Prune`,
`Tick`. Assumed, as the header of `NonceLedger.lean` states it: an honest clock that
does not go back, and no rollback of a store within its generation. One authority
judges, so its key is left out of the entries; `decide` on the line is the constant
set `Allowed`. A store of a generation is one store: `storeId` is not compared by
the code either.

### RuleResolution and the code

`Start` is `main` with a policy that `loadPolicy` accepts, `RefuseStart` with one it throws
on. A request is judged in one step (`Judge`, the tool-call branch of `processHostLine`), or
goes to the child (`PassThrough`), or is answered (`RefuseMalformed`: `_meta` is there and
no object). `Classify` evaluates the rules that match and resolves them
(`evaluateRuleWithContext`, `resolveRuleDecisions`); `GuardTarget` is the preimage of the
target, part by part, with the metadata and the two continuation fields. A refusal of a
guarded call shows its target (`Shown`, `HostEvent.targetText`); `Approve` is the approver
who writes it to the control file, at once or after a restart.

Abstracted: a target is its preimage, since framing is injective (proved in Lean) and
SHA-256 is taken to be. A JSON value is its compact form. The three scalar matchers are
the set of scalars they accept; what a value holds at a path is the table `ScalarAt`, of
which the instances are filled by hand. `deny` and `invalid` block alike, their texts are left
out. The channel is simpler here than in `SealGate`, which has it in full: a process takes all
lines of the file at its start and a new line at once, and an approval may end at any time
(`Expire`). What a policy file may hold wrong besides modes and guard targets is left to
`PolicyLoad`.

### WireScan and the code

`keyScanStep`, `numberScanStep`, `digitScanStep` and `agreementScanStep` are the step
functions of the four left folds, with their own names; `Gated` is the order in which
`processHostLine` asks for them. The line comes from a writer that follows the grammar of
JSON (external: a client), and notes in `truth`, at the end of each token, what the line
holds: whether an object repeats a key, as spelled or as meant, the longest exponent and
mantissa, whether a closer is astray. Each character it writes is one step (`Feed`) that all
four folds take, so their state can be compared with the writer's in the middle of a token.
So the scans never see the grammar and the writer never sees the scans. A malformed line is
one with a wrong closer; other malformed lines are refused by the parser anyway.

Abstracted: characters that no scan tells apart are one (`a`, `1`), escapes are a backslash
and a character. Which literals change when they become a binary64 is the parameter
`WireUnsafe`: the exact decimal arithmetic of `numberLiteralAgreementSafe?` needs numbers of
over a thousand bits. What is modelled is that the scan cuts out the literal it has to judge.

### SealTransport and the code

`Initialise` and `AddApproval` set the approval plane up. `ChildRead` is one read of the
relay (`framingOf`, `readKills`): the frame goes to the client, or the plane is dead.
`SeamError`, `RefuseLine`, `ForwardLine` and `DecideLine` are the arms of `runTrace` for a
line of the client, in the code's order of tests. `answers` notes for each line how many
reads came before it, so that `ChildOnlyTruncates` can ask for what the client would have
been told if the child had been silent. `lenientCalls` is the reference child of
`ClassifyTransport.lean`.

A line is what it means: `bom`, `wellFormed`, `numbersSafe`, `array` and its messages; a
read is its length and the place of its first newline. `OnlyLenientCallsEscape` is about
the lines that the strict parser reads. A line behind a byte order mark it does not read:
`classifyWire` passes it through, and what a comment of that file says of batches fails
there (`NoBatchEscapes`, run `session_batch`).

### The C leaf and the code

`Ed25519` follows `lean_seal_ed25519_verify`: `CheckLengths`, `CheckRange` (the loop that
compares S with the order from the top byte), `Allocate` (either `malloc` may be refused),
`Copy`, then `crypto_sign_open` (`OpenFails`, `OpenHashes`, one `Turn` per bit of a ladder,
`OpenMultipliesBase`, `OpenCompares`), `Free`. Calls follow one another with the buffers of
the last one still in memory. Signers are `crypto_sign` with `crypto_sign_keypair`, which the
build links and does not call; what they signed, or something made of it (`Altered`: another
encoding of S, changed bytes, wrong lengths), is what is presented. `fault` notes an access
beyond an array.

What a signature is to answer is written from RFC 8032. `Decode` is its 5.1.3: it takes no y
of P or more and no sign for an x of 0, and finds the root its own way. `Valid` is a
signature of the standard. `unpackneg` reduces y and takes either sign for an x of 0, so what
the code decides is `Solves`: the standard's equation for the point that the key stands for
(`Reencoded`: y reduced, no sign for an x of 0). `AnswersTheEquation` says that the answer is 1
exactly then, that whatever is `Valid` is answered 1, and that under a `Canonical` key nothing
else is. Where the two differ is the run `tweetnacl_keys`.

The field of `Ed25519` is residues. `GfLimbs` shows what the C code computes on limbs:
sums are not carried, a product is carried twice, and `pack25519` carries three times and
subtracts the modulus twice. Its machine does what the curve formulas do with limbs, where a
factor is a sum of at most three products. `ScalarReduction` runs `modL` row by row, with
its negative digits, on digests and on the sums of products of a signer. `Sha512` is
`crypto_hashblocks`, one round to a step, with the schedule advanced in place, and the
padding of `crypto_hash`; a standard that keeps a schedule of all rounds goes along.

The instance is a miniature: bytes of 4 bits, scalars and points of N = 4 bytes, the field of
2^15 - 19, a curve with D = 193 whose base point (8512, 9) has order 4127 = 2^12 + 31 and
cofactor 8. The relations between the widths are those of the C code: N bytes hold one bit more
than the field, the order is a sixteenth of the range of N bytes plus a part of `Low` digits,
2N digits hold a digest. They are named as assumptions of the modules. Hash, limbs and reduction have
miniatures of their own (words of two 4-bit bytes and all 80 rounds; four limbs of 4 bits
modulo 2^15 - 2; digits at their extremes). The hash of the verifier is a mixing function, as the
verifier does not look into it. That C integers of 64 bits hold what these widths become at
full size is what the bounds on digits and limbs say (`DigitBound`, and `RoomAssumption` with the
bound in `FieldIsExact`).

## Runs

| Run | Shows |
|---|---|
| `gate` | two corners of one machine (`MCSealGateClock`). Files: two targets, two lines, two processes, and all edits of the file (appended, torn, completed, rewritten, put in ahead, deleted, removed, relinked), a clock at the start or at the deadline. Clock: mint times before and after the reading, every clock, which may go back, in a file that is only appended to. `TypeOK`, `OneShot`, `ImplementsOneShot` (refinement of `OneShotApprovals`), `ServedInTime`, `PruneChangesNoDecision`, `ExpiredStaysExpired`, `IngestLosesNothing` (`IngestIsTheFold`, `NothingSkipped`, `EveryApprovalAccountedFor`) |
| `gate_restart` | violation: one line serves two calls across a restart |
| `relay` | two lines in, two out, pipes of one piece, ends that are left, closed or inherited, with fairness: `LinesNeverInterleave`, `RelayLosesNothing` (`RelayIsVerbatim`, `NoLineDropped`, `CleanExitDelivers`); no state is stuck (deadlock is checked); `EveryLineArrives`, `EofEndsTheProcess` |
| `session_any` | two threads, any time or none: `TypeOK`, `NoApprovalLost`, `ImplementsSingleUse` (refinement of `SingleUseTokens`), `EveryCallReturns` |
| `session_serve` | one thread, honest clock, expired, forged and over-long tokens, two configurations: `SingleUse`, `GoodTokenServes`; and the transport, with reads and lines of every kind: `ChildOnlyTruncates`, `OnlyLenientCallsEscape` |
| `session_batch` | violation: a batch behind a byte order mark is forwarded and holds calls for a lenient child |
| `session_late` | violation: two threads and an honest clock break `SingleUse` |
| `session_nonce` | violation: a nonce signed twice is used twice |
| `ledger` | generations 0 to 2, every store mounted at any time, two principals with one nonce: `TypeOK`, `ReplayNeedsRotation`, `ExecutionsFollowGenerations`, `RefusalsBurnNothing`, `FreshEnvelopeServes`, and `ImplementsSingleUse` |
| `rules` | lines of up to nine tokens, written character by character: `GatesAreExact`; thirty-one policies of up to three rules, two server names, restarts, requests that differ in one field: `TypeOK`, `ResolvesByPrecedence`, `ApprovalIsForOneCall`, `ApprovedCallIsServed` |
| `tweetnacl` | the miniature of the C leaf: `TypeOK`, `MemorySafe`, `Ladder`, `AnswersTheEquation`, `NotMalleable`, `SignedIsAccepted` of the verifier, `ReductionIsExact`, `HashIsStandard`, `FieldIsExact` below it |
| `tweetnacl_keys` | violation: signatures are accepted under keys that RFC 8032 does not decode |

`rules`, `session_serve` and `tweetnacl` hold machines that share parameters and no
variables; they run one at a time, whichever starts, so a run explores each in full and no
products of them.

### What the five violations say

- `gate_restart`. `docs/POLICY.md` and the comment in `processHostLine` say that an
  approval is one-shot and a record ingested exactly once. That holds for the life
  of a process: `seen` and the map are in memory, the file is not. (v2 states the
  corresponding residual as A6.)
- `session_late`. The mutex is said to be what makes single use hold. It needs
  `now` not to go back in the order the mutex is taken, too. `SingleUseTokens`
  states exactly how much holds without that; with the one thread of `serve` it is
  met, and `SerialSingleUse` is the theorem.
- `session_nonce`. A re-presented nonce is refused only until the expiry of the
  token that used it first. It takes a signer who reuses a nonce.
- `session_batch`. The comment on `undecidedCallClass` (`ClassifyTransport.lean:256-260`)
  says that no batch is left among the lines that are forwarded undecided and hold calls
  for the lenient reference child. A batch behind a byte order mark is: the strict parser
  does not read the line, so the router never sees an array; the lenient one strips the
  mark. (The same comment calls its class a lower bound on the gap, and the file names
  the single call behind a mark.)
- `tweetnacl_keys`. `docs/TCB.md:52-53` says that non-canonical encodings of A are rejected.
  R is compared byte by byte, but A is decoded with y reduced and either sign for an x
  of 0. The instance has the neutral point in its own encoding and in two such
  ones.

One more disagreement is met and has no run: `docs/POLICY.md` (line 39, example in 97-102)
describes guard targets of literals and argument paths. `guardCheck` (`Policy.lean:136-139`, a
later restriction) accepts nothing but all arguments, so such a policy keeps the sidecar
from starting. Nothing is let through by it. `MCRuleResolution` has such a policy
(`GuardOneArg`), and it is refused.

### Bounds

Every bound is a constant (`MaxClock`, `MaxRecords`, `MaxEpoch`, `MaxServed`,
`MaxSent`, `MaxMade`, `PipeRoom`, `MaxCalls`, `MaxLives`, `MaxGeneration`,
`MaxReleased`, `MaxExecuted`, `MaxEndorsed`, `MaxTokens`, `MaxEvents`, `MaxOps`) and
appears in a guard. They
are chosen from the shortest behaviours in which the hazards occur: a stale `seen`
counter needs two lines, one of them deleted, rewritten or put in ahead; a restart needs
two processes; expiry before, at and after the deadline needs a clock of `TtlMs + 2`.
The two corners of `gate` are a CONSTRAINT that names them: no state outside them is
explored. Overtaking at the mutex needs
two lines on each side, and with two lines pipes of one piece are full as well, which is
what holds a thread; the late thread of `session_late` needs six calls (`init`, two
tokens, three decides), which is also `MaxCalls` of
`session_any`. A session that is begun again (`MaxLives`) is in `session_serve`. A replay
across a rotation needs two generations and two releases, an execution out of order two
executions; a third release leaves room for the other principal. Two approvals
(`MaxEndorsed`) let the one of another call be spent, on another server name too; three
rules are one of each mode. Nine tokens are an object in an object with a repeated key
after it; the strings and literals of the instance hold every class of character a scan tells apart.
Five events of the transport are a configuration's token, a broken read between whole ones and
a line on each side; reads are at `MaxWire`, beyond it, empty, unterminated and with
bytes after the newline. Three operations on limbs reach a sum of sums as a factor, the most
the formulas do; texts are shorter than, equal to and one more than what a last block
holds, and long enough that the count of bits takes two words. Mutants confirm that the
instances are large enough for each property to fail. Targets, threads and so on
are symmetric where a run declares it. The proofs remove the bounds for what they
cover.

`CHECK_DEADLOCK FALSE` is said where a machine really stops: in the gate runs the process
may end and not be started again; in `rules` a line ends, in `session_serve` a run of the
transport, in `tweetnacl` a reduction and a formula. In `ledger` a host can always remount. The relay and
session models have a `Rest` step in which everybody is done, so the deadlock check of
`relay` and `session_any` means something.

### Fairness

`SealRelay`: weak fairness of the main and the relay thread as wholes (the operating
system runs both). Of the client and the child it says no more than what the state of an
end means: an end that is `"read"` is read on, and a child that answers comes to an end of
it. Both may leave an end whenever they like, without fairness, and nothing makes the client
send or close, the child write by itself, or anything crash. Weak fairness suffices for the
mutex, as each thread can be overtaken only boundedly often.

The code has no timeouts, so what others do can hold it for ever, and the properties say
where. A client that stops reading blocks the writer that holds the mutex, and everything
behind it; one that closes its end breaks the relay thread, after which the child may fill
its pipe. Both properties are therefore stated for a client that reads on
(`hostEnd # "read"` ends the promise). A child that has stopped reading with its pipe
full holds the main thread in `forward` (`Main.lean:145`), before the kill (`HeldByChild`);
a descendant that keeps the dead child's stdout holds the join (`Main.lean:189`,
`HeldByHeir`). These two are the only exceptions of `EofEndsTheProcess`, each as something
that lasts for ever (`[]`), and TLC finds the property violated when either is left out.

`ReplaySession`: weak fairness of each thread within a call.

## Proofs

All proofs are checked by `tlapm`. They assume only what the modules name: `GateAssumption`,
`RelayAssumption`, `SessionAssumption`, `NoSessionAssumption`, `LedgerAssumption`,
`RuleAssumption`, `WireAssumption`, `TransportAssumption` (types of the constants, and that
the special values are distinct), and `WidthAssumption`, `OrderAssumption` and
`SpareAssumption` for the C leaf (whole bytes; the order has as many digits as S; the sweep
has digits to spare), `DigestAssumption` (digests and scalars are bytes), `FieldAssumption`
(the constants of the curve are residues), `HashAssumption` (constants and initial state of
the hash are words and bytes, the rounds come in sixteens, the length of a message is a
word, as the type of its parameter says), and `PowersAssumption` and `WordPowersAssumption`
(each power is the one before times the base: the provers know nothing of exponents, and TLC
evaluates it; `LimbPowersAssumption` is the same for limbs). Of the limbs, `LimbAssumption`
asks for two or more, each of an even number of bits, next to which the fold is small, and
`RoomAssumption` that a column of a product of sums of three fits four limbs less a bit and
that what two carries bring back to the lowest limb is less than the limbs hold. For 16
limbs of 16 bits and a fold of 19 such a column takes 45 bits of 63. The theorems about the
gate suppose nothing of the file, the clock or the approver: what a property needs of them
it says itself.

Four theorems of the C leaf have hypotheses besides, the *laws*: textbook facts about the
curve and its encoding, each an operator over a set in `EdwardsCurve` or
`Ed25519`, and each named in the theorem that rests on it.

| Law | What it says | How it is checked |
|---|---|---|
| `CurveLaws` | the affine sum is a commutative group (`GroupLaw`), `add` computes it without exceptions (`AdditionLaw`), the base point and what keys decode to are on the curve (`DecodingLaw`) | `LawsAssumption` of `MCTweetNaCl`, on points and keys of every kind |
| `KeyLaw` | `unpackneg` gives the negative of what RFC 8032 decodes the key to, were it encoded with y reduced and no sign for an x of 0, and no point if that has none; only canonical keys are decoded as they are | the same; keys of every kind, also at and above P and with a sign for an x of 0 |
| `EncodingLaw` | `pack` is the encoding and decodes to the negative | the same |
| `OrderLaw` | no multiple of the base point below the order is neutral | `LawsAssumption`: the order is prime, and of this multiple the point is neutral |
| `DigestLaw` | the hash gives bytes | `LawsAssumption` |

What they do not suppose is anything about the code's control, its ladder, its buffers or
its range check: that is what the theorems show.

| Theorem | Statement |
|---|---|
| `TypeCorrect`, `RelayTypeCorrect`, `SessionTypeCorrect` | type correctness of the three state machines |
| `GateInvariant`, `ApprovalsAreOneShot`, `CallsAreServedInTime` | `Spec => []GateInv`, and so `OneShot` (a process under which a line was put in ahead of lines it had read excepted) and `ServedInTime` (no process excepted) |
| `GateImplementsOneShot` | `SealGate` implements `OneShotApprovals` |
| `PruneIsHarmless` | as long as the clock was not set back, pruning changes no decision |
| `ExpiryIsFinal` | with any clock, an approval found expired lets no call through (same exception) |
| `NoApprovalIsLost` | `IngestLosesNothing`: the closed form of the ingest is the fold; while the file was only appended to, no line is skipped and every approval is accounted for |
| `LinesStayWhole` | `LinesNeverInterleave` |
| `RelayKeepsEveryLine` | `RelayLosesNothing`: verbatim relay, nothing dropped or done twice, a clean exit has delivered all |
| `SessionInvariant`, `SessionImplementsSingleUse` | `ReplaySession` implements `SingleUseTokens` for any threads and clocks |
| `SerialSingleUse` | with one thread and an honest clock, `SingleUse` |
| `ApprovalsAreKept`, `GoodTokensServe` | `NoApprovalLost` and `GoodTokenServes`, for any threads and clocks |
| `ChildCanOnlyTruncate`, `EscapesAreLenient` | `SealTransport`: `ChildOnlyTruncates`, `OnlyLenientCallsEscape`, for any lines, reads and bound |
| `LedgerTypeCorrect`, `ReplaysNeedRotation`, `FencesHold` | `EffectLedger`: types, no replay without a rotation, no execution under a past generation |
| `LedgerImplementsSingleUse` | `EffectLedger` implements `SingleUseTokens`, generations as lives |
| `RefusalsLeaveTheLedger`, `FreshEnvelopesServe` | `RefusalsBurnNothing` and `FreshEnvelopeServes` |
| `RuleTypeCorrect`, `CallsResolveByPrecedence` | `RuleResolution`: types; any loaded policy resolves every call by precedence |
| `TargetsAreOfTheirCall`, `ApprovalsAreForOneCall`, `ApprovedCallsAreServed` | an approval is for one call on one server, and is enough for it |
| `GatesExact` | `WireScan`: `GatesAreExact`, for lines of any length and depth, any strings, literals and limits |
| `ReduceIsRemainder`, `SignerScalarIs` | `reduce` of any digest, and `modL` of any signer's r + h d, are N bytes of the remainder by the order |
| `ReductionIsCorrect` | `ReductionIsExact`: at every row of `modL` the digits are within their bounds and stand for the same residue, and the result is its bytes, for any widths and any order of the shape of `OrderAssumption` and `SpareAssumption` |
| `HashIsCorrect` | `HashIsStandard`: for any widths, number of rounds, constants and messages, over any number of calls, every round takes the word of FIPS 180-4's schedule, the last blocks are its padding, and the digest is its digest |
| `FieldIsCorrect` | `FieldIsExact`: for any number and width of limbs, any fold and any bytes loaded, over any number of operations, the limbs stand for the residue the operations should give, packing gives the bytes of its least representative, and no column outgrows its integer |
| `LeafTypeCorrect`, `VerifierMemorySafe`, `OnlyInRangeAccepted` | `Ed25519`, for any widths, curve, hash, callers and refused allocations: types, `MemorySafe`, and no answer 1 without the checks of lengths and range |
| `VerifierAnswersItsEquation` | `Ed25519`, for any widths, curve, hash and history: a call given its memory is answered 1 if and only if the lengths are right, S is below the order, the key decodes and R encodes the sum of what the two ladders compute; without memory the answer is 0 |
| `LadderMultiplies` | `Ladder`, from `CurveLaws` and `DigestLaw`: at every turn of both ladders the pair is two consecutive multiples of the point, by the bits walked |
| `AcceptedSIsUnique` | `NotMalleable`, from `CurveLaws`, `DigestLaw`, `EncodingLaw` and `OrderLaw` |
| `VerifierDecidesTheEquation` | `AnswersTheEquation`, from `CurveLaws`, `DigestLaw`, `KeyLaw` and `EncodingLaw`: the answer is 1 exactly for what solves the equation for the point the key stands for; so for all that is valid by RFC 8032, and under canonical keys for nothing else |
| `SignedCallsAreAccepted` | `SignedIsAccepted`, from `CurveLaws`, `DigestLaw`, `EncodingLaw` and the order being one of the base point |

- *One shot.* `OneShot` is not inductive: it says nothing of the approvals that still
  stand. `GateInv` adds that no two lines are the same line (`LinesAreDistinct`), that
  what is beyond the `seen` counter was not taken (`FreshIsUntaken`: deleting and rewriting
  lines takes none of the others beyond it), that each standing approval rests on a line of
  its own (`StandingIsBacked`), and that a line in hand or used has left the map
  (`InHandIsConsumed`, `ServedIsSpent`). Each of these is claimed while nothing was put in
  ahead of what the process has read (`Undisturbed`); deadlines, targets and types hold
  without that, which is why `ServedInTime` needs no exception.
- *Prune.* The pruned and the unpruned map agree on what is live at the call's time
  and all later times, and calls' times do not decrease. With a wall clock that steps back
  pruning may change a decision (the comment on `prune` thinks of a monotonic clock), but
  only towards refusing. For `ExpiryIsFinal`, an
  approval found expired is pruned in that step and its line never taken again.
- *Nothing lost by the ingest.* The fold over the lines of the file is a recursive function on
  the prefixes of the file; it and the closed form of `Ingest` agree, as a least prefix on
  which they differ cannot exist. While the file is only appended to, the ids in it are the
  numbers of its lines, so what is beyond the `seen` counter is what was issued since; each
  approval is then beyond it, standing, expired, in hand or used.
- *Whole lines.* Who is between `putStr` and `flush` holds the mutex, and the last
  piece on the wire is his.
- *No line lost.* `RelayLosesNothing` counts lines taken by the length of a pipe, so the
  pipes must be known to be in order (`PipesInOrder`). `PutIsTaken` and `HandledOnce` say of
  each line taken where it is: on the wire, forwarded, answered, or in hand; the line in
  hand is nowhere else, or it could be put twice. `DoneHasDelivered` ties the end of the relay thread to
  an empty pipe that nobody can write to any more, and the clean exit to the end of that thread.
- *Single use.* `MutexHeld` gives `SnapshotIsCurrent`; with it `RememberedUntilExpiry` is
  inductive: an Allow drops an entry only if its own time is past that entry's expiry, and
  that Allow is then the later use the promise speaks of. `SerialSingleUse` adds that
  with one thread no `now` is behind an earlier use. `NoApprovalLost` needs the current
  snapshot, and `GoodTokenServes` that every remembered nonce was used in this life
  (`SpentByUse`): what blocks a good token could only be its own use.
- *Transport.* `RelayIsPrefix` ties the dead flag and what was relayed to the reads,
  `AnswersFollowReads` each answer to the reads before it. A seam error ends the run, so it
  is the last.
- *C leaf.* `CallInv` says at each program point which checks lie behind it and how long the
  buffers are; from it no access leaves its array, whatever the lengths of what is presented.
  `AnswerInv` adds what has been computed. `RangeIsExact`: the loop of the range check, which
  reads S from its last byte and carries `lt` and `gt`, decides `Number(S) < Order` exactly,
  by comparing prefixes of the two numbers digit by digit. Each turn of a ladder climbs one of
  the `Rungs` that define `scalarmult`, so that what a ladder ends with is a function of its
  point and scalar, whatever was verified before; `sm` and `m` hold R, S, key and message
  where the hash and the comparison look for them. Recursive functions are unfolded step by
  step (`Recursion`, and `Descent` where a step goes back further than one), and followed to
  their last step by `Upwards`, the induction over `0 .. n` that a least counterexample gives.
- *The ladder in the group.* `Multiple` halves its number; `MultipleSuccessor` and
  `MultiplesAdd` turn it into repeated addition. `BitStep` reads the bits of a little-endian
  number: the number over 2^t is twice the number over 2^(t+1) and the bit at t. `OnRung` is
  then kept by `TurnRaises` through both exchanges of the points, and `RungsAreMultiples`
  gives the end of the ladder. That points keep `t` in step with x, y and z comes from
  `AdditionLaw`, which the exchanges must not break.
- *One S.* Two accepted signatures with the same key, message and R encode the same sum, so,
  an encoding determining its point (it decodes to its negative), the products of S and the
  base point agree; both are below the order (`RangeIsExact`), their difference then is zero,
  and the bytes agree since numbers of the same length have their digits in common.
- *The reduction.* What the digits stand for is a sum of digits times weights, followed by its
  prefixes (`Sums`). Eliminating a digit subtracts 16 times the order, N places down, as many
  times as the digit says (`EliminationSum`), so the remainder stays (`RowStep`); every digit
  a sweep passes is left rounded, within half of `Radix`. That the carry out of a sweep stays
  small is the hard part: `RowBounds` bounds each digit by what the rows so far can have left
  there, and `CarryBounds` the carry by the digits of the sweep and the one eliminated. Here
  the shape of the order is needed: its delta is shorter than the sweep (`SpareAssumption`), so
  a product of digit and delta is small next to what the sweep covers. After the last row the
  number is small enough that the quotient read off its top digit leaves less than the order
  either side of zero (`QuotientLeaves`); the last carry is -1 exactly below zero, and the
  order is then put back (`LastStep`). `ReductionInv` joins these for `ReductionIsCorrect`. A
  digest and the products of a signer are within the bounds of row 0 (`DigitsToReduce`), and
  the products sum up to r + h d (`ProductsSum`).
- *The hash.* `HashInv` says where the code is in the padded message, which only the standard
  has: while the message's own blocks last, the code's bytes are those of the text, which is
  its beginning; then those of the last blocks, which are its end (`LastBlocksAre`: the zeros
  of the standard are as many as the code's one block or two leave, `ZerosAre`, and the bits
  of a length that is a word are a word and one byte more, `LengthBytes`). Within a block,
  the sixteen words are the next sixteen of the schedule (`AdvanceIs`, by the words advanced
  so far, each of which reads words both before and after its own change), and the shifted
  state is the standard's by its names (`RoundIsStandard`). The state between the calls goes
  through bytes and back (`StateOfItsBytes`). Of `&` and `^` the proof needs no more than that
  they make integers of integers, as code and standard use them alike; `BitAnd` and `BitXor` define
  them by the bits of their arguments, and TLC computes with them.
- *The field.* What limbs are worth is a sum of limbs times weights, followed by its prefixes
  (`WorthIs`, `WorthCombines`). A carry from limb to limb keeps the worth, and the one out of the
  top limb changes it by a multiple of the modulus (`CarIs`, `PassIs`). Limbs within `Room` have
  small carries (`CarriesAreSmall`), so a second pass wraps around at most once and a third not at
  all (`PassesAre`): a product's limbs are digits but for a wrap in the lowest, and packing starts
  from digits proper. A product of two factors is a sum of limbs of the one times the other
  shifted up, and to shift is to multiply by the base modulo the modulus (`ShiftedWorth`,
  `FoldedWorth`); its columns stay within `Room` (`FoldedIsSmall`). Packing takes the modulus off
  twice, each time keeping the difference unless it borrows (`LessModulusIs`), which is enough
  for the least residue (`PackIs`), and equal bytes are equal residues (`BytesDecide`). `FieldInv`
  bounds each register's limbs by the number of its summands, the lowest by a wrap more than the
  others, and says that the residue of its worth is its value. `FieldIsExact` does not do by itself:
  its bound is the same for all limbs, and the room of a column needs the smaller one.
- *Signed calls.* `SignedInv` says each record is a signer's of some seed and message. Its h
  is the verifier's (same R, key and message), its S is r + h d up to multiples of the order
  (`SignerScalarIs`, `MultipleOfRemainder`), and the sum the verifier packs is r times the base point
  (`ProductCancels`).
- *Ledger.* `RememberedWhileGood` is what makes it inductive: an envelope released under
  a generation is in that generation's store for as long as its expiry gate is open, since
  pruning drops only what is past its expiry. A release under the live generation thus
  finds it. `ReleasesAreInTime` keeps releases behind the clock and the live generation,
  `ExecutedIsPast` orders the executions.
- *Rules.* A policy that loads has full-arguments guards only, so all matching guards give
  the target of the call and none conflict: what is left is the set of modes. Equal
  targets mean equal calls: lengths tell whether a server is named, then every part sits
  at its place, and `PreimageParts` tells absent from present. With
  `TargetsAreExact` inductive, the approvals a guarded call finds are those of this call.

- *Gates.* `WriterInv` says what the writer may be in the middle of; one invariant for each
  scan says what it must hold there. `NumberInv` and `DigitInv`: the digits counted so far are
  those of the written part of the literal, and the worst so far is that of the finished ones.
  `AgreementInv`: the buffer is the written part of the literal, and a finished literal still
  waits in it for the character that ends it, which is why the gate finishes the last one.
  `KeyInv`: as long as the scan is not stuck, its stack is that of the open containers with the
  raw texts of their keys, and a key is expected exactly where the grammar has one. The raw
  text of a string without escapes is its meaning, so a raw key seen twice is a key repeated
  and two that collapse are seen twice or have an escape, which sticks. Only the verdict
  needs all four: the scans do not look at each other.

The inductive invariants `GateInv`, `SessionInv`, `LedgerInv`, `TargetsAreExact`, `LeafInv`,
`AnswerInv`, `SignedInv`, `ReductionInv`, `HashInv`, `FieldInv`, `TransportInv`, `WireInv` and those of the
relay are not in a run: what a run would check on a small instance is proved.

Only model-checked:

- the laws above, on samples of the miniature; on it TLC checks the four properties without
  supposing them.
- all liveness (`EveryLineArrives`, `EofEndsTheProcess`, `EveryCallReturns`): fairness and
  ENABLED are out of the prover's reach.

## Plan

Left, in this order:

1. `SealSystem`: `SealGate` and `SealRelay` together, so that the order of a call's answer,
   its forwarding and its consumption is one behaviour. Proof: the projections.
2. `PolicyLoad`: the accept and refuse order of the bundle loader and of signed policies.
3. `Escape`: escape decoding of the v2 parser over a small alphabet, against a reference.

## Not modelled

- SHA-256: targets are opaque, which is collision resistance. The v1 and v2 state machines
  take a signature for a yes or a no; that the verifier gives the right one is shown for the
  miniature of `MCTweetNaCl`, not composed with them.
- Of `tweetnacl.c`: Salsa20, Poly1305, secretbox, box and the Montgomery ladder of
  Curve25519, which the build compiles and never calls, and `randombytes`, which is a stub.
  The laws of the curve's group are not proved for any size.
- The protocol version gate of v2: a stateless table that nothing in the repository calls in
  a sequence.
- The Lean theorems themselves, the conversion to binary64 of
  `numberLiteralAgreementSafe?`, the parser and serializer of v2, the command lines of the
  scaffolding tools, the base64 lines of the Rust host and marshalling in the C shim,
  everything under `demo`, `test`, `scripts` and `docs`.
