---------------------------- MODULE MCServePath ----------------------------
(***************************************************************************)
(* The v2 session in the two hosts that keep one: the serve loop of the    *)
(* repository, and the transport that its Lean modules describe.  The two  *)
(* run one at a time, on the same configurations and tokens.               *)
(***************************************************************************)
EXTENDS MCReplaySession, SealTransport

Bytes(length, newline) == [length |-> length, newline |-> newline]

\* At the bound, one over it, bytes after the newline, and the broken ones.
Reads == {Bytes(2, 2), Bytes(3, 3), Bytes(3, 1), Bytes(0, 0), Bytes(1, 0), Bytes(3, 0), IoError}

Message(method, named) == [method |-> method, named |-> named, request |-> r1]

Strict == Message("tools/call", TRUE)
Cased  == Message("TOOLS/CALL", TRUE)
Listed == Message("tools/list", FALSE)

Object(m) == [bom |-> FALSE, wellFormed |-> TRUE, numbersSafe |-> TRUE, array |-> FALSE,
              messages |-> <<m>>]

Batch(ms) == [Object(Listed) EXCEPT !.array = TRUE, !.messages = ms]

Lines == {Object(Strict), Object(Cased), Object(Message("tools/call", FALSE)),
          Object([Strict EXCEPT !.request = NoRequest]),
          [Object(Strict) EXCEPT !.bom = TRUE],
          [Object(Strict) EXCEPT !.numbersSafe = FALSE],
          [Object(Strict) EXCEPT !.wellFormed = FALSE],
          Batch(<<Listed, Strict>>), [Batch(<<Strict>>) EXCEPT !.bom = TRUE]}

-----------------------------------------------------------------------------
ServeInit == Init /\ TransportInit

SessionIdle == calls = 0 /\ clock = 0 /\ life = 0

TransportIdle == plane = NoSession /\ Events = 0

ServeNext ==
  \/ TransportIdle /\ Next /\ UNCHANGED hostVars
  \/ SessionIdle /\ TransportNext /\ UNCHANGED vars

ServeSpec == ServeInit /\ [][ServeNext]_<<vars, hostVars>>
=============================================================================
