-------------------------- MODULE MCRuleResolution --------------------------
(***************************************************************************)
(* A small instance of RuleResolution: every policy of two rules out of    *)
(* four, the orders of three, and some that match nothing or do not load,  *)
(* with and without a server name; requests that differ in one field.      *)
(***************************************************************************)
EXTENDS RuleResolution, SequencesExt

Scalars == [read  |-> [op |-> "read",  path |-> "/w"],
            write |-> [op |-> "write", path |-> Absent],
            null  |-> [op |-> Absent,  path |-> Absent]]

Always      == [type |-> "always"]
Is(p, v)    == [type |-> "scalar", path |-> p, accepts |-> {v}]
ReadInside  == [type |-> "all", specs |-> <<Is("op", "read"), Is("path", "/w")>>]
Writes      == [type |-> "any", specs |-> <<Is("op", "write"), Is("op", "append")>>]
Never       == [type |-> "any", specs |-> <<>>]

Matchers == {Always, ReadInside, Writes, Never,
             Is("op", "read"), Is("path", "/w"), Is("op", "write"), Is("op", "append")}

Rule(name, mode, match, target) ==
  [name |-> name, mode |-> mode, match |-> match, target |-> target]

Arg(p) == [type |-> "argPath", path |-> p]

AllowReads  == Rule("file", "allow", ReadInside, <<>>)
GuardWrites == Rule("file", "guard", Writes, <<FullArguments>>)
GuardAll    == Rule("file", "guarded", Always, <<FullArguments>>)
DenyInside  == Rule("file", "deny", Is("path", "/w"), <<>>)
DenyNever   == Rule("file", "deny", Never, <<>>)
GuardNet    == Rule("net", "guard", Always, <<FullArguments>>)
GuardOneArg == Rule("file", "guarded", Always, <<Arg("op")>>)
AuditAll    == Rule("file", "audit", Always, <<>>)

Policies ==
  BoundedSeq({AllowReads, GuardWrites, GuardAll, DenyInside}, 2)
    \cup SetToSeqs({AllowReads, GuardAll, DenyInside})
    \cup {<<DenyNever>>, <<AllowReads, AuditAll>>, <<GuardOneArg>>}

Documents == [server : {"s"}, tools : Policies]
               \cup [server : {""}, tools : {<<GuardAll, GuardNet>>}]

Plain == [method |-> "tools/call", name |-> "file", arguments |-> "write",
          metadata |-> Absent, requestState |-> Absent, inputResponses |-> Absent]

Requests == {Plain,
             [Plain EXCEPT !.name = "net"],
             [Plain EXCEPT !.arguments = "read"],
             [Plain EXCEPT !.arguments = Absent],
             [Plain EXCEPT !.requestState = "null"],
             [Plain EXCEPT !.metadata = NotAnObject],
             [Plain EXCEPT !.name = Absent],
             [Plain EXCEPT !.method = "tools/list"]}
=============================================================================
