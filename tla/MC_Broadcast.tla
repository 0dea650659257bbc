---------------------------- MODULE MC_Broadcast ----------------------------
(***************************************************************************)
(* Two invocations, a clock that reaches the next second, requests naming *)
(* one or two agents (in several spellings, a blank and an unknown name    *)
(* among them) and the requests main() rejects.                            *)
(***************************************************************************)
EXTENDS Broadcast

MCProcs == {101, 102}
MCBases == {"", "coder", "tester", "bogus"}

Nm(b, f) == [base |-> b, form |-> f]
Cli(n, s) == [json |-> FALSE, jsonOk |-> TRUE, files |-> n, agents |-> s]
Json(ok, n, s) == [json |-> TRUE, jsonOk |-> ok, files |-> n, agents |-> s]

MCRequests ==
    {Cli(1, <<Nm("coder", "exact")>>),
     Cli(2, <<Nm("coder", "upper"), Nm("tester", "padded")>>),
     Cli(1, <<Nm("", "padded"), Nm("bogus", "exact")>>),
     Cli(1, <<Nm("coder", "exact"), Nm("coder", "upper")>>),
     Cli(0, <<Nm("tester", "exact")>>),
     Cli(1, <<Nm("", "padded")>>),
     Json(TRUE, 1, <<Nm("", "padded"), Nm("tester", "underscore")>>),
     Json(FALSE, 1, <<Nm("coder", "exact")>>)}

=============================================================================
