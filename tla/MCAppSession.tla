---------------------------- MODULE MCAppSession ----------------------------
(* AppSession: both servers, one of them alone, and with saving off.       *)
EXTENDS AppSession, TLC

MCServersOf == [both |-> <<"a", "b">>, one |-> <<"b">>, off |-> <<"b", "a">>]
MCDirOf     == [both |-> "d1", one |-> "d2", off |-> "d1"]
MCSaveOf    == [both |-> TRUE, one |-> TRUE, off |-> FALSE]
=============================================================================
