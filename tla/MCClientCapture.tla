-------------------------- MODULE MCClientCapture --------------------------
(* Instances of ClientCapture: two servers.                                *)
EXTENDS ClientCapture, TLC

CONSTANTS s1, s2

MCServer == {s1, s2}
MCSym    == Permutations(MCServer)
=============================================================================
