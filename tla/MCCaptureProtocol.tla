------------------------- MODULE MCCaptureProtocol -------------------------
(* Instances of CaptureProtocol: two cameras, capture ids of one bit.      *)
EXTENDS CaptureProtocol, TLC

CONSTANTS c1, c2

MCCam   == {c1, c2}
MCSym   == Permutations(MCCam)
OneKind == {"trigger"}
TwoKind == {"trigger", "stack"}
=============================================================================
