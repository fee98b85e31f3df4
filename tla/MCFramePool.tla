---------------------------- MODULE MCFramePool ----------------------------
(* FramePool for TLC: two connections, one camera, one GL thread, one API  *)
(* reader and one holder of captures over four buffers.                    *)
EXTENDS FramePool, TLC

Symmetry == Permutations(Buf) \cup Permutations(Net)
=============================================================================
