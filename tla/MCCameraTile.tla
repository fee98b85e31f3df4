---------------------------- MODULE MCCameraTile ----------------------------
(* CameraTile for TLC, and StackImage over small inputs.                   *)
EXTENDS CameraTile, StackImage

(* Lines of samples that fit 16 values, and lines that do not.             *)
MCFrame == [width : 0..5, height : 0..2, bytes_per_line : {0, 4, 8, 12, 15},
            size : {0, 4, 8, 12, 15, 16, 24, 30}]

ASSUME ImageFunctions ==
  /\ \A n \in 1..40, max \in 1..6 : SampleIsInBounds(n, max)
  /\ \A white \in 1..6, lutSize \in 2..5 : StretchKeepsOrder(white, lutSize)
  /\ \A dict \in 0..200 : HeaderIsAligned(dict)
  /\ \A f \in MCFrame : f \in Sf32Frame /\ NpyHoldsTheImage(f) /\ NpyReadsWithin(f)
  /\ \A count \in 1..60 : GridHoldsAll(count)
=============================================================================
