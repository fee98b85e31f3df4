------------------------ MODULE MCChunkReassembler ------------------------
(* ChunkReassembler for TLC.  Frame a is sound, with two chunks; c has the *)
(* uuid of a, on another connection, and declares more bytes than its two  *)
(* chunks have; over declares fewer bytes than its two chunks have; h is   *)
(* header only.  The blocks: a has two of the sets announced and a word    *)
(* too many, c a second set that claims more corners than there are, h two *)
(* markers of which one is announced.                                      *)
EXTENDS ChunkReassembler

MCUuid(f) == IF f \in {"a", "c"} THEN "u1" ELSE f

MCPieces(f) == IF f \in {"a", "c", "over"} THEN <<<< <<f, 1>> >>, << <<f, 2>> >> >>
               ELSE << >>

MCTotalSize(f) == CASE f = "a"    -> 2
                    [] f = "c"    -> 3
                    [] f = "over" -> 1
                    [] OTHER      -> 0

MCDetection(f) == CASE f \in {"a", "c"} -> "checkerboard"
                    [] f = "h"         -> "aruco"
                    [] OTHER           -> "none"

MCBlock(f) == CASE f = "a" -> <<1, 7, 8, 0, 3>>
                [] f = "c" -> <<1, 7, 8, 1, 7>>
                [] f = "h" -> <<5, 1, 7, 8, 6, 0>>
                [] OTHER   -> <<>>

MCNumSets(f) == CASE f \in {"a", "c"} -> 2
                  [] f = "h"         -> 1
                  [] OTHER           -> 0

(* The two parsers against their reference, for every block of up to six   *)
(* words and up to three announced records.                                *)
ASSUME ParsersMeetReference ==
  \A n \in 0..6 : \A block \in [1..n -> 0..2], expected \in 0..3 :
    /\ IsFrontOf(parseCornerBlock(block, expected), block, CornerHeader, expected)
    /\ IsFrontOf(parseMarkerBlock(block, expected), block, MarkerHeader, expected)
=============================================================================
