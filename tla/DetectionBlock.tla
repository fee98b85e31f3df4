--------------------------- MODULE DetectionBlock ---------------------------
(***************************************************************************)
(* The detection block behind the ChunkHeader, as parseCornerBlock and     *)
(* parseMarkerBlock of net/ChunkReassembler.cpp read it.  The unit is the  *)
(* 4-byte word: a CornerSetHeader is one word and a MarkerSetHeader two,   *)
(* num_corners is in the last of them, and a corner is two words.  Any     *)
(* word may be read as num_corners: a block that is not what its header    *)
(* claims still has to be parsed without leaving it.                       *)
(***************************************************************************)
EXTENDS Integers, Sequences, SequencesExt

CornerHeader == 1   \* sizeof(CornerSetHeader), in words
MarkerHeader == 2   \* sizeof(MarkerSetHeader), in words

(* The words of the record at offset off, header included.                 *)
size(block, header, off) == header + 2 * block[off + header]
fits(block, header, off) ==
  /\ off + header <= Len(block)
  /\ off + size(block, header, off) <= Len(block)

(* The records of a block, up to the first that does not fit.              *)
records(block, header) ==
  LET from[off \in 0..Len(block)] ==
        IF fits(block, header, off)
        THEN LET end == off + size(block, header, off)
             IN  <<SubSeq(block, off + 1, end)>> \o from[end]
        ELSE <<>>
  IN  from[0]

parsed(block, header, expected) ==
  LET all == records(block, header)
  IN  IF Len(all) <= expected THEN all ELSE SubSeq(all, 1, expected)

parseCornerBlock(block, expected) == parsed(block, CornerHeader, expected)
parseMarkerBlock(block, expected) == parsed(block, MarkerHeader, expected)

-----------------------------------------------------------------------------
(* Reference: sets are whole records that make up the front of the block,  *)
(* and there is no room for another one that was announced.                *)
IsRecord(r, header) == Len(r) >= header /\ Len(r) = header + 2 * r[header]

IsFrontOf(sets, block, header, expected) ==
  LET front == FlattenSeq(sets)
  IN  /\ Len(sets) <= expected
      /\ \A i \in DOMAIN sets : IsRecord(sets[i], header)
      /\ IsPrefix(front, block)
      /\ \/ Len(sets) = expected
         \/ \A n \in (Len(front) + 1)..Len(block) :
              ~IsRecord(SubSeq(block, Len(front) + 1, n), header)
=============================================================================
