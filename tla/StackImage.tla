----------------------------- MODULE StackImage -----------------------------
(***************************************************************************)
(* The pure functions of data/StackImage.cpp, and gridDimensions of        *)
(* ui/CameraGrid.cpp: which samples the white point is taken from, the     *)
(* 8-bit stretch, and the layout of the .npy file.  Samples are integers   *)
(* here, the gamma curve is any increasing table.                          *)
(***************************************************************************)
EXTENDS Integers, FiniteSets, Sequences

CONSTANT Uint32   \* the number of values of a uint32_t, 2^32

ASSUME ImageAssumption == Uint32 \in Nat \ {0}

(* A frame of size bytes.  The product with 4 is one of uint32_t's, that   *)
(* with the height one of size_t's, in which it fits.                      *)
Sf32Frame == [width : 0..(Uint32 - 1), height : 0..(Uint32 - 1),
              bytes_per_line : 0..(Uint32 - 1), size : Nat]

hasSf32(f) ==
  /\ f.width > 0 /\ f.height > 0 /\ f.bytes_per_line >= (f.width * 4) % Uint32
  /\ f.size >= f.bytes_per_line * f.height

(* The strided sample of n values, and the index of its 99.5th percentile. *)
sampleStep(n, max)    == IF n \div max > 1 THEN n \div max ELSE 1
sampled(n, max)       == {i \in 0..(n - 1) : i % sampleStep(n, max) = 0}
percentileIndex(size) == (995 * (size - 1)) \div 1000

(* The place in a table of lutSize entries of a sample v: 0 at white 0.    *)
lutIndex(v, white, lutSize) ==
  LET i == (v * (lutSize - 1)) \div white
  IN  IF v <= 0 THEN 0 ELSE IF i < lutSize - 1 THEN i ELSE lutSize - 1

(* npyHeader: magic, version, length, and the dictionary of dict bytes     *)
(* padded with spaces and a newline; the result is its size and the length *)
(* it states.                                                              *)
Preamble == 10
npyHeader(dict) ==
  LET total == ((Preamble + dict + 1 + 63) \div 64) * 64
  IN  [size |-> total, stated |-> total - Preamble, spaces |-> total - Preamble - 1 - dict]

(* stackImageNpy: which byte of the frame each byte after the header is.   *)
stackImageNpy(f) ==
  IF ~hasSf32(f) THEN <<>>
  ELSE [b \in 0..(4 * f.width * f.height - 1) |->
          LET row == 4 * f.width IN (b \div row) * f.bytes_per_line + (b % row)]

(* gridDimensions: <<columns, rows>>; the square root is the least number  *)
(* whose square is at least 1.5 count.                                     *)
ceilRoot(count) == CHOOSE c \in 0..count : /\ 2 * c * c >= 3 * count
                                           /\ c = 0 \/ 2 * (c - 1) * (c - 1) < 3 * count
gridDimensions(count) ==
  CASE count <= 0         -> <<0, 0>>
    [] count = 1          -> <<1, 1>>
    [] count = 2          -> <<2, 1>>
    [] count \in 3..4     -> <<2, 2>>
    [] count \in 5..6     -> <<3, 2>>
    [] count \in 7..9     -> <<3, 3>>
    [] count \in 10..12   -> <<4, 3>>
    [] count \in 13..16   -> <<4, 4>>
    [] OTHER              -> LET cols == ceilRoot(count)
                             IN  <<cols, (count + cols - 1) \div cols>>

-----------------------------------------------------------------------------
(* Every sample is one of the image's, the percentile is one of the        *)
(* sample's, and the sample stays below twice kMaxSamples; StackImage.cpp  *)
(* :36 says "at most kMaxSamples", which the rounding of the stride misses.*)
SampleIsInBounds(n, max) ==
  LET s == Cardinality(sampled(n, max))
  IN  s \in 1..(2 * max - 1) /\ percentileIndex(s) \in 0..(s - 1)

(* The stretch stays in the table and keeps the order of the samples.      *)
StretchKeepsOrder(white, lutSize) ==
  \A v, w \in -2..(3 * white) :
    /\ lutIndex(v, white, lutSize) \in 0..(lutSize - 1)
    /\ v <= w => lutIndex(v, white, lutSize) <= lutIndex(w, white, lutSize)

(* The data of a .npy file starts at a multiple of 64 bytes, where the     *)
(* stated length says, with less than 64 bytes of padding.                 *)
HeaderIsAligned(dict) ==
  LET h == npyHeader(dict)
  IN  h.size % 64 = 0 /\ h.stated + Preamble = h.size /\ h.spaces \in 0..63

(* The file holds every sample of the image, row by row, without the       *)
(* padding of its lines, and reads no byte outside the frame, as long as   *)
(* the bytes of a line of samples fit a uint32_t.                          *)
NpyHoldsTheImage(f) ==
  hasSf32(f) /\ 4 * f.width < Uint32 =>
    \A y \in 0..(f.height - 1), x \in 0..(f.width - 1), b \in 0..3 :
      LET at == stackImageNpy(f)[(y * f.width + x) * 4 + b]
      IN  at = y * f.bytes_per_line + 4 * x + b /\ at < f.size

(* That bound is exact: from the width on whose line of samples does not   *)
(* fit (2^30), hasSf32 lets lines pass that are shorter than their         *)
(* samples, and of a frame without bytes to spare the last line is read    *)
(* past its end.                                                           *)
NpyReadsWithin(f) ==
  hasSf32(f) /\ f.size = f.bytes_per_line * f.height =>
    ((\A i \in DOMAIN stackImageNpy(f) : stackImageNpy(f)[i] < f.size)
       <=> 4 * f.width < Uint32)

(* Every tile has a cell of its own, no row is empty, and the grid is      *)
(* never higher than wide.                                                 *)
GridHoldsAll(count) ==
  LET d == gridDimensions(count)
  IN  d[1] * d[2] >= count /\ (d[2] - 1) * d[1] < count /\ d[1] >= d[2]
=============================================================================
