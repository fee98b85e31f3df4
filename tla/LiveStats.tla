------------------------------ MODULE LiveStats ------------------------------
(***************************************************************************)
(* The server-side cadence of data/CameraStore.cpp: publishFrame keeps the *)
(* last per-frame durations of a camera, recovered from the hardware       *)
(* timestamps, and shows their average as the server's fps, once a second  *)
(* (left out, as is the client's own fps, a count over wall time).         *)
(*                                                                         *)
(* A frame has an id, counted from 1 on every start of the server, and a   *)
(* timestamp ts, 0 when there is none.                                     *)
(***************************************************************************)
EXTENDS Integers, Sequences

CONSTANTS
  Window,    \* durations kept (10 in the code)
  Cadence,   \* external: microseconds from one frame of the sensor to the next
  TsWidth    \* timestamps have TsWidth values (2^64 in the code)

ASSUME StatsAssumption ==
  Window \in Nat \ {0} /\ Cadence \in Nat \ {0} /\ TsWidth \in Nat /\ Cadence < TsWidth

VARIABLES
  stats,    \* CameraLiveStats: [durations, last_ts, last_id]
  origin    \* [start, run]: the start of the server the last frame came from,
            \* and how many durations in a row (up to Window) lie within one

statsVars == <<stats, origin>>

(* The duration a frame adds: the unsigned difference to the last          *)
(* timestamp over the gap in frame ids, or fdur, what the server claims,   *)
(* from a server without timestamps; 0 is none.                            *)
durationUngapped(f) ==
  IF f.ts > 0 /\ stats.last_ts > 0 /\ f.id > stats.last_id
  THEN (f.ts - stats.last_ts) % TsWidth
  ELSE IF f.ts = 0 THEN f.fdur ELSE 0
durationOf(f) ==
  LET gap == f.id - stats.last_id
  IN  IF f.ts > 0 /\ stats.last_ts > 0 /\ stats.last_id >= 0
      THEN IF gap > 0 THEN ((f.ts - stats.last_ts) % TsWidth) \div gap ELSE 0
      ELSE IF f.ts = 0 THEN f.fdur ELSE 0

lastOf(s) == IF Len(s) > Window THEN Tail(s) ELSE s

(* A frame f that comes from the start-th start of the server.             *)
updateStats(f, start) ==
  LET d == durationOf(f)
  IN  /\ stats' = [durations |-> IF d > 0 THEN lastOf(Append(stats.durations, d))
                                ELSE stats.durations,
                   last_ts |-> IF f.ts > 0 THEN f.ts ELSE stats.last_ts,
                   last_id |-> f.id]
      /\ origin' = IF start # origin.start THEN [start |-> start, run |-> 0]
                   ELSE IF d > 0 /\ origin.run < Window THEN [origin EXCEPT !.run = @ + 1]
                   ELSE origin

StatsInit ==
  /\ stats = [durations |-> <<>>, last_ts |-> 0, last_id |-> -1]
  /\ origin = [start |-> 1, run |-> Window]

(* "Recover the true per-frame duration ..., normalized by the frame-id    *)
(* gap so frames dropped under backpressure don't skew the cadence"        *)
(* (CameraStore.cpp:127-129): however many frames were lost, the durations *)
(* are the sensor's, and a wrong one, recorded when the server came back   *)
(* with a greater frame id, has left the window after Window frames.       *)
CadenceRecovers ==
  origin.run = Window => \A i \in DOMAIN stats.durations : stats.durations[i] = Cadence
=============================================================================
