------------------------- MODULE CameraTile_proofs --------------------------
(***************************************************************************)
(* Proofs about a tile of the grid (CameraTile) and the cadence of its     *)
(* camera (LiveStats), for any number of frames, captures and reconnects,  *)
(* every length of the FoM curve and every window of durations; and about *)
(* the functions on images and grids (StackImage), for every size.         *)
(***************************************************************************)
EXTENDS CameraTile, StackImage, SequenceTheorems, FiniteSetTheorems,
        WellFoundedInduction, TLAPS

(* Remainders and quotients by a variable number.                          *)
LEMMA ModOnce ==
  ASSUME NEW k \in Nat \ {0}, NEW a \in 0..(2 * k - 1)
  PROVE  a % k = IF a < k THEN a ELSE a - k
OBVIOUS

LEMMA DivOfProduct ==
  ASSUME NEW g \in Nat \ {0}, NEW c \in Nat
  PROVE  (g * c) \div g = c
OBVIOUS

LEMMA ModSmall ==
  ASSUME NEW w \in Nat, NEW a \in Nat, a < w
  PROVE  a % w = a
OBVIOUS

LEMMA ProductMonotonic ==
  ASSUME NEW a \in Nat, NEW b \in Nat, NEW c \in Nat, a <= b
  PROVE  a * c <= b * c
OBVIOUS

-----------------------------------------------------------------------------
(* The ring of FoM values, against the values in the order they came.      *)
Oldest(head, fed) == IF Len(fed) < KFom THEN 0 ELSE head

RingOf(hist, head, fed) ==
  /\ hist \in [0..(KFom - 1) -> Int] /\ head \in 0..(KFom - 1)
  /\ fed \in Seq(Int) /\ Len(fed) <= KFom
  /\ Len(fed) < KFom => head = Len(fed)
  /\ \A i \in 1..Len(fed) : fed[i] = hist[(Oldest(head, fed) + i - 1) % KFom]

LEMMA RingPush ==
  ASSUME NEW hist, NEW head, NEW fed, RingOf(hist, head, fed), NEW x \in Int
  PROVE  RingOf([hist EXCEPT ![head] = x], (head + 1) % KFom,
                IF Len(fed) < KFom THEN Append(fed, x) ELSE Append(Tail(fed), x))
<1>. DEFINE h == [hist EXCEPT ![head] = x]
            n == (head + 1) % KFom
<1>0. KFom \in Nat \ {0}
  BY TileAssumption
<1>1. /\ hist \in [0..(KFom - 1) -> Int] /\ head \in 0..(KFom - 1) /\ fed \in Seq(Int)
      /\ Len(fed) \in Nat /\ Len(fed) <= KFom
      /\ Len(fed) < KFom => head = Len(fed)
      /\ \A i \in 1..Len(fed) : fed[i] = hist[(Oldest(head, fed) + i - 1) % KFom]
  BY LenProperties DEF RingOf
<1>2. /\ h \in [0..(KFom - 1) -> Int] /\ h[head] = x
      /\ \A j \in 0..(KFom - 1) : j # head => h[j] = hist[j]
  BY <1>1
<1>3. n = (IF head + 1 < KFom THEN head + 1 ELSE 0) /\ n \in 0..(KFom - 1)
  <2>. DEFINE a == head + 1
  <2>1. a \in 0..(2 * KFom - 1) /\ a <= KFom /\ a \in Nat
    BY <1>0, <1>1
  <2>. HIDE DEF a
  <2>2. a % KFom = IF a < KFom THEN a ELSE a - KFom
    BY <1>0, <2>1, ModOnce
  <2>3. a % KFom = (IF a < KFom THEN a ELSE 0) /\ a % KFom \in 0..(KFom - 1)
    BY <1>0, <2>1, <2>2
  <2>4. QED
    BY <2>3 DEF a
<1>. HIDE DEF h, n
<1>4. CASE Len(fed) < KFom
  <2>. DEFINE q == Append(fed, x)
  <2>1. /\ q \in Seq(Int) /\ Len(q) = Len(fed) + 1 /\ q[Len(fed) + 1] = x
        /\ \A i \in 1..Len(fed) : q[i] = fed[i]
    BY <1>1, AppendProperties
  <2>. HIDE DEF q
  <2>2. Len(q) < KFom => n = Len(q)
    BY <1>1, <1>3, <1>4, <2>1
  <2>3. Oldest(n, q) = 0 /\ Oldest(head, fed) = 0
    BY <1>0, <1>1, <1>3, <1>4, <2>1 DEF Oldest
  <2>4. ASSUME NEW i \in 1..Len(q)
        PROVE  q[i] = h[(Oldest(n, q) + i - 1) % KFom]
    <3>. DEFINE a == i - 1
    <3>a. i \in Nat /\ a \in 0..(KFom - 1) /\ 0 + i - 1 = a /\ a \in Nat /\ a < KFom
      BY <1>0, <1>1, <1>4, <2>1
    <3>b. a % KFom = a
      <4>. HIDE DEF a
      <4>1. QED
        BY <1>0, <3>a, ModSmall
    <3>1. i \in Nat /\ i - 1 \in 0..(KFom - 1) /\ 0 + i - 1 = i - 1 /\ (i - 1) % KFom = i - 1
      BY <3>a, <3>b
    <3>2. CASE i = Len(fed) + 1
      BY <1>1, <1>2, <1>4, <2>1, <2>3, <3>1, <3>2
    <3>3. CASE i # Len(fed) + 1
      <4>1. i \in 1..Len(fed) /\ i - 1 # head
        BY <1>1, <1>4, <2>1, <3>3
      <4>2. fed[i] = hist[i - 1]
        BY <1>1, <2>3, <3>1, <4>1
      <4>3. QED
        BY <1>2, <2>1, <2>3, <3>1, <4>1, <4>2
    <3>4. QED
      BY <3>2, <3>3
  <2>5. RingOf(h, n, q)
    BY <1>0, <1>1, <1>2, <1>3, <1>4, <2>1, <2>2, <2>4 DEF RingOf
  <2>6. QED
    BY <1>4, <2>5 DEF h, n, q
<1>5. CASE ~(Len(fed) < KFom)
  <2>. DEFINE t == Tail(fed)
              q == Append(t, x)
  <2>1. Len(fed) = KFom /\ fed # <<>>
    BY <1>0, <1>1, <1>5, EmptySeq
  <2>2. /\ t \in Seq(Int) /\ Len(t) = KFom - 1
        /\ \A i \in 1..(KFom - 1) : t[i] = fed[i + 1]
    BY <1>1, <2>1, HeadTailProperties
  <2>. HIDE DEF t
  <2>3. /\ q \in Seq(Int) /\ Len(q) = KFom /\ q[KFom] = x
        /\ \A i \in 1..(KFom - 1) : q[i] = t[i]
    <3>1. /\ q \in Seq(Int) /\ Len(q) = Len(t) + 1 /\ q[Len(t) + 1] = x
          /\ \A i \in 1..Len(t) : q[i] = t[i]
      BY <2>2, AppendProperties
    <3>2. Len(t) + 1 = KFom
      BY <1>0, <2>2
    <3>3. QED
      BY <2>2, <3>1, <3>2
  <2>. HIDE DEF q
  <2>4. Oldest(n, q) = n /\ Oldest(head, fed) = head
    BY <1>0, <2>1, <2>3 DEF Oldest
  <2>5. ASSUME NEW i \in 1..Len(q)
        PROVE  q[i] = h[(Oldest(n, q) + i - 1) % KFom]
    <3>. DEFINE a == n + i - 1
                b == head + i
    <3>1. /\ i \in 1..KFom /\ a \in 0..(2 * KFom - 1) /\ b \in 0..(2 * KFom - 1)
          /\ b = head + i /\ a = n + i - 1 /\ Oldest(n, q) + i - 1 = a
          /\ head + (i + 1) - 1 = b
      <4>1. i \in 1..KFom /\ n \in 0..(KFom - 1) /\ head \in 0..(KFom - 1) /\ KFom \in Nat
        BY <1>0, <1>1, <1>3, <2>3
      <4>2. /\ n + i - 1 \in 0..(2 * KFom - 1) /\ head + i \in 0..(2 * KFom - 1)
            /\ head + (i + 1) - 1 = head + i
        BY <4>1
      <4>3. QED
        BY <2>4, <4>1, <4>2
    <3>. HIDE DEF a, b
    <3>2. /\ a % KFom = IF a < KFom THEN a ELSE a - KFom
          /\ b % KFom = IF b < KFom THEN b ELSE b - KFom
      BY <1>0, <3>1, ModOnce
    <3>3. CASE i = KFom
      <4>1. a % KFom = head
        BY <1>0, <1>1, <1>3, <3>1, <3>2, <3>3
      <4>2. QED
        BY <1>2, <2>3, <3>1, <3>3, <4>1
    <3>4. CASE i # KFom
      <4>1. i \in 1..(KFom - 1) /\ i + 1 \in 1..Len(fed)
        BY <1>0, <2>1, <3>1, <3>4
      <4>2. q[i] = fed[i + 1]
        BY <2>2, <2>3, <4>1
      <4>3. fed[i + 1] = hist[b % KFom]
        BY <1>1, <2>4, <3>1, <4>1
      <4>4. a % KFom = b % KFom /\ b % KFom # head /\ b % KFom \in 0..(KFom - 1)
        <5>. DEFINE am == a % KFom
                    bm == b % KFom
        <5>1. am = (IF a < KFom THEN a ELSE a - KFom) /\ bm = (IF b < KFom THEN b ELSE b - KFom)
          BY <3>2
        <5>. HIDE DEF am, bm
        <5>2. am = bm /\ bm # head /\ bm \in 0..(KFom - 1)
          <6>1. KFom \in Nat \ {0} /\ head \in 0..(KFom - 1) /\ i \in 1..(KFom - 1)
                /\ a = n + i - 1 /\ b = head + i
            BY <1>0, <1>1, <3>1, <4>1
          <6>2. CASE head + 1 < KFom
            <7>1. n = head + 1
              BY <1>3, <6>2
            <7>2. QED
              BY <5>1, <6>1, <6>2, <7>1
          <6>3. CASE ~(head + 1 < KFom)
            <7>1. n = 0
              BY <1>3, <6>3
            <7>2. QED
              BY <5>1, <6>1, <6>3, <7>1
          <6>4. QED
            BY <6>2, <6>3
        <5>3. QED
          BY <5>2 DEF am, bm
      <4>5. QED
        BY <1>2, <3>1, <4>2, <4>3, <4>4
    <3>5. QED
      BY <3>3, <3>4
  <2>6. RingOf(h, n, q)
    BY <1>0, <1>2, <1>3, <2>3, <2>5 DEF RingOf
  <2>7. QED
    BY <1>5, <2>6 DEF h, n, q, t
<1>6. QED
  BY <1>4, <1>5

-----------------------------------------------------------------------------
(* The types of what a tile reads and keeps.                               *)
Image     == {<<>>} \cup ({"live", "capture"} \X Nat)
LiveFrame == [n : Nat, id : Int, ts : Int, fdur : Int, header_only : BOOLEAN, focus_fom : Int]
Still     == [seq : Nat, pixels : {"image", "none", "short"}]
View      == [open : {TRUE}, seen_seq : Nat, n : Nat, header_only : BOOLEAN,
              fbo_content : {"None", "Live", "Capture"}, of : Image, capture_seq_shown : Nat,
              fom_hist : [0..(KFom - 1) -> Int], fom_len : Nat, fom_head : Nat, fed : Seq(Int)]

LEMMA ImageTypes ==
  /\ <<>> \in Image
  /\ \A n \in Nat : <<"live", n>> \in Image /\ <<"capture", n>> \in Image
BY DEF Image

TileTypeInv ==
  /\ server \in [start : Nat, id : Nat, ts : Nat, back : Nat, stamps : BOOLEAN]
  /\ slot = NoSlot \/ slot \in [frame : LiveFrame, seq : Nat]
  /\ capture \in Still /\ capture_seq \in Nat /\ frames \in Nat
  /\ gl \in [pc : {"idle", "capture", "live", "draw"}, capture_view : BOOLEAN, cap : Still]
  /\ view = Closed \/ view \in View
  /\ view = Closed => gl.pc = "idle"

(* What the FBO holds, as far as the tile relies on it, and the ring.      *)
Faithful(v) ==
  /\ v.fbo_content = "Capture" => v.of = <<"capture", v.capture_seq_shown>>
  /\ v.fbo_content = "Live" /\ ~v.header_only => v.of = <<"live", v.n>>
  /\ RingOf(v.fom_hist, v.fom_head, v.fed) /\ v.fom_len = Len(v.fed)

(* From the upload of the capture on, the FBO holds the still.             *)
StillHeld ==
  gl.pc \in {"live", "draw"} /\ gl.capture_view /\ gl.cap.pixels = "image"
    => view.fbo_content = "Capture" /\ view.capture_seq_shown = gl.cap.seq

Shown ==
  /\ OverlayBelongsToTheImage
  /\ screen.curve # <<>> => gl.pc = "idle" /\ view # Closed /\ screen.curve = view.fed

TileInv ==
  /\ TileTypeInv
  /\ view # Closed => Faithful(view)
  /\ StillHeld
  /\ Shown

LEMMA ClosedIsNoView == \A v \in View : v # Closed /\ v.open /\ ~Closed.open
<1>1. Closed.open = FALSE
  BY DEF Closed
<1>2. ASSUME NEW v \in View
      PROVE  v.open = TRUE
  BY DEF View
<1>3. QED
  BY <1>1, <1>2

LEMMA NewViewFaithful == NewView \in View /\ Faithful(NewView)
<1>. DEFINE hist == [i \in 0..(KFom - 1) |-> 0]
<1>0. KFom \in Nat \ {0}
  BY TileAssumption
<1>1. /\ hist \in [0..(KFom - 1) -> Int] /\ <<>> \in Seq(Int) /\ Len(<<>>) = 0
  BY <1>0
<1>. HIDE DEF hist
<1>2. NewView = [open |-> TRUE, seen_seq |-> 0, n |-> 0, header_only |-> FALSE,
                 fbo_content |-> "None", of |-> <<>>, capture_seq_shown |-> 0,
                 fom_hist |-> hist, fom_len |-> 0, fom_head |-> 0, fed |-> <<>>]
  BY DEF NewView, hist
<1>3. NewView \in View
  BY <1>1, <1>2, ImageTypes DEF View
<1>4. RingOf(hist, 0, <<>>)
  BY <1>0, <1>1 DEF RingOf
<1>5. QED
  BY <1>1, <1>2, <1>3, <1>4 DEF Faithful

LEMMA TileInvInit == Init => TileInv
<1> SUFFICES ASSUME Init PROVE TileInv
  OBVIOUS
<1>1. server \in [start : Nat, id : Nat, ts : Nat, back : Nat, stamps : BOOLEAN]
  BY DEF Init
<1>2. None \in Still /\ Idle.pc = "idle"
      /\ Idle \in [pc : {"idle", "capture", "live", "draw"}, capture_view : BOOLEAN, cap : Still]
  BY DEF None, Still, Idle
<1>3. Nothing.kind = "none" /\ Nothing.curve = <<>>
  BY DEF Nothing
<1>4. TileTypeInv
  BY <1>1, <1>2 DEF Init, TileTypeInv
<1>5. StillHeld /\ Shown
  BY <1>2, <1>3 DEF Init, StillHeld, Shown, OverlayBelongsToTheImage
<1>6. QED
  BY <1>4, <1>5 DEF Init, TileInv

(* The network thread leaves the tile alone.                               *)
LEMMA StoreKeeps ==
  ASSUME TileInv, UNCHANGED <<view, gl, screen>>,
         server' \in [start : Nat, id : Nat, ts : Nat, back : Nat, stamps : BOOLEAN],
         slot' = NoSlot \/ slot' \in [frame : LiveFrame, seq : Nat],
         capture' \in Still, capture_seq' \in Nat, frames' \in Nat
  PROVE  TileInv'
BY DEF TileInv, TileTypeInv, Faithful, StillHeld, Shown, OverlayBelongsToTheImage

LEMMA PublishFrameKeeps ==
  ASSUME TileInv, NEW skip \in 0..MaxSkip, NEW header_only \in BOOLEAN, NEW has_fom \in BOOLEAN,
         publishFrame(skip, header_only, has_fom)
  PROVE  TileInv'
<1>. DEFINE id == server.id + skip + 1
            ts == server.ts + (skip + 1) * Cadence
            stamp == IF server.stamps THEN ts ELSE 0
            fom == IF has_fom THEN frames + 1 ELSE -1
            f  == [n |-> frames + 1, id |-> id, ts |-> stamp,
                   fdur |-> Cadence, header_only |-> header_only, focus_fom |-> fom]
<1>1. /\ server' = [server EXCEPT !.id = id, !.ts = ts]
      /\ slot' = [frame |-> f, seq |-> slot.seq + 1]
      /\ frames' = frames + 1
      /\ UNCHANGED <<capture, capture_seq, view, gl, screen>>
  BY DEF publishFrame
<1>2. /\ server \in [start : Nat, id : Nat, ts : Nat, back : Nat, stamps : BOOLEAN]
      /\ frames \in Nat /\ capture \in Still /\ capture_seq \in Nat
  BY DEF TileInv, TileTypeInv
<1>3. slot.seq \in Nat
  BY DEF TileInv, TileTypeInv, NoSlot
<1>4. id \in Nat /\ ts \in Nat /\ fom \in Int /\ Cadence \in Int /\ frames + 1 \in Nat
      /\ slot.seq + 1 \in Nat
  <2>1. skip \in Nat /\ Cadence \in Nat /\ server.id \in Nat /\ server.ts \in Nat
    BY <1>2, TileAssumption, StatsAssumption
  <2>2. (skip + 1) * Cadence \in Nat
    BY <2>1
  <2>3. QED
    BY <1>2, <1>3, <2>1, <2>2
<1>. HIDE DEF id, ts, fom
<1>5. stamp \in Int
  BY <1>4
<1>. HIDE DEF stamp
<1>6. f \in LiveFrame
  BY <1>4, <1>5 DEF LiveFrame
<1>. HIDE DEF f
<1>7. slot' \in [frame : LiveFrame, seq : Nat]
  BY <1>1, <1>4, <1>6
<1>8. server' \in [start : Nat, id : Nat, ts : Nat, back : Nat, stamps : BOOLEAN]
  BY <1>1, <1>2, <1>4
<1>9. QED
  BY <1>1, <1>2, <1>4, <1>7, <1>8, StoreKeeps

LEMMA CaptureAndRediscoverKeep ==
  ASSUME TileInv,
         \/ \E pixels \in {"image", "none", "short"} : publishCapture(pixels)
         \/ rediscover
  PROVE  TileInv'
<1>1. /\ server \in [start : Nat, id : Nat, ts : Nat, back : Nat, stamps : BOOLEAN]
      /\ frames \in Nat /\ capture \in Still /\ capture_seq \in Nat
      /\ slot = NoSlot \/ slot \in [frame : LiveFrame, seq : Nat]
  BY DEF TileInv, TileTypeInv
<1>2. ASSUME NEW pixels \in {"image", "none", "short"}, publishCapture(pixels)
      PROVE  TileInv'
  <2>1. capture' \in Still /\ capture_seq' \in Nat
        /\ UNCHANGED <<server, slot, frames, view, gl, screen>>
    BY <1>1, <1>2 DEF publishCapture, Still, statsVars
  <2>2. QED
    BY <1>1, <2>1, StoreKeeps
<1>3. CASE rediscover
  <2>1. PICK v \in {server, Restarted(server), Rebooted(server)} :
          server' = [v EXCEPT !.back = @ + 1]
    BY <1>3 DEF rediscover
  <2>2. Cadence \in Nat
    BY StatsAssumption
  <2>3. v \in [start : Nat, id : Nat, ts : Nat, back : Nat, stamps : BOOLEAN]
    <3>1. server.start + 1 \in Nat /\ server.ts + 3 * Cadence \in Nat
      BY <1>1, <2>2
    <3>2. Restarted(server) \in [start : Nat, id : Nat, ts : Nat, back : Nat, stamps : BOOLEAN]
      BY <1>1, <3>1 DEF Restarted
    <3>3. Rebooted(server) \in [start : Nat, id : Nat, ts : Nat, back : Nat, stamps : BOOLEAN]
      BY <1>1, <3>1 DEF Rebooted
    <3>4. QED
      BY <1>1, <3>2, <3>3
  <2>4. server' \in [start : Nat, id : Nat, ts : Nat, back : Nat, stamps : BOOLEAN]
    BY <2>1, <2>3
  <2>5. None \in Still
    BY DEF None, Still
  <2>6. /\ slot' = NoSlot /\ capture' = None
        /\ UNCHANGED <<capture_seq, frames, view, gl, screen>>
    BY <1>3 DEF rediscover
  <2>7. QED
    BY <1>1, <2>4, <2>5, <2>6, StoreKeeps
<1>4. QED
  BY <1>2, <1>3

-----------------------------------------------------------------------------
(* The GL thread.                                                          *)
GlType == [pc : {"idle", "capture", "live", "draw"}, capture_view : BOOLEAN, cap : Still]

LEMMA SyncKeeps ==
  ASSUME TileInv, NEW streaming \in BOOLEAN, NEW capture_view \in BOOLEAN,
         sync(streaming, capture_view)
  PROVE  TileInv'
<1>1. /\ gl.pc = "idle" /\ screen' = Nothing /\ UNCHANGED storeVars
      /\ view' = IF ~streaming THEN Closed ELSE IF view.open THEN view ELSE NewView
      /\ gl' = IF streaming
               THEN [Idle EXCEPT !.pc = "capture", !.capture_view = capture_view]
               ELSE Idle
  BY DEF sync
<1>2. None \in Still /\ Idle \in GlType /\ Idle.pc = "idle"
  BY DEF None, Still, Idle, GlType
<1>3. gl' \in GlType /\ gl'.pc \in {"idle", "capture"} /\ (~streaming => gl'.pc = "idle")
      /\ (streaming => gl'.pc = "capture")
  BY <1>1, <1>2 DEF GlType
<1>4. Nothing.kind = "none" /\ Nothing.curve = <<>>
  BY DEF Nothing
<1>5. view = Closed \/ (view \in View /\ Faithful(view))
  BY DEF TileInv, TileTypeInv
<1>6. \/ ~streaming /\ view' = Closed
      \/ streaming /\ view' \in View /\ Faithful(view')
  BY <1>1, <1>5, ClosedIsNoView, NewViewFaithful
<1>7. view' # Closed => Faithful(view)'
  BY <1>6 DEF Faithful
<1>8. TileTypeInv'
  <2>1. /\ server' = server /\ slot' = slot /\ capture' = capture
        /\ capture_seq' = capture_seq /\ frames' = frames
    BY <1>1 DEF storeVars
  <2>2. view' = Closed => gl'.pc = "idle"
    BY <1>3, <1>6, ClosedIsNoView
  <2>3. QED
    BY <1>3, <1>6, <2>1, <2>2 DEF TileInv, TileTypeInv, GlType
<1>9. StillHeld' /\ Shown'
  BY <1>1, <1>3, <1>4 DEF StillHeld, Shown, OverlayBelongsToTheImage
<1>10. QED
  BY <1>7, <1>8, <1>9 DEF TileInv

LEMMA UploadCaptureKeeps ==
  ASSUME TileInv, uploadCapture
  PROVE  TileInv'
<1>1. /\ gl.pc = "capture" /\ UNCHANGED <<storeVars, screen>>
      /\ gl' = [gl EXCEPT !.pc = "live", !.cap = capture]
  BY DEF uploadCapture
<1>2. /\ server' = server /\ slot' = slot /\ capture' = capture
      /\ capture_seq' = capture_seq /\ frames' = frames /\ screen' = screen
  BY <1>1 DEF storeVars
<1>3. gl \in GlType /\ capture \in Still
  BY DEF TileInv, TileTypeInv, GlType
<1>4. gl' \in GlType /\ gl'.pc = "live" /\ gl'.cap = capture /\ gl'.capture_view = gl.capture_view
  BY <1>1, <1>3 DEF GlType
<1>5. view \in View /\ Faithful(view) /\ view # Closed
  BY <1>1, ClosedIsNoView DEF TileInv, TileTypeInv
<1>6. /\ view' \in View /\ Faithful(view')
      /\ gl.capture_view /\ capture.pixels = "image"
           => view'.fbo_content = "Capture" /\ view'.capture_seq_shown = capture.seq
  <2>1. CASE shows(capture) /\ ~inFbo(capture) /\ capture.pixels = "image"
    <3>. DEFINE im == <<"capture", capture.seq>>
    <3>1. im \in Image /\ capture.seq \in Nat
      BY <1>3, ImageTypes DEF Still
    <3>2. view' = [view EXCEPT !.fbo_content = "Capture", !.of = im,
                               !.capture_seq_shown = capture.seq]
      BY <2>1 DEF uploadCapture
    <3>3. im = <<"capture", capture.seq>>
      OBVIOUS
    <3>. HIDE DEF im
    <3>4. view' \in View
      BY <1>5, <3>1, <3>2 DEF View
    <3>5. /\ view'.fbo_content = "Capture" /\ view'.of = im
          /\ view'.capture_seq_shown = capture.seq /\ view'.fom_hist = view.fom_hist
          /\ view'.fom_head = view.fom_head /\ view'.fom_len = view.fom_len
          /\ view'.fed = view.fed
      BY <1>5, <3>2 DEF View
    <3>6. QED
      BY <1>5, <3>3, <3>4, <3>5 DEF Faithful
  <2>2. CASE ~(shows(capture) /\ ~inFbo(capture) /\ capture.pixels = "image")
    <3>1. view' = view
      BY <2>2 DEF uploadCapture
    <3>2. QED
      BY <1>5, <2>2, <3>1 DEF shows, inFbo
  <2>3. QED
    BY <2>1, <2>2
<1>7. StillHeld'
  BY <1>4, <1>6 DEF StillHeld
<1>8. Shown'
  BY <1>1, <1>2 DEF TileInv, Shown, OverlayBelongsToTheImage
<1>9. TileTypeInv'
  BY <1>2, <1>4, <1>6, ClosedIsNoView DEF TileInv, TileTypeInv, GlType
<1>10. QED
  BY <1>6, <1>7, <1>8, <1>9 DEF TileInv, Faithful

(* A FoM value is added to the ring; nothing else of the view changes.     *)
LEMMA FomPushedKeeps ==
  ASSUME NEW v \in View, Faithful(v), NEW f \in LiveFrame
  PROVE  /\ fomPushed(v, f) \in View /\ Faithful(fomPushed(v, f))
         /\ fomPushed(v, f).fbo_content = v.fbo_content /\ fomPushed(v, f).of = v.of
         /\ fomPushed(v, f).capture_seq_shown = v.capture_seq_shown
<1>1. CASE f.focus_fom < 0
  BY <1>1 DEF fomPushed
<1>2. CASE ~(f.focus_fom < 0)
  <2>. DEFINE x == f.focus_fom
              h == [v.fom_hist EXCEPT ![v.fom_head] = x]
              n == (v.fom_head + 1) % KFom
              q == IF Len(v.fed) < KFom THEN Append(v.fed, x) ELSE Append(Tail(v.fed), x)
              l == IF v.fom_len < KFom THEN v.fom_len + 1 ELSE v.fom_len
              w == [v EXCEPT !.fom_hist = h, !.fom_head = n, !.fom_len = l, !.fed = q]
  <2>0. KFom \in Nat \ {0}
    BY TileAssumption
  <2>1. fomPushed(v, f) = w
    BY <1>2 DEF fomPushed
  <2>2. /\ x \in Int /\ RingOf(v.fom_hist, v.fom_head, v.fed) /\ v.fom_len = Len(v.fed)
        /\ v.fed \in Seq(Int) /\ Len(v.fed) \in Nat /\ Len(v.fed) <= KFom
    BY LenProperties DEF LiveFrame, Faithful, RingOf
  <2>3. RingOf(h, n, q)
    BY <2>2, RingPush
  <2>4. l = Len(q)
    <3>1. CASE Len(v.fed) < KFom
      BY <2>2, <3>1, AppendProperties
    <3>2. CASE ~(Len(v.fed) < KFom)
      <4>1. v.fed # <<>>
        BY <2>0, <2>2, <3>2, EmptySeq
      <4>2. Tail(v.fed) \in Seq(Int) /\ Len(Tail(v.fed)) = Len(v.fed) - 1
        BY <2>2, <4>1, HeadTailProperties
      <4>3. QED
        BY <2>0, <2>2, <3>2, <4>2, AppendProperties
    <3>3. QED
      BY <3>1, <3>2
  <2>5. /\ h \in [0..(KFom - 1) -> Int] /\ n \in Nat /\ q \in Seq(Int) /\ l \in Nat
    BY <2>0, <2>3, <2>4, LenProperties DEF RingOf
  <2>. HIDE DEF x, h, n, q, l
  <2>6. w \in View
    BY <2>5 DEF View
  <2>7. /\ w.fbo_content = v.fbo_content /\ w.of = v.of /\ w.n = v.n
        /\ w.header_only = v.header_only /\ w.capture_seq_shown = v.capture_seq_shown
        /\ w.fom_hist = h /\ w.fom_head = n /\ w.fom_len = l /\ w.fed = q
    BY DEF View
  <2>. HIDE DEF w
  <2>8. Faithful(w)
    BY <2>3, <2>4, <2>7 DEF Faithful
  <2>9. QED
    BY <2>1, <2>6, <2>7, <2>8
<1>3. QED
  BY <1>1, <1>2

LEMMA UploadLiveKeeps ==
  ASSUME TileInv, uploadLive
  PROVE  TileInv'
<1>1. /\ gl.pc = "live" /\ UNCHANGED <<storeVars, screen>> /\ gl' = [gl EXCEPT !.pc = "draw"]
  BY DEF uploadLive
<1>2. /\ server' = server /\ slot' = slot /\ capture' = capture
      /\ capture_seq' = capture_seq /\ frames' = frames /\ screen' = screen
  BY <1>1 DEF storeVars
<1>3. gl \in GlType /\ gl.cap \in Still
  BY DEF TileInv, TileTypeInv, GlType
<1>4. gl' \in GlType /\ gl'.pc = "draw" /\ gl'.cap = gl.cap /\ gl'.capture_view = gl.capture_view
  BY <1>1, <1>3 DEF GlType
<1>5. view \in View /\ Faithful(view) /\ view # Closed
  BY <1>1, ClosedIsNoView DEF TileInv, TileTypeInv
<1>6. gl.capture_view /\ gl.cap.pixels = "image"
        => view.fbo_content = "Capture" /\ view.capture_seq_shown = gl.cap.seq
  BY <1>1 DEF TileInv, StillHeld
<1>7. /\ view' \in View /\ Faithful(view')
      /\ gl.capture_view /\ gl.cap.pixels = "image"
           => view'.fbo_content = "Capture" /\ view'.capture_seq_shown = gl.cap.seq
  <2>1. CASE slot = NoSlot \/ slot.seq = view.seen_seq
    <3>1. view' = view
      BY <2>1 DEF uploadLive
    <3>2. QED
      BY <1>5, <1>6, <3>1
  <2>2. CASE ~(slot = NoSlot \/ slot.seq = view.seen_seq)
    <3>. DEFINE f == slot.frame
                p == fomPushed(view, f)
                v == [p EXCEPT !.seen_seq = slot.seq, !.n = f.n, !.header_only = f.header_only]
                im == <<"live", f.n>>
                l == [v EXCEPT !.fbo_content = "Live", !.of = im]
    <3>1. view' = IF keepsFbo(f) THEN v ELSE l
      BY <2>2 DEF uploadLive
    <3>2. f \in LiveFrame /\ slot.seq \in Nat
      BY <2>2 DEF TileInv, TileTypeInv
    <3>3. f.n \in Nat /\ f.header_only \in BOOLEAN /\ im \in Image
      BY <3>2, ImageTypes DEF LiveFrame
    <3>4. /\ p \in View /\ Faithful(p)
          /\ p.fbo_content = view.fbo_content /\ p.of = view.of
          /\ p.capture_seq_shown = view.capture_seq_shown
      BY <1>5, <3>2, FomPushedKeeps
    <3>5. im = <<"live", f.n>> /\ (keepsFbo(f) <=> f.header_only \/
                                     (shows(gl.cap) /\ view.fbo_content = "Capture"))
      BY DEF keepsFbo
    <3>. HIDE DEF f, p, im
    <3>6. v \in View
      BY <3>2, <3>3, <3>4 DEF View
    <3>7. /\ v.fbo_content = p.fbo_content /\ v.of = p.of /\ v.n = f.n
          /\ v.header_only = f.header_only /\ v.capture_seq_shown = p.capture_seq_shown
          /\ v.fom_hist = p.fom_hist /\ v.fom_head = p.fom_head /\ v.fom_len = p.fom_len
          /\ v.fed = p.fed
      BY <3>4 DEF View
    <3>. HIDE DEF v
    <3>8. l \in View
      BY <3>3, <3>6 DEF View
    <3>9. /\ l.fbo_content = "Live" /\ l.of = im /\ l.n = v.n /\ l.fom_hist = v.fom_hist
          /\ l.fom_head = v.fom_head /\ l.fom_len = v.fom_len /\ l.fed = v.fed
      BY <3>6 DEF View
    <3>. HIDE DEF l
    <3>10. CASE keepsFbo(f)
      <4>1. f.header_only \/ view.fbo_content = "Capture"
        BY <3>5, <3>10
      <4>2. Faithful(v)
        BY <3>4, <3>7, <4>1 DEF Faithful
      <4>3. QED
        BY <1>6, <3>1, <3>4, <3>6, <3>7, <3>10, <4>2
    <3>11. CASE ~keepsFbo(f)
      <4>1. Faithful(l)
        BY <3>4, <3>5, <3>7, <3>9 DEF Faithful
      <4>2. ~(gl.capture_view /\ gl.cap.pixels = "image")
        BY <1>6, <3>5, <3>11 DEF shows
      <4>3. QED
        BY <3>1, <3>8, <3>11, <4>1, <4>2
    <3>12. QED
      BY <3>10, <3>11
  <2>3. QED
    BY <2>1, <2>2
<1>8. StillHeld'
  BY <1>4, <1>7 DEF StillHeld
<1>9. Shown'
  BY <1>1, <1>2 DEF TileInv, Shown, OverlayBelongsToTheImage
<1>10. TileTypeInv'
  BY <1>2, <1>4, <1>7, ClosedIsNoView DEF TileInv, TileTypeInv, GlType
<1>11. QED
  BY <1>7, <1>8, <1>9, <1>10 DEF TileInv, Faithful

(* The curve as drawn is the ring read from its oldest value on.           *)
LEMMA CurveIsFed ==
  ASSUME view \in View, Faithful(view)
  PROVE  curve = view.fed
<1>1. /\ RingOf(view.fom_hist, view.fom_head, view.fed) /\ view.fom_len = Len(view.fed)
      /\ view.fed \in Seq(Int)
  BY DEF Faithful, RingOf
<1>2. oldest = Oldest(view.fom_head, view.fed)
  BY <1>1 DEF oldest, Oldest
<1>3. curve = [i \in 1..Len(view.fed) |-> view.fed[i]]
  BY <1>1, <1>2 DEF curve, RingOf
<1>4. view.fed = [i \in 1..Len(view.fed) |-> view.fed[i]]
  BY <1>1
<1>5. QED
  BY <1>3, <1>4

LEMMA DrawWindowKeeps ==
  ASSUME TileInv, drawWindow
  PROVE  TileInv'
<1>. DEFINE showing == gl.capture_view /\ capture # None /\ inFbo(capture)
            still == [kind |-> "image", pixels |-> view.of,
                      overlay |-> <<"capture", capture.seq>>, curve |-> <<>>]
            table == [kind |-> "table", pixels |-> <<>>, overlay |-> <<>>, curve |-> curve]
            live  == [kind |-> "image", pixels |-> view.of,
                      overlay |-> <<"live", view.n>>, curve |-> curve]
<1>1. /\ gl.pc = "draw" /\ gl' = Idle /\ UNCHANGED <<storeVars, view>>
      /\ screen' = IF showing THEN still ELSE IF noLiveImage THEN table ELSE live
  BY DEF drawWindow
<1>2. /\ server' = server /\ slot' = slot /\ capture' = capture /\ view' = view
      /\ capture_seq' = capture_seq /\ frames' = frames
  BY <1>1 DEF storeVars
<1>3. view \in View /\ Faithful(view) /\ view # Closed
  BY <1>1, ClosedIsNoView DEF TileInv, TileTypeInv
<1>4. curve = view.fed
  BY <1>3, CurveIsFed
<1>5. Idle \in GlType /\ Idle.pc = "idle"
  BY DEF None, Still, Idle, GlType
<1>6. Shown'
  <2>1. CASE showing
    BY <1>1, <1>2, <1>3, <2>1 DEF Shown, OverlayBelongsToTheImage, Faithful, inFbo
  <2>2. CASE ~showing /\ noLiveImage
    BY <1>1, <1>2, <1>3, <1>4, <1>5, <2>2 DEF Shown, OverlayBelongsToTheImage
  <2>3. CASE ~showing /\ ~noLiveImage
    <3>1. view.of = <<"live", view.n>>
      BY <1>3, <2>3 DEF Faithful, noLiveImage
    <3>2. QED
      BY <1>1, <1>2, <1>3, <1>4, <1>5, <2>3, <3>1 DEF Shown, OverlayBelongsToTheImage
  <2>4. QED
    BY <2>1, <2>2, <2>3
<1>7. TileTypeInv'
  BY <1>1, <1>2, <1>3, <1>5 DEF TileInv, TileTypeInv, GlType
<1>8. StillHeld'
  BY <1>1, <1>5 DEF StillHeld
<1>9. QED
  BY <1>2, <1>3, <1>6, <1>7, <1>8 DEF TileInv, Faithful

LEMMA TileInvStep ==
  ASSUME TileInv, [Next]_vars
  PROVE  TileInv'
<1>1. CASE UNCHANGED vars
  BY <1>1 DEF TileInv, TileTypeInv, Faithful, StillHeld, Shown, OverlayBelongsToTheImage,
              vars, storeVars
<1>2. CASE Next
  BY <1>2, PublishFrameKeeps, CaptureAndRediscoverKeep, SyncKeeps, UploadCaptureKeeps,
     UploadLiveKeeps, DrawWindowKeeps DEF Next, GlStep
<1>3. QED
  BY <1>1, <1>2

-----------------------------------------------------------------------------
(* What the window draws over an image belongs to that image, whatever the *)
(* network thread does between the upload of CameraView::uploadIfNew and   *)
(* CameraView::drawWindow.                                                 *)
THEOREM OverlayIsRight == Spec => []OverlayBelongsToTheImage
<1>1. TileInv => OverlayBelongsToTheImage
  BY DEF TileInv, Shown
<1>2. QED
  BY <1>1, TileInvInit, TileInvStep, PTL DEF Spec

(* The FoM curve shows the most recent values, oldest first, for every     *)
(* length of the ring.                                                     *)
THEOREM CurveIsRight == Spec => []CurveIsTheLastValues
<1>1. TileInv => CurveIsTheLastValues
  BY DEF TileInv, Shown, CurveIsTheLastValues
<1>2. QED
  BY <1>1, TileInvInit, TileInvStep, PTL DEF Spec

(* In capture view the tile draws the last capture, unless another arrives *)
(* while the frame is drawn: live frames never overwrite it.               *)
THEOREM StillStays == Spec => StillIsShown
<1>1. ASSUME TileInv, [Next]_vars, gl.pc = "draw", gl'.pc = "idle", gl.capture_view,
             gl.cap.pixels = "image", gl.cap = capture
      PROVE  screen'.overlay = <<"capture", capture.seq>>
  <2>1. gl \in GlType
    BY <1>1 DEF TileInv, TileTypeInv, GlType
  <2>2. drawWindow
    <3>1. \/ UNCHANGED gl
          \/ gl.pc \in {"idle", "capture", "live"}
          \/ drawWindow
      BY <1>1 DEF Next, GlStep, publishFrame, publishCapture, rediscover, sync, uploadCapture,
                  uploadLive, vars
    <3>2. QED
      BY <1>1, <3>1
  <2>3. inFbo(capture)
    BY <1>1 DEF TileInv, StillHeld, inFbo
  <2>4. capture # None
    BY <1>1 DEF None
  <2>5. QED
    BY <1>1, <2>2, <2>3, <2>4 DEF drawWindow
<1>2. QED
  BY <1>1, TileInvInit, TileInvStep, PTL DEF Spec, StillIsShown

-----------------------------------------------------------------------------
(* The cadence.  The last r durations of s are the sensor's.               *)
Regular(s, r) == \A i \in 1..Len(s) : i > Len(s) - r => s[i] = Cadence

LEMMA WindowPush ==
  ASSUME NEW s \in Seq(Int), Len(s) <= Window, NEW d \in Int
  PROVE  /\ lastOf(Append(s, d)) \in Seq(Int) /\ Len(lastOf(Append(s, d))) <= Window
         /\ \A r \in 0..Window : d = Cadence /\ Regular(s, r)
              => Regular(lastOf(Append(s, d)), IF r < Window THEN r + 1 ELSE r)
<1>. DEFINE a == Append(s, d)
            b == Tail(a)
<1>0. Window \in Nat \ {0} /\ Len(s) \in Nat
  BY StatsAssumption, LenProperties
<1>1. /\ a \in Seq(Int) /\ Len(a) = Len(s) + 1 /\ a[Len(s) + 1] = d
      /\ \A i \in 1..Len(s) : a[i] = s[i]
  BY AppendProperties
<1>2. a # <<>>
  BY <1>0, <1>1, EmptySeq
<1>. HIDE DEF a
<1>3. /\ b \in Seq(Int) /\ Len(b) = Len(s) /\ \A i \in 1..Len(s) : b[i] = a[i + 1]
  <2>1. /\ b \in Seq(Int) /\ Len(b) = Len(a) - 1 /\ \A i \in 1..Len(b) : b[i] = a[i + 1]
    BY <1>1, <1>2, HeadTailProperties
  <2>2. Len(b) = Len(s)
    BY <1>0, <1>1, <2>1
  <2>3. QED
    BY <2>1, <2>2
<1>. HIDE DEF b
<1>4. lastOf(a) = IF Len(s) + 1 > Window THEN b ELSE a
  BY <1>1 DEF lastOf, b
<1>5. lastOf(a) \in Seq(Int) /\ Len(lastOf(a)) <= Window
  BY <1>0, <1>1, <1>3, <1>4
<1>6. ASSUME NEW r \in 0..Window, d = Cadence, Regular(s, r)
      PROVE  Regular(lastOf(a), IF r < Window THEN r + 1 ELSE r)
  <2>. DEFINE q == IF r < Window THEN r + 1 ELSE r
  <2>1. q \in Nat /\ q <= r + 1 /\ r \in Nat
    BY <1>0
  <2>. HIDE DEF q
  <2>2. \A i \in 1..Len(s) : i > Len(s) - r => a[i] = Cadence
    BY <1>1, <1>6 DEF Regular
  <2>3. \A i \in 1..(Len(s) + 1) : i > Len(s) - r => a[i] = Cadence
    <3>1. SUFFICES ASSUME NEW i \in 1..(Len(s) + 1), i > Len(s) - r
                   PROVE  a[i] = Cadence
      OBVIOUS
    <3>2. i \in 1..Len(s) \/ i = Len(s) + 1
      BY <1>0
    <3>3. QED
      BY <1>1, <1>6, <2>2, <3>1, <3>2
  <2>4. Regular(a, q)
    <3>1. SUFFICES ASSUME NEW i \in 1..(Len(s) + 1), i > (Len(s) + 1) - q
                   PROVE  a[i] = Cadence
      BY <1>1 DEF Regular
    <3>2. i > Len(s) - r
      BY <1>0, <2>1, <3>1
    <3>3. QED
      BY <2>3, <3>2
  <2>5. Regular(b, q)
    <3>1. SUFFICES ASSUME NEW i \in 1..Len(s), i > Len(s) - q
                   PROVE  b[i] = Cadence
      BY <1>3 DEF Regular
    <3>2. i + 1 \in 1..(Len(s) + 1) /\ i + 1 > Len(s) - r
      BY <1>0, <2>1, <3>1
    <3>3. QED
      BY <1>3, <2>3, <3>2
  <2>6. Regular(lastOf(a), q)
    BY <1>4, <2>4, <2>5
  <2>7. QED
    BY <2>6 DEF q
<1>7. QED
  BY <1>5, <1>6 DEF a

(* Between frames of one start of the server, the last frame's id and      *)
(* timestamp are the ones the server is at.                                *)
Abreast ==
  \/ stats.last_id = -1 /\ stats.last_ts = 0
  \/ stats.last_id = server.id /\ (server.stamps => stats.last_ts = server.ts)

CadenceInv ==
  /\ server \in [start : Nat, id : Nat, ts : Nat, back : Nat, stamps : BOOLEAN]
  /\ stats \in [durations : Seq(Int), last_ts : Nat, last_id : Int]
  /\ origin \in [start : Nat, run : 0..Window]
  /\ server.ts > 0
  /\ Len(stats.durations) <= Window /\ Regular(stats.durations, origin.run)
  /\ origin.start <= server.start
  /\ origin.start = server.start => Abreast

LEMMA CadenceInvInit == Init => CadenceInv
<1> SUFFICES ASSUME Init PROVE CadenceInv
  OBVIOUS
<1>0. Window \in Nat \ {0}
  BY StatsAssumption
<1>1. /\ server \in [start : Nat, id : Nat, ts : Nat, back : Nat, stamps : BOOLEAN]
      /\ server.ts = 1 /\ server.start = 1
  BY DEF Init
<1>2. <<>> \in Seq(Int) /\ Len(<<>>) = 0
  OBVIOUS
<1>3. /\ stats = [durations |-> <<>>, last_ts |-> 0, last_id |-> -1]
      /\ origin = [start |-> 1, run |-> Window]
  BY DEF Init, StatsInit
<1>4. /\ stats \in [durations : Seq(Int), last_ts : Nat, last_id : Int]
      /\ origin \in [start : Nat, run : 0..Window]
  BY <1>0, <1>2, <1>3
<1>5. Regular(stats.durations, origin.run)
  BY <1>2, <1>3 DEF Regular
<1>6. Abreast
  BY <1>3 DEF Abreast
<1>7. QED
  BY <1>0, <1>1, <1>2, <1>3, <1>4, <1>5, <1>6 DEF CadenceInv

(* What a frame adds to the durations: the cadence, or nothing, as long as *)
(* the server was not started again since the last one.                    *)
LEMMA DurationIsTheCadence ==
  ASSUME CadenceInv, NEW skip \in 0..MaxSkip, NEW f,
         f.id = server.id + skip + 1, f.fdur = Cadence,
         f.ts = IF server.stamps THEN server.ts + (skip + 1) * Cadence ELSE 0
  PROVE  /\ durationOf(f) \in Int
         /\ origin.start = server.start => durationOf(f) \in {0, Cadence}
<1>. DEFINE g == skip + 1
            p == g * Cadence
            gap == f.id - stats.last_id
            dif == f.ts - stats.last_ts
<1>0. /\ Cadence \in Nat \ {0} /\ TsWidth \in Nat /\ MaxSkip \in Nat
      /\ (MaxSkip + 1) * Cadence < TsWidth /\ TsWidth > 0
  BY StatsAssumption, TileAssumption
<1>1. /\ server.id \in Nat /\ server.ts \in Nat /\ server.ts > 0 /\ server.stamps \in BOOLEAN
      /\ stats.last_ts \in Nat /\ stats.last_id \in Int
  BY DEF CadenceInv
<1>2. g \in Nat \ {0} /\ g <= MaxSkip + 1 /\ MaxSkip + 1 \in Nat /\ f.id = server.id + g
  BY <1>0, <1>1
<1>. HIDE DEF g
<1>3. p \in Nat /\ p <= (MaxSkip + 1) * Cadence /\ (MaxSkip + 1) * Cadence \in Nat
  BY <1>0, <1>2, ProductMonotonic
<1>4. p < TsWidth
  BY <1>0, <1>3
<1>5. f.ts = IF server.stamps THEN server.ts + p ELSE 0
  BY DEF g
<1>6. p \div g = Cadence
  BY <1>0, <1>2, DivOfProduct
<1>. HIDE DEF p
<1>7. p % TsWidth = p
  BY <1>0, <1>3, <1>4, ModSmall
<1>8. f.id \in Nat /\ f.ts \in Nat /\ gap \in Int /\ dif \in Int
  BY <1>1, <1>2, <1>3, <1>5
<1>9. durationOf(f) = IF f.ts > 0 /\ stats.last_ts > 0 /\ stats.last_id >= 0
                      THEN IF gap > 0 THEN (dif % TsWidth) \div gap ELSE 0
                      ELSE IF f.ts = 0 THEN Cadence ELSE 0
  BY DEF durationOf
<1>10. CASE f.ts > 0 /\ stats.last_ts > 0 /\ stats.last_id >= 0 /\ gap > 0
  <2>1. durationOf(f) = (dif % TsWidth) \div gap
    BY <1>9, <1>10
  <2>2. durationOf(f) \in Int
    <3>. HIDE DEF dif, gap
    <3>1. dif % TsWidth \in Int
      BY <1>0, <1>8
    <3>. DEFINE m == dif % TsWidth
    <3>. HIDE DEF m
    <3>2. m \in Int
      BY <3>1 DEF m
    <3>3. m \div gap \in Int
      BY <1>8, <1>10, <3>2
    <3>4. QED
      BY <2>1, <3>3 DEF m
  <2>3. ASSUME origin.start = server.start
        PROVE  durationOf(f) = Cadence
    <3>1. Abreast
      BY <2>3 DEF CadenceInv
    <3>2. server.stamps /\ stats.last_id = server.id /\ stats.last_ts = server.ts
      BY <1>5, <1>8, <1>10, <3>1 DEF Abreast
    <3>3. gap = g /\ dif = p
      BY <1>1, <1>2, <1>3, <1>5, <3>2
    <3>. HIDE DEF gap, dif
    <3>4. QED
      BY <1>6, <1>7, <2>1, <3>3
  <2>4. QED
    BY <2>2, <2>3
<1>11. CASE ~(f.ts > 0 /\ stats.last_ts > 0 /\ stats.last_id >= 0 /\ gap > 0)
  <2>1. durationOf(f) \in {0, Cadence}
    BY <1>9, <1>11
  <2>2. QED
    BY <1>0, <2>1
<1>12. QED
  BY <1>10, <1>11

LEMMA PublishFrameKeepsCadence ==
  ASSUME CadenceInv, NEW skip \in 0..MaxSkip, NEW header_only \in BOOLEAN,
         NEW has_fom \in BOOLEAN, publishFrame(skip, header_only, has_fom)
  PROVE  CadenceInv'
<1>. DEFINE id == server.id + skip + 1
            ts == server.ts + (skip + 1) * Cadence
            stamp == IF server.stamps THEN ts ELSE 0
            fom == IF has_fom THEN frames + 1 ELSE -1
            f  == [n |-> frames + 1, id |-> id, ts |-> stamp,
                   fdur |-> Cadence, header_only |-> header_only, focus_fom |-> fom]
            d == durationOf(f)
            kept == lastOf(Append(stats.durations, d))
<1>0. Window \in Nat \ {0} /\ Cadence \in Nat \ {0} /\ MaxSkip \in Nat
  BY StatsAssumption, TileAssumption
<1>1. /\ server \in [start : Nat, id : Nat, ts : Nat, back : Nat, stamps : BOOLEAN]
      /\ stats \in [durations : Seq(Int), last_ts : Nat, last_id : Int]
      /\ origin \in [start : Nat, run : 0..Window]
      /\ server.ts > 0 /\ Len(stats.durations) <= Window
      /\ Regular(stats.durations, origin.run) /\ origin.start <= server.start
      /\ origin.start = server.start => Abreast
  BY DEF CadenceInv
<1>2. id \in Nat /\ ts \in Nat /\ ts > 0
  <2>1. skip \in Nat /\ server.id \in Nat /\ server.ts \in Nat
    BY <1>0, <1>1
  <2>2. (skip + 1) * Cadence \in Nat
    BY <1>0, <2>1
  <2>3. QED
    BY <1>1, <2>1, <2>2
<1>3. server' = [server EXCEPT !.id = id, !.ts = ts] /\ updateStats(f, server.start)
  BY DEF publishFrame
<1>4. d \in Int /\ (origin.start = server.start => d \in {0, Cadence})
  <2>1. f.id = server.id + skip + 1 /\ f.fdur = Cadence
        /\ f.ts = IF server.stamps THEN server.ts + (skip + 1) * Cadence ELSE 0
    OBVIOUS
  <2>. HIDE DEF f
  <2>2. QED
    BY <2>1, DurationIsTheCadence
<1>5. /\ f.ts = stamp /\ f.id = id
      /\ stats' = [durations |-> IF d > 0 THEN kept ELSE stats.durations,
                   last_ts |-> IF f.ts > 0 THEN f.ts ELSE stats.last_ts,
                   last_id |-> f.id]
      /\ origin' = IF server.start # origin.start THEN [start |-> server.start, run |-> 0]
                   ELSE IF d > 0 /\ origin.run < Window THEN [origin EXCEPT !.run = @ + 1]
                   ELSE origin
  BY <1>3 DEF updateStats
<1>. HIDE DEF f, id, ts, d
<1>6. stamp \in Nat /\ (server.stamps => stamp = ts)
  BY <1>1, <1>2
<1>. HIDE DEF stamp
<1>7. /\ stats.durations \in Seq(Int) /\ stats.last_ts \in Nat /\ origin.run \in 0..Window
      /\ origin.start \in Nat /\ server.start \in Nat
  BY <1>1
<1>8. /\ kept \in Seq(Int) /\ Len(kept) <= Window
      /\ \A r \in 0..Window : d = Cadence /\ Regular(stats.durations, r)
           => Regular(kept, IF r < Window THEN r + 1 ELSE r)
  BY <1>1, <1>4, <1>7, WindowPush
<1>. HIDE DEF kept
<1>9. /\ server' \in [start : Nat, id : Nat, ts : Nat, back : Nat, stamps : BOOLEAN]
      /\ server'.ts = ts /\ server'.id = id /\ server'.start = server.start
      /\ server'.stamps = server.stamps
  BY <1>1, <1>2, <1>3
<1>10. stats' \in [durations : Seq(Int), last_ts : Nat, last_id : Int]
       /\ Len(stats'.durations) <= Window
       /\ stats'.durations = (IF d > 0 THEN kept ELSE stats.durations)
       /\ stats'.last_id = id
       /\ stats'.last_ts = (IF stamp > 0 THEN stamp ELSE stats.last_ts)
  BY <1>1, <1>2, <1>5, <1>6, <1>7, <1>8
<1>11. Abreast'
  BY <1>2, <1>6, <1>9, <1>10 DEF Abreast
<1>12. CASE server.start # origin.start
  <2>1. origin' = [start |-> server.start, run |-> 0]
    BY <1>5, <1>12
  <2>2. origin' \in [start : Nat, run : 0..Window] /\ origin'.run = 0
        /\ origin'.start = server.start
    BY <1>0, <1>7, <2>1
  <2>3. Regular(stats'.durations, 0)
    BY <1>10, LenProperties DEF Regular
  <2>4. QED
    BY <1>2, <1>7, <1>9, <1>10, <1>11, <2>2, <2>3 DEF CadenceInv, Regular
<1>13. CASE server.start = origin.start /\ d > 0
  <2>1. d = Cadence
    BY <1>0, <1>4, <1>13
  <2>. DEFINE r == IF origin.run < Window THEN origin.run + 1 ELSE origin.run
  <2>2. Regular(kept, r)
    BY <1>1, <1>7, <1>8, <2>1
  <2>3. origin' = IF origin.run < Window THEN [origin EXCEPT !.run = @ + 1] ELSE origin
    BY <1>5, <1>13
  <2>4. origin' \in [start : Nat, run : 0..Window] /\ origin'.run = r
        /\ origin'.start = server.start
    BY <1>0, <1>1, <1>7, <1>13, <2>3
  <2>. HIDE DEF r
  <2>5. stats'.durations = kept
    BY <1>10, <1>13
  <2>6. Regular(stats'.durations, origin'.run)
    BY <2>2, <2>4, <2>5
  <2>7. origin'.start <= server'.start
    BY <1>7, <1>9, <2>4
  <2>8. QED
    BY <1>2, <1>9, <1>10, <1>11, <2>4, <2>6, <2>7 DEF CadenceInv, Regular
<1>14. CASE server.start = origin.start /\ ~(d > 0)
  <2>1. origin' = origin /\ stats'.durations = stats.durations
    BY <1>5, <1>10, <1>14
  <2>2. Regular(stats'.durations, origin'.run) /\ origin' \in [start : Nat, run : 0..Window]
        /\ origin'.start = server'.start
    BY <1>1, <1>9, <1>14, <2>1
  <2>3. QED
    BY <1>2, <1>7, <1>9, <1>10, <1>11, <2>2 DEF CadenceInv, Regular
<1>15. QED
  BY <1>12, <1>13, <1>14

LEMMA CadenceInvStep ==
  ASSUME CadenceInv, [Next]_vars
  PROVE  CadenceInv'
<1>1. ASSUME UNCHANGED <<server, stats, origin>>
      PROVE  CadenceInv'
  BY <1>1 DEF CadenceInv, Abreast, Regular
<1>2. ASSUME rediscover
      PROVE  CadenceInv'
  <2>. DEFINE S == [start : Nat, id : Nat, ts : Nat, back : Nat, stamps : BOOLEAN]
  <2>0. Cadence \in Nat
    BY StatsAssumption
  <2>1. /\ server \in S /\ origin.start \in Nat /\ origin.start <= server.start
        /\ server.ts > 0 /\ (origin.start = server.start => Abreast)
    BY DEF CadenceInv
  <2>2. server.start + 1 \in Nat /\ server.ts + 3 * Cadence \in Nat
        /\ server.ts + 3 * Cadence > 0 /\ server.back + 1 \in Nat
    BY <2>0, <2>1
  <2>3. PICK v \in {server, Restarted(server), Rebooted(server)} :
          server' = [v EXCEPT !.back = @ + 1]
    BY <1>2 DEF rediscover
  <2>4. UNCHANGED <<stats, origin>>
    BY <1>2 DEF rediscover, statsVars
  <2>5. Restarted(server) \in S /\ Restarted(server).start = server.start + 1
        /\ Restarted(server).ts > 0
    BY <2>1, <2>2 DEF Restarted
  <2>6. Rebooted(server) \in S /\ Rebooted(server).start = server.start + 1
        /\ Rebooted(server).ts > 0
    <3>1. Rebooted(server) \in S
      BY <2>1, <2>2 DEF Rebooted
    <3>2. Rebooted(server).start = server.start + 1 /\ Rebooted(server).ts = 1
      BY <2>1 DEF Rebooted
    <3>3. QED
      BY <3>1, <3>2
  <2>7. v \in S /\ v.ts > 0 /\ (v = server \/ v.start = server.start + 1)
    BY <2>1, <2>3, <2>5, <2>6
  <2>8. /\ server' \in S /\ server'.ts = v.ts /\ server'.start = v.start
        /\ server'.id = v.id /\ server'.stamps = v.stamps
    BY <2>3, <2>7
  <2>9. origin.start <= server'.start /\ (origin.start = server'.start => v = server)
    BY <2>1, <2>7, <2>8
  <2>10. QED
    BY <2>1, <2>4, <2>7, <2>8, <2>9 DEF CadenceInv, Abreast, Regular
<1>3. \/ UNCHANGED <<server, stats, origin>>
      \/ \E skip \in 0..MaxSkip, header_only, has_fom \in BOOLEAN :
           publishFrame(skip, header_only, has_fom)
      \/ rediscover
  BY DEF Next, GlStep, publishCapture, sync, uploadCapture, uploadLive, drawWindow, vars,
         storeVars, statsVars
<1>4. QED
  BY <1>1, <1>2, <1>3, PublishFrameKeepsCadence

(* However many frames are lost and however often the server is started    *)
(* again, the durations of CameraStore::publishFrame are the sensor's once *)
(* Window of them come from one start: for every window, every cadence and *)
(* every loss that the width of the timestamps can bridge.                 *)
THEOREM CadenceIsRight == Spec => []CadenceRecovers
<1>1. CadenceInv => CadenceRecovers
  <2>1. SUFFICES ASSUME CadenceInv, origin.run = Window, NEW i \in DOMAIN stats.durations
                 PROVE  stats.durations[i] = Cadence
    BY DEF CadenceRecovers
  <2>2. /\ stats.durations \in Seq(Int) /\ Len(stats.durations) <= Window
        /\ Regular(stats.durations, Window) /\ Window \in Nat
    BY <2>1, StatsAssumption DEF CadenceInv
  <2>3. i \in 1..Len(stats.durations) /\ Len(stats.durations) \in Nat
    BY <2>2, LenProperties
  <2>4. i > Len(stats.durations) - Window
    BY <2>2, <2>3
  <2>5. QED
    BY <2>2, <2>3, <2>4 DEF Regular
<1>2. QED
  BY <1>1, CadenceInvInit, CadenceInvStep, PTL DEF Spec

-----------------------------------------------------------------------------
(* The functions on stacked images, and gridDimensions (StackImage), for   *)
(* images, tables and numbers of tiles of every size.                      *)

(* Division with a remainder.                                              *)
LEMMA DivIs ==
  ASSUME NEW d \in Nat \ {0}, NEW q \in Int, NEW r \in 0..(d - 1)
  PROVE  (q * d + r) \div d = q /\ (q * d + r) % d = r
OBVIOUS

LEMMA DivMod ==
  ASSUME NEW a \in Int, NEW d \in Nat \ {0}
  PROVE  a \div d \in Int /\ a % d \in 0..(d - 1) /\ a = (a \div d) * d + (a % d)
OBVIOUS

LEMMA DivMonotone ==
  ASSUME NEW a \in Int, NEW b \in Int, a <= b, NEW d \in Nat \ {0}
  PROVE  a \div d <= b \div d
OBVIOUS

(* Rows of d come one after the other.                                     *)
LEMMA RowsAreDisjoint ==
  ASSUME NEW y \in Nat, NEW h \in Nat, y < h, NEW d \in Nat
  PROVE  y * d \in Nat /\ h * d \in Nat /\ y * d + d <= h * d
<1>1. h = y + 1 + (h - y - 1) /\ h - y - 1 \in Nat
  OBVIOUS
<1>2. PICK k \in Nat : h = y + 1 + k
  BY <1>1
<1>3. h * d = y * d + d + k * d /\ k * d \in Nat /\ y * d \in Nat
  BY <1>2
<1>4. QED
  BY <1>3

(* A .npy file has the samples of the image, row by row and without the    *)
(* padding of its lines, and no byte outside the frame is read, whatever   *)
(* width, height and line length the server states, as long as the bytes   *)
(* of a line of samples fit the uint32_t hasSf32 computes them in.         *)
THEOREM NpyFilesHoldTheImage ==
  ASSUME NEW f \in Sf32Frame
  PROVE  NpyHoldsTheImage(f)
<1> SUFFICES ASSUME hasSf32(f), 4 * f.width < Uint32, NEW y \in 0..(f.height - 1), NEW x \in 0..(f.width - 1),
                    NEW b \in 0..3
             PROVE  LET at == stackImageNpy(f)[(y * f.width + x) * 4 + b]
                    IN  at = y * f.bytes_per_line + 4 * x + b /\ at < f.size
  BY DEF NpyHoldsTheImage
<1> DEFINE row == 4 * f.width
           i   == (y * f.width + x) * 4 + b
<1>1. /\ f.width \in Nat \ {0} /\ f.height \in Nat \ {0} /\ f.bytes_per_line \in Nat
      /\ f.bytes_per_line >= row /\ f.size >= f.bytes_per_line * f.height /\ f.size \in Nat
  <2>1. f.width \in Nat /\ f.height \in Nat /\ f.bytes_per_line \in Nat /\ f.size \in Nat
    BY ImageAssumption DEF Sf32Frame
  <2>2. (f.width * 4) % Uint32 = row
    <3>1. f.width * 4 = row /\ row \in Nat
      BY <2>1
    <3>2. QED
      BY <3>1, ImageAssumption, ModSmall
  <2>3. QED
    BY <2>1, <2>2 DEF hasSf32
<1>2. y \in Nat /\ y < f.height /\ x \in Nat /\ row \in Nat \ {0} /\ 4 * x + b \in 0..(row - 1)
  BY <1>1
<1>3. i = y * row + (4 * x + b)
  BY <1>1, <1>2
<1>4. y * row \in Nat /\ y * row + row <= f.height * row
  BY <1>1, <1>2, RowsAreDisjoint
<1>5. f.height * row = 4 * f.width * f.height
  BY <1>1
<1> HIDE DEF row, i
<1>6. i \in 0..(4 * f.width * f.height - 1)
  <2>1. f.height * row \in Int
    BY <1>1, <1>2
  <2>2. QED
    BY <1>2, <1>3, <1>4, <1>5, <2>1
<1>7. i \div row = y /\ i % row = 4 * x + b
  <2> DEFINE r == 4 * x + b
  <2>1. r \in 0..(row - 1) /\ y \in Int /\ i = y * row + r
    BY <1>2, <1>3
  <2> HIDE DEF r
  <2>2. i \div row = y /\ i % row = r
    BY <1>2, <2>1, DivIs
  <2>3. QED
    BY <2>2 DEF r
<1>8. stackImageNpy(f)[i] = y * f.bytes_per_line + (4 * x + b)
  BY <1>6, <1>7 DEF stackImageNpy, row
<1>9. y * f.bytes_per_line \in Nat /\ y * f.bytes_per_line + f.bytes_per_line
                                        <= f.height * f.bytes_per_line
  BY <1>1, <1>2, RowsAreDisjoint
<1>10. f.height * f.bytes_per_line = f.bytes_per_line * f.height
       /\ f.height * f.bytes_per_line \in Int
  BY <1>1
<1>11. y * f.bytes_per_line + (4 * x + b) < f.size
  BY <1>1, <1>2, <1>9, <1>10
<1>12. QED
  BY <1>2, <1>8, <1>9, <1>11 DEF i

(* The bound is exact: a frame without bytes to spare is read within its   *)
(* bytes if and only if its line of samples fits a uint32_t (hasSf32).     *)
THEOREM NpyFilesReadWithin ==
  ASSUME NEW f \in Sf32Frame
  PROVE  NpyReadsWithin(f)
<1> SUFFICES ASSUME hasSf32(f), f.size = f.bytes_per_line * f.height
             PROVE  (\A i \in DOMAIN stackImageNpy(f) : stackImageNpy(f)[i] < f.size)
                      <=> 4 * f.width < Uint32
  BY DEF NpyReadsWithin
<1> DEFINE row == 4 * f.width
           end == 4 * f.width * f.height
<1>1. /\ f.width \in Nat \ {0} /\ f.height \in Nat \ {0} /\ f.bytes_per_line \in Nat
      /\ f.bytes_per_line <= Uint32 - 1 /\ Uint32 \in Nat
  BY ImageAssumption DEF hasSf32, Sf32Frame
<1>2. DOMAIN stackImageNpy(f) = 0..(end - 1)
      /\ \A i \in 0..(end - 1) :
           stackImageNpy(f)[i] = (i \div row) * f.bytes_per_line + (i % row)
  BY DEF stackImageNpy
<1>3. row \in Nat \ {0} /\ end = f.height * row
  BY <1>1
<1> HIDE DEF row, end
<1>4. ASSUME 4 * f.width < Uint32, NEW i \in 0..(end - 1)
      PROVE  stackImageNpy(f)[i] < f.size
  <2> DEFINE y == i \div row
             r == i % row
  <2>1. y \in Int /\ r \in 0..(row - 1) /\ i = y * row + r
    <3>1. end \in Int /\ i \in Int
      BY <1>1, <1>3, <1>4
    <3>2. QED
      BY <1>3, <3>1, DivMod
  <2> HIDE DEF y, r
  <2>2. y \in 0..(f.height - 1)
    <3>1. CASE y < 0
      <4>1. 0 - y - 1 \in Nat /\ y = 0 - 1 - (0 - y - 1)
        BY <2>1, <3>1
      <4>2. PICK k \in Nat : y = 0 - 1 - k
        BY <4>1
      <4>3. y * row = 0 - row - k * row /\ k * row \in Nat
        BY <1>3, <4>2
      <4>4. QED
        BY <1>3, <2>1, <4>3
    <3>2. CASE y >= f.height
      <4>1. y - f.height \in Nat /\ y = f.height + (y - f.height)
        BY <1>1, <2>1, <3>2
      <4>2. PICK k \in Nat : y = f.height + k
        BY <4>1
      <4>3. y * row = f.height * row + k * row /\ k * row \in Nat
        BY <1>1, <1>3, <4>2
      <4>4. f.height * row \in Nat
        BY <1>1, <1>3
      <4>5. QED
        BY <1>3, <2>1, <4>3, <4>4
    <3>3. QED
      BY <1>1, <2>1, <3>1, <3>2
  <2>3. f.bytes_per_line >= row
    <3>1. f.width * 4 = row
      BY <1>1 DEF row
    <3>2. (f.width * 4) % Uint32 = row
      BY <1>1, <1>3, <1>4, <3>1, ModSmall DEF row
    <3>3. QED
      BY <3>2 DEF hasSf32
  <2>4. y * f.bytes_per_line \in Nat
        /\ y * f.bytes_per_line + f.bytes_per_line <= f.height * f.bytes_per_line
    BY <1>1, <2>2, RowsAreDisjoint
  <2>5. f.size = f.height * f.bytes_per_line /\ f.height * f.bytes_per_line \in Int
    BY <1>1
  <2>6. stackImageNpy(f)[i] = y * f.bytes_per_line + r
    BY <1>2, <1>4 DEF y, r
  <2>7. QED
    BY <1>1, <1>3, <2>1, <2>3, <2>4, <2>5, <2>6
<1>5. ASSUME ~(4 * f.width < Uint32)
      PROVE  \E i \in 0..(end - 1) : ~(stackImageNpy(f)[i] < f.size)
  <2> DEFINE y == f.height - 1
             i == y * row + (row - 1)
  <2>1. y \in Nat /\ y * row \in Nat /\ f.height * row = y * row + row
    BY <1>1, <1>3
  <2>2. i \in 0..(end - 1)
    BY <1>3, <2>1
  <2>3. i \div row = y /\ i % row = row - 1
    <3>1. row - 1 \in 0..(row - 1) /\ y \in Int
      BY <1>3, <2>1
    <3>2. QED
      BY <1>3, <3>1, DivIs
  <2>4. stackImageNpy(f)[i] = y * f.bytes_per_line + (row - 1)
    BY <1>2, <2>2, <2>3
  <2>5. f.size = y * f.bytes_per_line + f.bytes_per_line /\ y * f.bytes_per_line \in Nat
    BY <1>1, <2>1
  <2>6. row - 1 >= f.bytes_per_line
    BY <1>1, <1>3, <1>5 DEF row
  <2> HIDE DEF y, i
  <2>7. ~(stackImageNpy(f)[i] < f.size)
    BY <1>1, <1>3, <2>4, <2>5, <2>6
  <2>8. QED
    BY <2>2, <2>7
<1>6. QED
  BY <1>2, <1>4, <1>5

(* The header of a .npy file: its data is aligned, where the stated length *)
(* says, for a dictionary of every length.                                 *)
THEOREM NpyHeadersAreAligned == ASSUME NEW dict \in Nat PROVE HeaderIsAligned(dict)
BY DEF HeaderIsAligned, npyHeader, Preamble

(* The 8-bit stretch stays in its table and keeps the order of any two     *)
(* samples, for every white point and table.                               *)
THEOREM StretchIsMonotone ==
  ASSUME NEW white \in Nat \ {0}, NEW lutSize \in Nat \ {0}
  PROVE  /\ \A v, w \in Int : /\ lutIndex(v, white, lutSize) \in 0..(lutSize - 1)
                              /\ v <= w => lutIndex(v, white, lutSize)
                                             <= lutIndex(w, white, lutSize)
         /\ StretchKeepsOrder(white, lutSize)
<1> DEFINE i(v) == (v * (lutSize - 1)) \div white
<1>1. lutSize - 1 \in Nat
  OBVIOUS
<1>2. \A v \in Int : v * (lutSize - 1) \in Int
  BY <1>1
<1>3. \A v \in Int : i(v) \in Int
  BY <1>2, DivMod
<1>4. ASSUME NEW v \in Int, v > 0 PROVE i(v) >= 0
  <2>1. v * (lutSize - 1) >= 0
    BY <1>1, <1>4
  <2>2. 0 \div white = 0
    OBVIOUS
  <2>3. QED
    BY <1>2, <2>1, <2>2, DivMonotone
<1>5. ASSUME NEW v \in Int, NEW w \in Int, v <= w PROVE i(v) <= i(w)
  <2>1. v * (lutSize - 1) <= w * (lutSize - 1)
    <3>1. PICK k \in Nat : w = v + k
      <4>1. w - v \in Nat /\ w = v + (w - v)
        BY <1>5
      <4>2. QED
        BY <4>1
    <3>2. w * (lutSize - 1) = v * (lutSize - 1) + k * (lutSize - 1) /\ k * (lutSize - 1) \in Nat
      BY <1>1, <3>1
    <3>3. QED
      BY <1>2, <3>2
  <2>2. QED
    BY <1>2, <2>1, DivMonotone
<1>6. \A v \in Int : lutIndex(v, white, lutSize)
                       = IF v <= 0 THEN 0 ELSE IF i(v) < lutSize - 1 THEN i(v) ELSE lutSize - 1
  BY DEF lutIndex
<1> HIDE DEF i
<1>7. \A v, w \in Int : /\ lutIndex(v, white, lutSize) \in 0..(lutSize - 1)
                        /\ v <= w => lutIndex(v, white, lutSize) <= lutIndex(w, white, lutSize)
  BY <1>1, <1>3, <1>4, <1>5, <1>6
<1>8. -2..(3 * white) \subseteq Int
  OBVIOUS
<1>9. QED
  BY <1>7, <1>8 DEF StretchKeepsOrder

(* There is a least square that is large enough.                           *)
LEMMA CeilRootExists ==
  ASSUME NEW count \in Nat, count > 1
  PROVE  /\ ceilRoot(count) \in Nat \ {0}
         /\ 2 * ceilRoot(count) * ceilRoot(count) >= 3 * count
<1> DEFINE Enough(c) == 2 * c * c >= 3 * count
           T == {c \in 0..count : Enough(c)}
<1>1. count \in T
  <2>1. PICK k \in Nat : count = k + 2
    <3>1. count - 2 \in Nat /\ count = (count - 2) + 2
      OBVIOUS
    <3>2. QED
      BY <3>1
  <2>2. 2 * count * count = 3 * count + (2 * k * k + 5 * k + 2) /\ k * k \in Nat
    BY <2>1
  <2>3. 2 * k * k = 2 * (k * k)
    BY <2>1
  <2>4. 2 * k * k + 5 * k + 2 >= 0
    BY <2>2, <2>3
  <2>5. QED
    BY <2>2, <2>4
<1>2. PICK m \in T : \A y \in T : ~(<<y, m>> \in OpToRel(<, Nat))
  <2>1. T \subseteq Nat /\ T # {}
    BY <1>1
  <2>2. QED
    BY <2>1, WFMin, NatLessThanWellFounded
<1>3. m \in 0..count /\ Enough(m) /\ \A y \in T : ~(y < m)
  <2>1. m \in 0..count /\ Enough(m) /\ \A y \in T : y \in Nat
    OBVIOUS
  <2>2. \A y \in T : <<y, m>> \in OpToRel(<, Nat) <=> y < m
    BY <2>1 DEF OpToRel
  <2>3. QED
    BY <1>2, <2>1, <2>2
<1>4. m # 0
  BY <1>3
<1>5. m - 1 \in 0..count /\ ~(m - 1 \in T)
  BY <1>3, <1>4
<1>6. ~Enough(m - 1)
  BY <1>5
<1>7. 2 * (m - 1) * (m - 1) < 3 * count
  BY <1>3, <1>4, <1>6
<1>8. \E c \in 0..count : 2 * c * c >= 3 * count
                          /\ (c = 0 \/ 2 * (c - 1) * (c - 1) < 3 * count)
  BY <1>3, <1>7
<1>9. /\ ceilRoot(count) \in 0..count
      /\ 2 * ceilRoot(count) * ceilRoot(count) >= 3 * count
  BY <1>8 DEF ceilRoot
<1>10. ceilRoot(count) # 0
  BY <1>9
<1>11. QED
  BY <1>9, <1>10

(* gridDimensions: for every number of cameras each has a cell, no row is  *)
(* empty and the grid is not higher than wide.                             *)
THEOREM GridsHoldAll == ASSUME NEW count \in Nat \ {0} PROVE GridHoldsAll(count)
<1>1. CASE count <= 16
  <2>1. count = 1 \/ count = 2 \/ count \in 3..4 \/ count \in 5..6 \/ count \in 7..9
        \/ count \in 10..12 \/ count \in 13..16
    BY <1>1
  <2>2. gridDimensions(count) =
          CASE count = 1 -> <<1, 1>> [] count = 2 -> <<2, 1>> [] count \in 3..4 -> <<2, 2>>
            [] count \in 5..6 -> <<3, 2>> [] count \in 7..9 -> <<3, 3>>
            [] count \in 10..12 -> <<4, 3>> [] count \in 13..16 -> <<4, 4>>
    BY <2>1 DEF gridDimensions
  <2>3. QED
    BY <2>1, <2>2 DEF GridHoldsAll
<1>2. CASE count > 16
  <2> DEFINE cols == ceilRoot(count)
             rows == (count + cols - 1) \div cols
  <2>1. gridDimensions(count) = <<cols, rows>>
    BY <1>2 DEF gridDimensions
  <2>2. cols \in Nat \ {0} /\ 2 * cols * cols >= 3 * count
    BY <1>2, CeilRootExists
  <2>3. count + cols - 1 \in Int
    BY <2>2
  <2> HIDE DEF cols
  <2>4. /\ rows \in Int /\ (count + cols - 1) % cols \in 0..(cols - 1)
        /\ count + cols - 1 = rows * cols + ((count + cols - 1) % cols)
    BY <2>2, <2>3, DivMod
  <2>5. rows <= cols
    <3>1. cols * cols >= count /\ cols * cols \in Int
      <4>1. 2 * cols * cols = 2 * (cols * cols) /\ cols * cols \in Int
        BY <2>2
      <4>2. QED
        BY <2>2, <4>1
    <3>2. cols * cols + (cols - 1) \in Int /\ count + cols - 1 <= cols * cols + (cols - 1)
      BY <2>2, <3>1
    <3>3. (cols * cols + (cols - 1)) \div cols = cols
      BY <2>2, DivIs
    <3>4. QED
      BY <2>2, <2>3, <3>2, <3>3, DivMonotone
  <2> HIDE DEF rows
  <2>6. rows * cols \in Int /\ cols * rows = rows * cols
    BY <2>2, <2>4
  <2>7. cols * rows >= count
    BY <2>2, <2>4, <2>6
  <2>8. (rows - 1) * cols = rows * cols - cols
    BY <2>2, <2>4
  <2>9. (rows - 1) * cols < count
    BY <2>2, <2>4, <2>6, <2>8
  <2>10. QED
    BY <2>1, <2>5, <2>7, <2>9 DEF GridHoldsAll, rows
<1>3. QED
  BY <1>1, <1>2

(* The sample has one element of each stride that begins in the image.     *)
LEMMA SampleSize ==
  ASSUME NEW n \in Nat \ {0}, NEW max \in Nat \ {0}
  PROVE  Cardinality(sampled(n, max)) = (n - 1) \div sampleStep(n, max) + 1
<1> DEFINE step == sampleStep(n, max)
           k    == (n - 1) \div step
           S    == 0..k
           T    == sampled(n, max)
           f    == [j \in S |-> j * step]
<1>1. step \in Nat \ {0}
  BY DivMod DEF sampleStep
<1>2. T = {i \in 0..(n - 1) : i % step = 0}
  BY DEF sampled
<1> HIDE DEF step, T
<1>3. k \in Int /\ n - 1 = k * step + ((n - 1) % step) /\ (n - 1) % step \in 0..(step - 1)
  <2>1. n - 1 \in Int
    OBVIOUS
  <2>2. QED
    BY <1>1, <2>1, DivMod
<1>4. k \in Nat
  <2>1. 0 \div step = 0
    BY <1>1
  <2>2. QED
    BY <1>1, <1>3, <2>1, DivMonotone
<1> HIDE DEF k
<1>5. \A j \in S : j * step \in 0..(n - 1) /\ (j * step) % step = 0 /\ (j * step) \div step = j
  <2>1. TAKE j \in S
  <2>2. j \in Nat /\ k - j \in Nat
    BY <1>4
  <2>3. k * step = j * step + (k - j) * step /\ (k - j) * step \in Nat /\ j * step \in Nat
    BY <1>1, <1>4, <2>2
  <2>4. j * step <= n - 1
    BY <1>1, <1>3, <2>3
  <2>5. 0 \in 0..(step - 1) /\ j * step + 0 = j * step
    BY <1>1, <2>3
  <2>6. (j * step + 0) % step = 0 /\ (j * step + 0) \div step = j
    BY <1>1, <2>2, <2>5, DivIs
  <2>7. QED
    BY <2>3, <2>4, <2>5, <2>6
<1>6. \A i \in T : \E j \in S : i = j * step
  <2>1. TAKE i \in T
  <2>2. i \in Nat /\ i <= n - 1 /\ i % step = 0
    BY <1>2
  <2>3. i \div step \in Int /\ i = (i \div step) * step + 0
    BY <1>1, <2>2, DivMod
  <2>4. i \div step <= k /\ 0 <= i \div step
    <3>1. 0 \div step = 0
      BY <1>1
    <3>2. 0 \div step <= i \div step /\ i \div step <= (n - 1) \div step
      BY <1>1, <2>2, DivMonotone
    <3>3. QED
      BY <3>1, <3>2 DEF k
  <2>5. (i \div step) * step \in Int
    BY <1>1, <2>3
  <2>6. i = (i \div step) * step /\ i \div step \in S
    BY <1>4, <2>3, <2>4, <2>5
  <2>7. QED
    BY <2>6
<1>7. f \in Bijection(S, T)
  <2>1. \A j \in S : f[j] \in T
    BY <1>2, <1>5
  <2>2. \A i, j \in S : f[i] = f[j] => i = j
    BY <1>5
  <2>3. \A i \in T : \E j \in S : f[j] = i
    BY <1>6
  <2>4. QED
    BY <2>1, <2>2, <2>3 DEF Bijection, Injection, Surjection, IsInjective
<1>8. IsFiniteSet(S) /\ Cardinality(S) = k + 1
  <2>1. IsFiniteSet(0..k) /\ Cardinality(0..k) = k - 0 + 1
    BY <1>4, FS_Interval
  <2>2. QED
    BY <1>4, <2>1
<1>9. Cardinality(T) = k + 1
  BY <1>7, <1>8, FS_Bijection DEF ExistsBijection
<1>10. QED
  BY <1>9 DEF T, k, step

(* The white point: for every image the sample is not empty, stays below   *)
(* twice the number asked for, and has an element at the percentile.       *)
THEOREM SamplesAreInBounds ==
  ASSUME NEW n \in Nat \ {0}, NEW max \in Nat \ {0} PROVE SampleIsInBounds(n, max)
<1> DEFINE step == sampleStep(n, max)
           s    == (n - 1) \div step + 1
           q    == n \div max
<1>1. q \in Int /\ n = q * max + (n % max) /\ n % max \in 0..(max - 1)
  BY DivMod
<1>2. step = (IF q > 1 THEN q ELSE 1) /\ step \in Nat \ {0}
  BY <1>1 DEF sampleStep
<1>3. Cardinality(sampled(n, max)) = s
  BY SampleSize
<1> HIDE DEF q, step
<1>4. s \in Nat \ {0}
  <2>1. 0 \div step = 0 /\ 0 <= n - 1 /\ n - 1 \in Int
    BY <1>2
  <2>2. (n - 1) \div step \in Int /\ 0 \div step <= (n - 1) \div step
    BY <1>2, <2>1, DivMod, DivMonotone
  <2>3. QED
    BY <2>1, <2>2
<1>5. s <= 2 * max - 1
  <2>1. CASE ~(q > 1)
    <3>1. n < 2 * max
      <4>1. q * max <= max
        <5>1. CASE q = 1
          BY <5>1
        <5>2. CASE q <= 0
          BY <1>1, <5>2
        <5>3. QED
          BY <1>1, <2>1, <5>1, <5>2
      <4>2. q * max \in Int
        BY <1>1
      <4>3. QED
        BY <1>1, <4>1, <4>2
    <3>2. (n - 1) \div 1 = n - 1
      OBVIOUS
    <3>3. QED
      BY <1>2, <2>1, <3>1, <3>2
  <2>2. CASE q > 1
    <3>1. step = q /\ q \in Nat \ {0}
      BY <1>1, <1>2, <2>2
    <3>2. PICK a \in Nat, b \in Nat : q = a + 2 /\ max = b + 1
      <4>1. q - 2 \in Nat /\ max - 1 \in Nat /\ q = (q - 2) + 2 /\ max = (max - 1) + 1
        BY <1>1, <2>2
      <4>2. QED
        BY <4>1
    <3>3. n - 1 < (2 * max - 1) * q
      <4>1. q * max = a * b + a + 2 * b + 2 /\ (2 * max - 1) * q = 2 * (a * b) + a + 4 * b + 2
            /\ a * b \in Nat
        BY <3>2
      <4>2. n - 1 <= q * max + b - 1
        BY <1>1, <3>2, <4>1
      <4>3. QED
        BY <3>2, <4>1, <4>2
    <3>4. n - 1 <= (2 * max - 2) * q + (q - 1) /\ (2 * max - 2) * q + (q - 1) \in Int
      <4>1. (2 * max - 1) * q = (2 * max - 2) * q + q /\ (2 * max - 2) * q \in Int
        BY <3>1
      <4>2. QED
        BY <3>1, <3>3, <4>1
    <3>5. ((2 * max - 2) * q + (q - 1)) \div q = 2 * max - 2
      BY <3>1, DivIs
    <3>6. (n - 1) \div q <= 2 * max - 2
      BY <3>1, <3>4, <3>5, DivMonotone
    <3>7. (n - 1) \div q \in Int
      BY <3>1, DivMod
    <3>8. QED
      BY <3>1, <3>6, <3>7
  <2>3. QED
    BY <2>1, <2>2
<1> HIDE DEF s
<1>6. percentileIndex(s) \in 0..(s - 1)
  BY <1>4 DEF percentileIndex
<1>7. QED
  BY <1>3, <1>4, <1>5, <1>6 DEF SampleIsInBounds
=============================================================================
