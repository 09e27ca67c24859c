--------------------------- MODULE SlowPath_proofs --------------------------
(***************************************************************************)
(* Proofs about the slow path of a card, for every ring size, every number *)
(* of TAPs and every FIFO depth: no punted frame is lost unseen, delivered *)
(* twice or torn, and what the ports send is what was read from the TAPs.  *)
(***************************************************************************)
EXTENDS SlowPath, SequenceTheorems, TLAPS

(* A leaf goes to SMT, then to Zenon, and to Z3 with a fresh translation last. *)
USE SMTT(30), Zenon, Z3T(30)

\* The worker compares two 32-bit counts as if they never wrapped.
NoWrap == MaxFrames < COUNT

\* The engine does not come round the ring to the buffer that is copied: it
\* starts at most one buffer during a copy, or never has more than a ring
\* of frames waiting.
NotLapped == Overtake = 0 \/ MaxLag <= RING
-----------------------------------------------------------------------------
\* The ring.  Begun: frames whose buffer the engine has started.
Begun == completed + (IF filling THEN 1 ELSE 0)
Wrapped(n) == IF n < COUNT THEN n ELSE n - COUNT
Whole(n) == [header |-> n, body |-> n]

RingType ==
  /\ run \in BOOLEAN /\ filling \in BOOLEAN /\ armed \in BOOLEAN
  /\ completed \in 0..MaxFrames /\ seen \in 0..completed
  /\ cmpl \in 0..(COUNT - 1) /\ c2h_cmpl_base \in Nat
  /\ rx_consumed \in 0..completed /\ c2h_overrun \in Nat
  /\ punt_to_tap_ok \in Nat /\ punt_to_tap_dropped \in Nat /\ punt_unknown_lif \in Nat
  /\ buf \in [0..(RING - 1) -> [header : Nat, body : Nat]]
  /\ got \in [header : Nat, body : Nat]
  /\ pc \in {"idle", "arm", "status", "count", "header", "body", "dispatch"}

\* Until RUN nothing is completed; after it the register is the baseline plus
\* the frames completed, wrapped.
Counted ==
  /\ ~armed => /\ ~run /\ ~filling /\ completed = 0 /\ rx_consumed = 0
               /\ pc \in {"idle", "arm"}
  /\ filling => completed < MaxFrames
  /\ armed \/ pc = "arm" => /\ c2h_cmpl_base \in 0..(COUNT - 1)
                            /\ cmpl = Wrapped(c2h_cmpl_base + completed)
  /\ armed => pc # "arm"
  /\ Copying => rx_consumed < completed

\* Every frame that fits in the ring behind the frames begun is in its buffer.
BuffersHold ==
  /\ \A n \in 0..(completed - 1) : Begun - RING <= n => buf[n % RING] = Whole(n + 1)
  /\ filling => buf[Slot].header = completed + 1

\* The frame being copied is one of those.
Copied ==
  /\ Copying => /\ seen - (RING - 1) <= rx_consumed
                /\ Begun <= seen + Overtake + 1
  /\ Begun - Reaped <= MaxLag
  /\ pc = "body" => got.header = rx_consumed + 1

RingInv == RingType /\ Counted /\ EachFrameOnce
IntactInv == BuffersHold /\ Copied /\ DeliveredIntact
-----------------------------------------------------------------------------
\* The inject path.  While no descriptor has outlived its inject: the channel
\* is done unless the inject polls for it; the TX buffer holds the frame from
\* before RUN until then; what is due is what the FIFO holds and the frame
\* the channel is still working on.
InjectType ==
  /\ b \in Bindings /\ nth \in [Bindings -> {0, 1}]
  /\ frame \in Frames /\ tx_buf \in Frames
  /\ fifo \in Seq(Frames) /\ due \in Seq(Frames)
  /\ header \in 0..(PORT_COUNT - 1) /\ count \in {0, 1}
  /\ h2c \in {"idle", "header", "body"} /\ h2c_err \in BOOLEAN

ChannelInStep ==
  /\ h2c # "idle" => tpc = "poll" /\ count = 0
  /\ h2c_err => h2c = "idle" /\ tpc \in {"poll", "failed"} /\ count = 0
  /\ h2c = "body" => header = frame.egress
  /\ tpc = "body" => tx_buf.egress = frame.egress
  /\ tpc = "run" \/ h2c # "idle" => tx_buf = frame

Forwarding ==
  /\ due = IF h2c = "idle" THEN fifo ELSE Append(fifo, frame)
  /\ inj_state # "S_HDR" => /\ fifo # <<>> /\ inj_state = "S_PAY"
                            /\ inj_egress_q = Head(fifo).egress

InStep == InjectType /\ ChannelInStep /\ Forwarding

\* Once a descriptor is late, nothing more is claimed.
InjectInv ==
  /\ late \in BOOLEAN /\ wrong = FALSE
  /\ ~late => InStep
-----------------------------------------------------------------------------
\* Arithmetic: two frames less than a ring apart use different buffers; a
\* count that has not wrapped gives back the number of frames.
LEMMA ModInside ==
  ASSUME NEW n \in Nat, NEW m \in Nat \ {0}
  PROVE  n % m \in 0..(m - 1)
OBVIOUS

LEMMA ModSmall ==
  ASSUME NEW n \in Nat, NEW m \in Nat \ {0}, n < m
  PROVE  n % m = n
OBVIOUS

LEMMA ModDistinct ==
  ASSUME NEW i \in Nat, NEW j \in Nat, NEW m \in Nat \ {0}, i < j, j - i < m
  PROVE  i % m # j % m
<1> SUFFICES ASSUME i % m = j % m PROVE FALSE
  OBVIOUS
<1> DEFINE p == i \div m
           q == j \div m
<1>1. p \in Int /\ q \in Int /\ i = m * p + (i % m) /\ j = m * q + (j % m)
  OBVIOUS
<1> HIDE DEF p, q
<1>2. i % m \in Int /\ j % m \in Int /\ m * p \in Int /\ m * q \in Int
  BY <1>1
<1>3. m * q - m * p = j - i
  BY <1>1, <1>2
<1>4. m * (q - p) = m * q - m * p
  BY <1>1
<1>5. CASE q - p <= 0
  <2>1. m * (q - p) <= 0
    BY <1>1, <1>5
  <2> QED  BY <1>3, <1>4, <2>1
<1>6. CASE q - p >= 1
  <2>1. m * (q - p) >= m
    BY <1>1, <1>6
  <2> QED  BY <1>3, <1>4, <2>1
<1> QED  BY <1>1, <1>5, <1>6

LEMMA CountAdvances ==
  ASSUME NEW base \in 0..(COUNT - 1), NEW n \in Nat, n + 1 < COUNT
  PROVE  (Wrapped(base + n) + 1) % COUNT = Wrapped(base + n + 1)
         /\ Wrapped(base + n + 1) \in 0..(COUNT - 1)
<1>0. COUNT \in Nat \ {0}
  BY RingAssumption
<1>1. CASE base + n + 1 < COUNT
  BY <1>0, <1>1, ModSmall DEF Wrapped
<1>2. CASE base + n + 1 = COUNT
  <2>1. Wrapped(base + n) + 1 = COUNT /\ Wrapped(base + n + 1) = 0
    BY <1>0, <1>2 DEF Wrapped
  <2>2. COUNT % COUNT = 0
    BY <1>0
  <2> QED  BY <1>0, <2>1, <2>2
<1>3. CASE base + n + 1 > COUNT
  <2>1. /\ Wrapped(base + n) + 1 = base + n + 1 - COUNT
        /\ Wrapped(base + n + 1) = base + n + 1 - COUNT
        /\ base + n + 1 - COUNT \in 0..(COUNT - 1)
    BY <1>0, <1>3 DEF Wrapped
  <2> QED  BY <1>0, <2>1, ModSmall
<1> QED  BY <1>0, <1>1, <1>2, <1>3

LEMMA CountGivesBack ==
  ASSUME NEW base \in 0..(COUNT - 1), NEW n \in Nat, n < COUNT
  PROVE  (Wrapped(base + n) - base) % COUNT = n
<1>0. COUNT \in Nat \ {0}
  BY RingAssumption
<1>1. CASE base + n < COUNT
  BY <1>0, <1>1, ModSmall DEF Wrapped
<1>2. CASE base + n >= COUNT
  <2>1. Wrapped(base + n) - base = n - COUNT
    BY <1>0, <1>2 DEF Wrapped
  <2>2. (n - COUNT) % COUNT = n
    BY <1>0
  <2> QED  BY <2>1, <2>2
<1> QED  BY <1>0, <1>1, <1>2
-----------------------------------------------------------------------------
\* The inject path leaves the ring alone.
LEMMA SlowStepIsRingStep == [SlowNext]_svars => [Engine \/ Worker]_vars
<1> SUFFICES ASSUME [SlowNext]_svars PROVE [Engine \/ Worker]_vars
  OBVIOUS
<1>1. CASE UNCHANGED svars
  BY <1>1 DEF svars
<1>2. CASE PuntHalf
  BY <1>2 DEF PuntHalf
<1>3. CASE Inject
  BY <1>3 DEF Inject, TapRead, TapEmpty, FillHeader, FillBody, RunChannel, PollDone,
              PollFailed, StopChannel
<1>4. CASE Card
  BY <1>4 DEF Card, FetchHeader, FetchBody, H2CError, StripHeader, SendPayload, SoftReset
<1>5. CASE C2H
  BY <1>5 DEF C2H
<1> QED  BY <1>1, <1>2, <1>3, <1>4, <1>5 DEF SlowNext, CardWorker

\* No frame is lost or doubled.
LEMMA InitRing == NoWrap /\ SlowInit => RingInv
<1> SUFFICES ASSUME NoWrap, SlowInit PROVE RingInv
  OBVIOUS
<1>0. COUNT \in Nat \ {0} /\ RING \in Nat \ {0} /\ MaxFrames \in Nat
  BY RingAssumption, FramesAssumption DEF NoWrap
<1>1. RingType
  <2>1. cmpl \in 0..(COUNT - 1)
    BY CountsAssumption DEF SlowInit, Init
  <2>2. /\ buf \in [0..(RING - 1) -> [header : Nat, body : Nat]]
        /\ got \in [header : Nat, body : Nat]
    BY DEF SlowInit, Init, Nothing
  <2>3. /\ completed = 0 /\ seen = 0 /\ rx_consumed = 0 /\ c2h_cmpl_base = 0
        /\ c2h_overrun = 0 /\ punt_to_tap_ok = 0 /\ punt_to_tap_dropped = 0
        /\ punt_unknown_lif = 0
    BY DEF SlowInit, Init
  <2>4. /\ completed \in 0..MaxFrames /\ seen \in 0..completed /\ rx_consumed \in 0..completed
        /\ c2h_cmpl_base \in Nat /\ c2h_overrun \in Nat /\ punt_to_tap_ok \in Nat
        /\ punt_to_tap_dropped \in Nat /\ punt_unknown_lif \in Nat
    BY <1>0, <2>3
  <2>5. run \in BOOLEAN /\ filling \in BOOLEAN /\ armed \in BOOLEAN /\ pc = "idle"
    BY Zenon DEF SlowInit, Init
  <2> QED  BY <2>1, <2>2, <2>4, <2>5 DEF RingType
<1>2. Counted
  BY DEF SlowInit, Init, Counted, Copying
<1>3. EachFrameOnce
  BY DEF SlowInit, Init, EachFrameOnce, Reaped, Dispatched
<1> QED  BY <1>1, <1>2, <1>3 DEF RingInv

LEMMA EngineKeepsRing == NoWrap /\ RingInv /\ Engine => RingInv'
<1> SUFFICES ASSUME NoWrap, RingInv, Engine PROVE RingInv'
  OBVIOUS
<1>0. COUNT \in Nat \ {0} /\ RING \in Nat \ {0} /\ MaxFrames \in Nat /\ MaxFrames < COUNT
  BY RingAssumption, FramesAssumption DEF NoWrap
<1>1. CASE BeginFill
  <2>1. Slot \in 0..(RING - 1) /\ completed + 1 \in Nat
    BY <1>0, ModInside DEF Slot, RingInv, RingType
  <2>2. RingType'
    BY <1>1, <2>1 DEF BeginFill, RingInv, RingType, dma, taps, Nothing
  <2>3. Counted'
    BY <1>1 DEF BeginFill, RingInv, Counted, Copying, dma
  <2>4. EachFrameOnce'
    BY <1>1 DEF BeginFill, RingInv, EachFrameOnce, Reaped, Dispatched, dma, taps
  <2> QED  BY <2>2, <2>3, <2>4 DEF RingInv
<1>2. CASE EndFill
  <2>1. armed /\ completed < MaxFrames
    BY <1>2 DEF EndFill, RingInv, Counted, Copying
  <2>2. /\ completed \in Nat /\ completed + 1 \in 0..MaxFrames /\ completed + 1 < COUNT
        /\ Slot \in 0..(RING - 1)
    BY <1>0, <2>1, ModInside DEF Slot, RingInv, RingType
  <2>3. /\ cmpl' = Wrapped(c2h_cmpl_base + completed + 1)
        /\ cmpl' \in 0..(COUNT - 1)
    BY <1>2, <2>1, <2>2, CountAdvances DEF EndFill, RingInv, Counted, Copying
  <2>4. RingType'
    <3>1. buf' \in [0..(RING - 1) -> [header : Nat, body : Nat]]
      <4>1. buf \in [0..(RING - 1) -> [header : Nat, body : Nat]]
        BY DEF RingInv, RingType
      <4>2. [buf[Slot] EXCEPT !.body = completed + 1] \in [header : Nat, body : Nat]
        BY <2>2, <4>1
      <4>3. buf' = [buf EXCEPT ![Slot] = [buf[Slot] EXCEPT !.body = completed + 1]]
        BY <1>2 DEF EndFill
      <4> QED  BY <2>2, <4>1, <4>2, <4>3
    <3>2. /\ completed' = completed + 1 /\ filling' = FALSE
          /\ UNCHANGED <<run, err, pc, dma, done, got, taps, seen>>
      BY <1>2 DEF EndFill
    <3>3. completed' \in 0..MaxFrames /\ seen' \in 0..completed' /\ rx_consumed' \in 0..completed'
      BY <1>0, <2>2, <3>2 DEF RingInv, RingType, dma
    <3> QED  BY Zenon, <2>3, <3>1, <3>2, <3>3 DEF RingInv, RingType, dma, taps
  <2>5. Counted'
    <3>1. c2h_cmpl_base + completed + 1 = c2h_cmpl_base + completed'
      BY <1>2, <2>2 DEF EndFill, RingInv, RingType
    <3>2. rx_consumed < completed => rx_consumed < completed'
      BY <1>2 DEF EndFill, RingInv, RingType
    <3> QED  BY <1>2, <2>1, <2>3, <3>1, <3>2 DEF EndFill, RingInv, Counted, Copying, dma
  <2>6. EachFrameOnce'
    BY <1>2, <2>2 DEF EndFill, RingInv, RingType, EachFrameOnce, Reaped, Dispatched, dma, taps
  <2> QED  BY <2>4, <2>5, <2>6 DEF RingInv
<1>3. CASE ChannelError
  <2>1. RingType'
    BY Zenon, <1>3 DEF ChannelError, RingInv, RingType, dma, taps
  <2>2. Counted'
    BY <1>3 DEF ChannelError, RingInv, Counted, Copying, dma
  <2>3. EachFrameOnce'
    BY <1>3 DEF ChannelError, RingInv, EachFrameOnce, Reaped, Dispatched, dma, taps
  <2> QED  BY <2>1, <2>2, <2>3 DEF RingInv
<1> QED  BY <1>1, <1>2, <1>3 DEF Engine

\* The worker sees the true number of completed frames.
LEMMA CountIsTrue ==
  NoWrap /\ RingInv /\ armed => CompletedSinceArm = completed
<1> SUFFICES ASSUME NoWrap, RingInv, armed PROVE CompletedSinceArm = completed
  OBVIOUS
<1>1. completed \in Nat /\ completed < COUNT
  BY RingAssumption, FramesAssumption DEF NoWrap, RingInv, RingType
<1> QED  BY <1>1, CountGivesBack DEF CompletedSinceArm, RingInv, Counted, Copying

\* Skipping lands on a frame that is completed and at most RING - 1 behind.
LEMMA SkipBounds ==
  ASSUME RingInv, NEW n \in Nat, rx_consumed < n
  PROVE  /\ SkipTo(n) \in Nat /\ rx_consumed <= SkipTo(n) /\ SkipTo(n) < n
         /\ n - (RING - 1) <= SkipTo(n)
BY RingAssumption DEF SkipTo, RingInv, RingType

\* Whatever happens to a frame at the TAP, it is counted once.
LEMMA DispatchCounts ==
  ASSUME RingInv, ToTap \/ UnknownLif
  PROVE  /\ pc = "dispatch" /\ pc' = "idle" /\ UNCHANGED <<engine, buf, dma, done, got, seen>>
         /\ punt_to_tap_ok' \in Nat /\ punt_to_tap_dropped' \in Nat
         /\ punt_unknown_lif' \in Nat /\ Reaped' = Reaped + 1 /\ Reaped \in Nat
<1>1. /\ pc = "dispatch" /\ pc' = "idle" /\ UNCHANGED <<engine, buf, dma, done, got, seen>>
      /\ \/ /\ punt_to_tap_ok' = punt_to_tap_ok + 1
            /\ UNCHANGED <<punt_to_tap_dropped, punt_unknown_lif>>
         \/ /\ punt_to_tap_dropped' = punt_to_tap_dropped + 1
            /\ UNCHANGED <<punt_to_tap_ok, punt_unknown_lif>>
         \/ /\ punt_unknown_lif' = punt_unknown_lif + 1
            /\ UNCHANGED <<punt_to_tap_ok, punt_to_tap_dropped>>
  BY DEF ToTap, UnknownLif
<1>2. /\ punt_to_tap_ok \in Nat /\ punt_to_tap_dropped \in Nat /\ punt_unknown_lif \in Nat
      /\ c2h_overrun \in Nat
  BY DEF RingInv, RingType
<1>3. c2h_overrun' = c2h_overrun
  BY <1>1 DEF dma
<1>4. Reaped' = Reaped + 1 /\ Reaped \in Nat
  BY <1>1, <1>2, <1>3 DEF Reaped, Dispatched
<1> QED  BY <1>1, <1>2, <1>4

LEMMA WorkerKeepsRing == NoWrap /\ RingInv /\ Worker => RingInv'
<1> SUFFICES ASSUME NoWrap, RingInv, Worker PROVE RingInv'
  OBVIOUS
<1>0. COUNT \in Nat \ {0} /\ RING \in Nat \ {0} /\ MaxFrames \in Nat /\ MaxFrames < COUNT
  BY RingAssumption, FramesAssumption DEF NoWrap
<1>1. CASE ArmBaseline
  <2>1. RingType'
    BY <1>0, <1>1 DEF ArmBaseline, RingInv, RingType, Counted, Copying, engine, taps
  <2>2. Counted'
    BY <1>0, <1>1 DEF ArmBaseline, RingInv, RingType, Counted, Copying, engine, Wrapped
  <2>3. EachFrameOnce'
    BY <1>1 DEF ArmBaseline, RingInv, Counted, Copying, EachFrameOnce, Reaped, Dispatched, engine, taps
  <2> QED  BY <2>1, <2>2, <2>3 DEF RingInv
<1>2. CASE ArmRun
  <2>1. RingType'
    BY <1>2 DEF ArmRun, RingInv, RingType, taps
  <2>2. Counted'
    BY <1>2 DEF ArmRun, RingInv, Counted, Copying
  <2>3. EachFrameOnce'
    BY <1>2 DEF ArmRun, RingInv, EachFrameOnce, Reaped, Dispatched, taps
  <2> QED  BY <2>1, <2>2, <2>3 DEF RingInv
<1>3. CASE ReadStatus
  <2>1. armed
    BY <1>3 DEF ReadStatus, RingInv, Counted, Copying
  <2>2. RingType'
    BY <1>3 DEF ReadStatus, RingInv, RingType, taps
  <2>3. Counted'
    BY <1>3, <2>1 DEF ReadStatus, RingInv, Counted, Copying
  <2>4. EachFrameOnce'
    BY <1>3 DEF ReadStatus, RingInv, EachFrameOnce, Reaped, Dispatched, taps
  <2> QED  BY <2>2, <2>3, <2>4 DEF RingInv
<1>4. CASE ReadCount
  <2>1. armed
    BY <1>4 DEF ReadCount, RingInv, Counted, Copying
  <2>2. done' = completed
    BY <1>4, <2>1, CountIsTrue DEF ReadCount
  <2>3. completed \in Nat /\ rx_consumed \in Nat
    BY DEF RingInv, RingType
  <2>4. CASE rx_consumed >= completed
    <3>1. pc' = "idle" /\ rx_consumed' = rx_consumed /\ c2h_overrun' = c2h_overrun
      BY <1>4, <2>2, <2>4 DEF ReadCount
    <3>2. RingType'
      BY <1>4, <3>1 DEF ReadCount, RingInv, RingType, engine, taps
    <3>3. Counted'
      BY <1>4, <2>1, <3>1 DEF ReadCount, RingInv, Counted, Copying, engine
    <3>4. EachFrameOnce'
      BY <1>4, <3>1 DEF ReadCount, RingInv, EachFrameOnce, Reaped, Dispatched, engine, taps
    <3> QED  BY <3>2, <3>3, <3>4 DEF RingInv
  <2>5. CASE rx_consumed < completed
    <3>1. /\ rx_consumed' = SkipTo(completed) /\ pc' = "header"
          /\ c2h_overrun' = c2h_overrun + (SkipTo(completed) - rx_consumed)
      BY <1>4, <2>2, <2>3, <2>5 DEF ReadCount
    <3>2. /\ SkipTo(completed) \in Nat /\ rx_consumed <= SkipTo(completed)
          /\ SkipTo(completed) < completed
      BY <2>3, <2>5, SkipBounds
    <3>3. RingType'
      BY <1>4, <2>3, <3>1, <3>2 DEF ReadCount, RingInv, RingType, engine, taps
    <3>4. Counted'
      BY <1>4, <2>1, <3>1, <3>2 DEF ReadCount, RingInv, Counted, Copying, engine
    <3>5. EachFrameOnce'
      BY <1>4, <2>3, <3>1, <3>2
      DEF ReadCount, RingInv, RingType, EachFrameOnce, Reaped, Dispatched, engine, taps
    <3> QED  BY <3>3, <3>4, <3>5 DEF RingInv
  <2> QED  BY <2>3, <2>4, <2>5
<1>5. CASE CopyHeader
  <2>1. rx_consumed \in Nat /\ rx_consumed % RING \in 0..(RING - 1) /\ armed
    BY SMTT(30), Z3T(30), <1>0, <1>5, ModInside DEF CopyHeader, RingInv, RingType, Counted, Copying
  <2>2. RingType'
    <3>1. got' \in [header : Nat, body : Nat]
      BY <1>5, <2>1 DEF CopyHeader, RingInv, RingType
    <3> QED  BY <1>5, <3>1 DEF CopyHeader, RingInv, RingType, engine, dma, taps
  <2>3. Counted'
    BY <1>5, <2>1 DEF CopyHeader, RingInv, Counted, Copying, engine, dma
  <2>4. EachFrameOnce'
    BY <1>5 DEF CopyHeader, RingInv, EachFrameOnce, Reaped, Dispatched, engine, dma, taps
  <2> QED  BY <2>2, <2>3, <2>4 DEF RingInv
<1>6. CASE CopyBody
  <2>1. rx_consumed \in Nat /\ rx_consumed < completed /\ armed
    BY <1>6 DEF CopyBody, RingInv, RingType, Counted, Copying
  <2>2. rx_consumed' = rx_consumed + 1
    <3>1. rx_consumed + 1 \in Nat /\ rx_consumed + 1 < COUNT
      BY <1>0, <2>1 DEF RingInv, RingType
    <3>2. (rx_consumed + 1) % COUNT = rx_consumed + 1
      BY <1>0, <3>1, ModSmall
    <3> QED  BY <1>6, <3>2 DEF CopyBody
  <2>3. rx_consumed % RING \in 0..(RING - 1)
    BY <1>0, <2>1, ModInside
  <2>4. RingType'
    <3>1. got' \in [header : Nat, body : Nat]
      BY Zenon, <1>6, <2>3 DEF CopyBody, RingInv, RingType
    <3>2. rx_consumed' \in 0..completed
      BY <2>1, <2>2 DEF RingInv, RingType
    <3> QED  BY <1>6, <3>1, <3>2 DEF CopyBody, RingInv, RingType, engine, taps
  <2>5. Counted'
    BY <1>6, <2>1 DEF CopyBody, RingInv, Counted, Copying, engine
  <2>6. EachFrameOnce'
    BY SMTT(30), Z3T(30), <1>6, <2>1, <2>2
    DEF CopyBody, RingInv, RingType, EachFrameOnce, Reaped, Dispatched, engine, taps
  <2> QED  BY <2>4, <2>5, <2>6 DEF RingInv
<1>7. CASE ToTap \/ UnknownLif
  <2>1. /\ pc = "dispatch" /\ pc' = "idle" /\ UNCHANGED <<engine, buf, dma, done, got, seen>>
        /\ punt_to_tap_ok' \in Nat /\ punt_to_tap_dropped' \in Nat
        /\ punt_unknown_lif' \in Nat /\ Reaped' = Reaped + 1 /\ Reaped \in Nat
    BY <1>7, DispatchCounts
  <2>2. RingType'
    BY <2>1 DEF RingInv, RingType, engine, dma
  <2>3. Counted'
    BY <2>1 DEF RingInv, Counted, Copying, engine, dma
  <2>4. EachFrameOnce'
    <3>1. /\ rx_consumed' = rx_consumed /\ completed' = completed
          /\ Reaped + 1 = rx_consumed /\ rx_consumed <= completed
      BY <2>1 DEF RingInv, EachFrameOnce, engine, dma
    <3>2. Reaped' + 0 = rx_consumed'
      BY <2>1, <3>1
    <3> QED  BY <2>1, <3>1, <3>2 DEF EachFrameOnce
  <2> QED  BY <2>2, <2>3, <2>4 DEF RingInv
<1> QED  BY <1>1, <1>2, <1>3, <1>4, <1>5, <1>6, <1>7 DEF Worker

LEMMA AlwaysRing == NoWrap => (SlowSpec => []RingInv)
<1> SUFFICES ASSUME NoWrap PROVE SlowSpec => []RingInv
  OBVIOUS
<1>1. SlowInit => RingInv
  BY InitRing
<1>2. RingInv /\ [SlowNext]_svars => RingInv'
  <2>1. RingInv /\ UNCHANGED vars => RingInv'
    BY DEF RingInv, RingType, Counted, Copying, EachFrameOnce, Reaped, Dispatched, vars, engine,
           dma, taps
  <2> QED  BY <2>1, SlowStepIsRingStep, EngineKeepsRing, WorkerKeepsRing
<1> QED  BY <1>1, <1>2, PTL DEF SlowSpec

(* "delivers each frame exactly once (no dups)" (backend_bar.c:450-451),   *)
(* for every ring size, skip and interleaving of the engine and the        *)
(* worker, as long as fewer frames complete than the count register can    *)
(* tell apart.                                                             *)
THEOREM FramesReapedOnce == NoWrap => (SlowSpec => []EachFrameOnce)
BY AlwaysRing, PTL DEF RingInv
-----------------------------------------------------------------------------
\* No frame is torn.  The frame the worker copies is one the buffers hold.
LEMMA CopiedIsHeld ==
  ASSUME NotLapped, RingInv, BuffersHold, Copied, Copying
  PROVE  buf[rx_consumed % RING] = Whole(rx_consumed + 1)
<1>1. /\ rx_consumed \in 0..(completed - 1) /\ Reaped = rx_consumed
      /\ completed \in Nat /\ seen \in Nat /\ Begun \in Nat /\ RING \in Nat
  <2>1. rx_consumed < completed /\ pc # "dispatch"
    BY DEF Copying, RingInv, Counted
  <2>2. Reaped + 0 = rx_consumed /\ Reaped \in Int
    BY <2>1 DEF RingInv, RingType, EachFrameOnce, Reaped, Dispatched
  <2> QED  BY <2>1, <2>2, RingAssumption DEF RingInv, RingType, Begun
<1>2. Begun - RING <= rx_consumed
  <2>1. CASE Overtake = 0
    <3>1. Begun <= seen + Overtake + 1 /\ seen - (RING - 1) <= rx_consumed
      BY DEF Copied
    <3> QED  BY <1>1, <2>1, <3>1
  <2>2. CASE MaxLag <= RING
    <3>1. Begun - Reaped <= MaxLag
      BY DEF Copied
    <3> QED  BY <1>1, <2>2, <3>1, OvertakeAssumption
  <2> QED  BY <2>1, <2>2 DEF NotLapped
<1> QED  BY <1>1, <1>2 DEF BuffersHold

LEMMA InitIntact == SlowInit => IntactInv
<1> SUFFICES ASSUME SlowInit PROVE IntactInv
  OBVIOUS
<1>1. completed = 0 /\ ~filling /\ pc = "idle" /\ Begun = 0 /\ Reaped = 0
  BY DEF SlowInit, Init, Begun, Reaped, Dispatched
<1> QED  BY <1>1, OvertakeAssumption DEF IntactInv, BuffersHold, Copied, Copying, DeliveredIntact

LEMMA EngineKeepsIntact == RingInv /\ IntactInv /\ Engine => IntactInv'
<1> SUFFICES ASSUME RingInv, IntactInv, Engine PROVE IntactInv'
  OBVIOUS
<1>0. /\ RING \in Nat \ {0} /\ completed \in Nat /\ Slot \in 0..(RING - 1)
      /\ buf \in [0..(RING - 1) -> [header : Nat, body : Nat]]
      /\ seen \in Nat /\ Reaped \in Nat /\ Overtake \in Nat /\ MaxLag \in Nat
      /\ filling \in BOOLEAN
  <2>1. RING \in Nat \ {0} /\ completed \in Nat
    BY RingAssumption DEF RingInv, RingType
  <2>2. Slot \in 0..(RING - 1)
    BY <2>1, ModInside DEF Slot
  <2>3. Reaped \in Nat /\ seen \in Nat
    BY DEF RingInv, RingType, Reaped, Dispatched
  <2> QED  BY <2>1, <2>2, <2>3, OvertakeAssumption DEF RingInv, RingType
\* Frames other than the one in flight keep their buffer.
<1>1. ASSUME NEW n \in 0..(completed - 1), completed + 1 - RING <= n
      PROVE  n % RING # Slot /\ n % RING \in 0..(RING - 1)
  <2>1. n \in Nat /\ n < completed /\ completed - n < RING
    BY <1>0, <1>1
  <2> QED  BY Zenon, <1>0, <2>1, ModDistinct, ModInside DEF Slot
<1>2. CASE BeginFill
  <2>1. /\ Begun = completed /\ Begun' = completed + 1 /\ completed' = completed
        /\ Slot' = Slot /\ Reaped' = Reaped /\ filling'
        /\ UNCHANGED <<pc, rx_consumed, seen, got>>
        /\ completed - Reaped < MaxLag
        /\ Copying => completed <= seen + Overtake
        /\ buf' = [buf EXCEPT ![Slot] = [header |-> completed + 1, body |-> Nothing]]
    BY <1>2, <1>0 DEF BeginFill, Begun, Slot, Reaped, Dispatched, dma, taps
  <2>2. BuffersHold'
    <3>1. ASSUME NEW n \in 0..(completed - 1), Begun' - RING <= n
          PROVE  buf'[n % RING] = Whole(n + 1)
      <4>1. completed + 1 - RING <= n /\ Begun - RING <= n
        BY <1>0, <2>1, <3>1
      <4>2. n % RING # Slot /\ n % RING \in 0..(RING - 1)
        BY <1>1, <4>1
      <4>3. buf'[n % RING] = buf[n % RING]
        BY <1>0, <2>1, <4>2
      <4> QED  BY <4>1, <4>3 DEF IntactInv, BuffersHold
    <3>2. buf'[Slot].header = completed + 1
      BY <1>0, <2>1
    <3> QED  BY <2>1, <3>1, <3>2 DEF BuffersHold, Whole
  <2>3. Copied'
    BY <1>0, <2>1 DEF IntactInv, Copied, Copying
  <2>4. DeliveredIntact'
    BY <2>1 DEF IntactInv, DeliveredIntact
  <2> QED  BY <2>2, <2>3, <2>4 DEF IntactInv
<1>3. CASE EndFill
  <2>1. /\ Begun = completed + 1 /\ Begun' = completed + 1 /\ completed' = completed + 1
        /\ Reaped' = Reaped /\ ~filling' /\ filling
        /\ UNCHANGED <<pc, rx_consumed, seen, got>>
        /\ buf' = [buf EXCEPT ![Slot].body = completed + 1]
    BY <1>3, <1>0 DEF EndFill, Begun, Reaped, Dispatched, dma, taps
  <2>2. BuffersHold'
    <3>1. ASSUME NEW n \in 0..completed, Begun' - RING <= n
          PROVE  buf'[n % RING] = Whole(n + 1)
      <4>1. CASE n = completed
        <5>1. buf[Slot].header = completed + 1 /\ buf[Slot] \in [header : Nat, body : Nat]
          BY <1>0, <2>1 DEF IntactInv, BuffersHold
        <5>2. buf'[Slot] = [buf[Slot] EXCEPT !.body = completed + 1]
          BY <1>0, <2>1
        <5>3. buf'[Slot] = Whole(completed + 1)
          BY <5>1, <5>2 DEF Whole
        <5> QED  BY <4>1, <5>3 DEF Slot
      <4>2. CASE n < completed
        <5>1. n \in 0..(completed - 1) /\ completed + 1 - RING <= n /\ Begun - RING <= n
          BY <1>0, <2>1, <3>1, <4>2
        <5>2. n % RING # Slot /\ n % RING \in 0..(RING - 1)
          BY <1>1, <5>1
        <5>3. buf'[n % RING] = buf[n % RING]
          BY <1>0, <2>1, <5>2
        <5> QED  BY <5>1, <5>3 DEF IntactInv, BuffersHold
      <4> QED  BY <1>0, <4>1, <4>2
    <3>2. completed' - 1 = completed
      BY <1>0, <2>1
    <3> QED  BY <2>1, <3>1, <3>2 DEF BuffersHold, Whole
  <2>3. Copied'
    BY <1>0, <2>1 DEF IntactInv, Copied, Copying
  <2>4. DeliveredIntact'
    BY <2>1 DEF IntactInv, DeliveredIntact
  <2> QED  BY <2>2, <2>3, <2>4 DEF IntactInv
<1>4. CASE ChannelError
  <2>1. UNCHANGED <<filling, completed, buf, pc, rx_consumed, seen, got, c2h_overrun, taps>>
    BY <1>4 DEF ChannelError, dma
  <2> QED
    BY <2>1 DEF IntactInv, BuffersHold, Copied, Copying, DeliveredIntact, Begun, Slot, Whole,
                Reaped, Dispatched, taps
<1> QED  BY <1>2, <1>3, <1>4 DEF Engine

LEMMA WorkerKeepsIntact ==
  NoWrap /\ NotLapped /\ RingInv /\ IntactInv /\ Worker => IntactInv'
<1> SUFFICES ASSUME NoWrap, NotLapped, RingInv, IntactInv, Worker PROVE IntactInv'
  OBVIOUS
<1>0. /\ RING \in Nat \ {0} /\ completed \in Nat /\ seen \in Nat /\ Reaped \in Nat
      /\ rx_consumed \in Nat /\ Overtake \in Nat /\ MaxLag \in Nat /\ Begun \in Nat
      /\ Begun <= completed + 1
  BY RingAssumption, OvertakeAssumption DEF RingInv, RingType, Reaped, Dispatched, Begun
\* Only the engine touches the buffers.
<1>1. /\ UNCHANGED <<buf, filling, completed>> /\ Begun' = Begun
  BY DEF Worker, ArmBaseline, ArmRun, ReadStatus, ReadCount, CopyHeader, CopyBody, ToTap,
         UnknownLif, engine, Begun
<1>2. BuffersHold'
  BY <1>1 DEF IntactInv, BuffersHold, Slot, Whole
<1>3. CASE ArmBaseline \/ ArmRun \/ ReadStatus
  <2>1. pc' \notin {"header", "body", "dispatch"} /\ Reaped' = Reaped
    BY <1>3 DEF ArmBaseline, ArmRun, ReadStatus, Reaped, Dispatched, taps
  <2> QED  BY <1>1, <1>2, <2>1 DEF IntactInv, Copied, Copying, DeliveredIntact
<1>4. CASE ReadCount
  <2>1. done' = completed
    <3>1. armed
      BY <1>4 DEF ReadCount, RingInv, Counted
    <3> QED  BY <1>4, <3>1, CountIsTrue DEF ReadCount
  <2>2. CASE rx_consumed >= completed
    <3>1. pc' = "idle" /\ Reaped' = Reaped
      BY <1>4, <2>1, <2>2 DEF ReadCount, Reaped, Dispatched, taps
    <3> QED  BY <1>1, <1>2, <3>1 DEF IntactInv, Copied, Copying, DeliveredIntact
  <2>3. CASE rx_consumed < completed
    <3>1. /\ rx_consumed' = SkipTo(completed) /\ pc' = "header" /\ seen' = completed
          /\ c2h_overrun' = c2h_overrun + (SkipTo(completed) - rx_consumed)
      BY <1>0, <1>4, <2>1, <2>3 DEF ReadCount
    <3>2. /\ SkipTo(completed) \in Nat /\ rx_consumed <= SkipTo(completed)
          /\ completed - (RING - 1) <= SkipTo(completed)
      BY <1>0, <2>3, SkipBounds
    <3>3. Reaped' = Reaped + (SkipTo(completed) - rx_consumed)
      <4>1. /\ UNCHANGED taps /\ punt_to_tap_ok \in Nat /\ punt_to_tap_dropped \in Nat
            /\ punt_unknown_lif \in Nat /\ c2h_overrun \in Nat
        BY <1>4 DEF ReadCount, RingInv, RingType
      <4> QED  BY <1>0, <3>1, <3>2, <4>1 DEF Reaped, Dispatched, taps
    <3>4. Copied'
      BY <1>0, <1>1, <3>1, <3>2, <3>3 DEF IntactInv, Copied, Copying
    <3> QED  BY <1>2, <3>1, <3>4 DEF IntactInv, DeliveredIntact
  <2> QED  BY <1>0, <2>2, <2>3
<1>5. CASE CopyHeader
  <2>1. Copying /\ buf[rx_consumed % RING] = Whole(rx_consumed + 1)
    BY <1>5, CopiedIsHeld DEF CopyHeader, Copying, IntactInv
  <2>2. got \in [header : Nat, body : Nat]
    BY DEF RingInv, RingType
  <2>3. got'.header = rx_consumed + 1
    BY <1>5, <2>1, <2>2 DEF CopyHeader, Whole
  <2>4. UNCHANGED <<rx_consumed, seen>> /\ Reaped' = Reaped /\ pc' = "body"
    BY <1>5 DEF CopyHeader, dma, Reaped, Dispatched, taps
  <2>5. Copied'
    BY <1>1, <2>1, <2>3, <2>4 DEF IntactInv, Copied, Copying
  <2> QED  BY <1>2, <2>4, <2>5 DEF IntactInv, DeliveredIntact
<1>6. CASE CopyBody
  <2>1. Copying /\ buf[rx_consumed % RING] = Whole(rx_consumed + 1)
    BY <1>6, CopiedIsHeld DEF CopyBody, Copying, IntactInv
  <2>2. got \in [header : Nat, body : Nat] /\ got.header = rx_consumed + 1
    BY <1>6 DEF CopyBody, RingInv, RingType, IntactInv, Copied
  <2>3. got' = Whole(rx_consumed + 1)
    BY <1>6, <2>1, <2>2 DEF CopyBody, Whole
  <2>4. rx_consumed' = rx_consumed + 1
    <3>1. /\ rx_consumed + 1 \in Nat /\ rx_consumed + 1 < COUNT /\ COUNT \in Nat \ {0}
      BY <1>0, <2>1, RingAssumption, FramesAssumption
      DEF NoWrap, RingInv, RingType, Counted
    <3>2. (rx_consumed + 1) % COUNT = rx_consumed + 1
      BY <3>1, ModSmall
    <3> QED  BY <1>6, <3>2 DEF CopyBody
  <2>5. pc' = "dispatch" /\ Reaped' = Reaped
    BY <1>6 DEF CopyBody, Reaped, Dispatched, taps
  <2>6. Copied'
    BY <1>1, <2>5 DEF IntactInv, Copied, Copying
  <2>7. DeliveredIntact'
    BY <2>3, <2>4 DEF DeliveredIntact, Whole
  <2> QED  BY <1>2, <2>6, <2>7 DEF IntactInv
<1>7. CASE ToTap \/ UnknownLif
  <2>1. pc' = "idle" /\ Reaped' = Reaped + 1
    BY <1>7, DispatchCounts
  <2>2. Copied'
    BY <1>0, <1>1, <2>1 DEF IntactInv, Copied, Copying
  <2> QED  BY <1>2, <2>1, <2>2 DEF IntactInv, DeliveredIntact
<1> QED  BY <1>3, <1>4, <1>5, <1>6, <1>7 DEF Worker

(* What goes to a TAP is one whole frame and the right one, although the   *)
(* engine writes the ring while the worker copies from it, for every ring  *)
(* size, as long as the engine does not lap the copy (backend_bar.c, the   *)
(* RING - 1 rule of dma_slow_path_rx).                                     *)
THEOREM FramesDeliveredIntact ==
  NoWrap /\ NotLapped => (SlowSpec => []DeliveredIntact)
<1> SUFFICES ASSUME NoWrap, NotLapped PROVE SlowSpec => []DeliveredIntact
  OBVIOUS
<1>1. SlowInit => IntactInv
  BY InitIntact
<1>2. RingInv /\ IntactInv /\ [SlowNext]_svars => IntactInv'
  <2>1. IntactInv /\ UNCHANGED vars => IntactInv'
    BY DEF IntactInv, BuffersHold, Copied, Copying, DeliveredIntact, Begun, Slot, Whole,
           Reaped, Dispatched, vars, engine, dma, taps
  <2> QED  BY <2>1, SlowStepIsRingStep, EngineKeepsIntact, WorkerKeepsIntact
<1>3. IntactInv => DeliveredIntact
  BY DEF IntactInv
<1>4. SlowSpec => []RingInv
  BY AlwaysRing
<1> QED  BY <1>1, <1>2, <1>3, <1>4, PTL DEF SlowSpec
-----------------------------------------------------------------------------
\* The inject path.  What happens to the frames due when one is dropped from
\* the end, when the FIFO is flushed, and when the first one is sent.
LEMMA DropLast ==
  ASSUME NEW S, NEW s \in Seq(S), NEW x \in S
  PROVE  /\ Append(s, x) # <<>>
         /\ SubSeq(Append(s, x), 1, Len(Append(s, x)) - 1) = s
<1> DEFINE t == Append(s, x)
<1>1. /\ t \in Seq(S) /\ t # <<>> /\ Len(t) = Len(s) + 1 /\ Len(s) \in Nat
      /\ \A i \in 1..Len(s) : t[i] = s[i]
  BY AppendProperties, LenProperties
<1>2. \A i \in 1..Len(s) : s[i] \in S
  BY ElementOfSeq
<1> HIDE DEF t
<1>3. \A i \in 1..Len(s) : t[i] \in S
  BY <1>1, <1>2
<1> DEFINE u == SubSeq(t, 1, Len(s))
<1>4. u \in Seq(S) /\ Len(u) = Len(s) /\ \A i \in 1..Len(s) : u[i] = t[i]
  BY <1>1, <1>3, SubSeqProperties
<1>5. u = s
  BY <1>1, <1>4, SeqEqual
<1>6. Len(t) - 1 = Len(s)
  BY <1>1
<1>7. t # <<>> /\ SubSeq(t, 1, Len(t) - 1) = s
  BY <1>1, <1>5, <1>6
<1> QED  BY <1>7 DEF t

LEMMA KeepLast ==
  ASSUME NEW S, NEW s \in Seq(S), NEW x \in S
  PROVE  /\ SubSeq(Append(s, x), Len(s) + 1, Len(Append(s, x))) = Append(<<>>, x)
         /\ SubSeq(s, Len(s) + 1, Len(s)) = <<>>
<1> DEFINE t == Append(s, x)
           u == SubSeq(t, Len(s) + 1, Len(s) + 1)
           v == Append(<<>>, x)
<1>1. Len(t) = Len(s) + 1 /\ Len(s) \in Nat /\ t[Len(s) + 1] = x
  BY AppendProperties, LenProperties
<1>2. v \in Seq(S) /\ Len(v) = 1 /\ v[1] = x
  BY EmptySeq, AppendProperties
<1> HIDE DEF t, v
<1>3. u \in Seq(S) /\ Len(u) = 1 /\ u[1] = x
  <2>1. \A i \in (Len(s) + 1)..(Len(s) + 1) : t[i] \in S
    BY <1>1
  <2>2. /\ u \in Seq(S)
        /\ Len(u) = IF Len(s) + 1 <= Len(s) + 1 THEN (Len(s) + 1) - (Len(s) + 1) + 1 ELSE 0
        /\ \A i \in 1..((Len(s) + 1) - (Len(s) + 1) + 1) : u[i] = t[Len(s) + 1 + i - 1]
    BY <1>1, <2>1, SubSeqProperties
  <2> QED  BY <1>1, <2>2
<1> HIDE DEF u
<1>4. u = v
  <2>1. \A i \in 1..Len(u) : u[i] = v[i]
    BY <1>2, <1>3
  <2> QED  BY <1>2, <1>3, <2>1, SeqEqual
<1>5. SubSeq(s, Len(s) + 1, Len(s)) = <<>>
  BY <1>1, SubSeqEmpty
<1> QED  BY <1>1, <1>4, <1>5 DEF t, u, v

LEMMA PortsExist == /\ PORT_COUNT \in Nat /\ 0 \in 0..(PORT_COUNT - 1) /\ 1 \in Bindings
                    /\ Bindings = 1..Len(Egress) /\ Len(Egress) \in Nat \ {0}
                    /\ \A k \in Bindings : Egress[k] \in 0..(PORT_COUNT - 1)
<1>1. Len(Egress) \in Nat \ {0} /\ Bindings = 1..Len(Egress)
  BY InjectAssumption, EmptySeq, LenProperties DEF Bindings
<1>2. \A k \in Bindings : Egress[k] \in 0..(PORT_COUNT - 1)
  BY <1>1, InjectAssumption, ElementOfSeq
<1>3. 1 \in Bindings
  BY <1>1
<1> QED  BY <1>1, <1>2, <1>3, InjectAssumption

LEMMA NoFrameType == NoFrame \in Frames
BY PortsExist DEF NoFrame, Frames

LEMMA InitInject == SlowInit => InjectInv
<1> SUFFICES ASSUME SlowInit PROVE InjectInv
  OBVIOUS
<1>1. <<>> \in Seq(Frames)
  BY EmptySeq
<1>2. InjectType
  BY Zenon, <1>1, PortsExist, NoFrameType DEF SlowInit, InjectType
<1>3. ChannelInStep /\ Forwarding
  BY DEF SlowInit, ChannelInStep, Forwarding
<1> QED  BY Zenon, <1>2, <1>3 DEF SlowInit, InjectInv, InStep

\* The next binding is a binding.
LEMMA NextBindingType ==
  ASSUME b \in Bindings, NextBinding PROVE b' \in Bindings
BY PortsExist DEF NextBinding

\* Every action keeps the channel in step and the frames due in order.
LEMMA OthersKeepInStep ==
  ASSUME InStep, PuntHalf \/ C2H \/ TapEmpty \/ UNCHANGED svars
  PROVE  InStep'
<1>1. UNCHANGED <<driver, channel, fabric, due>>
  BY DEF PuntHalf, C2H, TapEmpty, svars, history
<1>2. b' \in Bindings
  <2>1. b \in Bindings
    BY DEF InStep, InjectType
  <2> QED  BY <2>1, PortsExist, NextBindingType DEF PuntHalf, C2H, TapEmpty, loop, svars
<1> QED  BY <1>1, <1>2 DEF InStep, InjectType, ChannelInStep, Forwarding, driver, channel, fabric

LEMMA DriverKeepsInStep ==
  ASSUME InStep, TapRead \/ FillHeader \/ FillBody \/ PollDone \/ StopChannel
  PROVE  InStep'
<1>1. CASE TapRead
  <2>1. b \in Bindings /\ nth[b] \in {0, 1} /\ Egress[b] \in 0..(PORT_COUNT - 1)
    BY PortsExist DEF InStep, InjectType
  <2>2. frame' \in Frames
    BY <1>1, <2>1 DEF TapRead, Frames
  <2>3. nth' \in [Bindings -> {0, 1}]
    BY <1>1, <2>1 DEF TapRead, InStep, InjectType
  <2>4. h2c = "idle" /\ UNCHANGED <<b, tx_buf, fifo, due, h2c, header, count, h2c_err, inj_state,
                                   inj_egress_q>>
    BY <1>1 DEF TapRead, InStep, ChannelInStep, loop, channel, fabric
  <2>5. InjectType'
    BY Zenon, <2>2, <2>3, <2>4 DEF InStep, InjectType
  <2>6. ChannelInStep'
    BY Zenon, <1>1, <2>4 DEF TapRead, InStep, ChannelInStep
  <2>7. Forwarding'
    BY <2>4 DEF InStep, Forwarding
  <2> QED  BY <2>5, <2>6, <2>7 DEF InStep
<1>2. CASE FillHeader
  <2>1. h2c = "idle" /\ UNCHANGED <<b, nth, frame, fifo, due, h2c, header, count, h2c_err,
                                   inj_state, inj_egress_q>>
    BY <1>2 DEF FillHeader, InStep, ChannelInStep, loop, channel, fabric, history
  <2>2. tx_buf' \in Frames /\ tx_buf'.egress = frame.egress
    BY Zenon, <1>2 DEF FillHeader, InStep, InjectType, Frames
  <2>3. InjectType'
    BY <2>1, <2>2 DEF InStep, InjectType
  <2>4. ChannelInStep'
    BY <1>2, <2>1, <2>2 DEF FillHeader, InStep, ChannelInStep
  <2>5. Forwarding'
    BY <2>1 DEF InStep, Forwarding
  <2> QED  BY <2>3, <2>4, <2>5 DEF InStep
<1>3. CASE FillBody
  <2>1. h2c = "idle" /\ UNCHANGED <<b, nth, frame, fifo, due, h2c, header, count, h2c_err,
                                   inj_state, inj_egress_q>>
    BY <1>3 DEF FillBody, InStep, ChannelInStep, loop, channel, fabric, history
  <2>2. tx_buf' = frame /\ frame \in Frames
    <3>1. /\ tx_buf' = [tx_buf EXCEPT !.body = frame.body] /\ tx_buf.egress = frame.egress
          /\ tx_buf \in Frames /\ frame \in Frames
      BY <1>3 DEF FillBody, InStep, InjectType, ChannelInStep
    <3> QED  BY <3>1 DEF Frames
  <2>3. InjectType'
    BY <2>1, <2>2 DEF InStep, InjectType
  <2>4. ChannelInStep'
    BY <1>3, <2>1, <2>2 DEF FillBody, InStep, ChannelInStep
  <2>5. Forwarding'
    BY <2>1 DEF InStep, Forwarding
  <2> QED  BY <2>3, <2>4, <2>5 DEF InStep
<1>4. CASE PollDone
  <2>1. UNCHANGED <<b, nth, frame, tx_buf, fifo, due, h2c, header, count, h2c_err, inj_state,
                    inj_egress_q>>
    BY <1>4 DEF PollDone, loop, channel, fabric, history
  <2>2. h2c = "idle" /\ ~h2c_err /\ tpc' = "ok"
    BY <1>4 DEF PollDone, InStep, ChannelInStep
  <2> QED  BY <2>1, <2>2 DEF InStep, InjectType, ChannelInStep, Forwarding
<1>5. CASE StopChannel
  <2>1. /\ h2c = "idle" /\ tpc' = "read" /\ frame' = NoFrame
        /\ UNCHANGED <<nth, tx_buf, fifo, due, h2c, header, count, inj_state, inj_egress_q>>
    BY <1>5 DEF StopChannel, InStep, ChannelInStep, fabric, history
  <2>2. h2c_err' = FALSE
    BY Zenon, <1>5 DEF StopChannel, InStep, ChannelInStep, InjectType
  <2>3. b' \in Bindings
    BY <1>5, NextBindingType DEF StopChannel, InStep, InjectType
  <2>4. InjectType'
    BY Zenon, <2>1, <2>2, <2>3, NoFrameType DEF InStep, InjectType
  <2>5. ChannelInStep'
    BY <2>1, <2>2 DEF InStep, ChannelInStep
  <2>6. Forwarding'
    BY <2>1 DEF InStep, Forwarding
  <2> QED  BY <2>4, <2>5, <2>6 DEF InStep
<1> QED  BY <1>1, <1>2, <1>3, <1>4, <1>5

LEMMA ChannelKeepsInStep ==
  ASSUME InStep, ~late, RunChannel \/ FetchHeader \/ FetchBody \/ H2CError
  PROVE  InStep'
<1>0. fifo \in Seq(Frames) /\ due \in Seq(Frames) /\ frame \in Frames /\ tx_buf \in Frames
  BY DEF InStep, InjectType
<1>1. CASE RunChannel
  <2>1. h2c = "idle" /\ ~h2c_err /\ tx_buf = frame /\ due = fifo
    BY <1>1 DEF RunChannel, InStep, ChannelInStep, Forwarding
  <2>2. /\ h2c' = "header" /\ count' = 0 /\ tpc' = "poll" /\ due' = Append(fifo, frame)
        /\ UNCHANGED <<b, nth, frame, tx_buf, h2c_err, header, fifo, inj_state, inj_egress_q>>
    BY <1>1, <2>1 DEF RunChannel, loop, fabric
  <2>3. due' \in Seq(Frames)
    BY <1>0, <2>2, AppendProperties
  <2>4. InjectType'
    BY <2>2, <2>3 DEF InStep, InjectType
  <2>5. ChannelInStep'
    BY <2>1, <2>2 DEF ChannelInStep
  <2>6. Forwarding'
    BY <2>2 DEF InStep, Forwarding
  <2> QED  BY <2>4, <2>5, <2>6 DEF InStep
<1>2. CASE FetchHeader
  <2>1. /\ h2c = "header" /\ h2c' = "body" /\ header' = frame.egress
        /\ UNCHANGED <<b, nth, tpc, frame, tx_buf, count, h2c_err, fifo, inj_state, inj_egress_q,
                      due>>
    BY <1>2 DEF FetchHeader, InStep, ChannelInStep, loop, driver, fabric, history
  <2>2. header' \in 0..(PORT_COUNT - 1)
    BY <1>0, <2>1 DEF Frames
  <2>3. InjectType'
    BY <2>1, <2>2 DEF InStep, InjectType
  <2>4. ChannelInStep'
    BY <2>1 DEF InStep, ChannelInStep
  <2>5. Forwarding'
    BY <2>1 DEF InStep, Forwarding
  <2> QED  BY <2>3, <2>4, <2>5 DEF InStep
<1>3. CASE FetchBody
  <2>1. [egress |-> header, body |-> tx_buf.body] = frame
    <3>1. header = frame.egress /\ tx_buf = frame
      BY <1>3 DEF FetchBody, InStep, ChannelInStep
    <3> QED  BY <1>0, <3>1 DEF Frames
  <2>2. /\ h2c = "body" /\ h2c' = "idle" /\ count' = 1 /\ header' = 0
        /\ fifo' = Append(fifo, frame) /\ due = Append(fifo, frame) /\ ~h2c_err /\ tpc = "poll"
        /\ UNCHANGED <<b, nth, tpc, frame, tx_buf, h2c_err, inj_state, inj_egress_q, due>>
    BY <1>3, <2>1 DEF FetchBody, InStep, ChannelInStep, Forwarding, loop, driver, history
  <2>3. fifo' \in Seq(Frames) /\ fifo' # <<>> /\ (fifo # <<>> => Head(fifo') = Head(fifo))
    BY <1>0, <2>2, AppendProperties, HeadTailAppend
  <2>4. InjectType'
    BY <2>2, <2>3, PortsExist DEF InStep, InjectType
  <2>5. ChannelInStep'
    BY <2>2 DEF ChannelInStep
  <2>6. Forwarding'
    BY <2>2, <2>3 DEF InStep, Forwarding
  <2> QED  BY <2>4, <2>5, <2>6 DEF InStep
<1>4. CASE H2CError
  <2>1. /\ h2c = "header" /\ h2c' = "idle" /\ h2c_err' = TRUE /\ count = 0 /\ tpc = "poll"
        /\ due = Append(fifo, frame)
        /\ UNCHANGED <<b, nth, tpc, frame, tx_buf, count, header, fifo, inj_state, inj_egress_q>>
    BY <1>4 DEF H2CError, InStep, ChannelInStep, Forwarding, loop, driver, fabric
  <2>2. due' = fifo
    BY <1>0, <1>4, <2>1, DropLast DEF H2CError
  <2>3. InjectType'
    BY <1>0, <2>1, <2>2 DEF InStep, InjectType
  <2>4. ChannelInStep'
    BY <2>1 DEF InStep, ChannelInStep
  <2>5. Forwarding'
    BY <2>1, <2>2 DEF InStep, Forwarding
  <2> QED  BY <2>3, <2>4, <2>5 DEF InStep
<1> QED  BY <1>1, <1>2, <1>3, <1>4

\* What the FIFO holds first is due first, whether or not the channel works on
\* one more frame.
LEMMA FirstIsDue ==
  ASSUME InStep, fifo # <<>>
  PROVE  /\ Head(fifo) \in Frames /\ Tail(fifo) \in Seq(Frames) /\ Tail(due) \in Seq(Frames)
         /\ due # <<>> /\ Head(due) = Head(fifo)
         /\ Tail(due) = IF h2c = "idle" THEN Tail(fifo) ELSE Append(Tail(fifo), frame)
<1>1. fifo \in Seq(Frames) /\ due \in Seq(Frames) /\ frame \in Frames
  BY DEF InStep, InjectType
<1>2. due = IF h2c = "idle" THEN fifo ELSE Append(fifo, frame)
  BY DEF InStep, Forwarding
<1>3. Head(fifo) \in Frames /\ Tail(fifo) \in Seq(Frames)
  BY <1>1, HeadTailProperties
<1>4. /\ Append(fifo, frame) \in Seq(Frames) /\ Append(fifo, frame) # <<>>
      /\ Head(Append(fifo, frame)) = Head(fifo)
      /\ Tail(Append(fifo, frame)) = Append(Tail(fifo), frame)
  BY <1>1, AppendProperties, HeadTailAppend
<1>5. due # <<>> /\ Tail(due) \in Seq(Frames)
  BY <1>1, <1>2, <1>4, HeadTailProperties
<1> QED  BY Zenon, <1>2, <1>3, <1>4, <1>5

LEMMA FabricKeepsInStep ==
  ASSUME InStep, ~late, wrong = FALSE, StripHeader \/ SendPayload \/ SoftReset
  PROVE  InStep' /\ wrong' = FALSE
<1>0. fifo # <<>> /\ fifo \in Seq(Frames) /\ due \in Seq(Frames) /\ frame \in Frames
  BY DEF InStep, InjectType, Forwarding, StripHeader, SendPayload, SoftReset
<1>1. UNCHANGED <<b, nth, tpc, frame, tx_buf, h2c, count, h2c_err, header>>
  BY DEF StripHeader, SendPayload, SoftReset, loop, driver, channel
<1>2. ChannelInStep'
  BY <1>1 DEF InStep, ChannelInStep
<1>3. CASE StripHeader
  <2>1. UNCHANGED <<fifo, due, wrong>>
    BY Zenon, <1>3 DEF StripHeader, history
  <2>2. inj_state' = "S_PAY" /\ inj_egress_q' = Head(fifo).egress
    <3>1. Head(fifo).egress \in 0..(PORT_COUNT - 1)
      BY Zenon, <1>0, FirstIsDue DEF Frames
    <3>2. ~(Head(fifo).egress >= PORT_COUNT)
      BY <3>1, PortsExist
    <3> QED  BY Zenon, <1>3, <3>2 DEF StripHeader
  <2>3. InjectType' /\ Forwarding'
    BY <1>0, <1>1, <2>1, <2>2 DEF InStep, InjectType, Forwarding
  <2> QED  BY Zenon, <1>2, <2>1, <2>3 DEF InStep
<1>4. CASE SendPayload
  <2>1. [egress |-> inj_egress_q, body |-> Head(fifo).body] = Head(due)
    <3>1. inj_egress_q = Head(fifo).egress
      BY Zenon, <1>4 DEF SendPayload, InStep, Forwarding
    <3> QED  BY Zenon, <1>0, <3>1, FirstIsDue DEF Frames
  <2>2. wrong' = FALSE
    BY Zenon, <1>0, <1>4, <2>1, FirstIsDue DEF SendPayload
  <2>3. fifo' = Tail(fifo) /\ due' = Tail(due) /\ inj_state' = "S_HDR"
    BY <1>0, <1>4, FirstIsDue DEF SendPayload
  <2>4. InjectType' /\ Forwarding'
    BY <1>0, <1>1, <2>3, FirstIsDue DEF InStep, InjectType, Forwarding
  <2> QED  BY <1>2, <2>2, <2>4 DEF InStep
<1>5. CASE SoftReset
  <2>1. fifo' = <<>> /\ inj_state' = "S_HDR" /\ wrong' = FALSE
    BY <1>5 DEF SoftReset
  <2>2. due' = IF h2c = "idle" THEN <<>> ELSE Append(<<>>, frame)
    BY <1>0, <1>5, KeepLast DEF SoftReset, InStep, Forwarding
  <2>3. <<>> \in Seq(Frames) /\ Append(<<>>, frame) \in Seq(Frames)
    BY <1>0, EmptySeq, AppendProperties
  <2>4. InjectType' /\ Forwarding'
    BY <1>1, <2>1, <2>2, <2>3 DEF InStep, InjectType, Forwarding
  <2> QED  BY <1>2, <2>1, <2>4 DEF InStep
<1> QED  BY Zenon, <1>3, <1>4, <1>5

LEMMA FailureKeepsInStep ==
  ASSUME InStep, ~late, PollFailed, ~late' PROVE InStep'
<1>1. h2c = "idle" /\ tpc' = "failed" /\ count = 0
  BY Zenon DEF PollFailed, InStep, ChannelInStep
<1>2. UNCHANGED <<b, nth, frame, tx_buf, fifo, due, h2c, header, count, h2c_err, inj_state,
                  inj_egress_q>>
  BY DEF PollFailed, loop, channel, fabric
<1>3. InjectType' /\ Forwarding'
  BY <1>2 DEF InStep, InjectType, Forwarding
<1>4. ChannelInStep'
  BY <1>1, <1>2 DEF ChannelInStep
<1> QED  BY <1>3, <1>4 DEF InStep

\* A descriptor that outlived its inject stays the excuse for the rest of the run.
LEMMA LateStays ==
  ASSUME late \in BOOLEAN, [SlowNext]_svars
  PROVE  /\ late' \in BOOLEAN /\ (late => late')
         /\ late /\ wrong = FALSE => wrong' = FALSE
         /\ ~SendPayload => wrong' = wrong
BY Zenon DEF SlowNext, CardWorker, PuntHalf, Inject, Card, C2H, TapRead, TapEmpty, FillHeader, FillBody,
  RunChannel, PollDone, PollFailed, StopChannel, FetchHeader, FetchBody, H2CError, StripHeader,
  SendPayload, SoftReset, svars, history

LEMMA InjectStep ==
  ASSUME InjectInv, [SlowNext]_svars PROVE InjectInv'
<1>1. late \in BOOLEAN /\ wrong = FALSE
  BY DEF InjectInv
<1>2. CASE late
  BY Zenon, <1>1, <1>2, LateStays DEF InjectInv
<1>3. CASE ~late
  <2>1. InStep
    BY <1>3 DEF InjectInv
  <2>2. CASE StripHeader \/ SendPayload \/ SoftReset
    BY Zenon, <1>1, <1>3, <2>1, <2>2, FabricKeepsInStep, LateStays DEF InjectInv
  <2>3. CASE ~(StripHeader \/ SendPayload \/ SoftReset)
    <3>1. wrong' = FALSE /\ late' \in BOOLEAN
      BY Zenon, <1>1, <2>3, LateStays
    <3>2. ~late' => InStep'
      BY <1>3, <2>1, <2>3, OthersKeepInStep, DriverKeepsInStep, ChannelKeepsInStep, FailureKeepsInStep
         DEF SlowNext, CardWorker, Inject, Card
    <3> QED  BY <3>1, <3>2 DEF InjectInv
  <2> QED  BY <2>2, <2>3
<1> QED  BY <1>2, <1>3

LEMMA AlwaysInject == SlowSpec => []InjectInv
<1>1. InjectInv /\ [SlowNext]_svars => InjectInv'
  BY InjectStep
<1> QED  BY InitInject, <1>1, PTL DEF SlowSpec

(* For every set of TAPs and ports and every FIFO depth: as long as no     *)
(* descriptor outlived its inject, what a port sends from the slow path is *)
(* what was read from a TAP bound to it, whole, in order and once, across  *)
(* channel errors and soft resets (backend_bar.c:347-400,                  *)
(* pw_dma_slowpath.sv:107-156).                                            *)
THEOREM FramesInjectedAsRead == SlowSpec => []InjectedAsRead
<1>1. InjectInv => InjectedAsRead
  BY DEF InjectInv, InjectedAsRead
<1> QED  BY AlwaysInject, <1>1, PTL

(* For every such instance: an inject reported PW_OK has left the TX       *)
(* buffer, so the next frame is never written over one the channel still   *)
(* reads (backend_bar.c:367-373).                                          *)
THEOREM ReportedOkWasFetched == SlowSpec => []OkMeansFetched
<1>1. InjectInv => OkMeansFetched
  BY DEF InjectInv, InStep, ChannelInStep, OkMeansFetched
<1> QED  BY AlwaysInject, <1>1, PTL
=============================================================================
