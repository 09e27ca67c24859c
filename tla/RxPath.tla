------------------------------- MODULE RxPath -------------------------------
(***************************************************************************)
(* The receive path of one ingress port around its store-and-forward       *)
(* buffer, as pw_data_plane_axis.sv builds it: the raw AXI stream, the     *)
(* SAF_DLY-cycle delay line in front of the buffer with its arming gate,   *)
(* the parser + classifier pipeline whose decision lands SAF_DLY + 1       *)
(* cycles after the raw last beat, and the data-plane soft reset, which    *)
(* clears the delay line and the buffer but not the decision pipeline.     *)
(*                                                                         *)
(* A frame is a number n, its beats are <<n, 1>>, <<n, 2>>, ...; its       *)
(* decision is tagged with n, so that a beat drained under the wrong       *)
(* descriptor, or a frame with beats missing, is visible.                  *)
(***************************************************************************)
EXTENDS FrameSaf

CONSTANTS SAF_DLY,      \* delay line length (7)
          RST_CYCLES,   \* length of the stretched soft reset (8)
          MaxLen,       \* longest frame, in beats
          MaxFrame,     \* bound: frames of a run
          MinGap        \* idle cycles the MAC leaves between frames

ASSUME PathAssumption == SAF_DLY \in Nat \ {0} /\ RST_CYCLES \in Nat \ {0}
                         /\ MaxLen \in Nat \ {0} /\ MaxFrame \in Nat /\ MinGap \in Nat

FrameIds == 1..MaxFrame
FrameBeats == [frame : 0..MaxFrame, idx : 0..MaxLen, last : BOOLEAN]

ASSUME StreamAssumption == Beats = FrameBeats /\ Routes = 0..MaxFrame

VARIABLES raw,          \* what the MAC is sending: frame, beat index, gap
          rxd,          \* rxd_tv .. rxd_tl: the delay line, newest first
          rxd_armed,
          decq,         \* the parser / classifier pipeline, newest first
          srst_cnt,     \* soft reset stretch counter, dp_rst_n = (srst_cnt = 0)
          drained       \* history: last beat consumed on the drain side
vars == <<safvars, raw, rxd, rxd_armed, decq, srst_cnt, drained>>

Unused == [frame |-> 0, idx |-> 0, last |-> FALSE]
Idle == [valid |-> FALSE, beat |-> Unused]
NoDec == [valid |-> FALSE, keep |-> FALSE, route |-> 0]

Init ==
  /\ mem = [a \in 0..(DEPTH - 1) |-> Unused]
  /\ desc_mem = [a \in 0..(DESC_DEPTH - 1) |-> 0]
  /\ dbeat = Unused
  /\ SafInit
  /\ raw = [frame |-> 0, idx |-> 0, gap |-> 0]
  /\ rxd = [s \in 1..SAF_DLY |-> Idle] /\ rxd_armed = FALSE
  /\ decq = [s \in 1..(SAF_DLY + 1) |-> NoDec]
  /\ srst_cnt = 0
  /\ drained = Unused

\* The MAC: no beat, the next beat of the frame in progress (a frame FIFO
\* never pauses inside a frame), or the first beat of the next frame.
InFrame == raw.idx > 0
RawInputs == {Idle} \cup [valid : {TRUE}, beat : [frame : FrameIds, idx : 1..MaxLen, last : BOOLEAN]]
IdleCycle == IF InFrame THEN {} ELSE {Idle}
BeatCycle ==
  LET n == IF InFrame THEN raw.frame ELSE raw.frame + 1
      beats == [frame : {n}, idx : {raw.idx + 1}, last : BOOLEAN]
  IN  IF raw.gap > 0 \/ n > MaxFrame THEN {}
      ELSE [valid : {TRUE}, beat : {b \in beats : b.idx = MaxLen => b.last}]
MacInputs == IdleCycle \cup BeatCycle

MacSends(in) ==
  raw' = IF ~in.valid THEN [raw EXCEPT !.gap = IF @ > 0 THEN @ - 1 ELSE 0]
         ELSE [frame |-> in.beat.frame,
               idx |-> IF in.beat.last THEN 0 ELSE in.beat.idx,
               gap |-> IF in.beat.last THEN MinGap ELSE 0]

\* The classifier's verdict on the frame that ends in this cycle enters the
\* pipeline: FORWARD / PUNT / MIRROR keep it, every other action drops it.
Verdict(in, keep) ==
  IF in.valid /\ in.beat.last THEN [valid |-> TRUE, keep |-> keep, route |-> in.beat.frame]
  ELSE NoDec

Shift(line, x) == [s \in DOMAIN line |-> IF s = 1 THEN x ELSE line[s - 1]]

MutRxdIn(in) == in

\* The arming gate: after a soft reset no beat enters before an idle cycle.
RxdIn(in) == IF rxd_armed THEN in ELSE Idle
DelayLine(in) ==
  /\ rxd' = Shift(rxd, RxdIn(in))
  /\ rxd_armed' = (rxd_armed \/ ~in.valid)

FlushDelayLine ==
  /\ rxd' = [s \in 1..SAF_DLY |-> Idle]
  /\ rxd_armed' = FALSE

StretchReset(pulse) ==
  srst_cnt' = IF pulse THEN RST_CYCLES ELSE IF srst_cnt > 0 THEN srst_cnt - 1 ELSE 0

\* A clock edge with dp_rst_n high.
Run(in, keep, ready, pulse) ==
  /\ srst_cnt = 0
  /\ MacSends(in)
  /\ SafTick(rxd[SAF_DLY], decq[SAF_DLY + 1], ready)
  /\ DelayLine(in)
  /\ decq' = Shift(decq, Verdict(in, keep))
  /\ drained' = IF consume(ready) THEN dbeat ELSE drained
  /\ StretchReset(pulse)

\* A clock edge during the soft reset: the raw stream and the decision
\* pipeline go on.
ResetCycle(in, keep, pulse) ==
  /\ srst_cnt # 0
  /\ MacSends(in)
  /\ SafReset
  /\ FlushDelayLine
  /\ decq' = Shift(decq, Verdict(in, keep))
  /\ drained' = Unused
  /\ StretchReset(pulse)

Next == \E in \in MacInputs, keep, pulse \in BOOLEAN :
          \/ \E ready \in BOOLEAN : Run(in, keep, ready, pulse)
          \/ ResetCycle(in, keep, pulse)

\* The clock runs, whether or not a soft reset is ever pulsed; the egress
\* grants the buffer again and again.
Clock == \E in \in MacInputs, keep \in BOOLEAN :
           \/ \E ready \in BOOLEAN : Run(in, keep, ready, FALSE)
           \/ ResetCycle(in, keep, FALSE)
Granted == \E in \in MacInputs, keep \in BOOLEAN : Run(in, keep, TRUE, FALSE)
Spec == Init /\ [][Next]_vars
FairSpec == Spec /\ WF_vars(Clock) /\ SF_vars(Granted)
-----------------------------------------------------------------------------

(* Every frame on the drain side is whole and carries its own decision:    *)
(* its beats come in order from the first to the last, after the last beat *)
(* of the frame before it, and its descriptor is the one its own decision  *)
(* pushed - also for a frame that meets a soft reset half way, a full      *)
(* buffer or a dropped neighbour.                                          *)
DrainedWhole ==
  dvalid => /\ ~desc_empty
            /\ m_route = dbeat.frame
            /\ IF drained = Unused \/ drained.last THEN dbeat.idx = 1
               ELSE dbeat.frame = drained.frame /\ dbeat.idx = drained.idx + 1

(* A committed frame leaves the buffer, or a soft reset empties it: the    *)
(* drain side never stops with a descriptor in front of it.                *)
HeadDrains ==
  \A d \in DescPtrs : (desc_rd = d /\ ~desc_empty) ~> (desc_rd # d \/ desc_empty)
=============================================================================
