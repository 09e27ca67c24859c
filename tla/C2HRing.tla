------------------------------- MODULE C2HRing ------------------------------
(***************************************************************************)
(* Punted frames on their way from the FPGA to a TAP device: the XDMA C2H  *)
(* engine that fills a circular ring of buffers without ever stopping, and *)
(* the card worker that reaps them (dma_arm_c2h and dma_slow_path_rx of    *)
(* sw/libpacketwyrm/src/backend_bar.c, the punt half of                    *)
(* pw_host_plane_step).  The two share nothing but the buffers and the     *)
(* engine's completed-descriptor count, which wraps at COUNT.              *)
(*                                                                         *)
(* Frame n is the n-th one the engine completes after RUN.  A buffer is    *)
(* abstracted to the frame its header and the frame its body came from.    *)
(***************************************************************************)
EXTENDS Integers

CONSTANTS RING,         \* PW_DMA_RX_RING
          COUNT,        \* values of the 32-bit completed count
          LifOf,        \* logical interface of each frame, from its header
          Bound,        \* logical interfaces bound to a TAP
          MaxFrames,    \* bound: frames of a run
          MaxLag,       \* bound: frames completed and not yet reaped
          LeftCounts,   \* values an earlier run of the daemon left in the count
          Overtake      \* buffers beyond the next that the engine may start during a copy

ASSUME RingAssumption == RING \in Nat /\ RING > 1 /\ COUNT \in Nat /\ COUNT % RING = 0
ASSUME FramesAssumption == MaxFrames \in Nat /\ DOMAIN LifOf = 1..MaxFrames
ASSUME OvertakeAssumption == Overtake \in Nat /\ MaxLag \in Nat
ASSUME CountsAssumption == LeftCounts \subseteq 0..(COUNT - 1)

VARIABLES run, err,     \* engine: running, latched channel error
          filling,      \* engine: a buffer is being filled
          cmpl,         \* engine: completed-descriptor count register
          buf,          \* the ring's buffers
          pc,           \* where the worker is in dma_slow_path_rx
          armed, c2h_cmpl_base, rx_consumed, c2h_overrun, c2h_err,
          done,         \* worker's local
          got,          \* worker's copy: lif and body
          punt_to_tap_ok, punt_to_tap_dropped, punt_unknown_lif,
          completed,    \* history: frames completed since RUN
          seen          \* history: completed when the worker read the count
engine == <<run, err, filling, cmpl, completed>>
dma == <<armed, c2h_cmpl_base, rx_consumed, c2h_overrun, c2h_err>>
taps == <<punt_to_tap_ok, punt_to_tap_dropped, punt_unknown_lif>>
vars == <<engine, buf, pc, dma, done, got, taps, seen>>

Nothing == 0      \* a buffer part that belongs to no frame
Copying == pc \in {"header", "body"}

Init ==
  /\ run = FALSE /\ err = FALSE /\ filling = FALSE
  /\ cmpl \in LeftCounts
  /\ buf = [i \in 0..(RING - 1) |-> [header |-> Nothing, body |-> Nothing]]
  /\ pc = "idle"
  /\ armed = FALSE /\ c2h_cmpl_base = 0 /\ rx_consumed = 0
  /\ c2h_overrun = 0 /\ c2h_err = 0
  /\ done = 0 /\ got = [header |-> Nothing, body |-> Nothing]
  /\ punt_to_tap_ok = 0 /\ punt_to_tap_dropped = 0 /\ punt_unknown_lif = 0
  /\ completed = 0 /\ seen = 0
-----------------------------------------------------------------------------
Dispatched == punt_to_tap_ok + punt_to_tap_dropped + punt_unknown_lif
Reaped == Dispatched + c2h_overrun

\* The engine.  The buffer of the frame in flight is that of frame number
\* `completed`, counted from 0; its header arrives first.
Slot == completed % RING

BeginFill ==
  /\ run /\ ~filling /\ completed < MaxFrames
  /\ completed - Reaped < MaxLag
  /\ Copying => completed <= seen + Overtake
  /\ filling' = TRUE
  /\ buf' = [buf EXCEPT ![Slot] = [header |-> completed + 1, body |-> Nothing]]
  /\ UNCHANGED <<run, err, cmpl, completed, pc, dma, done, got, taps, seen>>

EndFill ==
  /\ run /\ filling
  /\ filling' = FALSE
  /\ buf' = [buf EXCEPT ![Slot].body = completed + 1]
  /\ cmpl' = (cmpl + 1) % COUNT
  /\ completed' = completed + 1
  /\ UNCHANGED <<run, err, pc, dma, done, got, taps, seen>>

\* A channel error halts the engine; only a daemon restart re-arms it.
ChannelError ==
  /\ run
  /\ run' = FALSE /\ err' = TRUE
  /\ UNCHANGED <<filling, cmpl, completed, buf, pc, dma, done, got, taps, seen>>
-----------------------------------------------------------------------------
\* dma_arm_c2h: the baseline is read before RUN.
ArmBaseline ==
  /\ pc = "idle" /\ ~armed
  /\ rx_consumed' = 0
  /\ c2h_cmpl_base' = cmpl
  /\ pc' = "arm"
  /\ UNCHANGED <<engine, buf, armed, c2h_overrun, c2h_err, done, got, taps, seen>>

ArmRun ==
  /\ pc = "arm"
  /\ run' = TRUE /\ armed' = TRUE
  /\ pc' = "status"
  /\ UNCHANGED <<err, filling, cmpl, completed, buf, c2h_cmpl_base, rx_consumed,
                 c2h_overrun, c2h_err, done, got, taps, seen>>

\* The channel status: an error is counted and cleared, nothing is re-armed.
ReadStatus ==
  /\ pc = "status" \/ (pc = "idle" /\ armed)
  /\ c2h_err' = IF err THEN c2h_err + 1 ELSE c2h_err
  /\ err' = FALSE
  /\ pc' = "count"
  /\ UNCHANGED <<run, filling, cmpl, completed, buf, armed, c2h_cmpl_base, rx_consumed,
                 c2h_overrun, done, got, taps, seen>>

\* done: frames completed since the ring was armed, in 32 bits.
CompletedSinceArm == (cmpl - c2h_cmpl_base) % COUNT

MutSkipTo(d) == IF d - rx_consumed > RING THEN d - RING ELSE rx_consumed

\* What the worker consumes next, given the number of frames completed:
\* with RING or more of them waiting, the oldest are given up.
SkipTo(d) == IF d - rx_consumed >= RING THEN d - (RING - 1) ELSE rx_consumed

\* The completed count is read and compared with the frames reaped so far.
ReadCount ==
  /\ pc = "count"
  /\ done' = CompletedSinceArm
  /\ seen' = completed
  /\ IF rx_consumed >= done'
     THEN pc' = "idle" /\ UNCHANGED <<rx_consumed, c2h_overrun>>
     ELSE /\ rx_consumed' = SkipTo(done')
          /\ c2h_overrun' = c2h_overrun + (SkipTo(done') - rx_consumed)
          /\ pc' = "header"
  /\ UNCHANGED <<engine, buf, armed, c2h_cmpl_base, c2h_err, got, taps>>

CopyHeader ==
  /\ pc = "header"
  /\ got' = [got EXCEPT !.header = buf[rx_consumed % RING].header]
  /\ pc' = "body"
  /\ UNCHANGED <<engine, buf, dma, done, taps, seen>>

MutCopyBody ==        \* the consumer index is not advanced
  /\ pc = "body"
  /\ got' = [got EXCEPT !.body = buf[rx_consumed % RING].body]
  /\ pc' = "dispatch"
  /\ UNCHANGED <<engine, buf, dma, done, taps, seen>>

CopyBody ==
  /\ pc = "body"
  /\ got' = [got EXCEPT !.body = buf[rx_consumed % RING].body]
  /\ rx_consumed' = (rx_consumed + 1) % COUNT
  /\ pc' = "dispatch"
  /\ UNCHANGED <<engine, buf, armed, c2h_cmpl_base, c2h_overrun, c2h_err, done, taps, seen>>

\* pw_host_plane_step: find_binding, then a write that the TAP may refuse.
ToTap ==
  /\ pc = "dispatch" /\ got.header # Nothing /\ LifOf[got.header] \in Bound
  /\ \/ punt_to_tap_ok' = punt_to_tap_ok + 1 /\ UNCHANGED punt_to_tap_dropped
     \/ punt_to_tap_dropped' = punt_to_tap_dropped + 1 /\ UNCHANGED punt_to_tap_ok
  /\ pc' = "idle"
  /\ UNCHANGED <<engine, buf, dma, done, got, punt_unknown_lif, seen>>

UnknownLif ==
  /\ pc = "dispatch" /\ (got.header # Nothing => LifOf[got.header] \notin Bound)
  /\ punt_unknown_lif' = punt_unknown_lif + 1
  /\ pc' = "idle"
  /\ UNCHANGED <<engine, buf, dma, done, got, punt_to_tap_ok, punt_to_tap_dropped, seen>>

Engine == BeginFill \/ EndFill \/ ChannelError
Worker == ArmBaseline \/ ArmRun \/ ReadStatus \/ ReadCount \/ CopyHeader \/ CopyBody
          \/ ToTap \/ UnknownLif
-----------------------------------------------------------------------------

(* "delivers each frame exactly once (no dups)" (backend_bar.c:450-451):   *)
(* every frame the engine completed was dispatched once, is counted as     *)
(* overrun, or is still waiting; the frame after a skip is the oldest one  *)
(* left.                                                                   *)
EachFrameOnce ==
  /\ Reaped + (IF pc = "dispatch" THEN 1 ELSE 0) = rx_consumed
  /\ rx_consumed <= completed

(* What goes to a TAP is one whole frame and the right one, although the   *)
(* engine writes the ring while the worker copies from it: the header that *)
(* chose the TAP and the body belong to the frame just consumed.           *)
DeliveredIntact ==
  pc = "dispatch" => got = [header |-> rx_consumed, body |-> rx_consumed]

(* A completed frame does not stay in the ring for ever: the worker        *)
(* dispatches it or counts it as overrun.                                  *)
EveryFrameReaped ==
  \A n \in 1..MaxFrames : completed >= n ~> Reaped >= n
=============================================================================
