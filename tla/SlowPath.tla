------------------------------ MODULE SlowPath ------------------------------
(***************************************************************************)
(* Both directions of a card's slow path in the one thread that serves     *)
(* them: pw_host_plane_step first reaps punted frames (C2HRing), then      *)
(* reads each TAP in turn and injects what it reads, at most MAX_PER_DIR   *)
(* frames per direction and TAP.  An inject is dma_slow_path_tx            *)
(* (backend_bar.c), the XDMA H2C channel that fetches the one TX buffer,   *)
(* the frame FIFO and the header strip of pw_dma_slowpath.sv.              *)
(*                                                                         *)
(* The H2C channel is external.  Told to stop, it finishes the descriptor  *)
(* it is working on.  Once an inject has timed out over an unfinished      *)
(* descriptor (late), the next one overwrites what the channel may still   *)
(* fetch, and nothing is claimed about the frames sent.                    *)
(***************************************************************************)
EXTENDS C2HRing, Sequences

CONSTANTS Egress,       \* egress_local_port of each binding, in binding order
          PORT_COUNT,   \* data-plane ports
          MAX_PER_DIR,  \* max_per_dir of pw_host_plane_step
          FIFO_FRAMES,  \* bound: frames the inject FIFO holds
          MixedPunts    \* bound: frames punted in a run that also injects

ASSUME InjectAssumption == /\ PORT_COUNT \in Nat
                           /\ Egress \in Seq(0..(PORT_COUNT - 1)) /\ Egress # <<>>
                           /\ MAX_PER_DIR \in Nat \ {0} /\ FIFO_FRAMES \in Nat \ {0}
                           /\ MixedPunts \in Nat

VARIABLES turn, left,   \* direction being served, calls left in its loop
          b, nth,       \* binding; parity of its next frame
          tpc, frame,   \* where the inject is, the frame read
          tx_buf,       \* the TX buffer: header and body
          h2c, count, h2c_err,  \* channel: descriptor stage, completed count, error
          header,       \* channel: the header it has fetched
          fifo,         \* frames between channel and data plane
          inj_state, inj_egress_q,
          injected,     \* a TAP has been read: bounds the punted frames
          due,          \* history: frames handed to the channel, not yet sent
          late, wrong   \* history: see above; a frame sent that was not due
loop == <<turn, left, b>>
driver == <<nth, tpc, frame, tx_buf>>
channel == <<h2c, count, h2c_err, header>>
fabric == <<fifo, inj_state, inj_egress_q>>
history == <<due, late, wrong, injected>>
svars == <<vars, loop, driver, channel, fabric, history>>

Bindings == DOMAIN Egress
Frames == [egress : 0..(PORT_COUNT - 1), body : Bindings \X {0, 1}]
NoFrame == [egress |-> 0, body |-> <<1, 0>>]

SlowInit ==
  /\ Init
  /\ turn = "punt" /\ left = MAX_PER_DIR /\ b = 1
  /\ nth = [k \in Bindings |-> 0] /\ tpc = "read" /\ frame = NoFrame /\ tx_buf = NoFrame
  /\ h2c = "idle" /\ count = 0 /\ h2c_err = FALSE /\ header = 0
  /\ fifo = <<>> /\ inj_state = "S_HDR" /\ inj_egress_q = 0
  /\ due = <<>> /\ late = FALSE /\ wrong = FALSE /\ injected = FALSE
-----------------------------------------------------------------------------
\* The punt half: slow_path_rx until it has nothing or the limit is reached.
PuntHalf ==
  /\ turn = "punt" /\ Worker
  /\ IF pc' # "idle" THEN UNCHANGED loop
     ELSE IF pc = "count" \/ left = 1 THEN turn' = "tap" /\ left' = MAX_PER_DIR /\ b' = 1
     ELSE left' = left - 1 /\ UNCHANGED <<turn, b>>
  /\ UNCHANGED <<driver, channel, fabric, history>>

NextBinding ==
  /\ left' = MAX_PER_DIR
  /\ IF b = Len(Egress) THEN turn' = "punt" /\ b' = 1 ELSE b' = b + 1 /\ UNCHANGED turn

\* The TAP half: read() has a frame, or the binding is left.
TapRead ==
  /\ turn = "tap" /\ tpc = "read" /\ left > 0
  /\ completed + (IF filling THEN 1 ELSE 0) <= MixedPunts /\ injected' = TRUE
  /\ frame' = [egress |-> Egress[b], body |-> <<b, nth[b]>>]
  /\ nth' = [nth EXCEPT ![b] = 1 - @]
  /\ tpc' = "header"
  /\ UNCHANGED <<vars, loop, tx_buf, channel, fabric, due, late, wrong>>
TapEmpty ==
  /\ turn = "tap" /\ tpc = "read" /\ NextBinding
  /\ UNCHANGED <<vars, driver, channel, fabric, history>>

MutFillHeader ==        \* the header is not rewritten: the last frame's port
  /\ turn = "tap" /\ tpc = "header" /\ tpc' = "body"
  /\ UNCHANGED <<vars, loop, nth, frame, tx_buf, channel, fabric, history>>

\* dma_slow_path_tx: header, body, descriptor and RUN, poll, stop.
FillHeader ==
  /\ turn = "tap" /\ tpc = "header" /\ tpc' = "body"
  /\ tx_buf' = [tx_buf EXCEPT !.egress = frame.egress]
  /\ UNCHANGED <<vars, loop, nth, frame, channel, fabric, history>>
FillBody ==
  /\ tpc = "body" /\ tpc' = "run"
  /\ tx_buf' = [tx_buf EXCEPT !.body = frame.body]
  /\ UNCHANGED <<vars, loop, nth, frame, channel, fabric, history>>

\* RUN resets the completed count.
RunChannel ==
  /\ tpc = "run" /\ tpc' = "poll"
  /\ count' = 0
  /\ h2c' = IF h2c = "idle" THEN "header" ELSE h2c
  /\ due' = IF late THEN <<>> ELSE Append(due, frame)
  /\ UNCHANGED <<vars, loop, nth, frame, tx_buf, h2c_err, header, fabric, late, wrong, injected>>

MutPollDone ==          \* compared with a baseline read before RUN
  /\ tpc = "poll" /\ count = 0 /\ tpc' = "ok"
  /\ UNCHANGED <<vars, loop, nth, frame, tx_buf, channel, fabric, history>>

PollDone ==
  /\ tpc = "poll" /\ count # 0 /\ tpc' = "ok"
  /\ UNCHANGED <<vars, loop, nth, frame, tx_buf, channel, fabric, history>>
PollFailed ==           \* a channel error, or 200 ms without completion
  /\ tpc = "poll" /\ count = 0 /\ tpc' = "failed"
  /\ late' = (late \/ (~h2c_err /\ h2c # "idle"))
  /\ due' = IF late' THEN <<>> ELSE due
  /\ UNCHANGED <<vars, loop, nth, frame, tx_buf, channel, fabric, wrong, injected>>

MutStopChannel ==       \* the frame is not counted against the limit
  /\ tpc \in {"ok", "failed"} /\ tpc' = "read"
  /\ h2c_err' = (h2c_err /\ tpc = "ok")
  /\ UNCHANGED <<vars, loop, nth, frame, tx_buf, h2c, count, header, fabric, history>>

\* CONTROL = 0; a failure also clears the latched error.  tap_to_fpga_ok or
\* tap_to_fpga_dropped counts the frame.
StopChannel ==
  /\ tpc \in {"ok", "failed"} /\ tpc' = "read"
  /\ h2c_err' = (h2c_err /\ tpc = "ok")
  /\ IF left = 1 THEN NextBinding ELSE left' = left - 1 /\ UNCHANGED <<turn, b>>
  /\ frame' = NoFrame
  /\ UNCHANGED <<vars, nth, tx_buf, h2c, count, header, fabric, history>>

Inject == TapRead \/ TapEmpty \/ FillHeader \/ FillBody \/ RunChannel \/ PollDone
          \/ PollFailed \/ StopChannel
-----------------------------------------------------------------------------
\* The channel: fetches the header, then the body once the FIFO has room.
FetchHeader ==
  /\ h2c = "header" /\ h2c' = "body" /\ header' = tx_buf.egress
  /\ UNCHANGED <<vars, loop, driver, count, h2c_err, fabric, history>>
FetchBody ==
  /\ h2c = "body" /\ Len(fifo) < FIFO_FRAMES
  /\ fifo' = Append(fifo, [egress |-> header, body |-> tx_buf.body])
  /\ h2c' = "idle" /\ count' = 1 /\ header' = 0
  /\ UNCHANGED <<vars, loop, driver, h2c_err, inj_state, inj_egress_q, history>>
H2CError ==             \* the descriptor is refused
  /\ h2c = "header" /\ h2c' = "idle" /\ h2c_err' = TRUE
  /\ due' = IF due = <<>> THEN due ELSE SubSeq(due, 1, Len(due) - 1)
  /\ UNCHANGED <<vars, loop, driver, count, header, fabric, late, wrong, injected>>

\* The header strip: a frame for a port that does not exist is swallowed.
StripHeader ==
  /\ inj_state = "S_HDR" /\ fifo # <<>>
  /\ inj_egress_q' = Head(fifo).egress
  /\ inj_state' = IF Head(fifo).egress >= PORT_COUNT THEN "S_DROP" ELSE "S_PAY"
  /\ UNCHANGED <<vars, loop, driver, channel, fifo, history>>
SendPayload ==          \* the TX arbiter of port inj_egress_q takes the frame
  /\ inj_state = "S_PAY" /\ inj_state' = "S_HDR"
  /\ fifo' = Tail(fifo)
  /\ LET sent == [egress |-> inj_egress_q, body |-> Head(fifo).body]
     IN  wrong' = (wrong \/ (~late /\ (due = <<>> \/ sent # Head(due))))
  /\ due' = IF due = <<>> THEN due ELSE Tail(due)
  /\ UNCHANGED <<vars, loop, driver, channel, inj_egress_q, late, injected>>

\* DP_RESET by another thread: FIFO and strip are flushed, the channel is not.
SoftReset ==
  /\ fifo # <<>>
  /\ fifo' = <<>> /\ inj_state' = "S_HDR" /\ inj_egress_q' = 0
  /\ due' = SubSeq(due, Len(fifo) + 1, Len(due))
  /\ UNCHANGED <<vars, loop, driver, channel, late, wrong, injected>>

Card == FetchHeader \/ FetchBody \/ H2CError \/ StripHeader \/ SendPayload \/ SoftReset
C2H == /\ filling \/ completed < MixedPunts \/ ~injected
       /\ Engine /\ UNCHANGED <<loop, driver, channel, fabric, history>>
CardWorker == PuntHalf \/ Inject

SlowNext == CardWorker \/ Card \/ C2H

\* The worker thread keeps running; the card owes it nothing.
SlowSpec == SlowInit /\ [][SlowNext]_svars /\ WF_svars(CardWorker)
-----------------------------------------------------------------------------
(* What a port sends from the slow path is what was read from a TAP bound  *)
(* to that port, whole, in the order read and each frame once, across soft *)
(* resets and channel errors, as long as no descriptor outlived its        *)
(* inject (backend_bar.c:347-400, pw_dma_slowpath.sv:107-156).             *)
InjectedAsRead == ~wrong

(* An inject reported PW_OK has left the TX buffer: the channel is done    *)
(* with it before it is filled again, so a stale completed count is never  *)
(* taken for this frame's (backend_bar.c:367-373).                         *)
OkMeansFetched == tpc = "ok" /\ ~late => h2c = "idle"

(* A TAP that always has frames, and a channel that never completes one,   *)
(* keep the worker neither from the other TAPs nor from the punted frames: *)
(* every binding is polled again and again (host_plane.c:59-91).           *)
EveryTapServed ==
  \A k \in Bindings : []<>(turn = "tap" /\ b = k)
=============================================================================
