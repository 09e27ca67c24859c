------------------------------ MODULE RxStats -------------------------------
(***************************************************************************)
(* One ingress port's checker, the latency histogram it shares with the    *)
(* other port, and the health LED latch, as pw_data_plane_axis.sv wires    *)
(* them: one clock, one stats_clear_i pulse for all three.  The other      *)
(* port's checker is represented by the samples it reports.                *)
(*                                                                         *)
(* A 64-byte frame takes 8 beats plus a gap, so the hardware's distance    *)
(* between two samples of a port is 9 cycles; Spacing is what the          *)
(* histogram engine needs.                                                 *)
(***************************************************************************)
EXTENDS RxChecker, FiniteSetsExt

CONSTANTS Spacing,    \* cycles between two TEST_RX events of a port
          FarAddrs,   \* counters the other port's samples go to
          MaxFar      \* bound: samples of the other port

ASSUME SpacingAssumption == Spacing \in Nat \ {0} /\ MaxFar \in Nat

VARIABLES hmem, doutA, state, clr_addr, eng_addr, hv, ha, rr,
          err_sticky,   \* err_sticky_q, the health LED
          port_err,     \* an FCS or drop counter of the port is not zero
          missed,       \* history: a test frame without a match since the clear
          cool,         \* cycles until the next event
          far_cool,     \* the same for the other port
          far_taken     \* history: samples of the other port, per flow
hvars == <<hmem, doutA, state, clr_addr, eng_addr, hv, ha, rr>>
ledvars == <<err_sticky, port_err, missed>>
allvars == <<vars, hvars, ledvars, cool, far_cool, far_taken>>

Hst == INSTANCE LatHistogram WITH DEPTH <- NUM_FLOWS * NUM_BUCKETS, N_EV <- 2

Sample(valid, addr) == IF valid THEN addr ELSE Hst!NoAddr

MutEvFlat(far) ==   \* bucket-major counters
  [s \in 0..1 |-> IF s = 1 THEN far
                 ELSE Sample(hist_ev.valid, hist_ev.bucket * NUM_FLOWS + hist_ev.flow)]

\* ev_flat: the counter addresses of the two ports' registered events.
ev_flat(far) ==
  [s \in 0..1 |-> IF s = 1 THEN far
                 ELSE Sample(hist_ev.valid, hist_ev.flow * NUM_BUCKETS + hist_ev.bucket)]

MutHealthLed(clear, bad, miss) ==   \* the checker's pulse is not latched
  /\ port_err' = (~clear /\ (port_err \/ bad))
  /\ err_sticky' = IF clear THEN FALSE ELSE err_sticky \/ port_err \/ miss
  /\ missed' = (~clear /\ (missed \/ miss))

\* The sticky latch.  bad: a frame with a bad FCS or a buffer overflow is
\* counted; miss: a test frame that no rule matched passes by.
HealthLed(clear, bad, miss) ==
  /\ port_err' = (~clear /\ (port_err \/ bad))
  /\ err_sticky' = IF clear THEN FALSE
                   ELSE err_sticky \/ lost_event \/ port_err \/ miss
  /\ missed' = (~clear /\ (missed \/ miss))

SInit == /\ Init /\ Hst!HInit
         /\ err_sticky = FALSE /\ port_err = FALSE /\ missed = FALSE
         /\ cool = 0 /\ far_cool = 0 /\ far_taken = [f \in Flows |-> 0]

Cool(c, event) == IF event THEN Spacing - 1 ELSE IF c > 0 THEN c - 1 ELSE 0
Spaced(e) == /\ event_take(e) => cool = 0
             /\ cool' = Cool(cool, event_take(e))

\* The other port reports a sample for counter far, or none.
OtherPort(far) ==
  LET event == far # Hst!NoAddr
  IN  /\ event => far_cool = 0 /\ MapThenSumSet(LAMBDA f : far_taken[f], Flows) < MaxFar
      /\ far_cool' = Cool(far_cool, event)
      /\ far_taken' = IF event THEN [far_taken EXCEPT ![far \div NUM_BUCKETS] = @ + 1]
                      ELSE far_taken

\* A cycle with stats_clear_i low.
Run(e, far, bad, miss) ==
  /\ Spaced(e) /\ OtherPort(far)
  /\ Accept(e) \/ ClearStep(e)
  /\ Hst!HTick(FALSE, ev_flat(far))
  /\ HealthLed(FALSE, bad, miss)

\* The cycle in which stats_clear_i is high.
StatsClear(e, far, bad, miss) ==
  /\ Spaced(e) /\ OtherPort(far)
  /\ StartClear(e) \/ ClearStep(e)
  /\ Hst!HTick(TRUE, ev_flat(far))
  /\ HealthLed(TRUE, bad, miss)

\* bad and miss set the same latch: one of them at a time is enough.
SNext == \E e \in Frames, far \in FarAddrs \union {Hst!NoAddr},
            led \in {<<FALSE, FALSE>>, <<TRUE, FALSE>>, <<FALSE, TRUE>>} :
           Run(e, far, led[1], led[2]) \/ StatsClear(e, far, led[1], led[2])

SSpec == SInit /\ [][SNext]_allvars
-----------------------------------------------------------------------------
Idle == ~clearing /\ state # "CLEAR"

\* Samples of flow f the checkers have taken, and those the histogram has or
\* is about to get.
Taken(f) == mem[f].samples + far_taken[f]
            + (IF s1.valid /\ s1.ev.test /\ s1.ev.flow = f THEN 1 ELSE 0)
Binned(f) ==
  MapThenSumSet(LAMBDA a : hmem[a] + Hst!Pending(a),
                {f * NUM_BUCKETS + b : b \in 0..(NUM_BUCKETS - 1)})
  + (IF hist_ev.valid /\ hist_ev.flow = f THEN 1 ELSE 0)
  + (IF s1.valid /\ s1.ev.test /\ s1.ev.flow = f THEN 1 ELSE 0)

(* Outside the clear walks the histogram keeps step with the checkers: no  *)
(* cycle changes the difference between samples taken and samples binned,  *)
(* for any flow, across the three pipeline registers between them, although*)
(* a holder is one event deep and the read-modify-write for one port       *)
(* overlaps the arrivals of the other (pw_lat_histogram.sv:79-82).         *)
HistogramKeepsStep ==
  [][Idle /\ Idle' => \A f \in Flows : (Taken(f) - Binned(f))' = Taken(f) - Binned(f)]_allvars

(* A loss the counters show is never hidden behind a green LED: outside a  *)
(* clear, a flow with lost > 0 or an unmatched test frame has latched      *)
(* err_sticky or does so on the next edge (pw_data_plane_axis.sv:893-915). *)
LossIsLit ==
  (missed \/ (~clearing /\ \E f \in Flows : mem[f].lost > 0)) => err_sticky \/ lost_event
=============================================================================
