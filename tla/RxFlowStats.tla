---------------------------- MODULE RxFlowStats -----------------------------
(***************************************************************************)
(* What the RX checker promises: per-flow records that take each accepted  *)
(* TEST_RX frame into account at once, and that a clear sets back to blank *)
(* in one step.  There is no pipeline, no memory and no clear walk here;   *)
(* RxChecker shows that the BRAM implementation refines this.              *)
(*                                                                         *)
(* obs is a history variable: for every flow the number of frames taken   *)
(* since the last clear, the sequence numbers seen and the first of them.  *)
(* It states what the counters should mean and influences nothing.         *)
(***************************************************************************)
EXTENDS RxRecord, FiniteSets

CONSTANTS NUM_FLOWS,    \* flow slots
          Frames,       \* frames the environment may present
          MaxFrames     \* bound: frames taken per flow between clears

Flows == 0..(NUM_FLOWS - 1)

\* A frame as stage 1 sees it: clamped latency, test header or not.
FrameType == [flow : Nat, act : {"TEST_RX", "OTHER"}, test : BOOLEAN,
              seq : Nat, raw : Int]

ASSUME FlowsAssumption == NUM_FLOWS \in Nat \ {0}
ASSUME FramesAssumption == Frames \subseteq FrameType
ASSUME MaxFramesAssumption == MaxFrames \in Nat

VARIABLES recs, obs
vars == <<recs, obs>>

blank_obs == [taken |-> 0, first |-> 0, got |-> {}]

\* event_take: a TEST_RX hit on an existing flow slot.
event_take(e) == e.act = "TEST_RX" /\ e.flow \in Flows

Sample(e) == [flow |-> e.flow, test |-> e.test, seq |-> e.seq, lat |-> ClampLatency(e.raw)]

Remember(h, e) ==
  [taken |-> h.taken + 1,
   first |-> IF e.test /\ h.got = {} THEN e.seq ELSE h.first,
   got   |-> IF e.test THEN h.got \cup {e.seq} ELSE h.got]

Init == /\ recs = [f \in Flows |-> blank_rec]
        /\ obs = [f \in Flows |-> blank_obs]

Count(e) ==
  /\ event_take(e)
  /\ obs[e.flow].taken < MaxFrames
  /\ recs' = [recs EXCEPT ![e.flow] = UpdateRecord(@, Sample(e))]
  /\ obs' = [obs EXCEPT ![e.flow] = Remember(@, e)]

Clear == /\ recs' = [f \in Flows |-> blank_rec]
         /\ obs' = [f \in Flows |-> blank_obs]

Next == Clear \/ \E e \in Frames : Count(e)

Spec == Init /\ [][Next]_vars
-----------------------------------------------------------------------------
ObsType == [taken : Nat, first : Nat, got : SUBSET Nat]

TypeOK == /\ recs \in [Flows -> Records]
          /\ obs \in [Flows -> ObsType]

(* The counters balance: the distance the expected sequence number has     *)
(* moved since the first test frame is exactly the frames accepted in      *)
(* order plus the frames reported lost.  Every test frame is classified    *)
(* once (pw_test_rx_checker_bram.sv:271-284).                              *)
Balanced(r, h) ==
  IF r.seen
  THEN /\ h.got # {}
       /\ r.exp - h.first = (r.samples - r.dup - r.ooo) + r.lost
  ELSE /\ h.got = {}
       /\ <<r.samples, r.dup, r.ooo, r.lost, r.jsum>> = <<0, 0, 0, 0, 0>>

SequenceAccounting == \A f \in Flows : Balanced(recs[f], obs[f])

(* A frame counted as duplicate really repeats one already received: the   *)
(* checker calls seq = exp - 1 a duplicate, and exp - 1 is always the      *)
(* highest sequence number received.                                       *)
HighestReceived(r, h) ==
  r.seen => /\ r.exp - 1 \in h.got
            /\ \A s \in h.got : s < r.exp
DuplicateIsRepeat == \A f \in Flows : HighestReceived(recs[f], obs[f])

(* lost_packets_estimated never under-reports and over-reports at most by  *)
(* the frames counted out of order: of the sequence numbers between the    *)
(* first frame and the highest one, those never received number at most    *)
(* lost and at least lost - ooo.                                           *)
Missing(r, h) == {s \in h.first..(r.exp - 1) : s \notin h.got}
LossEstimateBounds ==
  \A f \in Flows :
    recs[f].seen => LET n == Cardinality(Missing(recs[f], obs[f]))
                    IN  n <= recs[f].lost /\ recs[f].lost - recs[f].ooo <= n

(* The latency summary is consistent: the mean lies between min and max,   *)
(* the last sample too, no delay variation exceeds the spread and their    *)
(* sum is bounded by the number of intervals.                              *)
LatencyEnvelope ==
  \A f \in Flows :
    LET r == recs[f]
    IN  r.samples > 0 =>
          /\ r.min <= r.prev /\ r.prev <= r.max
          /\ r.min * r.samples <= r.sum /\ r.sum <= r.max * r.samples
          /\ r.jmax <= r.max - r.min
          /\ r.jsum <= r.jmax * (r.samples - 1)
          /\ r.samples > 1 => r.jmin * (r.samples - 1) <= r.jsum
=============================================================================
