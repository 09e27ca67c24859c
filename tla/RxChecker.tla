----------------------------- MODULE RxChecker ------------------------------
(***************************************************************************)
(* The BRAM-backed RX checker of one ingress port, clock cycle by clock    *)
(* cycle (rtl/phase3/pw_test_rx_checker_bram.sv).  Records live in a       *)
(* synchronous memory: the read issued with an event (stage 0) comes back  *)
(* one cycle later, when stage 1 updates the record and writes it back.    *)
(* Back-to-back events of one flow would read the record before the write  *)
(* of the previous one, so stage 1 forwards the record written last (s2).  *)
(* A clear walks the memory one slot per cycle and drops events meanwhile. *)
(*                                                                         *)
(* Every action is one clock edge; e is the classification result that is  *)
(* on the inputs in that cycle (act = "OTHER" when there is none).         *)
(***************************************************************************)
EXTENDS RxRecord, FiniteSets

CONSTANTS NUM_FLOWS, NUM_BUCKETS, Frames, MaxFrames,
          PowerUpRecs   \* what the memory may hold before the first clear

VARIABLES mem,          \* the record memory
          a_rd_q,       \* port A read register
          s1,           \* stage 0 -> 1 registers
          s2,           \* record written by the previous stage 1
          clearing, clear_idx,
          hist_ev,      \* histogram event register
          lost_event,   \* health LED pulse
          obs          \* history variable, see RxFlowStats
vars == <<mem, a_rd_q, s1, s2, clearing, clear_idx, hist_ev, lost_event, obs>>

NoHistEvent == [valid |-> FALSE, flow |-> 0, bucket |-> 0]
NoSample == [flow |-> 0, test |-> FALSE, seq |-> 0, lat |-> 0]

(* What an observer of the records sees: the pending stage 1 update is     *)
(* taken into account and a clear takes effect when it starts.             *)
MappedRecs ==
  [f \in 0..(NUM_FLOWS - 1) |->
     IF clearing THEN blank_rec
     ELSE IF s1.valid /\ s1.ev.flow = f THEN UpdateRecord(mem[f], s1.ev)
     ELSE mem[f]]

Flat == INSTANCE RxFlowStats WITH recs <- MappedRecs, obs <- obs

Flows == Flat!Flows
ASSUME FlowsAssumption == NUM_FLOWS \in Nat \ {0}
ASSUME FramesAssumption == Frames \subseteq Flat!FrameType
ASSUME PowerUpAssumption == PowerUpRecs \subseteq Records
ASSUME MaxFramesAssumption == MaxFrames \in Nat
ASSUME BucketsAssumption == NUM_BUCKETS \in Nat \ {0}

\* Power-of-two bucket of a latency, the last bucket open-ended.
log2_bucket(x) == IF x = 0 THEN 0 ELSE CHOOSE i \in 0..31 : 2^i <= x /\ x < 2^(i + 1)
Bucket(lat) == Smaller(log2_bucket(lat), NUM_BUCKETS - 1)

event_take(e) == Flat!event_take(e)

MutNoForward == a_rd_q
MutForwardAny == IF s2.we THEN s2.rec ELSE a_rd_q

\* The source of the read-modify-write: the forwarded record or the memory's.
SourceRec == IF s2.we /\ s2.flow = s1.ev.flow THEN s2.rec ELSE a_rd_q

Updating == ~clearing /\ s1.valid

\* Stage 1 and the memory: write-back or clear write, read-first port A.
Memory(raddr) ==
  /\ mem' = IF clearing
            THEN IF clear_idx < NUM_FLOWS THEN [mem EXCEPT ![clear_idx] = blank_rec] ELSE mem
            ELSE IF s1.valid THEN [mem EXCEPT ![s1.ev.flow] = UpdateRecord(SourceRec, s1.ev)]
            ELSE mem
  /\ a_rd_q' = mem[raddr]

\* The registers behind stage 1.  Without s2.we nothing looks at s2.rec.
Outputs ==
  /\ s2' = [we |-> Updating, flow |-> s1.ev.flow,
            rec |-> IF Updating THEN UpdateRecord(SourceRec, s1.ev) ELSE blank_rec]
  /\ hist_ev' = [valid |-> Updating /\ s1.ev.test, flow |-> s1.ev.flow,
                 bucket |-> Bucket(s1.ev.lat)]
  /\ lost_event' = (Updating /\ s1.ev.test /\ OpensGap(SourceRec, s1.ev.seq))

\* a_raddr: the low bits of the classifier's local_flow_id, whatever the event.
ReadAddress(e) == e.flow % NUM_FLOWS

Datapath(e) == Memory(ReadAddress(e)) /\ Outputs

ForgetHistory == obs' = [f \in Flows |-> Flat!blank_obs]

Init ==
  /\ mem \in [Flows -> PowerUpRecs] /\ a_rd_q \in PowerUpRecs
  /\ s1 = [valid |-> FALSE, ev |-> NoSample]
  /\ s2 = [we |-> FALSE, flow |-> 0, rec |-> blank_rec]
  /\ clearing = TRUE /\ clear_idx = 0
  /\ hist_ev = NoHistEvent /\ lost_event = FALSE
  /\ obs = [f \in Flows |-> Flat!blank_obs]

\* A clock edge with rst_n low: the registers are reset (whatever stage 1 held
\* is gone), the memory port already sees the walk's first write.
Reset(e) ==
  /\ s1' = [s1 EXCEPT !.valid = FALSE]
  /\ s2' = [we |-> FALSE, flow |-> 0, rec |-> blank_rec]
  /\ clearing' = TRUE /\ clear_idx' = 0
  /\ hist_ev' = NoHistEvent /\ lost_event' = FALSE
  /\ mem' = [mem EXCEPT ![0] = blank_rec] /\ a_rd_q' = mem[ReadAddress(e)]
  /\ ForgetHistory

\* clear_i while no walk is running; the event of this cycle is dropped.
StartClear(e) ==
  /\ ~clearing
  /\ Datapath(e)
  /\ s1' = [s1 EXCEPT !.valid = FALSE]
  /\ clearing' = TRUE /\ clear_idx' = 0
  /\ ForgetHistory

\* A cycle of the walk; clear_i is ignored and so is the event.
ClearStep(e) ==
  /\ clearing
  /\ Datapath(e)
  /\ s1' = [s1 EXCEPT !.valid = FALSE]
  /\ IF clear_idx = NUM_FLOWS
     THEN clearing' = FALSE /\ UNCHANGED clear_idx
     ELSE clear_idx' = clear_idx + 1 /\ UNCHANGED clearing
  /\ UNCHANGED obs

\* A normal cycle: the event, if it is taken, enters stage 1.
Accept(e) ==
  /\ ~clearing
  /\ event_take(e) => obs[e.flow].taken < MaxFrames
  /\ Datapath(e)
  /\ s1' = [valid |-> event_take(e), ev |-> Flat!Sample(e)]
  /\ obs' = IF event_take(e) THEN [obs EXCEPT ![e.flow] = Flat!Remember(@, e)] ELSE obs
  /\ UNCHANGED <<clearing, clear_idx>>

Next == \E e \in Frames : Reset(e) \/ StartClear(e) \/ ClearStep(e) \/ Accept(e)

Spec == Init /\ [][Next]_vars
-----------------------------------------------------------------------------
TypeOK ==
  /\ mem \in [Flows -> Records]
  /\ a_rd_q \in Records
  /\ s1 \in [valid : BOOLEAN, ev : [flow : Nat, test : BOOLEAN, seq : Nat, lat : 0..LatMax]]
  /\ s2 \in [we : BOOLEAN, flow : Nat, rec : Records]
  /\ clearing \in BOOLEAN
  /\ clear_idx \in 0..NUM_FLOWS
  /\ obs \in [Flows -> Flat!ObsType]

(* The record stage 1 updates is the one the memory holds at that moment,  *)
(* in spite of the one-cycle read: the same-flow bypass (line 236) is      *)
(* exactly what back-to-back events need, and it never forwards across a   *)
(* clear.                                                                  *)
ForwardingCoherent == s1.valid => ~clearing /\ s1.ev.flow \in Flows
                                  /\ SourceRec = mem[s1.ev.flow]

(* No frame taken since the last clear is missing from the counters, none  *)
(* is counted twice, and none that arrived before the clear survives it:   *)
(* rx_frames plus the event still in stage 1 is the number taken.          *)
InStage1(f) == IF s1.valid /\ s1.ev.flow = f THEN 1 ELSE 0
NoFrameLost == ~clearing => \A f \in Flows : mem[f].rx + InStage1(f) = obs[f].taken

(* The pipelined checker implements the flat one: every clock edge is one  *)
(* atomic update of a flow's record, one atomic clear, or nothing.         *)
Refinement == Flat!Spec
=============================================================================
