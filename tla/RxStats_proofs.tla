--------------------------- MODULE RxStats_proofs ---------------------------
(***************************************************************************)
(* Proofs about the pipelined RX checker and the health LED behind it, for *)
(* every number of flows and every set of frames: type correctness,        *)
(* coherence of the bypass, that no frame is lost, that the pipeline       *)
(* implements RxFlowStats, and that no loss goes unlit.                    *)
(***************************************************************************)
EXTENDS RxStats, TLAPS

(* A leaf goes to SMT, then to Zenon, and to Z3 with a fresh translation last. *)
USE SMTT(30), Zenon, Z3T(30)

-----------------------------------------------------------------------------
\* The update of one record: what the pipeline needs to know of it.
Samples == [flow : Nat, test : BOOLEAN, seq : Nat, lat : 0..LatMax]

LEMMA BlankType == blank_rec \in Records
BY LatMaxAssumption DEF blank_rec, Records

\* The latency part touches neither the sequence fields nor the types.
LEMMA JitterEffect ==
  ASSUME NEW rec \in Records, NEW lat \in 0..LatMax
  PROVE  LET r == AddJitter(rec, lat)
         IN  /\ r \in Records /\ r.rx = rec.rx
             /\ r.seen = rec.seen /\ r.exp = rec.exp /\ r.lost = rec.lost
<1> DEFINE jd == Distance(lat, rec.prev)
<1>1. jd \in 0..LatMax
  BY LatMaxAssumption DEF Distance, Records
<1>2. /\ rec.jsum + jd \in Nat
      /\ Smaller(rec.jmin, jd) \in 0..LatMax /\ Larger(rec.jmax, jd) \in 0..LatMax
  BY <1>1, LatMaxAssumption DEF Smaller, Larger, Records
<1> HIDE DEF jd
<1>3. AddJitter(rec, lat) =
        IF rec.seen THEN [rec EXCEPT !.jsum = @ + jd, !.jmin = Smaller(@, jd),
                                     !.jmax = Larger(@, jd)]
        ELSE rec
  BY DEF AddJitter, jd
<1>4. AddJitter(rec, lat) \in Records
  BY Zenon, <1>2, <1>3 DEF Records
<1> QED  BY <1>3, <1>4 DEF Records

LEMMA LatencyEffect ==
  ASSUME NEW rec \in Records, NEW lat \in 0..LatMax
  PROVE  LET r == AddLatency(rec, lat)
         IN  /\ r \in Records /\ r.rx = rec.rx
             /\ r.seen = rec.seen /\ r.exp = rec.exp /\ r.lost = rec.lost
<1>1. Smaller(rec.min, lat) \in 0..LatMax /\ Larger(rec.max, lat) \in 0..LatMax
  BY DEF Smaller, Larger, Records
<1>2. rec.sum + lat \in Nat /\ rec.samples + 1 \in Nat
  BY LatMaxAssumption DEF Records
<1>3. AddLatency(rec, lat) \in Records
  BY Zenon, <1>1, <1>2 DEF AddLatency, Records
<1> QED  BY <1>3 DEF AddLatency, Records

LEMMA CountedEffect ==
  ASSUME NEW rec \in Records
  PROVE  LET r == [rec EXCEPT !.rx = @ + 1]
         IN  /\ r \in Records /\ r.rx = rec.rx + 1
             /\ r.seen = rec.seen /\ r.exp = rec.exp /\ r.lost = rec.lost
<1>1. rec.rx + 1 \in Nat
  BY DEF Records
<1> QED  BY <1>1 DEF Records

LEMMA SequenceType ==
  ASSUME NEW rec \in Records, NEW seq \in Nat
  PROVE  ClassifySequence(rec, seq) \in Records
<1>1. /\ rec.exp \in Nat /\ rec.exp + 1 \in Nat /\ rec.dup + 1 \in Nat /\ rec.ooo + 1 \in Nat
      /\ rec.lost \in Nat /\ seq + 1 \in Nat
  BY DEF Records
<1>2. seq > rec.exp => rec.lost + (seq - rec.exp) \in Nat
  BY <1>1
<1>3. CASE ~rec.seen
  BY Zenon, <1>1, <1>3 DEF ClassifySequence, Records
<1>4. CASE rec.seen /\ seq = rec.exp
  BY Zenon, <1>1, <1>4 DEF ClassifySequence, Records
<1>5. CASE rec.seen /\ seq > rec.exp
  <2> DEFINE n == rec.lost + (seq - rec.exp)
  <2>1. ClassifySequence(rec, seq) = [rec EXCEPT !.lost = n, !.exp = seq + 1, !.last = seq]
    BY <1>1, <1>5 DEF ClassifySequence, Records
  <2>2. n \in Nat
    BY <1>2, <1>5
  <2> HIDE DEF n
  <2> QED  BY Zenon, <1>1, <2>1, <2>2 DEF Records
<1>6. CASE rec.seen /\ seq < rec.exp /\ seq = rec.exp - 1
  <2>1. ClassifySequence(rec, seq) = [rec EXCEPT !.dup = @ + 1, !.last = seq]
    BY <1>1, <1>6 DEF ClassifySequence
  <2> QED  BY Zenon, <1>1, <2>1 DEF Records
<1>7. CASE rec.seen /\ seq < rec.exp /\ seq # rec.exp - 1
  <2>1. ClassifySequence(rec, seq) = [rec EXCEPT !.ooo = @ + 1, !.last = seq]
    BY <1>1, <1>7 DEF ClassifySequence
  <2> QED  BY Zenon, <1>1, <2>1 DEF Records
<1> QED  BY <1>1, <1>3, <1>4, <1>5, <1>6, <1>7

\* lost grows when, and only when, the sequence number opens a gap.
LEMMA SequenceEffect ==
  ASSUME NEW rec \in Records, NEW seq \in Nat
  PROVE  LET r == ClassifySequence(rec, seq)
         IN  r.rx = rec.rx /\ (OpensGap(rec, seq) \/ r.lost = rec.lost)
<1>1. rec.exp \in Nat
  BY DEF Records
<1> QED  BY <1>1 DEF ClassifySequence, OpensGap, Records

\* The record a test frame's sequence number is classified against.
LEMMA TimedEffect ==
  ASSUME NEW rec \in Records, NEW e \in Samples, e.test
  PROVE  \E r \in Records :
           /\ UpdateRecord(rec, e) = ClassifySequence(r, e.seq)
           /\ r.rx = rec.rx + 1 /\ r.seen = rec.seen /\ r.exp = rec.exp /\ r.lost = rec.lost
<1> DEFINE c == [rec EXCEPT !.rx = @ + 1]
           j == AddJitter(c, e.lat)
           r == AddLatency(j, e.lat)
<1>1. UpdateRecord(rec, e) = ClassifySequence(r, e.seq)
  BY DEF UpdateRecord
<1>2. e.lat \in 0..LatMax
  BY DEF Samples
<1>3. /\ c \in Records /\ c.rx = rec.rx + 1
      /\ c.seen = rec.seen /\ c.exp = rec.exp /\ c.lost = rec.lost
  BY CountedEffect
<1> HIDE DEF c
<1>4. /\ j \in Records /\ j.rx = c.rx /\ j.seen = c.seen /\ j.exp = c.exp /\ j.lost = c.lost
  BY <1>2, <1>3, JitterEffect
<1> HIDE DEF j
<1>5. /\ r \in Records /\ r.rx = j.rx /\ r.seen = j.seen /\ r.exp = j.exp /\ r.lost = j.lost
  BY <1>2, <1>4, LatencyEffect
<1> HIDE DEF r
<1> QED  BY <1>1, <1>3, <1>4, <1>5

\* A frame is counted once, and lost grows with a gap in its numbers only.
LEMMA UpdateEffect ==
  ASSUME NEW rec \in Records, NEW e \in Samples
  PROVE  /\ UpdateRecord(rec, e) \in Records
         /\ UpdateRecord(rec, e).rx = rec.rx + 1
         /\ (e.test /\ OpensGap(rec, e.seq)) \/ UpdateRecord(rec, e).lost = rec.lost
<1>0. e.seq \in Nat
  BY DEF Samples
<1>1. CASE e.test
  <2>1. PICK r \in Records :
          /\ UpdateRecord(rec, e) = ClassifySequence(r, e.seq)
          /\ r.rx = rec.rx + 1 /\ r.seen = rec.seen /\ r.exp = rec.exp /\ r.lost = rec.lost
    BY <1>1, TimedEffect
  <2>2. OpensGap(r, e.seq) => OpensGap(rec, e.seq)
    BY <2>1 DEF OpensGap
  <2> QED  BY <1>0, <1>1, <2>1, <2>2, SequenceType, SequenceEffect
<1>2. CASE ~e.test
  BY <1>2, CountedEffect DEF UpdateRecord
<1> QED  BY <1>1, <1>2
-----------------------------------------------------------------------------
\* The definitions seen through the instance are those of RxRecord.
LEMMA SameUpdate ==
  /\ \A r, e : Flat!UpdateRecord(r, e) = UpdateRecord(r, e)
  /\ Flat!blank_rec = blank_rec
<1>1. \A a, b : /\ Flat!Smaller(a, b) = Smaller(a, b) /\ Flat!Larger(a, b) = Larger(a, b)
                /\ Flat!Distance(a, b) = Distance(a, b)
  BY Zenon DEF Flat!Smaller, Smaller, Flat!Larger, Larger, Flat!Distance, Distance
<1>2. \A r, lat : Flat!AddJitter(r, lat) = AddJitter(r, lat)
  BY <1>1, Zenon DEF Flat!AddJitter, AddJitter
<1>3. \A r, lat : Flat!AddLatency(r, lat) = AddLatency(r, lat)
  BY <1>1, Zenon DEF Flat!AddLatency, AddLatency
<1>4. \A r, seq : Flat!ClassifySequence(r, seq) = ClassifySequence(r, seq)
  BY Zenon DEF Flat!ClassifySequence, ClassifySequence
<1>5. \A r, e : Flat!UpdateRecord(r, e) = UpdateRecord(r, e)
  BY <1>2, <1>3, <1>4, Zenon DEF Flat!UpdateRecord, UpdateRecord
<1>6. Flat!blank_rec = blank_rec
  BY Zenon DEF Flat!blank_rec, blank_rec
<1> QED  BY <1>5, <1>6

LEMMA SampleType ==
  ASSUME NEW e \in Frames
  PROVE  /\ Flat!Sample(e) \in Samples /\ Flat!Sample(e).flow = e.flow
         /\ e.test \in BOOLEAN /\ e.seq \in Nat /\ e.flow \in Nat
<1>1. e \in Flat!FrameType
  BY FramesAssumption
<1>2. Flat!ClampLatency(e.raw) \in 0..LatMax
  BY <1>1, LatMaxAssumption DEF Flat!FrameType, Flat!ClampLatency
<1> QED  BY <1>1, <1>2 DEF Flat!FrameType, Flat!Sample, Samples

LEMMA RememberType ==
  ASSUME NEW h \in Flat!ObsType, NEW e \in Frames
  PROVE  Flat!Remember(h, e) \in Flat!ObsType /\ Flat!Remember(h, e).taken = h.taken + 1
<1>1. e.seq \in Nat
  BY SampleType
<1> QED  BY <1>1 DEF Flat!Remember, Flat!ObsType

LEMMA BlankObsType == Flat!blank_obs \in Flat!ObsType
BY DEF Flat!blank_obs, Flat!ObsType

\* The memory is always read inside its bounds, at a flow's own slot.
LEMMA ReadAddressType ==
  ASSUME NEW e \in Frames
  PROVE  /\ ReadAddress(e) \in Flows
         /\ e.flow \in Flows => ReadAddress(e) = e.flow
<1>1. e.flow \in Nat
  BY SampleType
<1>2. \A n \in Nat \ {0} : \A x \in Nat : x % n \in 0..(n - 1) /\ (x < n => x % n = x)
  OBVIOUS
<1>3. /\ e.flow % NUM_FLOWS \in 0..(NUM_FLOWS - 1)
      /\ e.flow < NUM_FLOWS => e.flow % NUM_FLOWS = e.flow
  BY Zenon, <1>1, <1>2, FlowsAssumption
<1>4. Flows = 0..(NUM_FLOWS - 1) /\ ReadAddress(e) = e.flow % NUM_FLOWS
  BY DEF ReadAddress, Flows, Flat!Flows
<1>5. e.flow \in Flows => e.flow < NUM_FLOWS
  BY <1>1, <1>4, FlowsAssumption
<1> QED  BY <1>3, <1>4, <1>5, Zenon
-----------------------------------------------------------------------------
(* Why the bypass suffices: the record written last is in the memory, and  *)
(* what port A returned for the event in stage 1 is still the memory's     *)
(* content unless that record is the one written last.  During a walk      *)
(* stage 1 is empty and the slots behind the walk are blank.               *)
Coherence ==
  /\ s2.we => s2.flow \in Flows /\ mem[s2.flow] = s2.rec
  /\ s1.valid => /\ ~clearing /\ s1.ev.flow \in Flows
                 /\ (s2.we /\ s2.flow = s1.ev.flow) \/ a_rd_q = mem[s1.ev.flow]
  /\ clearing => \A f \in Flows : f < clear_idx => mem[f] = blank_rec

Counted ==
  \A f \in Flows : IF clearing THEN obs[f] = Flat!blank_obs
                   ELSE mem[f].rx + InStage1(f) = obs[f].taken

IInv == TypeOK /\ Coherence /\ Counted

LEMMA InitIInv == Init => IInv
<1> SUFFICES ASSUME Init PROVE IInv
  OBVIOUS
<1>1. 0 \in 0..LatMax /\ 0 \in 0..NUM_FLOWS
  BY LatMaxAssumption, FlowsAssumption
<1>2. TypeOK
  <2>1. mem \in [Flows -> Records] /\ a_rd_q \in Records
    BY PowerUpAssumption DEF Init
  <2>2. s1 \in [valid : BOOLEAN, ev : Samples]
    BY <1>1 DEF Init, NoSample, Samples
  <2>3. s2 \in [we : BOOLEAN, flow : Nat, rec : Records]
    BY BlankType DEF Init
  <2>4. obs \in [Flows -> Flat!ObsType]
    BY BlankObsType DEF Init
  <2> QED  BY <1>1, <2>1, <2>2, <2>3, <2>4 DEF Init, TypeOK, Samples
<1>3. Coherence
  BY DEF Init, Coherence, Flows, Flat!Flows
<1>4. Counted
  BY DEF Init, Counted
<1> QED  BY <1>2, <1>3, <1>4 DEF IInv
-----------------------------------------------------------------------------
LEMMA SourceIsMemory ==
  ASSUME IInv, s1.valid
  PROVE  ~clearing /\ s1.ev.flow \in Flows /\ SourceRec = mem[s1.ev.flow]
BY DEF IInv, Coherence, SourceRec

\* One cycle of stage 1 and the memory outside a walk ...
LEMMA UpdateCycle ==
  ASSUME IInv, NEW e \in Frames, Datapath(e), ~clearing
  PROVE  /\ mem' \in [Flows -> Records] /\ a_rd_q' \in Records
         /\ a_rd_q' = mem[ReadAddress(e)]
         /\ s2' \in [we : BOOLEAN, flow : Nat, rec : Records]
         /\ s2'.we = s1.valid /\ s2'.flow = s1.ev.flow
         /\ s1.valid => mem'[s1.ev.flow] = s2'.rec
         /\ \A f \in Flows : mem'[f] = IF s1.valid /\ s1.ev.flow = f
                                       THEN UpdateRecord(mem[f], s1.ev) ELSE mem[f]
<1>1. /\ mem \in [Flows -> Records] /\ s1.ev \in Samples /\ s1.ev.flow \in Nat
      /\ s1.valid \in BOOLEAN
  BY DEF IInv, TypeOK, Samples
<1>2. a_rd_q' = mem[ReadAddress(e)] /\ a_rd_q' \in Records
  BY <1>1, ReadAddressType DEF Datapath, Memory
<1>3. CASE s1.valid
  <2> DEFINE u == UpdateRecord(mem[s1.ev.flow], s1.ev)
  <2>1. s1.ev.flow \in Flows /\ SourceRec = mem[s1.ev.flow]
    BY <1>3, SourceIsMemory
  <2>2. u \in Records
    BY <1>1, <2>1, UpdateEffect
  <2>3. mem' = [mem EXCEPT ![s1.ev.flow] = u]
    BY <1>3, <2>1 DEF Datapath, Memory
  <2>4. s2' = [we |-> TRUE, flow |-> s1.ev.flow, rec |-> u]
    BY Zenon, <1>3, <2>1 DEF Datapath, Outputs, Updating
  <2>5. \A f \in Flows : mem'[f] = IF s1.ev.flow = f THEN UpdateRecord(mem[f], s1.ev) ELSE mem[f]
    BY <1>1, <2>1, <2>3
  <2> HIDE DEF u
  <2>6. mem' \in [Flows -> Records] /\ mem'[s1.ev.flow] = u
    BY <1>1, <2>1, <2>2, <2>3
  <2>7. s2' \in [we : BOOLEAN, flow : Nat, rec : Records] /\ s2'.we /\ s2'.flow = s1.ev.flow
        /\ s2'.rec = u
    BY <1>1, <2>2, <2>4
  <2> QED  BY <1>1, <1>2, <1>3, <2>5, <2>6, <2>7, Zenon
<1>4. CASE ~s1.valid
  <2>1. mem' = mem
    BY <1>4 DEF Datapath, Memory
  <2>2. s2' = [we |-> FALSE, flow |-> s1.ev.flow, rec |-> blank_rec]
    BY Zenon, <1>4 DEF Datapath, Outputs, Updating
  <2>3. s2' \in [we : BOOLEAN, flow : Nat, rec : Records] /\ ~s2'.we /\ s2'.flow = s1.ev.flow
    BY <1>1, <2>2, BlankType
  <2>4. s2'.we = s1.valid
    BY Zenon, <1>1, <1>4, <2>2
  <2> QED  BY <1>1, <1>2, <1>4, <2>1, <2>3, <2>4
<1> QED  BY <1>1, <1>3, <1>4

\* ... and during one.
LEMMA ClearCycle ==
  ASSUME IInv, NEW e \in Frames, Datapath(e), clearing
  PROVE  /\ mem' \in [Flows -> Records] /\ a_rd_q' \in Records
         /\ s2' \in [we : BOOLEAN, flow : Nat, rec : Records] /\ ~s2'.we
         /\ \A f \in Flows : f = clear_idx => mem'[f] = blank_rec
         /\ \A f \in Flows : f # clear_idx => mem'[f] = mem[f]
<1>1. /\ mem \in [Flows -> Records] /\ s1.ev.flow \in Nat /\ clear_idx \in 0..NUM_FLOWS
  BY DEF IInv, TypeOK
<1>2. a_rd_q' \in Records
  BY <1>1, ReadAddressType DEF Datapath, Memory
<1>3. s2' = [we |-> FALSE, flow |-> s1.ev.flow, rec |-> blank_rec]
  BY Zenon DEF Datapath, Outputs, Updating
<1>4. mem' = IF clear_idx < NUM_FLOWS THEN [mem EXCEPT ![clear_idx] = blank_rec] ELSE mem
  BY DEF Datapath, Memory
<1>5. Flows = 0..(NUM_FLOWS - 1)
  BY DEF Flows, Flat!Flows
<1>6. \A f \in Flows : f < NUM_FLOWS
  BY <1>5, FlowsAssumption
<1>7. s2' \in [we : BOOLEAN, flow : Nat, rec : Records] /\ ~s2'.we
  BY <1>1, <1>3, BlankType
<1>8. mem' \in [Flows -> Records]
  BY Zenon, <1>1, <1>4, BlankType
<1>9. /\ \A f \in Flows : f = clear_idx => mem'[f] = blank_rec
      /\ \A f \in Flows : f # clear_idx => mem'[f] = mem[f]
  BY <1>1, <1>4, <1>6
<1> QED  BY <1>2, <1>7, <1>8, <1>9
-----------------------------------------------------------------------------
\* A cycle that begins a walk, or a reset: nothing is pending afterwards.
LEMMA WalkBegins ==
  ASSUME IInv, mem' \in [Flows -> Records], a_rd_q' \in Records,
         s2' \in [we : BOOLEAN, flow : Nat, rec : Records],
         s2'.we => s2'.flow \in Flows /\ mem'[s2'.flow] = s2'.rec,
         s1' = [s1 EXCEPT !.valid = FALSE],
         clearing' = TRUE, clear_idx' = 0, ForgetHistory
  PROVE  IInv'
<1>1. s1' \in [valid : BOOLEAN, ev : Samples] /\ ~s1'.valid
  BY Zenon DEF IInv, TypeOK, Samples
<1>2. obs' \in [Flows -> Flat!ObsType] /\ \A f \in Flows : obs'[f] = Flat!blank_obs
  BY BlankObsType DEF ForgetHistory
<1>3. 0 \in 0..NUM_FLOWS
  BY FlowsAssumption
<1>4. TypeOK'
  BY <1>1, <1>2, <1>3 DEF TypeOK, Samples
<1>5. Coherence'
  BY <1>1 DEF Coherence, Flows, Flat!Flows
<1>6. Counted'
  BY <1>2 DEF Counted
<1> QED  BY <1>4, <1>5, <1>6 DEF IInv

LEMMA ResetIInv ==
  ASSUME IInv, NEW e \in Frames, Reset(e)
  PROVE  IInv'
<1>1. mem' \in [Flows -> Records] /\ a_rd_q' \in Records
  BY Zenon, BlankType, ReadAddressType DEF Reset, IInv, TypeOK
<1>2. s2' \in [we : BOOLEAN, flow : Nat, rec : Records] /\ ~s2'.we
  BY BlankType DEF Reset
<1> QED  BY <1>1, <1>2, WalkBegins DEF Reset

LEMMA StartClearIInv ==
  ASSUME IInv, NEW e \in Frames, StartClear(e)
  PROVE  IInv'
<1>1. Datapath(e) /\ ~clearing
  BY DEF StartClear
<1>2. s2'.we => s2'.flow \in Flows /\ mem'[s2'.flow] = s2'.rec
  BY Zenon, <1>1, UpdateCycle, SourceIsMemory
<1> QED  BY <1>1, <1>2, UpdateCycle, WalkBegins DEF StartClear

LEMMA ClearStepIInv ==
  ASSUME IInv, NEW e \in Frames, ClearStep(e)
  PROVE  IInv'
<1>1. /\ Datapath(e) /\ clearing /\ obs' = obs
      /\ s1' = [s1 EXCEPT !.valid = FALSE]
      /\ IF clear_idx = NUM_FLOWS THEN clearing' = FALSE /\ clear_idx' = clear_idx
                                  ELSE clear_idx' = clear_idx + 1 /\ clearing' = clearing
  BY Zenon DEF ClearStep
<1>2. s1' \in [valid : BOOLEAN, ev : Samples] /\ ~s1'.valid
  BY Zenon, <1>1 DEF IInv, TypeOK, Samples
<1>3. /\ mem' \in [Flows -> Records] /\ a_rd_q' \in Records
      /\ s2' \in [we : BOOLEAN, flow : Nat, rec : Records] /\ ~s2'.we
      /\ \A f \in Flows : f = clear_idx => mem'[f] = blank_rec
      /\ \A f \in Flows : f # clear_idx => mem'[f] = mem[f]
  BY <1>1, ClearCycle
<1>4. /\ \A f \in Flows : f < clear_idx => mem[f] = blank_rec
      /\ \A f \in Flows : obs[f] = Flat!blank_obs
  BY <1>1 DEF IInv, Coherence, Counted
<1>5. \A f \in Flows : f \in Nat /\ f < NUM_FLOWS
  BY FlowsAssumption DEF Flows, Flat!Flows
<1>6. clear_idx \in 0..NUM_FLOWS /\ obs \in [Flows -> Flat!ObsType] /\ clearing \in BOOLEAN
  BY DEF IInv, TypeOK
<1>7. clear_idx' \in 0..NUM_FLOWS /\ clearing' \in BOOLEAN
  <2>1. clear_idx' \in 0..NUM_FLOWS
    <3>1. CASE clear_idx = NUM_FLOWS
      BY <1>1, <1>6, <3>1
    <3>2. CASE clear_idx # NUM_FLOWS
      <4>1. clear_idx' = clear_idx + 1
        BY <1>1, <3>2
      <4> QED  BY <1>6, <3>2, <4>1, FlowsAssumption
    <3> QED  BY <3>1, <3>2
  <2>2. clearing' \in BOOLEAN
    BY <1>1, <1>6, Zenon
  <2> QED  BY <2>1, <2>2
<1>8. TypeOK'
  BY <1>1, <1>2, <1>3, <1>6, <1>7 DEF TypeOK, Samples
<1>9. CASE clear_idx = NUM_FLOWS
  <2>1. \A f \in Flows : mem'[f] = blank_rec
    BY <1>3, <1>4, <1>5, <1>9
  <2>2. Coherence'
    BY <1>1, <1>2, <1>3, <1>9 DEF Coherence
  <2>3. blank_rec.rx = 0 /\ Flat!blank_obs.taken = 0
    BY DEF blank_rec, Flat!blank_obs
  <2>4. \A f \in Flows : InStage1(f)' = 0
    BY <1>2 DEF InStage1
  <2>5. Counted'
    BY <1>1, <1>4, <1>9, <2>1, <2>3, <2>4 DEF Counted
  <2> QED  BY <1>8, <2>2, <2>5 DEF IInv
<1>10. CASE clear_idx # NUM_FLOWS
  <2>1. \A f \in Flows : f < clear_idx' => mem'[f] = blank_rec
    BY <1>1, <1>3, <1>4, <1>5, <1>6, <1>10
  <2>2. Coherence'
    BY <1>2, <1>3, <2>1 DEF Coherence
  <2>3. Counted'
    BY <1>1, <1>4, <1>10 DEF Counted
  <2> QED  BY <1>8, <2>2, <2>3 DEF IInv
<1> QED  BY <1>9, <1>10

LEMMA AcceptIInv ==
  ASSUME IInv, NEW e \in Frames, Accept(e)
  PROVE  IInv'
<1>1. /\ Datapath(e) /\ ~clearing /\ clearing' = clearing /\ clear_idx' = clear_idx
      /\ s1' = [valid |-> event_take(e), ev |-> Flat!Sample(e)]
      /\ obs' = IF event_take(e) THEN [obs EXCEPT ![e.flow] = Flat!Remember(@, e)] ELSE obs
  BY DEF Accept
<1>2. event_take(e) \in BOOLEAN /\ (event_take(e) => e.flow \in Flows)
  BY DEF event_take, Flat!event_take, Flows
<1>3. /\ s1' \in [valid : BOOLEAN, ev : Samples]
      /\ s1'.valid = event_take(e) /\ s1'.ev.flow = e.flow
  BY <1>1, <1>2, SampleType
<1>4. /\ mem' \in [Flows -> Records] /\ a_rd_q' \in Records
      /\ a_rd_q' = mem[ReadAddress(e)]
      /\ s2' \in [we : BOOLEAN, flow : Nat, rec : Records]
      /\ s2'.we = s1.valid /\ s2'.flow = s1.ev.flow
      /\ s1.valid => mem'[s1.ev.flow] = s2'.rec
      /\ \A f \in Flows : mem'[f] = IF s1.valid /\ s1.ev.flow = f
                                    THEN UpdateRecord(mem[f], s1.ev) ELSE mem[f]
  BY <1>1, UpdateCycle
<1>5. obs \in [Flows -> Flat!ObsType] /\ mem \in [Flows -> Records] /\ s1.ev \in Samples
  BY DEF IInv, TypeOK, Samples
<1>6. obs' \in [Flows -> Flat!ObsType]
  BY <1>1, <1>2, <1>5, RememberType
<1>7. TypeOK'
  <2>1. clearing' \in BOOLEAN /\ clear_idx' \in 0..NUM_FLOWS
    BY <1>1 DEF IInv, TypeOK
  <2> QED  BY <1>3, <1>4, <1>6, <2>1 DEF TypeOK, Samples
<1>8. Coherence'
  <2>1. s2'.we => s2'.flow \in Flows /\ mem'[s2'.flow] = s2'.rec
    BY <1>4, SourceIsMemory
  <2>2. ASSUME s1'.valid
        PROVE  /\ ~clearing' /\ s1'.ev.flow \in Flows
               /\ (s2'.we /\ s2'.flow = s1'.ev.flow) \/ a_rd_q' = mem'[s1'.ev.flow]
    <3>1. e.flow \in Flows
      BY <1>2, <1>3, <2>2
    <3>2. a_rd_q' = mem[e.flow]
      BY <1>4, <3>1, ReadAddressType
    <3> QED  BY <1>1, <1>3, <1>4, <3>1, <3>2
  <2>3. ~clearing'
    BY <1>1
  <2> QED  BY <2>1, <2>2, <2>3 DEF Coherence
<1>9. Counted'
  <2> SUFFICES ASSUME NEW f \in Flows
               PROVE  mem'[f].rx + InStage1(f)' = obs'[f].taken
    BY <1>1 DEF Counted
  <2>1. mem[f].rx + InStage1(f) = obs[f].taken
    BY <1>1 DEF IInv, Counted
  <2>2. mem[f].rx \in Nat
    BY <1>5 DEF Records
  <2>3. mem'[f].rx = mem[f].rx + InStage1(f)
    <3>1. CASE s1.valid /\ s1.ev.flow = f
      BY <1>4, <1>5, <3>1, UpdateEffect DEF InStage1
    <3>2. CASE ~(s1.valid /\ s1.ev.flow = f)
      BY <1>4, <2>2, <3>2 DEF InStage1
    <3> QED  BY <3>1, <3>2
  <2>4. obs'[f].taken = obs[f].taken + InStage1(f)'
    <3>1. obs[f] \in Flat!ObsType /\ obs[f].taken \in Nat
      BY <1>5 DEF Flat!ObsType
    <3>2. CASE event_take(e) /\ e.flow = f
      <4>1. obs'[f] = Flat!Remember(obs[f], e)
        BY <1>1, <1>5, <3>2
      <4>2. InStage1(f)' = 1
        BY <1>3, <3>2 DEF InStage1
      <4> QED  BY <3>1, <4>1, <4>2, RememberType
    <3>3. CASE ~(event_take(e) /\ e.flow = f)
      <4>1. obs'[f] = obs[f]
        BY <1>1, <1>5, <3>3
      <4>2. InStage1(f)' = 0
        BY <1>3, <3>3 DEF InStage1
      <4> QED  BY <3>1, <4>1, <4>2
    <3> QED  BY <3>2, <3>3
  <2> QED  BY <2>1, <2>3, <2>4
<1> QED  BY <1>7, <1>8, <1>9 DEF IInv
-----------------------------------------------------------------------------
LEMMA StutterIInv == IInv /\ UNCHANGED vars => IInv'
<1> SUFFICES ASSUME IInv, UNCHANGED vars PROVE IInv'
  OBVIOUS
<1>1. TypeOK'
  BY DEF IInv, TypeOK, vars
<1>2. Coherence'
  BY DEF IInv, Coherence, vars
<1>3. Counted'
  BY DEF IInv, Counted, InStage1, vars
<1> QED  BY <1>1, <1>2, <1>3 DEF IInv

LEMMA NextIInv == IInv /\ [Next]_vars => IInv'
BY StutterIInv, ResetIInv, StartClearIInv, ClearStepIInv, AcceptIInv, Zenon DEF Next

LEMMA AlwaysIInv == Spec => []IInv
BY InitIInv, NextIInv, PTL DEF Spec

(* Every register and memory of the checker keeps its type, whatever the   *)
(* memory held at power-up (pw_test_rx_checker_bram.sv:94-172).            *)
THEOREM TypeCorrect == Spec => []TypeOK
BY AlwaysIInv, PTL DEF IInv

(* Stage 1 always updates the record the memory holds: the bypass of one   *)
(* record is enough for events in every cycle (line 236).                  *)
THEOREM BypassCoherent == Spec => []ForwardingCoherent
<1>1. IInv => ForwardingCoherent
  BY SourceIsMemory DEF ForwardingCoherent
<1> QED  BY AlwaysIInv, <1>1, PTL

(* rx_frames misses no frame and counts none twice, in any interleaving of *)
(* events and clears (lines 157-298).                                      *)
THEOREM EveryFrameCounted == Spec => []NoFrameLost
<1>1. IInv => NoFrameLost
  BY DEF IInv, Counted, NoFrameLost
<1> QED  BY AlwaysIInv, <1>1, PTL
-----------------------------------------------------------------------------
LEMMA MappedAt ==
  /\ MappedRecs = [f \in Flows |-> MappedRecs[f]]
  /\ \A f \in Flows : MappedRecs[f] = IF clearing THEN blank_rec
                                      ELSE IF s1.valid /\ s1.ev.flow = f
                                           THEN UpdateRecord(mem[f], s1.ev) ELSE mem[f]
BY DEF MappedRecs, Flows, Flat!Flows

\* What the observer sees after a normal cycle.
LEMMA AcceptMapped ==
  ASSUME IInv, NEW e \in Frames, Accept(e)
  PROVE  \A f \in Flows : MappedRecs'[f] = IF event_take(e) /\ e.flow = f
                                           THEN UpdateRecord(MappedRecs[f], Flat!Sample(e))
                                           ELSE MappedRecs[f]
<1> SUFFICES ASSUME NEW f \in Flows
             PROVE  MappedRecs'[f] = IF event_take(e) /\ e.flow = f
                                     THEN UpdateRecord(MappedRecs[f], Flat!Sample(e))
                                     ELSE MappedRecs[f]
  OBVIOUS
<1>1. /\ Datapath(e) /\ ~clearing /\ ~clearing'
      /\ s1' = [valid |-> event_take(e), ev |-> Flat!Sample(e)]
  BY DEF Accept
<1>2. mem'[f] = MappedRecs[f]
  BY <1>1, UpdateCycle, MappedAt
<1>3. (s1.valid)' = event_take(e) /\ (s1.ev)' = Flat!Sample(e) /\ (s1.ev.flow)' = e.flow
  BY <1>1, SampleType
<1>4. MappedRecs'[f] = IF (s1.valid)' /\ (s1.ev.flow)' = f
                       THEN UpdateRecord(mem'[f], (s1.ev)') ELSE mem'[f]
  BY <1>1 DEF MappedRecs, Flows, Flat!Flows
<1> QED  BY <1>2, <1>3, <1>4

LEMMA RefinedStep ==
  ASSUME IInv, IInv', [Next]_vars
  PROVE  [Flat!Next]_(Flat!vars)
<1>1. ASSUME clearing', ForgetHistory PROVE Flat!Clear
  BY <1>1, SameUpdate DEF Flat!Clear, ForgetHistory, MappedRecs, Flows, Flat!Flows
<1>2. ASSUME NEW e \in Frames, Reset(e) PROVE Flat!Clear
  BY <1>1, <1>2 DEF Reset
<1>3. ASSUME NEW e \in Frames, StartClear(e) PROVE Flat!Clear
  BY <1>1, <1>3 DEF StartClear
<1>4. ASSUME NEW e \in Frames, ClearStep(e) PROVE UNCHANGED Flat!vars
  <2>1. clearing /\ obs' = obs /\ ~(s1.valid)'
    BY <1>4 DEF ClearStep, IInv, TypeOK
  <2>2. CASE clearing'
    BY <2>1, <2>2 DEF MappedRecs, Flat!vars
  <2>3. CASE ~clearing'
    <3>1. clear_idx = NUM_FLOWS /\ Datapath(e)
      BY Zenon, <1>4, <2>1, <2>3 DEF ClearStep
    <3>2. \A f \in Flows : f \in Nat /\ f < NUM_FLOWS
      BY FlowsAssumption DEF Flows, Flat!Flows
    <3>3. \A f \in Flows : mem'[f] = blank_rec
      BY <2>1, <3>1, <3>2, ClearCycle DEF IInv, Coherence
    <3>4. MappedRecs' = MappedRecs
      BY <2>1, <2>3, <3>3 DEF MappedRecs, Flows, Flat!Flows
    <3> QED  BY <2>1, <3>4 DEF Flat!vars
  <2> QED  BY <2>2, <2>3
<1>5. ASSUME NEW e \in Frames, Accept(e) PROVE Flat!Count(e) \/ UNCHANGED Flat!vars
  <2>1. CASE event_take(e)
    <3>1. e.flow \in Flows
      BY <2>1 DEF event_take, Flat!event_take, Flows
    <3>2. MappedRecs' = [MappedRecs EXCEPT ![e.flow] = UpdateRecord(@, Flat!Sample(e))]
      <4>1. /\ MappedRecs = [f \in Flows |-> MappedRecs[f]]
            /\ MappedRecs' = [f \in Flows |-> MappedRecs'[f]]
        BY DEF MappedRecs, Flows, Flat!Flows
      <4> QED  BY <1>5, <2>1, <3>1, <4>1, AcceptMapped
    <3>3. /\ obs' = [obs EXCEPT ![e.flow] = Flat!Remember(@, e)]
          /\ obs[e.flow].taken < MaxFrames
      BY <1>5, <2>1 DEF Accept
    <3> QED  BY Zenon, <2>1, <3>2, <3>3, SameUpdate DEF Flat!Count, event_take
  <2>2. CASE ~event_take(e)
    <3>1. MappedRecs' = MappedRecs
      <4>1. /\ MappedRecs = [f \in Flows |-> MappedRecs[f]]
            /\ MappedRecs' = [f \in Flows |-> MappedRecs'[f]]
        BY DEF MappedRecs, Flows, Flat!Flows
      <4> QED  BY <1>5, <2>2, <4>1, AcceptMapped
    <3>2. obs' = obs
      BY <1>5, <2>2 DEF Accept
    <3> QED  BY <3>1, <3>2 DEF Flat!vars
  <2> QED  BY <2>1, <2>2
<1>6. CASE UNCHANGED vars
  BY <1>6 DEF vars, MappedRecs, Flat!vars
<1> QED  BY <1>2, <1>3, <1>4, <1>5, <1>6 DEF Next, Flat!Next

(* The pipelined, memory-backed checker implements the flat statistics:    *)
(* whatever RxFlowStats promises of the counters holds of the hardware.    *)
THEOREM PipelineRefines == Spec => Refinement
<1>1. Init => Flat!Init
  BY SameUpdate DEF Init, Flat!Init, MappedRecs, Flows, Flat!Flows
<1>2. IInv /\ IInv' /\ [Next]_vars => [Flat!Next]_(Flat!vars)
  BY RefinedStep
<1> QED  BY <1>1, <1>2, AlwaysIInv, PTL DEF Spec, Refinement, Flat!Spec
-----------------------------------------------------------------------------
(* The health LED. *)

\* A flow with a loss on record.
Lossy == \E f \in Flows : mem[f].lost > 0

LEMMA CheckerInit == SInit => Init
BY Zenon DEF SInit

LEMMA CheckerStep == [SNext]_allvars => [Next]_vars
<1> SUFFICES ASSUME [SNext]_allvars PROVE [Next]_vars
  OBVIOUS
<1>1. CASE UNCHANGED allvars
  BY Zenon, <1>1 DEF allvars
<1>2. ASSUME NEW e \in Frames, NEW far, NEW bad, NEW miss,
             Run(e, far, bad, miss) \/ StatsClear(e, far, bad, miss)
      PROVE  Next
  BY Zenon, <1>2 DEF Run, StatsClear, Next
<1> QED  BY Zenon, <1>1, <1>2 DEF SNext

\* A loss that is new with this edge is announced with it.
LEMMA NewLossPulses ==
  ASSUME IInv, NEW e \in Frames, Accept(e), Lossy' PROVE Lossy \/ lost_event'
<1>1. Datapath(e) /\ ~clearing
  BY Zenon DEF Accept
<1>2. mem \in [Flows -> Records] /\ s1.ev \in Samples
  BY Zenon DEF IInv, TypeOK, Samples
<1>3. PICK f \in Flows : mem'[f].lost > 0
  BY Zenon DEF Lossy
<1>4. mem'[f] = IF s1.valid /\ s1.ev.flow = f THEN UpdateRecord(mem[f], s1.ev) ELSE mem[f]
  BY Zenon, <1>1, UpdateCycle
<1>5. CASE ~(s1.valid /\ s1.ev.flow = f)
  BY Zenon, <1>3, <1>4, <1>5 DEF Lossy
<1>6. CASE s1.valid /\ s1.ev.flow = f
  <2>1. mem'[f] = UpdateRecord(mem[f], s1.ev) /\ mem[f] \in Records
    BY Zenon, <1>2, <1>4, <1>6
  <2>2. CASE UpdateRecord(mem[f], s1.ev).lost = mem[f].lost
    BY Zenon, <1>3, <2>1, <2>2 DEF Lossy
  <2>3. CASE s1.ev.test /\ OpensGap(mem[f], s1.ev.seq)
    <3>1. SourceRec = mem[f]
      BY Zenon, <1>6, SourceIsMemory
    <3>2. lost_event' = (Updating /\ s1.ev.test /\ OpensGap(SourceRec, s1.ev.seq))
      BY Zenon, <1>1 DEF Datapath, Outputs
    <3> QED  BY Zenon, <1>1, <1>6, <2>3, <3>1, <3>2 DEF Updating
  <2> QED  BY Zenon, <1>2, <2>1, <2>2, <2>3, UpdateEffect
<1> QED  BY Zenon, <1>5, <1>6

\* No loss survives the walk, and none is on record when it ends.
LEMMA WalkForgets ==
  ASSUME IInv, NEW e \in Frames, ClearStep(e), ~clearing' PROVE ~Lossy'
<1>1. clearing /\ Datapath(e) /\ clear_idx = NUM_FLOWS
  BY Zenon DEF ClearStep
<1>2. \A f \in Flows : f \in Nat /\ f < NUM_FLOWS /\ NUM_FLOWS \in Nat
  BY FlowsAssumption DEF Flows, Flat!Flows
<1>3. \A f \in Flows : mem'[f] = blank_rec
  BY <1>1, <1>2, ClearCycle DEF IInv, Coherence
<1>4. ~(blank_rec.lost > 0)
  BY DEF blank_rec
<1> QED  BY Zenon, <1>3, <1>4 DEF Lossy

Lit == (missed \/ (~clearing /\ Lossy)) => err_sticky \/ lost_event

LEMMA LitStep == IInv /\ Lit /\ [SNext]_allvars => Lit'
<1> SUFFICES ASSUME IInv, Lit, [SNext]_allvars PROVE Lit'
  OBVIOUS
<1>1. CASE UNCHANGED allvars
  BY Zenon, <1>1 DEF allvars, vars, ledvars, Lit, Lossy
<1>2. ASSUME NEW e \in Frames, NEW far, NEW bad, NEW miss, Run(e, far, bad, miss) PROVE Lit'
  <2>1. /\ err_sticky' = (err_sticky \/ lost_event \/ port_err \/ miss)
        /\ missed' = (missed \/ miss)
    BY Zenon, <1>2 DEF Run, HealthLed
  <2>2. CASE Accept(e)
    <3>1. clearing' = clearing
      BY Zenon, <2>2 DEF Accept
    <3> QED  BY Zenon, <2>1, <2>2, <3>1, NewLossPulses DEF Lit
  <2>3. CASE ClearStep(e)
    BY Zenon, <2>1, <2>3, WalkForgets DEF Lit
  <2> QED  BY Zenon, <1>2, <2>2, <2>3 DEF Run
<1>3. ASSUME NEW e \in Frames, NEW far, NEW bad, NEW miss, StatsClear(e, far, bad, miss)
      PROVE  Lit'
  <2>1. ~missed'
    BY Zenon, <1>3 DEF StatsClear, HealthLed
  <2>2. CASE StartClear(e)
    <3>1. clearing'
      BY Zenon, <2>2 DEF StartClear
    <3> QED  BY Zenon, <2>1, <3>1 DEF Lit
  <2>3. CASE ClearStep(e)
    BY Zenon, <2>1, <2>3, WalkForgets DEF Lit
  <2> QED  BY Zenon, <1>3, <2>2, <2>3 DEF StatsClear
<1> QED  BY Zenon, <1>1, <1>2, <1>3 DEF SNext

(* No loss is hidden behind a green LED, whatever the frames, the clears   *)
(* and the other port do: outside a clear, a flow with lost > 0 or an      *)
(* unmatched test frame has latched err_sticky_q or does so on the next    *)
(* edge (pw_data_plane_axis.sv:893-915).                                   *)
THEOREM LossLit == SSpec => []LossIsLit
<1>1. SInit => IInv /\ Lit
  <2>1. SInit => ~missed /\ clearing
    BY Zenon DEF SInit, Init
  <2> QED  BY Zenon, <2>1, CheckerInit, InitIInv DEF Lit
<1>2. IInv /\ Lit /\ [SNext]_allvars => (IInv /\ Lit)'
  BY Zenon, CheckerStep, NextIInv, LitStep
<1>3. Lit => LossIsLit
  BY Zenon DEF Lit, Lossy, LossIsLit
<1> QED  BY <1>1, <1>2, <1>3, PTL DEF SSpec
=============================================================================
