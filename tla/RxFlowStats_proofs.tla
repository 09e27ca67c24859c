------------------------- MODULE RxFlowStats_proofs -------------------------
(***************************************************************************)
(* Proofs about the flat RX statistics, for every number of flows, every   *)
(* set of frames and every latency range: type correctness, the balance of *)
(* the sequence counters, that a duplicate is a repeat, the bounds of the  *)
(* loss estimate and the consistency of the latency summary.               *)
(***************************************************************************)
EXTENDS RxFlowStats, FiniteSetTheorems, TLAPS

(* A leaf goes to SMT, then to Zenon, and to Z3 with a fresh translation last. *)
USE SMTT(30), Zenon, Z3T(30)

-----------------------------------------------------------------------------
\* The update of one statistics record.
Samples == [flow : Nat, test : BOOLEAN, seq : Nat, lat : 0..LatMax]

LEMMA ClampType ==
  ASSUME NEW raw \in Int PROVE ClampLatency(raw) \in 0..LatMax
BY LatMaxAssumption DEF ClampLatency

LEMMA BlankType == blank_rec \in Records
BY LatMaxAssumption DEF blank_rec, Records

\* The latency part touches neither the sequence fields nor the types.
LEMMA JitterEffect ==
  ASSUME NEW rec \in Records, NEW lat \in 0..LatMax
  PROVE  /\ AddJitter(rec, lat) \in Records
         /\ AddJitter(rec, lat).seen = rec.seen
         /\ AddJitter(rec, lat).exp = rec.exp
         /\ AddJitter(rec, lat).samples = rec.samples
         /\ AddJitter(rec, lat).dup = rec.dup
         /\ AddJitter(rec, lat).ooo = rec.ooo
         /\ AddJitter(rec, lat).lost = rec.lost
         /\ AddJitter(rec, lat).rx = rec.rx
<1> DEFINE jd == Distance(lat, rec.prev)
<1>1. jd \in 0..LatMax
  BY LatMaxAssumption DEF Distance, Records
<1>2. /\ rec.jsum + jd \in Nat
      /\ Smaller(rec.jmin, jd) \in 0..LatMax /\ Larger(rec.jmax, jd) \in 0..LatMax
  BY <1>1, LatMaxAssumption DEF Smaller, Larger, Records
<1> HIDE DEF jd
<1>3. AddJitter(rec, lat) =
        IF rec.seen THEN [rec EXCEPT !.jsum = @ + jd, !.jmin = Smaller(@, jd),
                                     !.jmax = Larger(@, jd)]
        ELSE rec
  BY DEF AddJitter, jd
<1>4. AddJitter(rec, lat) \in Records
  BY Zenon, <1>2, <1>3 DEF Records
<1> QED  BY <1>3, <1>4 DEF Records

LEMMA LatencyEffect ==
  ASSUME NEW rec \in Records, NEW lat \in 0..LatMax
  PROVE  /\ AddLatency(rec, lat) \in Records
         /\ AddLatency(rec, lat).seen = rec.seen
         /\ AddLatency(rec, lat).exp = rec.exp
         /\ AddLatency(rec, lat).samples = rec.samples + 1
         /\ AddLatency(rec, lat).dup = rec.dup
         /\ AddLatency(rec, lat).ooo = rec.ooo
         /\ AddLatency(rec, lat).lost = rec.lost
         /\ AddLatency(rec, lat).rx = rec.rx
<1>1. Smaller(rec.min, lat) \in 0..LatMax /\ Larger(rec.max, lat) \in 0..LatMax
  BY DEF Smaller, Larger, Records
<1>2. rec.sum + lat \in Nat /\ rec.samples + 1 \in Nat
  BY LatMaxAssumption DEF Records
<1>3. AddLatency(rec, lat) \in Records
  BY Zenon, <1>1, <1>2 DEF AddLatency, Records
<1> QED  BY <1>3 DEF AddLatency, Records

\* The five cases of the classification, and what each does to the balance.
LEMMA SequenceType ==
  ASSUME NEW rec \in Records, NEW seq \in Nat
  PROVE  ClassifySequence(rec, seq) \in Records
<1>1. /\ rec.exp \in Nat /\ rec.exp + 1 \in Nat /\ rec.dup + 1 \in Nat /\ rec.ooo + 1 \in Nat
      /\ rec.lost \in Nat /\ seq + 1 \in Nat
  BY DEF Records
<1>2. seq > rec.exp => rec.lost + (seq - rec.exp) \in Nat
  BY <1>1
<1>3. CASE ~rec.seen
  BY Zenon, <1>1, <1>3 DEF ClassifySequence, Records
<1>4. CASE rec.seen /\ seq = rec.exp
  BY Zenon, <1>1, <1>4 DEF ClassifySequence, Records
<1>5. CASE rec.seen /\ seq > rec.exp
  <2> DEFINE n == rec.lost + (seq - rec.exp)
  <2>1. ClassifySequence(rec, seq) = [rec EXCEPT !.lost = n, !.exp = seq + 1, !.last = seq]
    BY <1>1, <1>5 DEF ClassifySequence, Records
  <2>2. n \in Nat
    BY <1>2, <1>5
  <2> HIDE DEF n
  <2> QED  BY Zenon, <1>1, <2>1, <2>2 DEF Records
<1>6. CASE rec.seen /\ seq < rec.exp /\ seq = rec.exp - 1
  <2>1. ClassifySequence(rec, seq) = [rec EXCEPT !.dup = @ + 1, !.last = seq]
    BY <1>1, <1>6 DEF ClassifySequence
  <2> QED  BY Zenon, <1>1, <2>1 DEF Records
<1>7. CASE rec.seen /\ seq < rec.exp /\ seq # rec.exp - 1
  <2>1. ClassifySequence(rec, seq) = [rec EXCEPT !.ooo = @ + 1, !.last = seq]
    BY <1>1, <1>7 DEF ClassifySequence
  <2> QED  BY Zenon, <1>1, <2>1 DEF Records
<1> QED  BY <1>1, <1>3, <1>4, <1>5, <1>6, <1>7

LEMMA SequenceFirst ==
  ASSUME NEW rec \in Records, NEW seq \in Nat, ~rec.seen
  PROVE  LET r == ClassifySequence(rec, seq)
         IN  /\ r.seen /\ r.exp = seq + 1
             /\ r.samples = rec.samples /\ r.dup = rec.dup
             /\ r.ooo = rec.ooo /\ r.lost = rec.lost /\ r.rx = rec.rx
BY DEF ClassifySequence, Records

LEMMA SequenceNext ==
  ASSUME NEW rec \in Records, NEW seq \in Nat, rec.seen
  PROVE  LET r == ClassifySequence(rec, seq)
         IN  /\ r.seen /\ r.samples = rec.samples /\ r.rx = rec.rx
             /\ r.exp = IF seq >= rec.exp THEN seq + 1 ELSE rec.exp
             /\ r.exp - r.lost + r.dup + r.ooo
                  = rec.exp - rec.lost + rec.dup + rec.ooo + 1
<1>1. /\ rec.exp \in Nat /\ rec.dup \in Nat /\ rec.ooo \in Nat /\ rec.lost \in Nat
  BY DEF Records
<1>2. CASE seq = rec.exp
  BY <1>1, <1>2 DEF ClassifySequence, Records
<1>3. CASE seq > rec.exp
  BY <1>1, <1>3 DEF ClassifySequence, Records
<1>4. CASE seq < rec.exp /\ seq = rec.exp - 1
  BY <1>1, <1>4 DEF ClassifySequence, Records
<1>5. CASE seq < rec.exp /\ seq # rec.exp - 1
  BY <1>1, <1>5 DEF ClassifySequence, Records
<1> QED  BY <1>1, <1>2, <1>3, <1>4, <1>5
-----------------------------------------------------------------------------
\* The whole update of one frame.
LEMMA CountedEffect ==
  ASSUME NEW rec \in Records
  PROVE  LET r == [rec EXCEPT !.rx = @ + 1]
         IN  /\ r \in Records /\ r.rx = rec.rx + 1
             /\ r.seen = rec.seen /\ r.exp = rec.exp /\ r.samples = rec.samples
             /\ r.dup = rec.dup /\ r.ooo = rec.ooo /\ r.lost = rec.lost /\ r.jsum = rec.jsum
<1>1. rec.rx + 1 \in Nat
  BY DEF Records
<1> QED  BY <1>1 DEF Records

\* The record a test frame's sequence number is classified against.
LEMMA TimedEffect ==
  ASSUME NEW rec \in Records, NEW e \in Samples, e.test
  PROVE  \E r \in Records :
           /\ UpdateRecord(rec, e) = ClassifySequence(r, e.seq)
           /\ r.rx = rec.rx + 1 /\ r.samples = rec.samples + 1
           /\ r.seen = rec.seen /\ r.exp = rec.exp
           /\ r.dup = rec.dup /\ r.ooo = rec.ooo /\ r.lost = rec.lost
<1> DEFINE c == [rec EXCEPT !.rx = @ + 1]
           j == AddJitter(c, e.lat)
           r == AddLatency(j, e.lat)
<1>1. UpdateRecord(rec, e) = ClassifySequence(r, e.seq)
  BY DEF UpdateRecord
<1>2. e.lat \in 0..LatMax
  BY DEF Samples
<1>3. /\ c \in Records /\ c.rx = rec.rx + 1
      /\ c.seen = rec.seen /\ c.exp = rec.exp /\ c.samples = rec.samples
      /\ c.dup = rec.dup /\ c.ooo = rec.ooo /\ c.lost = rec.lost
  BY CountedEffect
<1> HIDE DEF c
<1>4. /\ j \in Records /\ j.rx = c.rx
      /\ j.seen = c.seen /\ j.exp = c.exp /\ j.samples = c.samples
      /\ j.dup = c.dup /\ j.ooo = c.ooo /\ j.lost = c.lost
  BY <1>2, <1>3, JitterEffect
<1> HIDE DEF j
<1>5. /\ r \in Records /\ r.rx = j.rx
      /\ r.seen = j.seen /\ r.exp = j.exp /\ r.samples = j.samples + 1
      /\ r.dup = j.dup /\ r.ooo = j.ooo /\ r.lost = j.lost
  BY <1>2, <1>4, LatencyEffect
<1> HIDE DEF r
<1> QED  BY <1>1, <1>3, <1>4, <1>5

LEMMA UpdateType ==
  ASSUME NEW rec \in Records, NEW e \in Samples
  PROVE  UpdateRecord(rec, e) \in Records
<1>1. CASE e.test
  <2>1. PICK r \in Records : UpdateRecord(rec, e) = ClassifySequence(r, e.seq)
    BY <1>1, TimedEffect
  <2>2. e.seq \in Nat
    BY DEF Samples
  <2> QED  BY <2>1, <2>2, SequenceType
<1>2. CASE ~e.test
  BY <1>2, CountedEffect DEF UpdateRecord
<1> QED  BY <1>1, <1>2

\* rx_frames counts every frame, test header or not.
LEMMA UpdateCounts ==
  ASSUME NEW rec \in Records, NEW e \in Samples
  PROVE  UpdateRecord(rec, e).rx = rec.rx + 1
<1>1. e.seq \in Nat
  BY DEF Samples
<1>2. CASE e.test
  <2>1. PICK r \in Records : UpdateRecord(rec, e) = ClassifySequence(r, e.seq)
                             /\ r.rx = rec.rx + 1
    BY <1>2, TimedEffect
  <2> QED  BY <1>1, <2>1, SequenceFirst, SequenceNext
<1>3. CASE ~e.test
  BY <1>3, CountedEffect DEF UpdateRecord
<1> QED  BY <1>2, <1>3
-----------------------------------------------------------------------------
\* What a frame does to the latency fields.
LEMMA JitterFields ==
  ASSUME NEW rec \in Records, NEW lat \in 0..LatMax
  PROVE  LET r == AddJitter(rec, lat)
             d == Distance(lat, rec.prev)
         IN  /\ r.sum = rec.sum /\ r.min = rec.min /\ r.max = rec.max /\ r.prev = rec.prev
             /\ rec.seen => /\ r.jsum = rec.jsum + d
                            /\ r.jmin = Smaller(rec.jmin, d) /\ r.jmax = Larger(rec.jmax, d)
             /\ ~rec.seen => /\ r.jsum = rec.jsum /\ r.jmin = rec.jmin
                             /\ r.jmax = rec.jmax
<1>1. CASE rec.seen
  BY <1>1 DEF AddJitter, Records
<1>2. CASE ~rec.seen
  BY <1>2 DEF AddJitter
<1> QED  BY <1>1, <1>2

LEMMA LatencyFields ==
  ASSUME NEW rec \in Records, NEW lat \in 0..LatMax
  PROVE  LET r == AddLatency(rec, lat)
         IN  /\ r.sum = rec.sum + lat /\ r.prev = lat
             /\ r.min = Smaller(rec.min, lat) /\ r.max = Larger(rec.max, lat)
             /\ r.jsum = rec.jsum /\ r.jmin = rec.jmin /\ r.jmax = rec.jmax
BY DEF AddLatency, Records

LEMMA SequenceKeepsLatency ==
  ASSUME NEW rec \in Records, NEW seq \in Nat
  PROVE  LET r == ClassifySequence(rec, seq)
         IN  /\ r.seen /\ r.sum = rec.sum /\ r.samples = rec.samples
             /\ r.min = rec.min /\ r.max = rec.max /\ r.prev = rec.prev
             /\ r.jsum = rec.jsum /\ r.jmin = rec.jmin /\ r.jmax = rec.jmax
BY DEF ClassifySequence, Records

LEMMA UpdateLatency ==
  ASSUME NEW rec \in Records, NEW e \in Samples, e.test
  PROVE  LET u == UpdateRecord(rec, e)
             d == Distance(e.lat, rec.prev)
         IN  /\ u.seen /\ u.samples = rec.samples + 1
             /\ u.sum = rec.sum + e.lat /\ u.prev = e.lat
             /\ u.min = Smaller(rec.min, e.lat) /\ u.max = Larger(rec.max, e.lat)
             /\ rec.seen => /\ u.jsum = rec.jsum + d
                            /\ u.jmin = Smaller(rec.jmin, d) /\ u.jmax = Larger(rec.jmax, d)
             /\ ~rec.seen => /\ u.jsum = rec.jsum /\ u.jmin = rec.jmin
                             /\ u.jmax = rec.jmax
<1> DEFINE c == [rec EXCEPT !.rx = @ + 1]
           j == AddJitter(c, e.lat)
           r == AddLatency(j, e.lat)
<1>1. UpdateRecord(rec, e) = ClassifySequence(r, e.seq)
  BY DEF UpdateRecord
<1>2. e.lat \in 0..LatMax /\ e.seq \in Nat
  BY DEF Samples
<1>3. /\ c \in Records /\ c.seen = rec.seen /\ c.samples = rec.samples
      /\ c.sum = rec.sum /\ c.min = rec.min /\ c.max = rec.max /\ c.prev = rec.prev
      /\ c.jsum = rec.jsum /\ c.jmin = rec.jmin /\ c.jmax = rec.jmax
  BY CountedEffect DEF Records
<1> HIDE DEF c
<1>4. j \in Records /\ j.samples = c.samples
  BY <1>2, <1>3, JitterEffect
<1>5. /\ j.sum = c.sum /\ j.min = c.min /\ j.max = c.max /\ j.prev = c.prev
      /\ c.seen => /\ j.jsum = c.jsum + Distance(e.lat, c.prev)
                   /\ j.jmin = Smaller(c.jmin, Distance(e.lat, c.prev))
                   /\ j.jmax = Larger(c.jmax, Distance(e.lat, c.prev))
      /\ ~c.seen => j.jsum = c.jsum /\ j.jmin = c.jmin /\ j.jmax = c.jmax
  BY <1>2, <1>3, JitterFields
<1> HIDE DEF j
<1>6. r \in Records /\ r.samples = j.samples + 1
  BY <1>2, <1>4, LatencyEffect
<1>7. /\ r.sum = j.sum + e.lat /\ r.prev = e.lat
      /\ r.min = Smaller(j.min, e.lat) /\ r.max = Larger(j.max, e.lat)
      /\ r.jsum = j.jsum /\ r.jmin = j.jmin /\ r.jmax = j.jmax
  BY <1>2, <1>4, LatencyFields
<1> HIDE DEF r
<1>8. LET u == UpdateRecord(rec, e)
      IN  /\ u.seen /\ u.sum = r.sum /\ u.samples = r.samples
          /\ u.min = r.min /\ u.max = r.max /\ u.prev = r.prev
          /\ u.jsum = r.jsum /\ u.jmin = r.jmin /\ u.jmax = r.jmax
  BY <1>1, <1>2, <1>6, SequenceKeepsLatency
<1> QED  BY <1>3, <1>4, <1>5, <1>6, <1>7, <1>8

\* The counters of a flow that has been seen, case by case.
LEMMA SequenceCases ==
  ASSUME NEW rec \in Records, NEW seq \in Nat, rec.seen
  PROVE  LET r == ClassifySequence(rec, seq)
         IN  /\ seq = rec.exp => r.exp = seq + 1 /\ r.lost = rec.lost /\ r.ooo = rec.ooo
             /\ seq > rec.exp => /\ r.exp = seq + 1 /\ r.ooo = rec.ooo
                                 /\ r.lost = rec.lost + (seq - rec.exp)
             /\ seq = rec.exp - 1 => /\ r.exp = rec.exp /\ r.lost = rec.lost
                                     /\ r.ooo = rec.ooo
             /\ seq < rec.exp - 1 => /\ r.exp = rec.exp /\ r.lost = rec.lost
                                     /\ r.ooo = rec.ooo + 1
<1>1. rec.exp \in Nat /\ rec.ooo \in Nat /\ rec.lost \in Nat
  BY DEF Records
<1>2. CASE seq = rec.exp
  BY <1>1, <1>2 DEF ClassifySequence, Records
<1>3. CASE seq > rec.exp
  BY <1>1, <1>3 DEF ClassifySequence, Records
<1>4. CASE seq = rec.exp - 1
  BY <1>1, <1>4 DEF ClassifySequence, Records
<1>5. CASE seq < rec.exp - 1
  BY <1>1, <1>5 DEF ClassifySequence, Records
<1> QED  BY <1>1, <1>2, <1>3, <1>4, <1>5
-----------------------------------------------------------------------------
\* The statistics of all flows.
LEMMA SampleType ==
  ASSUME NEW e \in Frames
  PROVE  /\ Sample(e) \in Samples
         /\ Sample(e).test = e.test /\ Sample(e).seq = e.seq
         /\ e.test \in BOOLEAN /\ e.seq \in Nat
<1>1. e \in FrameType
  BY FramesAssumption
<1>2. ClampLatency(e.raw) \in 0..LatMax
  BY <1>1, ClampType DEF FrameType
<1> QED  BY <1>1, <1>2 DEF FrameType, Sample, Samples

\* The history record behaves.
LEMMA RememberType ==
  ASSUME NEW h \in ObsType, NEW e \in Frames
  PROVE  /\ Remember(h, e) \in ObsType /\ Remember(h, e).taken = h.taken + 1
         /\ Remember(h, e).first = IF e.test /\ h.got = {} THEN e.seq ELSE h.first
         /\ Remember(h, e).got = IF e.test THEN h.got \cup {e.seq} ELSE h.got
<1>1. e.seq \in Nat
  BY SampleType
<1> QED  BY <1>1 DEF Remember, ObsType

LEMMA BlankObsType == blank_obs \in ObsType
BY DEF blank_obs, ObsType

LEMMA InitType == Init => TypeOK
BY BlankType, BlankObsType DEF Init, TypeOK

LEMMA ClearType == Clear => TypeOK'
BY BlankType, BlankObsType DEF Clear, TypeOK

LEMMA CountType ==
  ASSUME TypeOK, NEW e \in Frames, Count(e)
  PROVE  TypeOK'
<1>1. recs[e.flow] \in Records /\ obs[e.flow] \in ObsType
  BY DEF TypeOK, Count, event_take
<1>2. UpdateRecord(recs[e.flow], Sample(e)) \in Records
  BY <1>1, SampleType, UpdateType
<1>3. Remember(obs[e.flow], e) \in ObsType
  BY Zenon, <1>1, RememberType
<1> QED  BY Zenon, <1>2, <1>3 DEF TypeOK, Count

(* The records and the history keep their types: in particular no latency  *)
(* field leaves the 32-bit range whatever raw difference of the clocks     *)
(* arrives (pw_test_rx_checker_bram.sv:193-204).                           *)
THEOREM TypeCorrect == Spec => []TypeOK
<1>1. TypeOK /\ [Next]_vars => TypeOK'
  <2>1. TypeOK /\ UNCHANGED vars => TypeOK'
    BY DEF TypeOK, vars
  <2> QED  BY <2>1, ClearType, CountType DEF Next
<1> QED  BY InitType, <1>1, PTL DEF Spec
-----------------------------------------------------------------------------
\* One frame keeps the balance of its flow, and its highest number.
LEMMA UpdateBalanced ==
  ASSUME NEW r \in Records, NEW h \in ObsType, NEW e \in Frames,
         Balanced(r, h), HighestReceived(r, h)
  PROVE  /\ Balanced(UpdateRecord(r, Sample(e)), Remember(h, e))
         /\ HighestReceived(UpdateRecord(r, Sample(e)), Remember(h, e))
<1> DEFINE s == Sample(e)
           u == UpdateRecord(r, s)
           k == Remember(h, e)
<1>1. s \in Samples /\ s.test = e.test /\ s.seq = e.seq /\ e.seq \in Nat
  BY SampleType
<1>2. /\ k.first = IF e.test /\ h.got = {} THEN e.seq ELSE h.first
      /\ k.got = IF e.test THEN h.got \cup {e.seq} ELSE h.got
  BY Zenon, RememberType
<1>3. h.first \in Nat /\ h.got \subseteq Nat
  BY DEF ObsType
<1>4. /\ r.exp \in Nat /\ r.samples \in Nat /\ r.dup \in Nat /\ r.ooo \in Nat /\ r.lost \in Nat
  BY DEF Records
<1> HIDE DEF s, u, k
<1>5. CASE ~e.test
  <2>1. u = [r EXCEPT !.rx = @ + 1]
    BY <1>1, <1>5 DEF u, UpdateRecord
  <2>2. /\ u.seen = r.seen /\ u.exp = r.exp /\ u.samples = r.samples
        /\ u.dup = r.dup /\ u.ooo = r.ooo /\ u.lost = r.lost /\ u.jsum = r.jsum
    BY <2>1, CountedEffect
  <2>3. k.first = h.first /\ k.got = h.got
    BY <1>2, <1>5
  <2>4. Balanced(u, k) /\ HighestReceived(u, k)
    BY <2>2, <2>3 DEF Balanced, HighestReceived
  <2> QED  BY <2>4 DEF u, k, s
<1>6. CASE e.test
  <2>0. s.test
    BY <1>1, <1>6, Zenon
  <2>1. PICK q \in Records :
           /\ u = ClassifySequence(q, s.seq)
           /\ q.rx = r.rx + 1 /\ q.samples = r.samples + 1
           /\ q.seen = r.seen /\ q.exp = r.exp
           /\ q.dup = r.dup /\ q.ooo = r.ooo /\ q.lost = r.lost
    BY <1>1, <2>0, TimedEffect, Zenon DEF u
  <2>2. CASE ~r.seen
    <3>1. /\ u.seen /\ u.exp = e.seq + 1 /\ u.samples = r.samples + 1
          /\ u.dup = r.dup /\ u.ooo = r.ooo /\ u.lost = r.lost
      BY <1>1, <2>1, <2>2, SequenceFirst
    <3>2. h.got = {} /\ r.samples = 0 /\ r.dup = 0 /\ r.ooo = 0 /\ r.lost = 0
      BY <2>2 DEF Balanced
    <3>3. k.first = e.seq /\ k.got = {e.seq}
      BY <1>2, <1>6, <3>2
    <3>4. Balanced(u, k)
      BY <1>1, <3>1, <3>2, <3>3 DEF Balanced
    <3>5. HighestReceived(u, k)
      BY <1>1, <3>1, <3>3 DEF HighestReceived
    <3> QED  BY <3>4, <3>5 DEF u, k, s
  <2>3. CASE r.seen
    <3>1. /\ u.seen /\ u.samples = r.samples + 1
          /\ u.exp = IF e.seq >= r.exp THEN e.seq + 1 ELSE r.exp
          /\ u.exp - u.lost + u.dup + u.ooo = r.exp - r.lost + r.dup + r.ooo + 1
      <4>1. q.seen
        BY <2>1, <2>3, Zenon
      <4> QED  BY <1>1, <2>1, <4>1, SequenceNext
    <3>2. u \in Records
      BY <1>1, <2>1, SequenceType
    <3>3. u.exp \in Nat /\ u.dup \in Nat /\ u.ooo \in Nat /\ u.lost \in Nat
      BY <3>2 DEF Records
    <3>4. h.got # {} /\ r.exp - h.first = (r.samples - r.dup - r.ooo) + r.lost
      BY <2>3 DEF Balanced
    <3>5. k.first = h.first /\ k.got = h.got \cup {e.seq}
      BY <1>2, <1>6, <3>4
    <3>6. k.got # {}
      BY <3>5
    <3>7. u.exp - k.first = (u.samples - u.dup - u.ooo) + u.lost
      BY <1>3, <1>4, <3>1, <3>3, <3>4, <3>5
    <3>8. Balanced(u, k)
      BY <3>1, <3>6, <3>7 DEF Balanced
    <3>9. r.exp - 1 \in h.got /\ \A x \in h.got : x < r.exp
      BY <2>3 DEF HighestReceived
    <3>10. HighestReceived(u, k)
      BY <1>1, <1>3, <1>4, <3>1, <3>5, <3>9 DEF HighestReceived
    <3> QED  BY <3>8, <3>10 DEF u, k, s
  <2> QED  BY <2>2, <2>3
<1> QED  BY <1>5, <1>6

\* The two properties need each other: an unseen flow has received nothing.
Accounted == SequenceAccounting /\ DuplicateIsRepeat

LEMMA BlankAccounted == Balanced(blank_rec, blank_obs) /\ HighestReceived(blank_rec, blank_obs)
BY DEF Balanced, HighestReceived, blank_rec, blank_obs

LEMMA StepAccounted == TypeOK /\ Accounted /\ [Next]_vars => Accounted'
<1> SUFFICES ASSUME TypeOK, Accounted, [Next]_vars PROVE Accounted'
  OBVIOUS
<1>1. CASE UNCHANGED vars
  BY <1>1 DEF Accounted, SequenceAccounting, DuplicateIsRepeat, vars
<1>2. CASE Clear
  BY <1>2, BlankAccounted DEF Clear, Accounted, SequenceAccounting, DuplicateIsRepeat
<1>3. ASSUME NEW e \in Frames, Count(e) PROVE Accounted'
  <2> SUFFICES ASSUME NEW f \in Flows
               PROVE  Balanced(recs[f], obs[f])' /\ HighestReceived(recs[f], obs[f])'
    BY DEF Accounted, SequenceAccounting, DuplicateIsRepeat
  <2>1. /\ recs[f] \in Records /\ obs[f] \in ObsType
        /\ Balanced(recs[f], obs[f]) /\ HighestReceived(recs[f], obs[f])
    BY DEF TypeOK, Accounted, SequenceAccounting, DuplicateIsRepeat
  <2>2. CASE f = e.flow
    <3>1. recs'[f] = UpdateRecord(recs[f], Sample(e)) /\ obs'[f] = Remember(obs[f], e)
      BY <1>3, <2>2 DEF Count, TypeOK
    <3> QED  BY <2>1, <3>1, UpdateBalanced, Zenon
  <2>3. CASE f # e.flow
    <3>1. recs'[f] = recs[f] /\ obs'[f] = obs[f]
      BY <1>3, <2>3 DEF Count, TypeOK
    <3> QED  BY <2>1, <3>1, Zenon
  <2> QED  BY <2>2, <2>3
<1> QED  BY <1>1, <1>2, <1>3 DEF Next

LEMMA AlwaysAccounted == Spec => []Accounted
<1>1. Init => Accounted
  BY BlankAccounted DEF Init, Accounted, SequenceAccounting, DuplicateIsRepeat
<1> QED  BY <1>1, StepAccounted, TypeCorrect, PTL DEF Spec

(* The sequence counters balance for every frame order: the distance the   *)
(* expected number moved is the frames in order plus the frames reported   *)
(* lost (pw_test_rx_checker_bram.sv:271-284).                              *)
THEOREM CountersBalance == Spec => []SequenceAccounting
BY AlwaysAccounted, PTL DEF Accounted

(* A frame counted as duplicate repeats one that was received: exp - 1 is  *)
(* always the highest number received (same lines).                        *)
THEOREM DuplicatesAreRepeats == Spec => []DuplicateIsRepeat
BY AlwaysAccounted, PTL DEF Accounted
-----------------------------------------------------------------------------
\* The latency summary.  LatencyEnvelope by itself is not inductive: a delay
\* variation is taken against prev when a sequence number was seen, so the
\* two conditions must coincide, and the first sample needs the seeds.
Enveloped(r) ==
  IF r.seen
  THEN /\ r.samples > 0
       /\ r.min <= r.prev /\ r.prev <= r.max
       /\ r.min * r.samples <= r.sum /\ r.sum <= r.max * r.samples
       /\ r.jmax <= r.max - r.min
       /\ r.jsum <= r.jmax * (r.samples - 1)
       /\ r.jmin * (r.samples - 1) <= r.jsum
  ELSE /\ r.samples = 0 /\ r.sum = 0 /\ r.jsum = 0 /\ r.jmax = 0
       /\ r.min = LatMax /\ r.max = 0
AllEnveloped == \A f \in Flows : Enveloped(recs[f])

LEMMA TimesMonotone ==
  ASSUME NEW a \in Nat, NEW c \in Nat, NEW n \in Nat, a <= c
  PROVE  a * n <= c * n
OBVIOUS

LEMMA TimesSuccessor ==
  ASSUME NEW a \in Nat, NEW n \in Nat
  PROVE  a * (n + 1) = a * n + a /\ a * n \in Nat
OBVIOUS

\* One more value v, added to a sum of n values that lie between lo and hi.
LEMMA SumStaysBetween ==
  ASSUME NEW lo \in Nat, NEW hi \in Nat, NEW v \in Nat, NEW sum \in Nat, NEW n \in Nat,
         NEW lo2 \in Nat, NEW hi2 \in Nat,
         lo * n <= sum, sum <= hi * n, lo2 <= lo, lo2 <= v, hi <= hi2, v <= hi2
  PROVE  lo2 * (n + 1) <= sum + v /\ sum + v <= hi2 * (n + 1)
<1>1. lo2 * n <= lo * n /\ hi * n <= hi2 * n
  BY TimesMonotone
<1>2. /\ lo2 * (n + 1) = lo2 * n + lo2 /\ lo2 * n \in Nat
      /\ hi2 * (n + 1) = hi2 * n + hi2 /\ hi2 * n \in Nat
      /\ lo * n \in Nat /\ hi * n \in Nat
  BY TimesSuccessor
<1> QED  BY <1>1, <1>2

LEMMA UpdateEnveloped ==
  ASSUME NEW r \in Records, NEW e \in Samples, Enveloped(r)
  PROVE  Enveloped(UpdateRecord(r, e))
<1> DEFINE u == UpdateRecord(r, e)
           d == Distance(e.lat, r.prev)
<1>0. /\ r.samples \in Nat /\ r.sum \in Nat /\ r.jsum \in Nat /\ r.min \in 0..LatMax
      /\ r.max \in 0..LatMax /\ r.prev \in 0..LatMax /\ r.jmin \in 0..LatMax
      /\ r.jmax \in 0..LatMax /\ e.lat \in 0..LatMax /\ LatMax \in Nat
  BY LatMaxAssumption DEF Records, Samples
<1>1. CASE ~e.test
  <2>1. u = [r EXCEPT !.rx = @ + 1]
    BY <1>1 DEF UpdateRecord
  <2> QED  BY <2>1 DEF Enveloped, Records
<1>2. CASE e.test /\ ~r.seen
  <2>1. /\ u.seen /\ u.samples = r.samples + 1
        /\ u.sum = r.sum + e.lat /\ u.prev = e.lat
        /\ u.min = Smaller(r.min, e.lat) /\ u.max = Larger(r.max, e.lat)
        /\ u.jsum = r.jsum /\ u.jmin = r.jmin /\ u.jmax = r.jmax
    BY <1>2, UpdateLatency
  <2>2. /\ r.samples = 0 /\ r.sum = 0 /\ r.jsum = 0 /\ r.jmax = 0
        /\ r.min = LatMax /\ r.max = 0
    BY <1>2 DEF Enveloped
  <2> HIDE DEF u
  <2>3. /\ u.samples = 1 /\ u.sum = e.lat /\ u.min = e.lat /\ u.max = e.lat
        /\ u.jsum = 0 /\ u.jmax = 0 /\ u.jmin \in Nat
    BY <1>0, <2>1, <2>2 DEF Smaller, Larger
  <2>4. e.lat * 1 = e.lat /\ u.jmin * 0 = 0 /\ 0 * 0 = 0 /\ 1 - 1 = 0
    BY <1>0, <2>3
  <2>5. /\ u.min * u.samples = u.sum /\ u.max * u.samples = u.sum
        /\ u.jmax * (u.samples - 1) = 0 /\ u.jmin * (u.samples - 1) = 0
    BY <2>3, <2>4
  <2>6. /\ u.samples > 0 /\ u.min <= u.prev /\ u.prev <= u.max
        /\ u.min * u.samples <= u.sum /\ u.sum <= u.max * u.samples
        /\ u.jmax <= u.max - u.min
        /\ u.jsum <= u.jmax * (u.samples - 1)
        /\ u.jmin * (u.samples - 1) <= u.jsum
    BY <1>0, <2>1, <2>3, <2>5
  <2>7. Enveloped(u)
    BY <2>1, <2>6, Zenon DEF Enveloped
  <2> QED  BY <2>7 DEF u
<1>3. CASE e.test /\ r.seen
  <2>1. /\ u.seen /\ u.samples = r.samples + 1
        /\ u.sum = r.sum + e.lat /\ u.prev = e.lat
        /\ u.min = Smaller(r.min, e.lat) /\ u.max = Larger(r.max, e.lat)
        /\ u.jsum = r.jsum + d /\ u.jmin = Smaller(r.jmin, d) /\ u.jmax = Larger(r.jmax, d)
    BY <1>3, UpdateLatency
  <2>2. /\ r.samples > 0 /\ r.min <= r.prev /\ r.prev <= r.max
        /\ r.min * r.samples <= r.sum /\ r.sum <= r.max * r.samples
        /\ r.jmax <= r.max - r.min
        /\ r.jsum <= r.jmax * (r.samples - 1)
        /\ r.jmin * (r.samples - 1) <= r.jsum
    BY <1>3 DEF Enveloped
  <2> HIDE DEF u
  <2>3. /\ u.min \in Nat /\ u.min <= r.min /\ u.min <= e.lat
        /\ u.max \in Nat /\ u.max >= r.max /\ u.max >= e.lat
    BY <1>0, <2>1 DEF Smaller, Larger
  <2>4. d \in Nat /\ d <= u.max - u.min
    BY <1>0, <2>2, <2>3 DEF Distance
  <2> HIDE DEF d
  <2>5. /\ u.jmin \in Nat /\ u.jmin <= r.jmin /\ u.jmin <= d
        /\ u.jmax \in Nat /\ r.jmax <= u.jmax /\ d <= u.jmax /\ u.jmax <= u.max - u.min
    BY <1>0, <2>1, <2>2, <2>3, <2>4 DEF Smaller, Larger
  <2>6. u.min * (r.samples + 1) <= r.sum + e.lat /\ r.sum + e.lat <= u.max * (r.samples + 1)
    <3>1. /\ r.min \in Nat /\ r.max \in Nat /\ e.lat \in Nat /\ r.sum \in Nat
          /\ r.samples \in Nat /\ r.max <= u.max /\ e.lat <= u.max
      BY <1>0, <2>3
    <3> QED  BY <2>2, <2>3, <3>1, SumStaysBetween
  <2> DEFINE n == r.samples - 1
  <2>7. n \in Nat /\ n + 1 = r.samples /\ (r.samples + 1) - 1 = n + 1
    BY <1>0, <2>2
  <2> HIDE DEF n
  <2>8. r.jmin * n <= r.jsum /\ r.jsum <= r.jmax * n
    BY <2>2 DEF n
  <2>9. u.jmin * (n + 1) <= r.jsum + d /\ r.jsum + d <= u.jmax * (n + 1)
    BY <1>0, <2>4, <2>5, <2>7, <2>8, SumStaysBetween
  <2>10. u.samples - 1 = n + 1 /\ u.samples > 0
    BY <1>0, <2>1, <2>7
  <2>11. Enveloped(u)
    BY <2>1, <2>3, <2>5, <2>6, <2>9, <2>10 DEF Enveloped
  <2> QED  BY <2>11 DEF u
<1> QED  BY <1>1, <1>2, <1>3

LEMMA AlwaysEnveloped == Spec => []AllEnveloped
<1>1. Enveloped(blank_rec)
  BY DEF Enveloped, blank_rec
<1>2. Init => AllEnveloped
  BY <1>1 DEF Init, AllEnveloped
<1>3. TypeOK /\ AllEnveloped /\ [Next]_vars => AllEnveloped'
  <2> SUFFICES ASSUME TypeOK, AllEnveloped, [Next]_vars PROVE AllEnveloped'
    OBVIOUS
  <2>1. CASE UNCHANGED vars
    BY <2>1 DEF AllEnveloped, vars
  <2>2. CASE Clear
    BY <1>1, <2>2 DEF Clear, AllEnveloped
  <2>3. ASSUME NEW e \in Frames, Count(e) PROVE AllEnveloped'
    <3> SUFFICES ASSUME NEW f \in Flows PROVE Enveloped(recs'[f])
      BY DEF AllEnveloped
    <3>1. recs[f] \in Records /\ Enveloped(recs[f])
      BY DEF TypeOK, AllEnveloped
    <3>2. CASE f = e.flow
      <4>1. recs'[f] = UpdateRecord(recs[f], Sample(e))
        BY <2>3, <3>2 DEF Count, TypeOK
      <4> QED  BY <3>1, <4>1, SampleType, UpdateEnveloped, Zenon
    <3>3. CASE f # e.flow
      <4>1. recs'[f] = recs[f]
        BY <2>3, <3>3 DEF Count, TypeOK
      <4> QED  BY <3>1, <4>1, Zenon
    <3> QED  BY <3>2, <3>3
  <2> QED  BY <2>1, <2>2, <2>3 DEF Next
<1> QED  BY <1>2, <1>3, TypeCorrect, PTL DEF Spec

(* The latency summary is consistent after every frame, for every latency  *)
(* range: mean and last sample lie between min and max, and the delay      *)
(* variations within the spread (pw_test_rx_checker_bram.sv, stage 1).     *)
THEOREM LatencyConsistent == Spec => []LatencyEnvelope
<1>1. TypeOK /\ AllEnveloped => LatencyEnvelope
  <2> SUFFICES ASSUME AllEnveloped, NEW f \in Flows, recs[f].samples > 0
               PROVE  /\ recs[f].seen /\ Enveloped(recs[f])
    BY DEF LatencyEnvelope, Enveloped
  <2> QED  BY DEF AllEnveloped, Enveloped
<1> QED  BY <1>1, TypeCorrect, AlwaysEnveloped, PTL
-----------------------------------------------------------------------------
\* The loss estimate of one flow.  That the first number counts as received is
\* what makes the gaps lie above it.
LossBounded(r, h) ==
  r.seen => /\ h.first \in h.got
            /\ Cardinality(Missing(r, h)) <= r.lost
            /\ r.lost - r.ooo <= Cardinality(Missing(r, h))
AllLossBounded == \A f \in Flows : LossBounded(recs[f], obs[f])

LEMMA MissingFinite ==
  ASSUME NEW r \in Records, NEW h \in ObsType
  PROVE  IsFiniteSet(Missing(r, h)) /\ Cardinality(Missing(r, h)) \in Nat
<1>1. h.first \in Int /\ r.exp - 1 \in Int
  BY DEF Records, ObsType
<1>2. IsFiniteSet(h.first..(r.exp - 1))
  BY <1>1, FS_Interval
<1>3. Missing(r, h) \in SUBSET (h.first..(r.exp - 1))
  BY DEF Missing
<1>4. IsFiniteSet(Missing(r, h))
  BY Zenon, <1>2, <1>3, FS_Subset
<1> QED  BY <1>4, FS_CardinalityType

\* A frame that opens a gap makes exactly the numbers it skips missing.
LEMMA GapIsMissing ==
  ASSUME NEW M, IsFiniteSet(M), NEW lo \in Int, NEW hi \in Int, lo <= hi,
         \A s \in M : s \notin lo..(hi - 1)
  PROVE  Cardinality(M \cup (lo..(hi - 1))) = Cardinality(M) + (hi - lo)
<1>1. IsFiniteSet(lo..(hi - 1)) /\ Cardinality(lo..(hi - 1)) = hi - lo
  <2>1. IsFiniteSet(lo..(hi - 1))
        /\ Cardinality(lo..(hi - 1)) = IF lo > hi - 1 THEN 0 ELSE (hi - 1) - lo + 1
    BY FS_Interval
  <2> QED  BY <2>1
<1>2. M \cap (lo..(hi - 1)) = {}
  OBVIOUS
<1>3. Cardinality(M \cap (lo..(hi - 1))) = 0
  BY <1>2, FS_EmptySet
<1>4. Cardinality(M) \in Nat
  BY FS_CardinalityType
<1>5. Cardinality(M \cup (lo..(hi - 1)))
        = Cardinality(M) + Cardinality(lo..(hi - 1)) - Cardinality(M \cap (lo..(hi - 1)))
  BY <1>1, FS_Union
<1> QED  BY <1>1, <1>3, <1>4, <1>5

LEMMA UpdateLossBounded ==
  ASSUME NEW r \in Records, NEW h \in ObsType, NEW e \in Frames,
         Balanced(r, h), HighestReceived(r, h), LossBounded(r, h)
  PROVE  LossBounded(UpdateRecord(r, Sample(e)), Remember(h, e))
<1> DEFINE s == Sample(e)
           u == UpdateRecord(r, s)
           k == Remember(h, e)
           M == Missing(r, h)
           n == Cardinality(M)
<1>1. s \in Samples /\ s.test = e.test /\ s.seq = e.seq /\ e.seq \in Nat
  BY SampleType
<1>2. /\ k.first = IF e.test /\ h.got = {} THEN e.seq ELSE h.first
      /\ k.got = IF e.test THEN h.got \cup {e.seq} ELSE h.got
  BY RememberType
<1>3. h.first \in Nat /\ h.got \subseteq Nat
  BY DEF ObsType
<1>4. r.exp \in Nat /\ r.ooo \in Nat /\ r.lost \in Nat
  BY DEF Records
<1>5. IsFiniteSet(M) /\ n \in Nat
  BY MissingFinite
<1>6. M = {x \in h.first..(r.exp - 1) : x \notin h.got}
      /\ Missing(u, k) = {x \in k.first..(u.exp - 1) : x \notin k.got}
  BY DEF Missing
<1> HIDE DEF s, u, k, M, n
<1>7. CASE ~e.test
  <2>1. u = [r EXCEPT !.rx = @ + 1]
    BY <1>1, <1>7 DEF u, UpdateRecord
  <2>2. u.seen = r.seen /\ u.exp = r.exp /\ u.ooo = r.ooo /\ u.lost = r.lost
    BY <2>1, CountedEffect
  <2>3. k.first = h.first /\ k.got = h.got
    BY <1>2, <1>7
  <2>4. LossBounded(u, k)
    BY <2>2, <2>3 DEF LossBounded, Missing
  <2> QED  BY <2>4 DEF u, k, s
<1>8. CASE e.test
  <2>0. s.test
    BY <1>1, <1>8, Zenon
  <2>1. PICK q \in Records :
           /\ u = ClassifySequence(q, s.seq)
           /\ q.rx = r.rx + 1 /\ q.samples = r.samples + 1
           /\ q.seen = r.seen /\ q.exp = r.exp
           /\ q.dup = r.dup /\ q.ooo = r.ooo /\ q.lost = r.lost
    BY <1>1, <2>0, TimedEffect, Zenon DEF u
  <2>2. CASE ~r.seen
    <3>1. u.exp = e.seq + 1 /\ u.ooo = 0 /\ u.lost = 0
      <4>1. u.exp = e.seq + 1 /\ u.ooo = r.ooo /\ u.lost = r.lost
        BY <1>1, <2>1, <2>2, SequenceFirst
      <4> QED  BY <2>2, <4>1 DEF Balanced
    <3>2. k.first = e.seq /\ k.got = {e.seq}
      BY <1>2, <1>8, <2>2 DEF Balanced
    <3>3. Missing(u, k) = {}
      BY <1>1, <1>6, <3>1, <3>2
    <3>4. Cardinality(Missing(u, k)) = 0
      BY <3>3, FS_EmptySet
    <3>5. LossBounded(u, k)
      BY <3>1, <3>2, <3>4 DEF LossBounded
    <3> QED  BY <3>5 DEF u, k, s
  <2>3. CASE r.seen
    <3>0. q.seen
      BY <2>1, <2>3, Zenon
    <3>1. n <= r.lost /\ r.lost - r.ooo <= n
      BY <2>3 DEF LossBounded, n, M
    <3>2. h.got # {}
      BY <2>3 DEF Balanced
    <3>3. k.first = h.first /\ k.got = h.got \cup {e.seq}
      BY <1>2, <1>8, <3>2
    <3>4. r.exp - 1 \in h.got /\ \A x \in h.got : x < r.exp
      BY <2>3 DEF HighestReceived
    <3>5. h.first <= r.exp
      BY <1>3, <1>4, <2>3, <3>4 DEF LossBounded
    <3>6. k.first \in k.got
      BY <2>3, <3>3 DEF LossBounded
    <3>7. CASE e.seq = r.exp
      <4>1. u.exp = e.seq + 1 /\ u.lost = r.lost /\ u.ooo = r.ooo
        BY <1>1, <2>1, <3>0, <3>7, SequenceCases
      <4>2. Missing(u, k) = M
        BY <1>1, <1>3, <1>4, <1>6, <3>3, <3>4, <3>7, <4>1
      <4> QED  BY <3>1, <3>6, <4>1, <4>2 DEF LossBounded, n, u, k, s
    <3>8. CASE e.seq > r.exp
      <4>1. u.exp = e.seq + 1 /\ u.lost = r.lost + (e.seq - r.exp) /\ u.ooo = r.ooo
        BY <1>1, <2>1, <3>0, <3>8, SequenceCases
      <4>2. Missing(u, k) = M \cup (r.exp..(e.seq - 1))
        BY <1>1, <1>3, <1>4, <1>6, <3>3, <3>4, <3>5, <3>8, <4>1
      <4>3. \A x \in M : x \notin r.exp..(e.seq - 1)
        BY <1>1, <1>3, <1>4, <1>6
      <4>4. Cardinality(Missing(u, k)) = n + (e.seq - r.exp)
        BY <1>1, <1>4, <1>5, <3>8, <4>2, <4>3, GapIsMissing DEF n
      <4>5. /\ Cardinality(Missing(u, k)) <= u.lost
            /\ u.lost - u.ooo <= Cardinality(Missing(u, k))
        BY <1>1, <1>4, <1>5, <3>1, <3>8, <4>1, <4>4
      <4> QED  BY <3>6, <4>5 DEF LossBounded, u, k, s
    <3>9. CASE e.seq = r.exp - 1
      <4>1. u.exp = r.exp /\ u.lost = r.lost /\ u.ooo = r.ooo
        BY <1>1, <2>1, <3>0, <3>9, SequenceCases
      <4>2. Missing(u, k) = M
        BY <1>6, <3>3, <3>4, <3>9, <4>1
      <4> QED  BY <3>1, <3>6, <4>1, <4>2 DEF LossBounded, n, u, k, s
    <3>10. CASE e.seq < r.exp - 1
      <4>1. u.exp = r.exp /\ u.lost = r.lost /\ u.ooo = r.ooo + 1
        BY <1>1, <2>1, <3>0, <3>10, SequenceCases
      <4>2. Missing(u, k) = M \ {e.seq}
        BY <1>6, <3>3, <4>1
      <4>3. Cardinality(M \ {e.seq}) = IF e.seq \in M THEN n - 1 ELSE n
        BY Zenon, <1>5, FS_RemoveElement DEF n
      <4>4. /\ Cardinality(Missing(u, k)) <= u.lost
            /\ u.lost - u.ooo <= Cardinality(Missing(u, k))
        BY <1>4, <1>5, <3>1, <4>1, <4>2, <4>3
      <4> QED  BY <3>6, <4>4 DEF LossBounded, u, k, s
    <3> QED  BY <1>1, <1>4, <3>7, <3>8, <3>9, <3>10
  <2> QED  BY <2>2, <2>3
<1> QED  BY <1>7, <1>8

LEMMA AlwaysLossBounded == Spec => []AllLossBounded
<1>1. LossBounded(blank_rec, blank_obs)
  BY DEF LossBounded, blank_rec
<1>2. Init => AllLossBounded
  BY <1>1 DEF Init, AllLossBounded
<1>3. TypeOK /\ Accounted /\ AllLossBounded /\ [Next]_vars => AllLossBounded'
  <2> SUFFICES ASSUME TypeOK, Accounted, AllLossBounded, [Next]_vars PROVE AllLossBounded'
    OBVIOUS
  <2>1. CASE UNCHANGED vars
    BY <2>1 DEF AllLossBounded, vars
  <2>2. CASE Clear
    BY <1>1, <2>2 DEF Clear, AllLossBounded
  <2>3. ASSUME NEW e \in Frames, Count(e) PROVE AllLossBounded'
    <3> SUFFICES ASSUME NEW f \in Flows PROVE LossBounded(recs'[f], obs'[f])
      BY DEF AllLossBounded
    <3>1. /\ recs[f] \in Records /\ obs[f] \in ObsType /\ LossBounded(recs[f], obs[f])
          /\ Balanced(recs[f], obs[f]) /\ HighestReceived(recs[f], obs[f])
      BY DEF TypeOK, AllLossBounded, Accounted, SequenceAccounting, DuplicateIsRepeat
    <3>2. CASE f = e.flow
      <4>1. recs'[f] = UpdateRecord(recs[f], Sample(e)) /\ obs'[f] = Remember(obs[f], e)
        BY <2>3, <3>2 DEF Count, TypeOK
      <4> QED  BY <3>1, <4>1, UpdateLossBounded, Zenon
    <3>3. CASE f # e.flow
      <4>1. recs'[f] = recs[f] /\ obs'[f] = obs[f]
        BY <2>3, <3>3 DEF Count, TypeOK
      <4> QED  BY <3>1, <4>1, Zenon
    <3> QED  BY <3>2, <3>3
  <2> QED  BY <2>1, <2>2, <2>3 DEF Next
<1> QED  BY <1>2, <1>3, TypeCorrect, AlwaysAccounted, PTL DEF Spec

(* lost_packets_estimated is never below the number of sequence numbers    *)
(* that never arrived, and above it at most by the frames counted out of   *)
(* order, for every arrival order (pw_test_rx_checker_bram.sv:271-284).    *)
THEOREM LossEstimateSound == Spec => []LossEstimateBounds
<1>1. AllLossBounded => LossEstimateBounds
  BY DEF AllLossBounded, LossBounded, LossEstimateBounds
<1> QED  BY <1>1, AlwaysLossBounded, PTL
=============================================================================
