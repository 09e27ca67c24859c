------------------------------ MODULE RxRecord ------------------------------
(***************************************************************************)
(* The per-flow statistics record of the RX checker and the update one     *)
(* received frame makes to it (rtl/phase3/pw_test_rx_checker_bram.sv,      *)
(* stage 1).  64-bit counters and sequence numbers are naturals: at line   *)
(* rate they do not wrap in the life of the card.  The 32-bit latency      *)
(* fields saturate at LatMax (2^32 - 1 in the hardware).  rx_bytes moves   *)
(* with rx_frames and is left out.                                         *)
(***************************************************************************)
EXTENDS Integers

CONSTANT LatMax     \* largest value of a 32-bit latency field

ASSUME LatMaxAssumption == LatMax \in Nat

Records ==
  [exp : Nat, last : Nat, lost : Nat, dup : Nat, ooo : Nat, rx : Nat,
   sum : Nat, samples : Nat, jsum : Nat, min : 0..LatMax, max : 0..LatMax,
   jmin : 0..LatMax, jmax : 0..LatMax, prev : 0..LatMax, seen : BOOLEAN]

\* A cleared record: the minima are seeded to all-ones.
blank_rec ==
  [exp |-> 0, last |-> 0, lost |-> 0, dup |-> 0, ooo |-> 0, rx |-> 0,
   sum |-> 0, samples |-> 0, jsum |-> 0, min |-> LatMax, max |-> 0,
   jmin |-> LatMax, jmax |-> 0, prev |-> 0, seen |-> FALSE]

\* The corrected latency (rx + correction - tx) as the checker stores it.
ClampLatency(raw) ==
  IF raw < 0 THEN 0 ELSE IF raw > LatMax THEN LatMax ELSE raw

Smaller(a, b) == IF a < b THEN a ELSE b
Larger(a, b) == IF a > b THEN a ELSE b
Distance(a, b) == IF a >= b THEN a - b ELSE b - a

\* RFC 3393 delay variation: only once an earlier sample exists.
AddJitter(rec, lat) ==
  IF rec.seen
  THEN LET jd == Distance(lat, rec.prev)
       IN  [rec EXCEPT !.jsum = @ + jd, !.jmin = Smaller(@, jd), !.jmax = Larger(@, jd)]
  ELSE rec

MutAddLatency(rec, lat) ==     \* the previous sample is not kept
  [rec EXCEPT !.sum = @ + lat, !.samples = @ + 1, !.min = Smaller(@, lat),
              !.max = Larger(@, lat)]

AddLatency(rec, lat) ==
  [rec EXCEPT !.sum = @ + lat, !.samples = @ + 1, !.min = Smaller(@, lat),
              !.max = Larger(@, lat), !.prev = lat]

\* Whether sequence number seq opens a gap: the frame that makes lost grow.
OpensGap(rec, seq) == rec.seen /\ seq > rec.exp

MutGapOfOne(rec, seq) ==       \* a gap counts as one lost frame
  IF ~rec.seen THEN [rec EXCEPT !.exp = seq + 1, !.seen = TRUE, !.last = seq]
  ELSE IF seq = rec.exp THEN [rec EXCEPT !.exp = @ + 1, !.last = seq]
  ELSE IF seq > rec.exp THEN [rec EXCEPT !.lost = @ + 1, !.exp = seq + 1, !.last = seq]
  ELSE IF seq = rec.exp - 1 THEN [rec EXCEPT !.dup = @ + 1, !.last = seq]
  ELSE [rec EXCEPT !.ooo = @ + 1, !.last = seq]

\* In-order / gap / duplicate / out-of-order classification.
ClassifySequence(rec, seq) ==
  IF ~rec.seen THEN [rec EXCEPT !.exp = seq + 1, !.seen = TRUE, !.last = seq]
  ELSE IF seq = rec.exp THEN [rec EXCEPT !.exp = @ + 1, !.last = seq]
  ELSE IF seq > rec.exp
       THEN [rec EXCEPT !.lost = @ + (seq - rec.exp), !.exp = seq + 1, !.last = seq]
  ELSE IF seq = rec.exp - 1 THEN [rec EXCEPT !.dup = @ + 1, !.last = seq]
  ELSE [rec EXCEPT !.ooo = @ + 1, !.last = seq]

\* The whole update: every classified frame counts, only a frame with a test
\* header (e.test) has a sequence number and a latency.
UpdateRecord(rec, e) ==
  LET counted == [rec EXCEPT !.rx = @ + 1]
  IN  IF e.test
      THEN ClassifySequence(AddLatency(AddJitter(counted, e.lat), e.lat), e.seq)
      ELSE counted
=============================================================================
