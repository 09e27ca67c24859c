------------------------ MODULE LatCorrection_proofs ------------------------
(***************************************************************************)
(* Proofs about LatCorrection.  An accepted sample belongs to one edge     *)
(* because of an argument over the whole window of its reads: as long as   *)
(* a card has seen no edge since its counter was read, the words read from *)
(* it are those of its latch, whoever else reads the same latch; and an    *)
(* edge under way all through the window would have travelled for longer   *)
(* than it can.  Corrections stay whole because the threads that write     *)
(* them hold g_servo_lock from the low word to the high word.              *)
(***************************************************************************)
EXTENDS LatCorrection, TLAPS

(* A leaf goes to SMT, then to Zenon, and to Z3 with a fresh translation last. *)
USE SMTT(30), Zenon, Z3T(30)

AllCalls == {"none", "tick"} \cup Calls

TypeOK ==
  /\ sync_seq \in [Cards -> Nat]
  /\ between \in 0..MaxBetween
  /\ ts_high_latched \in [Cards -> Int]
  /\ lat_corr_lo_shadow \in [Cards -> Int]
  /\ lat_corr \in [Cards -> [Slots -> Int]]
  /\ g_servo_lock \in Threads \cup {"free"}
  /\ th \in [Threads -> [call : AllCalls, i : Nat \ {0}, got : Seq(Int),
                         phase : {"sample", "lo", "hi"}, corr : Int]]

\* The edge is at most one ahead on the master.
EdgeInFlight == sync_seq[1] <= sync_seq[0]

\* A sample or a correction under way is one of a flow of the program.
AtFlow(r) ==
  /\ r.got # <<>> \/ r.phase # "sample" => r.call # "none" /\ r.i <= Len(FlowMeta)
  /\ r.got # <<>> => r.phase = "sample" /\ CrossCard(FlowMeta[r.i])
  /\ r.phase # "sample" => r.got = <<>>
  /\ Len(r.got) <= 8

\* A sample g of flow m, where the cards count seq edges, hold high as their
\* latched words, and an edge has been under way for gap accesses.
\* Since the counter of the tx (rx) card was read, that card has seen no edge,
\* as far as the sample can still tell.
TxQuiet(g, m, seq) == IF Len(g) >= 7 THEN g[7] = g[1] ELSE g[1] = seq[m.tx]
RxQuiet(g, m, seq) == IF Len(g) >= 8 THEN g[8] = g[2] ELSE g[2] = seq[m.rx]

SampleTx(g, m, seq, high) ==
  /\ Len(g) >= 1 => g[1] \in Nat /\ g[1] <= seq[m.tx]
  /\ Len(g) >= 3 /\ g[1] = seq[m.tx] => high[m.tx] = High(Latched(m.tx, seq[m.tx]))
  /\ Len(g) >= 3 /\ TxQuiet(g, m, seq) => g[3] = Low(Latched(m.tx, g[1]))
  /\ Len(g) >= 4 /\ TxQuiet(g, m, seq) => g[4] = High(Latched(m.tx, g[1]))

SampleRx(g, m, seq, high) ==
  /\ Len(g) >= 2 => g[2] <= seq[m.rx]
  /\ Len(g) >= 5 /\ g[2] = seq[m.rx] => high[m.rx] = High(Latched(m.rx, seq[m.rx]))
  /\ Len(g) >= 5 /\ RxQuiet(g, m, seq) => g[5] = Low(Latched(m.rx, g[2]))
  /\ Len(g) >= 6 /\ RxQuiet(g, m, seq) => g[6] = High(Latched(m.rx, g[2]))

\* Both quiet: the counters agree, or one and the same edge has been under way
\* since the second read.
SameEdge(g, m, seq, gap) ==
  Len(g) >= 2 /\ TxQuiet(g, m, seq) /\ RxQuiet(g, m, seq) /\ g[1] # g[2]
  => Len(g) < 7 /\ gap >= Len(g) - 2

SamplesFollow ==
  \A t \in Threads : th[t].got # <<>> =>
    /\ SampleTx(th[t].got, Flow(t), sync_seq, ts_high_latched)
    /\ SampleRx(th[t].got, Flow(t), sync_seq, ts_high_latched)
    /\ SameEdge(th[t].got, Flow(t), sync_seq, between)

\* The strengthening of AcceptedOffsetIsTrue.
IInv ==
  /\ TypeOK
  /\ EdgeInFlight
  /\ \A t \in Threads : AtFlow(th[t])
  /\ SamplesFollow
  /\ AcceptedOffsetIsTrue

\* The lock is held by the one thread that may write corrections, and between
\* its two writes the shadow holds its low word.
LockHeld ==
  \A t \in Threads : th[t].call \in {"tick", "config.load"} <=> g_servo_lock = t

WritersLocked ==
  \A t \in Threads : th[t].phase # "sample" =>
    /\ th[t].call \in {"tick", "config.load"}
    /\ th[t].phase = "hi" => lat_corr_lo_shadow[Flow(t).rx] = Low(th[t].corr)

\* The strengthening of CorrectionsWhole.
LInv == IInv /\ LockHeld /\ WritersLocked /\ CorrectionsWhole
-----------------------------------------------------------------------------
(* Words and differences of 64-bit values. *)

LEMMA DivMod ==
  ASSUME NEW x \in Int, NEW m \in Nat \ {0}
  PROVE  x = m * (x \div m) + (x % m) /\ x % m \in 0..(m - 1) /\ x \div m \in Int
OBVIOUS

LEMMA ModUnique ==
  ASSUME NEW m \in Nat \ {0}, NEW q \in Int, NEW r \in 0..(m - 1)
  PROVE  (m * q + r) % m = r
<1>1. m * q \in Int /\ m * q + r \in Int
  OBVIOUS
<1> DEFINE x == m * q + r
           d == x \div m
           e == x % m
<1>2. m * q + r = m * d + e /\ e \in 0..(m - 1) /\ d \in Int
  BY Zenon, <1>1, DivMod
<1> HIDE DEF x, d, e
<1>3. m * (q - d) = e - r
  BY <1>2
<1>4. q - d = 0
  <2>1. CASE q - d >= 1
    <3>1. m * (q - d) >= m
      BY <1>2, <2>1
    <3> QED  BY <1>2, <1>3, <3>1
  <2>2. CASE q - d <= -1
    <3>1. m * (q - d) <= -m
      BY <1>2, <2>2
    <3> QED  BY <1>2, <1>3, <3>1
  <2> QED  BY <1>2, <2>1, <2>2
<1>5. e = r
  BY <1>2, <1>3, <1>4
<1> QED  BY <1>5 DEF e, x

\* Equal up to a multiple of m: equal remainders.
LEMMA ModShift ==
  ASSUME NEW m \in Nat \ {0}, NEW x \in Int, NEW k \in Int
  PROVE  (x + m * k) % m = x % m
<1>1. x = m * (x \div m) + (x % m) /\ x % m \in 0..(m - 1) /\ x \div m \in Int
  BY Zenon, DivMod
<1> DEFINE q == x \div m
           r == x % m
<1>2. x = m * q + r /\ r \in 0..(m - 1) /\ q \in Int
  BY Zenon, <1>1
<1> HIDE DEF q, r
<1>3. m * q \in Int /\ m * k \in Int /\ m * (q + k) = m * q + m * k /\ q + k \in Int
  BY <1>2
<1>4. x + m * k = m * (q + k) + r
  BY <1>2, <1>3
<1>5. (m * (q + k) + r) % m = r
  BY Zenon, <1>2, <1>3, ModUnique
<1> QED  BY <1>4, <1>5 DEF r

\* The difference of two remainders, and a sum with one.
LEMMA ModDiff ==
  ASSUME NEW m \in Nat \ {0}, NEW x \in Int, NEW y \in Int
  PROVE  ((x % m) - (y % m)) % m = (x - y) % m
<1> DEFINE p == x \div m
           r == x % m
           q == y \div m
           s == y % m
<1>1. /\ x = m * p + r /\ r \in 0..(m - 1) /\ p \in Int
      /\ y = m * q + s /\ s \in 0..(m - 1) /\ q \in Int
  BY Zenon, DivMod
<1> HIDE DEF p, q, r, s
<1>2. m * p \in Int /\ m * q \in Int /\ m * (p - q) = m * p - m * q /\ p - q \in Int /\ r - s \in Int
  BY <1>1
<1>3. x - y = (r - s) + m * (p - q)
  BY <1>1, <1>2
<1>4. ((r - s) + m * (p - q)) % m = (r - s) % m
  BY Zenon, <1>2, ModShift
<1> QED  BY <1>3, <1>4 DEF r, s

LEMMA ModPlus ==
  ASSUME NEW m \in Nat \ {0}, NEW x \in Int, NEW y \in Int
  PROVE  ((x % m) + y) % m = (x + y) % m
<1> DEFINE p == x \div m
           r == x % m
<1>1. x = m * p + r /\ r \in 0..(m - 1) /\ p \in Int
  BY Zenon, DivMod
<1> HIDE DEF p, r
<1>2. m * p \in Int /\ r + y \in Int /\ x + y = (r + y) + m * p
  BY <1>1
<1>3. ((r + y) + m * p) % m = (r + y) % m
  BY Zenon, <1>1, <1>2, ModShift
<1> QED  BY <1>2, <1>3 DEF r

LEMMA SquareType == W * W \in Nat \ {0}
<1>1. W \in Nat /\ W >= 1
  BY WordAssumption
<1> QED  BY <1>1

LEMMA WordTypes ==
  ASSUME NEW x \in Int PROVE Low(x) \in Int /\ High(x) \in Int /\ Signed(x) \in Int
<1>1. x % (W * W) \in Int
  BY SquareType, DivMod
<1>2. Low(x) \in Int /\ High(x) \in Int
  BY <1>1, WordAssumption, DivMod DEF Low, High
<1> QED  BY <1>1, <1>2 DEF Signed

\* The two words of a value put together again.
LEMMA Words ==
  ASSUME NEW x \in Int PROVE High(x) * W + Low(x) = x % (W * W)
<1> DEFINE M == W * W
           q == x \div M
           r == x % M
           h == r \div W
           l == r % W
<1>0. M \in Nat \ {0} /\ W \in Nat \ {0}
  BY Zenon, SquareType, WordAssumption
<1>1. x = M * q + r /\ r \in 0..(M - 1) /\ q \in Int
  BY Zenon, <1>0, DivMod
<1> HIDE DEF q, r
<1>2. r \in Int
  BY <1>1
<1>3. r = W * h + l /\ l \in 0..(W - 1) /\ h \in Int
  BY Zenon, <1>0, <1>2, DivMod
<1> HIDE DEF h, l
<1>4. x = l + W * (W * q + h) /\ W * q + h \in Int /\ l \in Int
  BY <1>0, <1>1, <1>3
<1>5. x % W = l % W
  BY <1>0, <1>4, ModShift
<1>6. l % W = l
  BY <1>0, <1>3
<1>7. Low(x) = l
  BY <1>5, <1>6 DEF Low
<1>8. High(x) = h
  BY Zenon DEF High, h, r
<1> QED  BY <1>0, <1>3, <1>7, <1>8 DEF r

\* What a clock latched at one edge tells about the two clocks.
LEMMA OffsetOfOneEdge ==
  ASSUME NEW a \in Cards, NEW b \in Cards, NEW n \in Nat \ {0}, NEW k \in Int, NEW g,
         g[3] = Low(Latched(a, n)), g[4] = High(Latched(a, n)),
         g[5] = Low(Latched(b, n)), g[6] = High(Latched(b, n))
  PROVE  Signed(Offset(g) + k) = Signed(Epoch[a] - Epoch[b] + k)
<1> DEFINE x == Latched(a, n)
           y == Latched(b, n)
           M == W * W
<1>0. M \in Nat \ {0}
  BY SquareType
<1>1. Epoch[a] \in Int /\ Epoch[b] \in Int /\ Period * n \in Int
  BY CardsAssumption, ClockAssumption
<1>2. x \in Int /\ y \in Int /\ x - y = Epoch[a] - Epoch[b] /\ x - y \in Int
  BY <1>1 DEF Latched
<1> HIDE DEF x, y, M
<1>3. g[4] * W + g[3] = x % M /\ g[6] * W + g[5] = y % M
  BY Zenon, <1>2, Words DEF x, y, M
<1>4. Offset(g) = ((x % M) - (y % M)) % M
  BY Zenon, <1>3 DEF Offset, Signed, M
<1>5. Offset(g) = (x - y) % M
  BY Zenon, <1>0, <1>2, <1>4, ModDiff
<1>6. (((x - y) % M) + k) % M = ((x - y) + k) % M
  BY Zenon, <1>0, <1>2, ModPlus
<1> QED  BY Zenon, <1>2, <1>5, <1>6 DEF Signed, M
-----------------------------------------------------------------------------
(* A sample under way survives what happens around it. *)

LEMMA FlowTypes ==
  ASSUME NEW i \in Nat \ {0}, i <= Len(FlowMeta)
  PROVE  /\ i \in DOMAIN FlowMeta
         /\ FlowMeta[i] \in [tx : Cards, rx : Cards, slot : Nat]
         /\ FlowMeta[i].tx \in Cards /\ FlowMeta[i].rx \in Cards /\ FlowMeta[i].slot \in Slots
<1> DEFINE F == [tx : Cards, rx : Cards, slot : Nat]
<1>0. FlowMeta \in Seq(F)
  BY Zenon, FlowsAssumption
<1> HIDE DEF F
<1>1. i \in DOMAIN FlowMeta /\ FlowMeta[i] \in F
  BY <1>0
<1> USE DEF F
<1> QED  BY <1>1 DEF Slots

\* An edge reaches a card.
LEMMA SampleEdge ==
  ASSUME NEW g \in Seq(Int), NEW m \in [tx : Cards, rx : Cards, slot : Nat], CrossCard(m),
         NEW seq \in [Cards -> Nat], NEW high, NEW gap, NEW c \in Cards,
         SampleTx(g, m, seq, high), SampleRx(g, m, seq, high), SameEdge(g, m, seq, gap)
  PROVE  LET new == [seq EXCEPT ![c] = @ + 1]
         IN  SampleTx(g, m, new, high) /\ SampleRx(g, m, new, high) /\ SameEdge(g, m, new, 0)
<1> DEFINE new == [seq EXCEPT ![c] = @ + 1]
<1>1. m.tx \in Cards /\ m.rx \in Cards /\ m.tx # m.rx /\ (c = m.tx \/ c = m.rx)
  BY CardsAssumption DEF CrossCard
<1>2. /\ new[m.tx] = IF c = m.tx THEN seq[m.tx] + 1 ELSE seq[m.tx]
      /\ new[m.rx] = IF c = m.rx THEN seq[m.rx] + 1 ELSE seq[m.rx]
      /\ seq[m.tx] \in Nat /\ seq[m.rx] \in Nat
  BY <1>1
<1>3. Len(g) \in Nat /\ \A k \in 1..Len(g) : g[k] \in Int
  OBVIOUS
<1> HIDE DEF new
<1>4. SampleTx(g, m, new, high)
  BY <1>1, <1>2, <1>3 DEF SampleTx, TxQuiet
<1>5. SampleRx(g, m, new, high)
  BY <1>1, <1>2, <1>3 DEF SampleRx, RxQuiet
<1>6. SameEdge(g, m, new, 0)
  BY <1>1, <1>2, <1>3 DEF SameEdge, SampleTx, SampleRx, TxQuiet, RxQuiet
<1> QED  BY <1>4, <1>5, <1>6 DEF new

\* Some thread accesses a register, which may latch a high word.
LEMMA SampleKept ==
  ASSUME NEW g \in Seq(Int), NEW m \in [tx : Cards, rx : Cards, slot : Nat],
         NEW seq \in [Cards -> Nat], NEW high, NEW gap \in Nat,
         NEW high2, \A c \in Cards : high2[c] \in {high[c], High(Latched(c, seq[c]))},
         NEW gap2 \in Nat, gap2 >= gap,
         SampleTx(g, m, seq, high), SampleRx(g, m, seq, high), SameEdge(g, m, seq, gap)
  PROVE  SampleTx(g, m, seq, high2) /\ SampleRx(g, m, seq, high2) /\ SameEdge(g, m, seq, gap2)
<1>1. m.tx \in Cards /\ m.rx \in Cards /\ Len(g) \in Nat
  OBVIOUS
<1>2. SampleTx(g, m, seq, high2)
  BY <1>1 DEF SampleTx
<1>3. SampleRx(g, m, seq, high2)
  BY <1>1 DEF SampleRx
<1>4. SameEdge(g, m, seq, gap2)
  BY <1>1 DEF SameEdge
<1> QED  BY <1>2, <1>3, <1>4

\* The thread itself reads the next register of its sample.
ReadWord(n, m, seq, high) ==
  CASE n = 1 \/ n = 7 -> seq[m.tx]
    [] n = 2 \/ n = 8 -> seq[m.rx]
    [] n = 3 -> Low(Latched(m.tx, seq[m.tx]))
    [] n = 4 -> high[m.tx]
    [] n = 5 -> Low(Latched(m.rx, seq[m.rx]))
    [] n = 6 -> high[m.rx]

ReadLatches(n, m, seq, high, high2) ==
  /\ high2[m.tx] = IF n = 3 THEN High(Latched(m.tx, seq[m.tx])) ELSE high[m.tx]
  /\ high2[m.rx] = IF n = 5 THEN High(Latched(m.rx, seq[m.rx])) ELSE high[m.rx]

LEMMA AppendRead ==
  ASSUME NEW g \in Seq(Int), NEW w \in Int
  PROVE  /\ Append(g, w) \in Seq(Int) /\ Len(Append(g, w)) = Len(g) + 1 /\ Append(g, w) # <<>>
         /\ Append(g, w)[Len(g) + 1] = w
         /\ \A k \in 1..Len(g) : Append(g, w)[k] = g[k]
OBVIOUS

LEMMA UpToSeven ==
  \A n \in Nat : n <= 7 =>
    n = 0 \/ n = 1 \/ n = 2 \/ n = 3 \/ n = 4 \/ n = 5 \/ n = 6 \/ n = 7
OBVIOUS

LEMMA SampleRead ==
  ASSUME NEW g \in Seq(Int), NEW m \in [tx : Cards, rx : Cards, slot : Nat], CrossCard(m),
         NEW seq \in [Cards -> Nat], seq[1] <= seq[0], NEW high \in [Cards -> Int],
         NEW high2, ReadLatches(Len(g) + 1, m, seq, high, high2), Len(g) < 8,
         NEW gap \in Nat, NEW gap2 \in 0..4, gap2 = IF seq[1] < seq[0] THEN gap + 1 ELSE gap,
         NEW w \in Int, w = ReadWord(Len(g) + 1, m, seq, high),
         SampleTx(g, m, seq, high), SampleRx(g, m, seq, high), SameEdge(g, m, seq, gap)
  PROVE  LET h == Append(g, w)
         IN  SampleTx(h, m, seq, high2) /\ SampleRx(h, m, seq, high2) /\ SameEdge(h, m, seq, gap2)
<1> DEFINE h == Append(g, w)
<1>1. /\ m.tx \in Cards /\ m.rx \in Cards /\ m.tx # m.rx
      /\ (m.tx = 0 /\ m.rx = 1) \/ (m.tx = 1 /\ m.rx = 0)
  BY CardsAssumption DEF CrossCard
<1>2. seq[m.tx] \in Nat /\ seq[m.rx] \in Nat
  BY <1>1
<1>3. /\ Len(g) \in Nat /\ Len(g) <= 7 /\ Len(h) = Len(g) + 1 /\ h[Len(g) + 1] = w
      /\ \A k \in 1..Len(g) : h[k] = g[k] /\ g[k] \in Int
  <2>1. Len(g) \in Nat /\ Len(g) <= 7 /\ \A k \in 1..Len(g) : g[k] \in Int
    OBVIOUS
  <2>2. /\ Len(h) = Len(g) + 1 /\ h[Len(g) + 1] = w
        /\ \A k \in 1..Len(g) : h[k] = g[k]
    BY Zenon, AppendRead
  <2> QED  BY Zenon, <2>1, <2>2
<1> HIDE DEF h
<1>4. seq[m.tx] # seq[m.rx] => gap2 = gap + 1
  BY <1>1, <1>2
\* One case per word of the sample: what is known, then what it gives.
<1>5. CASE Len(g) = 0
  <2>1. Len(h) = 1 /\ h[1] = seq[m.tx]
    BY <1>3, <1>5 DEF ReadWord
  <2>2. /\ high2[m.tx] = high[m.tx]
        /\ high2[m.rx] = high[m.rx]
    BY <1>5 DEF ReadLatches
  <2>3. Len(g) = 0
    BY <1>5
  <2>4. SampleTx(h, m, seq, high2)
    BY <1>2, <2>1, <2>2, <2>3 DEF SampleTx, TxQuiet
  <2>5. SampleRx(h, m, seq, high2)
    BY <1>2, <2>1, <2>2, <2>3 DEF SampleRx, RxQuiet
  <2>6. SameEdge(h, m, seq, gap2)
    BY <1>2, <1>4, <2>1, <2>3 DEF SameEdge, TxQuiet, RxQuiet
  <2> QED  BY Zenon, <2>4, <2>5, <2>6 DEF h
<1>6. CASE Len(g) = 1
  <2>1. Len(h) = 2 /\ h[2] = seq[m.rx]
        /\ h[1] = g[1]
    BY <1>3, <1>6 DEF ReadWord
  <2>2. /\ high2[m.tx] = high[m.tx]
        /\ high2[m.rx] = high[m.rx]
    BY <1>6 DEF ReadLatches
  <2>3. Len(g) = 1
    BY <1>6
  <2>4. SampleTx(h, m, seq, high2)
    BY <1>2, <2>1, <2>2, <2>3 DEF SampleTx, TxQuiet
  <2>5. SampleRx(h, m, seq, high2)
    BY <1>2, <2>1, <2>2, <2>3 DEF SampleRx, RxQuiet
  <2>6. SameEdge(h, m, seq, gap2)
    BY <1>2, <1>4, <2>1, <2>3 DEF SameEdge, TxQuiet, RxQuiet
  <2> QED  BY Zenon, <2>4, <2>5, <2>6 DEF h
<1>7. CASE Len(g) = 2
  <2>1. Len(h) = 3 /\ h[3] = Low(Latched(m.tx, seq[m.tx]))
        /\ h[1] = g[1] /\ h[2] = g[2]
    BY <1>3, <1>7 DEF ReadWord
  <2>2. /\ high2[m.tx] = High(Latched(m.tx, seq[m.tx]))
        /\ high2[m.rx] = high[m.rx]
    BY <1>7 DEF ReadLatches
  <2>3. Len(g) = 2
    BY <1>7
  <2>4. SampleTx(h, m, seq, high2)
    BY <1>2, <2>1, <2>2, <2>3 DEF SampleTx, TxQuiet
  <2>5. SampleRx(h, m, seq, high2)
    BY <1>2, <2>1, <2>2, <2>3 DEF SampleRx, RxQuiet
  <2>6. SameEdge(h, m, seq, gap2)
    BY <1>2, <1>4, <2>1, <2>3 DEF SameEdge, TxQuiet, RxQuiet
  <2> QED  BY Zenon, <2>4, <2>5, <2>6 DEF h
<1>8. CASE Len(g) = 3
  <2>1. Len(h) = 4 /\ h[4] = high[m.tx]
        /\ h[1] = g[1] /\ h[2] = g[2] /\ h[3] = g[3]
    BY <1>3, <1>8 DEF ReadWord
  <2>2. /\ high2[m.tx] = high[m.tx]
        /\ high2[m.rx] = high[m.rx]
    BY <1>8 DEF ReadLatches
  <2>3. Len(g) = 3
    BY <1>8
  <2>4. SampleTx(h, m, seq, high2)
    BY <1>2, <2>1, <2>2, <2>3 DEF SampleTx, TxQuiet
  <2>5. SampleRx(h, m, seq, high2)
    BY <1>2, <2>1, <2>2, <2>3 DEF SampleRx, RxQuiet
  <2>6. SameEdge(h, m, seq, gap2)
    BY <1>2, <1>4, <2>1, <2>3 DEF SameEdge, TxQuiet, RxQuiet
  <2> QED  BY Zenon, <2>4, <2>5, <2>6 DEF h
<1>9. CASE Len(g) = 4
  <2>1. Len(h) = 5 /\ h[5] = Low(Latched(m.rx, seq[m.rx]))
        /\ h[1] = g[1] /\ h[2] = g[2] /\ h[3] = g[3] /\ h[4] = g[4]
    BY <1>3, <1>9 DEF ReadWord
  <2>2. /\ high2[m.tx] = high[m.tx]
        /\ high2[m.rx] = High(Latched(m.rx, seq[m.rx]))
    BY <1>9 DEF ReadLatches
  <2>3. Len(g) = 4
    BY <1>9
  <2>4. SampleTx(h, m, seq, high2)
    BY <1>2, <2>1, <2>2, <2>3 DEF SampleTx, TxQuiet
  <2>5. SampleRx(h, m, seq, high2)
    BY <1>2, <2>1, <2>2, <2>3 DEF SampleRx, RxQuiet
  <2>6. SameEdge(h, m, seq, gap2)
    BY <1>2, <1>4, <2>1, <2>3 DEF SameEdge, TxQuiet, RxQuiet
  <2> QED  BY Zenon, <2>4, <2>5, <2>6 DEF h
<1>10. CASE Len(g) = 5
  <2>1. Len(h) = 6 /\ h[6] = high[m.rx]
        /\ h[1] = g[1] /\ h[2] = g[2] /\ h[3] = g[3] /\ h[4] = g[4] /\ h[5] = g[5]
    BY <1>3, <1>10 DEF ReadWord
  <2>2. /\ high2[m.tx] = high[m.tx]
        /\ high2[m.rx] = high[m.rx]
    BY <1>10 DEF ReadLatches
  <2>3. Len(g) = 5
    BY <1>10
  <2>4. SampleTx(h, m, seq, high2)
    BY <1>2, <2>1, <2>2, <2>3 DEF SampleTx, TxQuiet
  <2>5. SampleRx(h, m, seq, high2)
    BY <1>2, <2>1, <2>2, <2>3 DEF SampleRx, RxQuiet
  <2>6. SameEdge(h, m, seq, gap2)
    BY <1>2, <1>4, <2>1, <2>3 DEF SameEdge, TxQuiet, RxQuiet
  <2> QED  BY Zenon, <2>4, <2>5, <2>6 DEF h
<1>11. CASE Len(g) = 6
  <2>1. Len(h) = 7 /\ h[7] = seq[m.tx]
        /\ h[1] = g[1] /\ h[2] = g[2] /\ h[3] = g[3] /\ h[4] = g[4] /\ h[5] = g[5] /\ h[6] = g[6]
    BY <1>3, <1>11 DEF ReadWord
  <2>2. /\ high2[m.tx] = high[m.tx]
        /\ high2[m.rx] = high[m.rx]
    BY <1>11 DEF ReadLatches
  <2>3. Len(g) = 6
    BY <1>11
  <2>4. SampleTx(h, m, seq, high2)
    BY <1>2, <2>1, <2>2, <2>3 DEF SampleTx, TxQuiet
  <2>5. SampleRx(h, m, seq, high2)
    BY <1>2, <2>1, <2>2, <2>3 DEF SampleRx, RxQuiet
  <2>6. SameEdge(h, m, seq, gap2)
    BY <1>2, <1>4, <2>1, <2>3 DEF SameEdge, TxQuiet, RxQuiet
  <2> QED  BY Zenon, <2>4, <2>5, <2>6 DEF h
<1>12. CASE Len(g) = 7
  <2>1. Len(h) = 8 /\ h[8] = seq[m.rx]
        /\ h[1] = g[1] /\ h[2] = g[2] /\ h[3] = g[3] /\ h[4] = g[4] /\ h[5] = g[5] /\ h[6] = g[6] /\ h[7] = g[7]
    BY <1>3, <1>12 DEF ReadWord
  <2>2. /\ high2[m.tx] = high[m.tx]
        /\ high2[m.rx] = high[m.rx]
    BY <1>12 DEF ReadLatches
  <2>3. Len(g) = 7
    BY <1>12
  <2>4. SampleTx(h, m, seq, high2)
    BY <1>2, <2>1, <2>2, <2>3 DEF SampleTx, TxQuiet
  <2>5. SampleRx(h, m, seq, high2)
    BY <1>2, <2>1, <2>2, <2>3 DEF SampleRx, RxQuiet
  <2>6. SameEdge(h, m, seq, gap2)
    BY <1>2, <1>4, <2>1, <2>3 DEF SameEdge, TxQuiet, RxQuiet
  <2> QED  BY Zenon, <2>4, <2>5, <2>6 DEF h
<1>13. \/ Len(g) = 0 \/ Len(g) = 1 \/ Len(g) = 2 \/ Len(g) = 3
       \/ Len(g) = 4 \/ Len(g) = 5 \/ Len(g) = 6 \/ Len(g) = 7
  BY Zenon, <1>3, UpToSeven
<1> QED  BY Zenon, <1>5, <1>6, <1>7, <1>8, <1>9, <1>10, <1>11, <1>12, <1>13
-----------------------------------------------------------------------------
(* AcceptedOffsetIsTrue: one lemma per kind of step. *)

Call == [call : AllCalls, i : Nat \ {0}, got : Seq(Int),
         phase : {"sample", "lo", "hi"}, corr : Int]

LEMMA IdleType == Idle \in Call /\ AtFlow(Idle)
BY DEF Idle, Call, AllCalls, AtFlow

LEMMA InitIInv == Init => IInv
<1> SUFFICES ASSUME Init PROVE IInv
  OBVIOUS
<1>1. TypeOK
  <2>1. th \in [Threads -> Call]
    BY IdleType DEF Init
  <2>2. between \in 0..MaxBetween
    BY CableAssumption DEF Init
  <2>3. /\ sync_seq \in [Cards -> Nat] /\ ts_high_latched \in [Cards -> Int]
        /\ lat_corr_lo_shadow \in [Cards -> Int]
        /\ lat_corr \in [Cards -> [Slots -> Int]]
        /\ g_servo_lock \in Threads \cup {"free"}
    BY DEF Init
  <2> QED  BY Zenon, <2>1, <2>2, <2>3 DEF TypeOK, Call
<1>2. EdgeInFlight
  BY CardsAssumption DEF Init, EdgeInFlight
<1>3. \A t \in Threads : th[t] = Idle
  BY DEF Init
<1>4. \A t \in Threads : AtFlow(th[t])
  BY Zenon, <1>3, IdleType
<1>5. SamplesFollow
  BY <1>3 DEF SamplesFollow, Idle
<1>6. AcceptedOffsetIsTrue
  BY <1>3 DEF AcceptedOffsetIsTrue, Idle
<1> QED  BY Zenon, <1>1, <1>2, <1>4, <1>5, <1>6 DEF IInv

LEMMA ThreadTypes ==
  ASSUME TypeOK, NEW t \in Threads
  PROVE  /\ th[t] \in Call
         /\ th[t].call \in AllCalls /\ th[t].i \in Nat \ {0} /\ th[t].got \in Seq(Int)
         /\ th[t].phase \in {"sample", "lo", "hi"} /\ th[t].corr \in Int
<1>1. th[t] \in Call
  BY Zenon DEF TypeOK, Call
<1> QED  BY <1>1 DEF Call

\* A thread with a sample or a correction under way is at a flow.
LEMMA AtFlowTypes ==
  ASSUME TypeOK, NEW t \in Threads, th[t].i <= Len(FlowMeta)
  PROVE  /\ Flow(t) \in [tx : Cards, rx : Cards, slot : Nat]
         /\ Flow(t).tx \in Cards /\ Flow(t).rx \in Cards /\ Flow(t).slot \in Slots
<1>1. th[t].i \in Nat \ {0}
  BY Zenon, ThreadTypes
<1> QED  BY Zenon, <1>1, FlowTypes DEF Flow

LEMMA EdgeIInv == IInv /\ (MasterEdge \/ SlaveEdge) => IInv'
<1> SUFFICES ASSUME IInv, MasterEdge \/ SlaveEdge PROVE IInv'
  OBVIOUS
<1>0. TypeOK /\ EdgeInFlight /\ SamplesFollow /\ AcceptedOffsetIsTrue
      /\ \A t \in Threads : AtFlow(th[t])
  BY Zenon DEF IInv
<1>1. PICK c \in Cards : sync_seq' = [sync_seq EXCEPT ![c] = @ + 1]
  BY CardsAssumption DEF MasterEdge, SlaveEdge, Master
<1>2. between' = 0 /\ UNCHANGED <<card, g_servo_lock, th>>
  BY Zenon DEF MasterEdge, SlaveEdge
<1>3. /\ ts_high_latched' = ts_high_latched /\ lat_corr_lo_shadow' = lat_corr_lo_shadow
      /\ lat_corr' = lat_corr /\ g_servo_lock' = g_servo_lock /\ th' = th
  BY <1>2 DEF card
<1>4. TypeOK'
  <2>1. sync_seq' \in [Cards -> Nat]
    BY <1>0, <1>1 DEF TypeOK
  <2>2. between' \in 0..MaxBetween
    BY <1>2, CableAssumption
  <2> QED  BY Zenon, <1>0, <1>3, <2>1, <2>2 DEF TypeOK
<1>5. EdgeInFlight'
  <2>1. sync_seq \in [Cards -> Nat]
    BY Zenon, <1>0 DEF TypeOK
  <2> QED  BY <1>0, <2>1, CardsAssumption DEF EdgeInFlight, MasterEdge, SlaveEdge, Master
<1>6. SamplesFollow'
  <2> SUFFICES ASSUME NEW t \in Threads, th[t].got # <<>>
               PROVE  /\ SampleTx(th[t].got, Flow(t), sync_seq', ts_high_latched)
                      /\ SampleRx(th[t].got, Flow(t), sync_seq', ts_high_latched)
                      /\ SameEdge(th[t].got, Flow(t), sync_seq', 0)
    BY Zenon, <1>2, <1>3 DEF SamplesFollow, Flow
  <2>1. th[t].i <= Len(FlowMeta) /\ CrossCard(Flow(t))
    BY Zenon, <1>0 DEF AtFlow, Flow
  <2>2. Flow(t) \in [tx : Cards, rx : Cards, slot : Nat] /\ th[t].got \in Seq(Int)
    BY Zenon, <1>0, <2>1, AtFlowTypes, ThreadTypes
  <2>3. /\ SampleTx(th[t].got, Flow(t), sync_seq, ts_high_latched)
        /\ SampleRx(th[t].got, Flow(t), sync_seq, ts_high_latched)
        /\ SameEdge(th[t].got, Flow(t), sync_seq, between)
    BY Zenon, <1>0 DEF SamplesFollow
  <2>4. sync_seq \in [Cards -> Nat]
    BY Zenon, <1>0 DEF TypeOK
  <2> QED  BY Zenon, <1>1, <2>1, <2>2, <2>3, <2>4, SampleEdge
<1>7. AcceptedOffsetIsTrue'
  BY Zenon, <1>0, <1>3 DEF AcceptedOffsetIsTrue, Flow
<1> QED  BY Zenon, <1>0, <1>3, <1>4, <1>5, <1>6, <1>7 DEF IInv

\* What is left to show of a step of thread t.
LEMMA ThreadStep ==
  ASSUME IInv, NEW t \in Threads, sync_seq' = sync_seq,
         between' \in 0..MaxBetween, between' >= between,
         ts_high_latched' \in [Cards -> Int],
         \A c \in Cards : ts_high_latched'[c] \in {ts_high_latched[c], High(sync_ts(c))},
         lat_corr_lo_shadow' \in [Cards -> Int], lat_corr' \in [Cards -> [Slots -> Int]],
         g_servo_lock' \in Threads \cup {"free"},
         th' = [th EXCEPT ![t] = th'[t]], th'[t] \in Call, AtFlow(th'[t]),
         th'[t].got # <<>> =>
           /\ SampleTx(th'[t].got, FlowMeta[th'[t].i], sync_seq, ts_high_latched')
           /\ SampleRx(th'[t].got, FlowMeta[th'[t].i], sync_seq, ts_high_latched')
           /\ SameEdge(th'[t].got, FlowMeta[th'[t].i], sync_seq, between'),
         th'[t].phase # "sample" => th'[t].corr = Right(FlowMeta[th'[t].i])
  PROVE  IInv'
<1>0. TypeOK /\ EdgeInFlight /\ SamplesFollow /\ AcceptedOffsetIsTrue
      /\ \A u \in Threads : AtFlow(th[u])
  BY Zenon DEF IInv
<1>1. th \in [Threads -> Call] /\ between \in 0..MaxBetween /\ sync_seq \in [Cards -> Nat]
  BY Zenon, <1>0 DEF TypeOK, Call
<1>2. th' \in [Threads -> Call] /\ \A u \in Threads \ {t} : th'[u] = th[u]
  <2>1. th' = [u \in Threads |-> IF u = t THEN th'[t] ELSE th[u]]
    BY Zenon, <1>1
  <2> QED  BY Zenon, <1>1, <2>1
<1>3. TypeOK'
  BY Zenon, <1>0, <1>2 DEF TypeOK, Call
<1>4. EdgeInFlight'
  BY Zenon, <1>0 DEF EdgeInFlight
<1>5. \A u \in Threads : AtFlow(th'[u])
  BY Zenon, <1>0, <1>2
<1>6. SamplesFollow'
  <2> SUFFICES ASSUME NEW u \in Threads, th'[u].got # <<>>
               PROVE  /\ SampleTx(th'[u].got, FlowMeta[th'[u].i], sync_seq, ts_high_latched')
                      /\ SampleRx(th'[u].got, FlowMeta[th'[u].i], sync_seq, ts_high_latched')
                      /\ SameEdge(th'[u].got, FlowMeta[th'[u].i], sync_seq, between')
    BY Zenon DEF SamplesFollow, Flow
  <2>1. CASE u = t
    BY Zenon, <2>1
  <2>2. CASE u # t
    <3>1. th'[u] = th[u] /\ th[u].got # <<>>
      BY Zenon, <1>2, <2>2
    <3>2. th[u].i <= Len(FlowMeta)
      BY Zenon, <1>0, <3>1 DEF AtFlow
    <3>3. Flow(u) \in [tx : Cards, rx : Cards, slot : Nat] /\ th[u].got \in Seq(Int)
      BY Zenon, <1>0, <3>2, AtFlowTypes, ThreadTypes
    <3>4. /\ SampleTx(th[u].got, Flow(u), sync_seq, ts_high_latched)
          /\ SampleRx(th[u].got, Flow(u), sync_seq, ts_high_latched)
          /\ SameEdge(th[u].got, Flow(u), sync_seq, between)
      BY Zenon, <1>0, <3>1 DEF SamplesFollow
    <3>5. between \in Nat /\ between' \in Nat
      BY <1>1
    <3>6. \A c \in Cards : ts_high_latched'[c] \in
            {ts_high_latched[c], High(Latched(c, sync_seq[c]))}
      BY Zenon DEF sync_ts
    <3>7. /\ SampleTx(th[u].got, Flow(u), sync_seq, ts_high_latched')
          /\ SampleRx(th[u].got, Flow(u), sync_seq, ts_high_latched')
          /\ SameEdge(th[u].got, Flow(u), sync_seq, between')
      BY Zenon, <1>1, <3>3, <3>4, <3>5, <3>6, SampleKept
    <3> QED  BY Zenon, <3>1, <3>7 DEF Flow
  <2> QED  BY Zenon, <2>1, <2>2
<1>7. AcceptedOffsetIsTrue'
  BY Zenon, <1>0, <1>2 DEF AcceptedOffsetIsTrue, Flow
<1> QED  BY Zenon, <1>3, <1>4, <1>5, <1>6, <1>7 DEF IInv

\* A step without a register access that leaves no sample behind.
LEMMA LocalStep ==
  ASSUME IInv, NEW t \in Threads, UNCHANGED <<sync_seq, between, card>>,
         g_servo_lock' \in Threads \cup {"free"},
         th' = [th EXCEPT ![t] = th'[t]], th'[t] \in Call, AtFlow(th'[t]), th'[t].got = <<>>,
         th'[t].phase # "sample" => th'[t].corr = Right(FlowMeta[th'[t].i])
  PROVE  IInv'
<1>0. TypeOK
  BY Zenon DEF IInv
<1>1. /\ sync_seq' = sync_seq /\ between' = between /\ ts_high_latched' = ts_high_latched
      /\ lat_corr_lo_shadow' = lat_corr_lo_shadow /\ lat_corr' = lat_corr
  BY Zenon DEF card
<1>2. between' \in 0..MaxBetween /\ between' >= between
  BY <1>0, <1>1 DEF TypeOK
<1>3. /\ ts_high_latched' \in [Cards -> Int] /\ lat_corr_lo_shadow' \in [Cards -> Int]
      /\ lat_corr' \in [Cards -> [Slots -> Int]]
  BY Zenon, <1>0, <1>1 DEF TypeOK
<1>4. \A c \in Cards : ts_high_latched'[c] \in {ts_high_latched[c], High(sync_ts(c))}
  BY Zenon, <1>1
<1> QED  BY Zenon, <1>1, <1>2, <1>3, <1>4, ThreadStep

LEMMA BeginIInv ==
  ASSUME IInv, NEW t \in Threads, NEW call \in AllCalls \ {"none"}, Begin(t, call)
  PROVE  IInv'
<1>0. TypeOK /\ th[t] = Idle
  BY Zenon DEF IInv, Begin
<1>1. th' = [th EXCEPT ![t] = th'[t]] /\ th'[t] = [Idle EXCEPT !.call = call]
  BY <1>0 DEF Begin, TypeOK
<1>a. th'[t] = [call |-> call, i |-> 1, got |-> <<>>, phase |-> "sample", corr |-> 0]
  BY <1>1 DEF Idle
<1>b. <<>> \in Seq(Int) /\ Len(<<>>) <= 8
  OBVIOUS
<1>2. th'[t] \in Call /\ AtFlow(th'[t]) /\ th'[t].got = <<>> /\ th'[t].phase = "sample"
  BY <1>a, <1>b DEF Call, AtFlow
<1>3. g_servo_lock' \in Threads \cup {"free"}
  BY Zenon, <1>0 DEF Begin, TypeOK
<1>4. UNCHANGED <<sync_seq, between, card>>
  BY Zenon DEF Begin
<1> QED  BY Zenon, <1>1, <1>2, <1>3, <1>4, LocalStep

LEMMA EndIInv == ASSUME IInv, NEW t \in Threads, End(t) PROVE IInv'
<1>0. TypeOK
  BY Zenon DEF IInv
<1>1. th' = [th EXCEPT ![t] = th'[t]] /\ th'[t] = Idle
  BY <1>0 DEF End, TypeOK
<1>2. th'[t] \in Call /\ AtFlow(th'[t]) /\ th'[t].got = <<>> /\ th'[t].phase = "sample"
  BY <1>1, IdleType DEF Idle
<1>3. g_servo_lock' \in Threads \cup {"free"}
  BY Zenon, <1>0 DEF End, TypeOK
<1>4. UNCHANGED <<sync_seq, between, card>>
  BY Zenon DEF End
<1> QED  BY Zenon, <1>1, <1>2, <1>3, <1>4, LocalStep

LEMMA ProceedType ==
  ASSUME TypeOK, NEW t \in Threads
  PROVE  /\ Proceed(t) \in Call /\ AtFlow(Proceed(t))
         /\ Proceed(t).got = <<>> /\ Proceed(t).phase = "sample"
<1>1. th[t] \in Call
  BY Zenon, ThreadTypes
<1>2. <<>> \in Seq(Int) /\ Len(<<>>) <= 8
  OBVIOUS
<1>3. /\ Proceed(t).call = th[t].call /\ Proceed(t).i = th[t].i + 1 /\ Proceed(t).got = <<>>
      /\ Proceed(t).phase = "sample" /\ Proceed(t).corr = 0
  BY <1>1 DEF Proceed, Call
<1>4. Proceed(t) \in Call
  <2>1. th[t].i + 1 \in Nat \ {0}
    BY <1>1 DEF Call
  <2>2. \A r \in Call : [r EXCEPT !.got = <<>>] \in Call
    BY <1>2 DEF Call
  <2>3. \A r \in Call : [r EXCEPT !.phase = "sample"] \in Call
    BY DEF Call
  <2>4. \A r \in Call : [r EXCEPT !.corr = 0] \in Call
    BY DEF Call
  <2>5. \A r \in Call, n \in Nat \ {0} : [r EXCEPT !.i = n] \in Call
    BY DEF Call
  <2> DEFINE r == [[[th[t] EXCEPT !.got = <<>>] EXCEPT !.phase = "sample"] EXCEPT !.corr = 0]
  <2>6. r \in Call
    BY Zenon, <1>1, <2>2, <2>3, <2>4
  <2>7. r.i = th[t].i
    BY <1>1 DEF Call
  <2>8. Proceed(t) = [r EXCEPT !.i = r.i + 1]
    BY Zenon DEF Proceed
  <2> HIDE DEF r
  <2> QED  BY Zenon, <2>1, <2>5, <2>6, <2>7, <2>8
<1> QED  BY <1>2, <1>3, <1>4 DEF AtFlow

LEMMA ToWriteType ==
  ASSUME TypeOK, NEW t \in Threads, NEW phase, Busy(t, phase), NEW corr \in Int
  PROVE  /\ ToWrite(t, corr) \in Call /\ AtFlow(ToWrite(t, corr))
         /\ ToWrite(t, corr).got = <<>> /\ ToWrite(t, corr).corr = corr
         /\ ToWrite(t, corr).i = th[t].i
<1>1. th[t] \in Call
  BY Zenon, ThreadTypes
<1>2. <<>> \in Seq(Int) /\ Len(<<>>) <= 8
  OBVIOUS
<1>3. /\ ToWrite(t, corr).call = th[t].call /\ ToWrite(t, corr).i = th[t].i
      /\ ToWrite(t, corr).got = <<>> /\ ToWrite(t, corr).phase = "lo"
      /\ ToWrite(t, corr).corr = corr
  BY <1>1 DEF ToWrite, Call
<1>4. ToWrite(t, corr) \in Call
  BY <1>1, <1>2 DEF ToWrite, Call
<1> QED  BY <1>2, <1>3, <1>4 DEF AtFlow, Busy

LEMMA SameCardIInv == ASSUME IInv, NEW t \in Threads, SameCard(t) PROVE IInv'
<1>0. TypeOK /\ Busy(t, "sample") /\ ~CrossCard(Flow(t))
  BY Zenon DEF IInv, SameCard
<1>1. th' = [th EXCEPT ![t] = th'[t]] /\ th'[t] \in {Proceed(t), ToWrite(t, 0)}
  BY <1>0 DEF SameCard, TypeOK
<1>a. 0 \in Int
  OBVIOUS
<1>b. Right(Flow(t)) = 0
  BY <1>0 DEF Right
<1>2. /\ th'[t] \in Call /\ AtFlow(th'[t]) /\ th'[t].got = <<>>
      /\ th'[t].phase # "sample" => th'[t].corr = Right(FlowMeta[th'[t].i])
  <2>1. CASE th'[t] = Proceed(t)
    BY Zenon, <1>0, <2>1, ProceedType
  <2>2. CASE th'[t] = ToWrite(t, 0)
    <3>1. /\ ToWrite(t, 0) \in Call /\ AtFlow(ToWrite(t, 0)) /\ ToWrite(t, 0).got = <<>>
          /\ ToWrite(t, 0).corr = 0 /\ ToWrite(t, 0).i = th[t].i
      BY Zenon, <1>0, <1>a, ToWriteType
    <3>2. FlowMeta[ToWrite(t, 0).i] = Flow(t)
      BY Zenon, <3>1 DEF Flow
    <3> QED  BY Zenon, <1>b, <2>2, <3>1, <3>2
  <2> QED  BY <1>1, <2>1, <2>2
<1>4. UNCHANGED <<sync_seq, between, card>> /\ g_servo_lock' \in Threads \cup {"free"}
  BY Zenon, <1>0 DEF SameCard, TypeOK
<1> QED  BY Zenon, <1>1, <1>2, <1>4, LocalStep

LEMMA BiasType == ASSUME NEW m PROVE xcard_cal_bias(m) \in Int
BY ClockAssumption DEF xcard_cal_bias

\* Before the first read there is nothing to say.
LEMMA NothingRead ==
  ASSUME NEW g, NEW m, NEW seq, NEW high, NEW gap, Len(g) = 0
  PROVE  SampleTx(g, m, seq, high) /\ SampleRx(g, m, seq, high) /\ SameEdge(g, m, seq, gap)
<1> DEFINE n == Len(g)
<1>1. n = 0
  OBVIOUS
<1> HIDE DEF n
<1>2. ~(n >= 1) /\ ~(n >= 2) /\ ~(n >= 3) /\ ~(n >= 4) /\ ~(n >= 5) /\ ~(n >= 6)
  BY <1>1
<1> QED  BY Zenon, <1>2 DEF n, SampleTx, SampleRx, SameEdge

\* The heart of AcceptedOffsetIsTrue: both cards quiet, hence one edge, hence
\* the words of one edge.
LEMMA AcceptedTrue ==
  ASSUME IInv, NEW t \in Threads, Busy(t, "sample"), Len(th[t].got) = Len(Registers),
         Coherent(th[t].got)
  PROVE  Signed(Offset(th[t].got) + xcard_cal_bias(Flow(t))) = Right(Flow(t))
<1> DEFINE g == th[t].got
           m == Flow(t)
<1>0. TypeOK /\ SamplesFollow /\ AtFlow(th[t])
  BY Zenon DEF IInv
<1>1. Len(g) = 8 /\ g \in Seq(Int) /\ g # <<>>
  <2>1. Len(Registers) = 8
    BY DEF Registers
  <2>2. g \in Seq(Int)
    BY Zenon, <1>0, ThreadTypes
  <2>3. Len(g) = 8
    BY Zenon, <2>1
  <2>4. Len(<<>>) # 8
    OBVIOUS
  <2>5. g # <<>>
    BY Zenon, <2>3, <2>4
  <2> QED  BY Zenon, <2>2, <2>3, <2>5
<1>2. th[t].i <= Len(FlowMeta) /\ CrossCard(m)
  BY Zenon, <1>0, <1>1 DEF AtFlow, Flow
<1>3. m \in [tx : Cards, rx : Cards, slot : Nat] /\ m.tx \in Cards /\ m.rx \in Cards
  BY Zenon, <1>0, <1>2, AtFlowTypes
<1>4. /\ SampleTx(g, m, sync_seq, ts_high_latched) /\ SampleRx(g, m, sync_seq, ts_high_latched)
      /\ SameEdge(g, m, sync_seq, between)
  BY Zenon, <1>0, <1>1 DEF SamplesFollow
<1>5. g[1] # 0 /\ g[1] = g[7] /\ g[2] = g[8]
  BY Zenon DEF Coherent
<1> HIDE DEF g, m
<1>6. TxQuiet(g, m, sync_seq) /\ RxQuiet(g, m, sync_seq)
  BY <1>1, <1>5 DEF TxQuiet, RxQuiet
<1>7. g[1] = g[2]
  BY <1>1, <1>4, <1>6 DEF SameEdge
<1>8. /\ g[3] = Low(Latched(m.tx, g[1])) /\ g[4] = High(Latched(m.tx, g[1]))
      /\ g[5] = Low(Latched(m.rx, g[1])) /\ g[6] = High(Latched(m.rx, g[1]))
  BY <1>1, <1>4, <1>6, <1>7 DEF SampleTx, SampleRx
<1>9. g[1] \in Nat \ {0}
  BY <1>1, <1>4, <1>5 DEF SampleTx
<1>10. Right(m) = Signed(Epoch[m.tx] - Epoch[m.rx] + xcard_cal_bias(m))
  BY Zenon, <1>2 DEF Right
<1>11. xcard_cal_bias(m) \in Int
  BY Zenon, BiasType
<1>12. Signed(Offset(g) + xcard_cal_bias(m)) = Right(m)
  BY <1>3, <1>8, <1>9, <1>10, <1>11, OffsetOfOneEdge
<1> QED  BY Zenon, <1>12 DEF g, m

LEMMA SampledIInv == ASSUME IInv, NEW t \in Threads, Sampled(t) PROVE IInv'
<1> DEFINE corr == Signed(Offset(th[t].got) + xcard_cal_bias(Flow(t)))
<1>0. TypeOK /\ Busy(t, "sample") /\ corr = Right(Flow(t))
  BY Zenon, AcceptedTrue DEF IInv, Sampled
<1>1. th' = [th EXCEPT ![t] = th'[t]] /\ th'[t] \in {Proceed(t), ToWrite(t, corr)}
  BY <1>0 DEF Sampled, TypeOK
<1>2. corr \in Int
  <2>1. CASE CrossCard(Flow(t))
    <3>1. Epoch[Flow(t).tx] \in Int /\ Epoch[Flow(t).rx] \in Int
      BY <1>0, AtFlowTypes, CardsAssumption DEF Busy
    <3>2. Epoch[Flow(t).tx] - Epoch[Flow(t).rx] + xcard_cal_bias(Flow(t)) \in Int
      BY <3>1, BiasType
    <3> QED  BY <1>0, <2>1, <3>2, WordTypes DEF Right
  <2>2. CASE ~CrossCard(Flow(t))
    BY <1>0, <2>2 DEF Right
  <2> QED  BY <2>1, <2>2
<1> HIDE DEF corr
<1>3. /\ th'[t] \in Call /\ AtFlow(th'[t]) /\ th'[t].got = <<>>
      /\ th'[t].phase # "sample" => th'[t].corr = Right(FlowMeta[th'[t].i])
  <2>1. CASE th'[t] = Proceed(t)
    BY Zenon, <1>0, <2>1, ProceedType
  <2>2. CASE th'[t] = ToWrite(t, corr)
    <3>1. /\ ToWrite(t, corr) \in Call /\ AtFlow(ToWrite(t, corr)) /\ ToWrite(t, corr).got = <<>>
          /\ ToWrite(t, corr).corr = corr /\ ToWrite(t, corr).i = th[t].i
      BY Zenon, <1>0, <1>2, ToWriteType
    <3>2. FlowMeta[ToWrite(t, corr).i] = Flow(t)
      BY Zenon, <3>1 DEF Flow
    <3> QED  BY Zenon, <1>0, <2>2, <3>1, <3>2
  <2> QED  BY Zenon, <1>1, <2>1, <2>2
<1>4. UNCHANGED <<sync_seq, between, card>> /\ g_servo_lock' \in Threads \cup {"free"}
  BY Zenon, <1>0 DEF Sampled, TypeOK
<1> QED  BY Zenon, <1>1, <1>3, <1>4, LocalStep

LEMMA IncoherentIInv == ASSUME IInv, NEW t \in Threads, Incoherent(t) PROVE IInv'
<1>0. TypeOK /\ Busy(t, "sample") /\ th[t] \in Call
  BY Zenon, ThreadTypes DEF IInv, Incoherent
<1> DEFINE again == [th[t] EXCEPT !.got = <<>>]
<1>1. th' = [th EXCEPT ![t] = th'[t]] /\ th'[t] \in {again, Proceed(t)}
  BY <1>0 DEF Incoherent, TypeOK
<1>2. <<>> \in Seq(Int) /\ Len(<<>>) <= 8
  OBVIOUS
<1>3. again \in Call /\ again.got = <<>> /\ again.phase = "sample"
  BY <1>0, <1>2 DEF Call, Busy
<1>4. th'[t] \in Call /\ AtFlow(th'[t]) /\ th'[t].got = <<>> /\ th'[t].phase = "sample"
  <2>1. CASE th'[t] = Proceed(t)
    BY Zenon, <1>0, <2>1, ProceedType
  <2>2. CASE th'[t] = again
    BY Zenon, <1>2, <1>3, <2>2 DEF AtFlow
  <2> QED  BY Zenon, <1>1, <2>1, <2>2
<1>5. UNCHANGED <<sync_seq, between, card>> /\ g_servo_lock' \in Threads \cup {"free"}
  BY Zenon, <1>0 DEF Incoherent, TypeOK
<1> QED  BY Zenon, <1>1, <1>4, <1>5, LocalStep

\* A register access takes time.
LEMMA AccessTime ==
  ASSUME TypeOK, EdgeInFlight, Access
  PROVE  /\ sync_seq' = sync_seq /\ between' \in 0..MaxBetween /\ between' >= between
         /\ between' = IF sync_seq[1] < sync_seq[0] THEN between + 1 ELSE between
BY CableAssumption DEF TypeOK, Access, EdgeInFlight

LEMMA WriteLoIInv == ASSUME IInv, NEW t \in Threads, WriteLo(t) PROVE IInv'
<1>0. /\ TypeOK /\ EdgeInFlight /\ Busy(t, "lo") /\ th[t] \in Call /\ AtFlow(th[t])
      /\ th[t].corr = Right(Flow(t)) /\ th[t].phase = "lo" /\ th[t].got = <<>>
  <2>1. TypeOK /\ EdgeInFlight /\ Busy(t, "lo") /\ th[t] \in Call /\ AtFlow(th[t])
    BY Zenon, ThreadTypes DEF IInv, WriteLo
  <2>2. th[t].phase = "lo" /\ th[t].phase # "sample"
    BY <2>1 DEF Busy
  <2> QED  BY Zenon, <2>1, <2>2 DEF IInv, AcceptedOffsetIsTrue, AtFlow
<1>1. th' = [th EXCEPT ![t] = th'[t]] /\ th'[t] = [th[t] EXCEPT !.phase = "hi"]
  BY <1>0 DEF WriteLo, TypeOK
<1>2. /\ th'[t] \in Call /\ th'[t].call = th[t].call /\ th'[t].i = th[t].i
      /\ th'[t].got = <<>> /\ th'[t].phase = "hi" /\ th'[t].corr = th[t].corr
  BY <1>0, <1>1 DEF Call
<1>3. AtFlow(th'[t])
  BY <1>0, <1>2 DEF AtFlow
<1>4. th'[t].corr = Right(FlowMeta[th'[t].i])
  BY Zenon, <1>0, <1>2 DEF Flow
<1>5. lat_corr_lo_shadow' \in [Cards -> Int]
  <2>1. Low(th[t].corr) \in Int
    BY Zenon, <1>0, ThreadTypes, WordTypes
  <2> QED  BY <1>0, <2>1 DEF WriteLo, TypeOK
<1>6. ts_high_latched' = ts_high_latched /\ lat_corr' = lat_corr /\ g_servo_lock' = g_servo_lock /\ Access
  BY Zenon DEF WriteLo
<1>7. /\ ts_high_latched' \in [Cards -> Int] /\ lat_corr' \in [Cards -> [Slots -> Int]]
      /\ g_servo_lock' \in Threads \cup {"free"}
      /\ \A c \in Cards : ts_high_latched'[c] \in {ts_high_latched[c], High(sync_ts(c))}
  BY Zenon, <1>0, <1>6 DEF TypeOK
<1> QED  BY Zenon, <1>0, <1>1, <1>2, <1>3, <1>4, <1>5, <1>6, <1>7, AccessTime, ThreadStep

\* The slot of the flow a thread is at gets the word pair.
LEMMA CorrWritten ==
  ASSUME TypeOK, NEW t \in Threads, WriteHi(t)
  PROVE  /\ lat_corr' \in [Cards -> [Slots -> Int]]
         /\ \A c \in Cards, s \in Slots :
              lat_corr'[c][s] = IF c = Flow(t).rx /\ s = Flow(t).slot
                                THEN High(th[t].corr) * W + lat_corr_lo_shadow[Flow(t).rx]
                                ELSE lat_corr[c][s]
<1>1. Flow(t).rx \in Cards /\ Flow(t).slot \in Slots
  BY Zenon, AtFlowTypes DEF WriteHi, Busy
<1> DEFINE v == High(th[t].corr) * W + lat_corr_lo_shadow[Flow(t).rx]
<1>2. v \in Int
  <2>1. High(th[t].corr) \in Int
    BY Zenon, ThreadTypes, WordTypes
  <2>2. lat_corr_lo_shadow[Flow(t).rx] \in Int
    BY <1>1 DEF TypeOK
  <2> QED  BY <2>1, <2>2, WordAssumption
<1>3. lat_corr' = [lat_corr EXCEPT ![Flow(t).rx] = [@ EXCEPT ![Flow(t).slot] = v]]
  BY Zenon DEF WriteHi
<1>4. lat_corr \in [Cards -> [Slots -> Int]]
  BY Zenon DEF TypeOK
<1> HIDE DEF v
<1>5. [lat_corr[Flow(t).rx] EXCEPT ![Flow(t).slot] = v] \in [Slots -> Int]
  BY <1>1, <1>2, <1>4
<1>6. lat_corr' \in [Cards -> [Slots -> Int]]
  BY <1>1, <1>3, <1>4, <1>5
<1>7. \A c \in Cards, s \in Slots :
        lat_corr'[c][s] = IF c = Flow(t).rx /\ s = Flow(t).slot THEN v ELSE lat_corr[c][s]
  BY <1>1, <1>3, <1>4
<1> QED  BY Zenon, <1>6, <1>7 DEF v

LEMMA WriteHiIInv == ASSUME IInv, NEW t \in Threads, WriteHi(t) PROVE IInv'
<1>0. TypeOK /\ EdgeInFlight
  BY Zenon DEF IInv
<1>1. th' = [th EXCEPT ![t] = th'[t]] /\ th'[t] = Proceed(t)
  BY <1>0 DEF WriteHi, TypeOK
<1>2. th'[t] \in Call /\ AtFlow(th'[t]) /\ th'[t].got = <<>> /\ th'[t].phase = "sample"
  BY Zenon, <1>0, <1>1, ProceedType
<1>3. /\ ts_high_latched' = ts_high_latched /\ lat_corr_lo_shadow' = lat_corr_lo_shadow
      /\ g_servo_lock' = g_servo_lock /\ Access
  BY Zenon DEF WriteHi
<1>4. /\ ts_high_latched' \in [Cards -> Int] /\ lat_corr_lo_shadow' \in [Cards -> Int]
      /\ g_servo_lock' \in Threads \cup {"free"}
      /\ \A c \in Cards : ts_high_latched'[c] \in {ts_high_latched[c], High(sync_ts(c))}
  BY Zenon, <1>0, <1>3 DEF TypeOK
<1>5. lat_corr' \in [Cards -> [Slots -> Int]]
  BY Zenon, <1>0, CorrWritten
<1> QED  BY Zenon, <1>0, <1>1, <1>2, <1>3, <1>4, <1>5, AccessTime, ThreadStep

\* What the n-th read of a sample returns and latches.
LEMMA ReadEffect ==
  ASSUME TypeOK, NEW t \in Threads, Read(t)
  PROVE  LET n == Len(th[t].got) + 1
             w == ReadWord(n, Flow(t), sync_seq, ts_high_latched)
         IN  /\ Len(th[t].got) < 8 /\ th' = [th EXCEPT ![t].got = Append(@, w)] /\ w \in Int
             /\ ts_high_latched' \in [Cards -> Int]
             /\ \A c \in Cards : ts_high_latched'[c] \in {ts_high_latched[c], High(sync_ts(c))}
             /\ ReadLatches(n, Flow(t), sync_seq, ts_high_latched, ts_high_latched')
<1> DEFINE g == th[t].got
           n == Len(g) + 1
           m == Flow(t)
           c == IF Sides[n] = "tx" THEN m.tx ELSE m.rx
           w == ReadWord(n, m, sync_seq, ts_high_latched)
           word == CASE Registers[n] = "SEQ" -> sync_seq[c]
                     [] Registers[n] = "TS_LOW" -> Low(sync_ts(c))
                     [] Registers[n] = "TS_HIGH" -> ts_high_latched[c]
<1>1. /\ n <= Len(Registers) /\ th' = [th EXCEPT ![t].got = Append(@, word)]
      /\ ts_high_latched' = IF Registers[n] = "TS_LOW"
                            THEN [ts_high_latched EXCEPT ![c] = High(sync_ts(c))]
                            ELSE ts_high_latched
      /\ CrossCard(m)
  BY Zenon DEF Read
<1>2. m.tx \in Cards /\ m.rx \in Cards /\ m.tx # m.rx
  BY Zenon, <1>1, AtFlowTypes DEF Read, Busy, CrossCard
<1>3. sync_seq \in [Cards -> Nat] /\ ts_high_latched \in [Cards -> Int]
  BY Zenon DEF TypeOK
<1>4. \A k \in Cards : High(sync_ts(k)) \in Int /\ Low(sync_ts(k)) \in Int
  <2> SUFFICES ASSUME NEW k \in Cards PROVE High(sync_ts(k)) \in Int /\ Low(sync_ts(k)) \in Int
    OBVIOUS
  <2>1. Epoch[k] \in Int /\ Period * sync_seq[k] \in Int
    BY <1>3, CardsAssumption, ClockAssumption
  <2>2. sync_ts(k) \in Int
    BY <2>1 DEF sync_ts, Latched
  <2> QED  BY <2>2, WordTypes
<1>5. g \in Seq(Int)
  BY Zenon, ThreadTypes
<1>6. n \in 1..8
  <2>1. Len(Registers) = 8
    BY DEF Registers
  <2> HIDE DEF g
  <2>2. Len(g) \in Nat
    BY <1>5
  <2> QED  BY <1>1, <2>1, <2>2
<1> HIDE DEF g, n, m
<1>7. /\ n = 1 => Registers[n] = "SEQ" /\ Sides[n] = "tx"
      /\ n = 2 => Registers[n] = "SEQ" /\ Sides[n] = "rx"
      /\ n = 3 => Registers[n] = "TS_LOW" /\ Sides[n] = "tx"
      /\ n = 4 => Registers[n] = "TS_HIGH" /\ Sides[n] = "tx"
      /\ n = 5 => Registers[n] = "TS_LOW" /\ Sides[n] = "rx"
      /\ n = 6 => Registers[n] = "TS_HIGH" /\ Sides[n] = "rx"
      /\ n = 7 => Registers[n] = "SEQ" /\ Sides[n] = "tx"
      /\ n = 8 => Registers[n] = "SEQ" /\ Sides[n] = "rx"
  BY DEF Registers, Sides
<1>8. word = w
  BY <1>6, <1>7 DEF ReadWord, sync_ts
<1>9. c \in Cards /\ word \in Int
  BY <1>2, <1>3, <1>4, <1>6, <1>7
<1>10. ts_high_latched' \in [Cards -> Int]
  BY <1>1, <1>3, <1>4, <1>9
<1>11. \A k \in Cards : ts_high_latched'[k] \in {ts_high_latched[k], High(sync_ts(k))}
  BY <1>1, <1>3, <1>9
<1>12. ReadLatches(n, m, sync_seq, ts_high_latched, ts_high_latched')
  <2>1. CASE n = 3
    BY <1>1, <1>2, <1>3, <1>7, <2>1 DEF ReadLatches, sync_ts
  <2>2. CASE n = 5
    BY <1>1, <1>2, <1>3, <1>7, <2>2 DEF ReadLatches, sync_ts
  <2>3. CASE n # 3 /\ n # 5
    <3>1. ts_high_latched' = ts_high_latched
      BY <1>1, <1>6, <1>7, <2>3
    <3> QED  BY <2>3, <3>1 DEF ReadLatches
  <2> QED  BY <2>1, <2>2, <2>3
<1>13. Len(g) < 8
  BY <1>5, <1>6 DEF n
<1> HIDE DEF w, word, c
<1>14. th' = [th EXCEPT ![t].got = Append(@, w)] /\ w \in Int
  BY Zenon, <1>1, <1>8, <1>9
<1> QED  BY Zenon, <1>10, <1>11, <1>12, <1>13, <1>14 DEF g, n, m, w

LEMMA ReadIInv == ASSUME IInv, NEW t \in Threads, Read(t) PROVE IInv'
<1> DEFINE g == th[t].got
           m == Flow(t)
           w == ReadWord(Len(g) + 1, m, sync_seq, ts_high_latched)
           h == Append(g, w)
<1>0. /\ TypeOK /\ EdgeInFlight /\ AtFlow(th[t]) /\ th[t] \in Call /\ g \in Seq(Int)
      /\ SamplesFollow
  BY Zenon, ThreadTypes DEF IInv
<1>1. /\ Len(g) < 8 /\ th' = [th EXCEPT ![t].got = Append(@, w)] /\ w \in Int
      /\ ts_high_latched' \in [Cards -> Int]
      /\ \A c \in Cards : ts_high_latched'[c] \in {ts_high_latched[c], High(sync_ts(c))}
      /\ ReadLatches(Len(g) + 1, m, sync_seq, ts_high_latched, ts_high_latched')
  BY Zenon, <1>0, ReadEffect
<1>2. /\ Busy(t, "sample") /\ CrossCard(m) /\ Access /\ lat_corr' = lat_corr
      /\ lat_corr_lo_shadow' = lat_corr_lo_shadow /\ g_servo_lock' = g_servo_lock
  BY Zenon DEF Read
<1>3. /\ sync_seq' = sync_seq /\ between' \in 0..MaxBetween /\ between' >= between
      /\ between' = IF sync_seq[1] < sync_seq[0] THEN between + 1 ELSE between
  BY Zenon, <1>0, <1>2, AccessTime
<1>4. m \in [tx : Cards, rx : Cards, slot : Nat]
  BY Zenon, <1>0, <1>2, AtFlowTypes DEF Busy
<1> HIDE DEF w
<1>5. /\ th' = [th EXCEPT ![t] = th'[t]] /\ th'[t] = [th[t] EXCEPT !.got = h]
  BY <1>0, <1>1 DEF TypeOK
<1>6. h \in Seq(Int) /\ Len(h) = Len(g) + 1 /\ h # <<>>
  BY Zenon, <1>0, <1>1, AppendRead
<1> HIDE DEF h
<1>7. /\ th'[t] \in Call /\ th'[t].got = h /\ th'[t].i = th[t].i /\ th'[t].call = th[t].call
      /\ th'[t].phase = th[t].phase /\ th[t].phase = "sample"
  BY <1>0, <1>2, <1>5, <1>6 DEF Call, Busy
<1>8. AtFlow(th'[t])
  <2>1. Len(h) <= 8
    <3> HIDE DEF g
    <3>1. Len(g) \in Nat
      BY <1>0
    <3> QED  BY <1>1, <1>6, <3>1
  <2> QED  BY Zenon, <1>2, <1>6, <1>7, <2>1 DEF AtFlow, Busy, Flow
<1>9. /\ SampleTx(g, m, sync_seq, ts_high_latched) /\ SampleRx(g, m, sync_seq, ts_high_latched)
      /\ SameEdge(g, m, sync_seq, between)
  <2>1. CASE g # <<>>
    BY Zenon, <1>0, <2>1 DEF SamplesFollow
  <2>2. CASE g = <<>>
    <3>1. Len(g) = 0
      BY <2>2
    <3> QED  BY Zenon, <3>1, NothingRead
  <2> QED  BY Zenon, <2>1, <2>2
<1>10. /\ SampleTx(h, m, sync_seq, ts_high_latched') /\ SampleRx(h, m, sync_seq, ts_high_latched')
       /\ SameEdge(h, m, sync_seq, between')
  <2>1. /\ sync_seq \in [Cards -> Nat] /\ sync_seq[1] <= sync_seq[0]
        /\ ts_high_latched \in [Cards -> Int]
    BY Zenon, <1>0 DEF TypeOK, EdgeInFlight
  <2>2. between \in Nat /\ between' \in 0..4
    BY <1>0, <1>3, CableAssumption DEF TypeOK
  <2> HIDE DEF g, m
  <2>3. w = ReadWord(Len(g) + 1, m, sync_seq, ts_high_latched)
    BY Zenon DEF w
  <2> QED  BY Zenon, <1>0, <1>1, <1>2, <1>3, <1>4, <1>9, <2>1, <2>2, <2>3, SampleRead DEF h
<1>11. FlowMeta[th'[t].i] = m
  BY Zenon, <1>7 DEF Flow
<1>12. /\ lat_corr' \in [Cards -> [Slots -> Int]] /\ lat_corr_lo_shadow' \in [Cards -> Int]
       /\ g_servo_lock' \in Threads \cup {"free"}
  BY Zenon, <1>0, <1>2 DEF TypeOK
<1> HIDE DEF g, m
<1> QED  BY Zenon, <1>1, <1>3, <1>5, <1>7, <1>8, <1>10, <1>11, <1>12, ThreadStep

LEMMA StutterIInv == IInv /\ UNCHANGED vars => IInv'
<1> SUFFICES ASSUME IInv, UNCHANGED vars PROVE IInv'
  OBVIOUS
<1>1. /\ sync_seq' = sync_seq /\ between' = between /\ ts_high_latched' = ts_high_latched
      /\ lat_corr_lo_shadow' = lat_corr_lo_shadow /\ lat_corr' = lat_corr
      /\ g_servo_lock' = g_servo_lock /\ th' = th
  BY Zenon DEF vars, card
<1> QED  BY Zenon, <1>1 DEF IInv, TypeOK, EdgeInFlight, SamplesFollow, Flow, AcceptedOffsetIsTrue

LEMMA NextIInv == IInv /\ [Next]_vars => IInv'
<1> SUFFICES ASSUME IInv, [Next]_vars PROVE IInv'
  OBVIOUS
<1>1. CASE MasterEdge \/ SlaveEdge
  BY Zenon, <1>1, EdgeIInv
<1>2. CASE Begin("servo", "tick")
  BY <1>2, BeginIInv DEF Threads, AllCalls
<1>3. ASSUME NEW call \in Calls, Begin("main", call) PROVE IInv'
  <2>1. call \in AllCalls \ {"none"} /\ "main" \in Threads
    BY CallsAssumption DEF AllCalls, Threads
  <2> QED  BY Zenon, <1>3, <2>1, BeginIInv
<1>4. ASSUME NEW t \in Threads,
             End(t) \/ SameCard(t) \/ Read(t) \/ Sampled(t) \/ Incoherent(t)
               \/ WriteLo(t) \/ WriteHi(t)
      PROVE  IInv'
  BY Zenon, <1>4, EndIInv, SameCardIInv, ReadIInv, SampledIInv, IncoherentIInv, WriteLoIInv,
     WriteHiIInv
<1>5. CASE UNCHANGED vars
  BY Zenon, <1>5, StutterIInv
<1> QED  BY Zenon, <1>1, <1>2, <1>3, <1>4, <1>5 DEF Next

LEMMA AlwaysIInv == Spec => []IInv
BY InitIInv, NextIInv, PTL DEF Spec

(* For any clocks, calibration, program and number of edges, and whatever  *)
(* RPCs run beside the servo, an accepted sample is the true difference of *)
(* the two clocks (pw_gpio_sync_offset_coherent, gpio_sync.c:53-66).       *)
THEOREM AcceptedOffsetTrue == Spec => []AcceptedOffsetIsTrue
<1>1. IInv => AcceptedOffsetIsTrue
  BY Zenon DEF IInv
<1> QED  BY <1>1, AlwaysIInv, PTL
-----------------------------------------------------------------------------
(* CorrectionsWhole: the writers hold the lock. *)

Writing == {"tick", "config.load"}

\* A step of thread t that leaves its call, the lock and the registers alone.
LEMMA KeepLInv ==
  ASSUME LInv, IInv', NEW t \in Threads, th' = [th EXCEPT ![t] = th'[t]],
         th'[t].call = th[t].call, g_servo_lock' = g_servo_lock,
         lat_corr_lo_shadow' = lat_corr_lo_shadow, lat_corr' = lat_corr,
         th'[t].phase # "sample" => th'[t].phase = "lo" /\ th[t].call \in Writing
  PROVE  LInv'
<1>0. TypeOK /\ LockHeld /\ WritersLocked /\ CorrectionsWhole
  BY Zenon DEF LInv, IInv
<1>1. \A u \in Threads : u # t => th'[u] = th[u]
  BY Zenon, <1>0 DEF TypeOK
<1>2. LockHeld'
  BY Zenon, <1>0, <1>1 DEF LockHeld
<1>3. WritersLocked'
  <2> SUFFICES ASSUME NEW u \in Threads, th'[u].phase # "sample"
               PROVE  /\ th'[u].call \in {"tick", "config.load"}
                      /\ th'[u].phase = "hi" =>
                           lat_corr_lo_shadow[FlowMeta[th'[u].i].rx] = Low(th'[u].corr)
    BY Zenon DEF WritersLocked, Flow
  <2>1. CASE u = t
    BY <2>1 DEF Writing
  <2>2. CASE u # t
    BY Zenon, <1>0, <1>1, <2>2 DEF WritersLocked, Flow
  <2> QED  BY Zenon, <2>1, <2>2
<1>4. CorrectionsWhole'
  BY Zenon, <1>0 DEF CorrectionsWhole
<1> QED  BY Zenon, <1>2, <1>3, <1>4 DEF LInv

LEMMA EdgeLInv == LInv /\ IInv' /\ (MasterEdge \/ SlaveEdge \/ UNCHANGED vars) => LInv'
<1> SUFFICES ASSUME LInv, IInv', MasterEdge \/ SlaveEdge \/ UNCHANGED vars PROVE LInv'
  OBVIOUS
<1>1. /\ lat_corr_lo_shadow' = lat_corr_lo_shadow /\ lat_corr' = lat_corr
      /\ g_servo_lock' = g_servo_lock /\ th' = th
  BY Zenon DEF MasterEdge, SlaveEdge, vars, card
<1> QED  BY Zenon, <1>1 DEF LInv, LockHeld, WritersLocked, CorrectionsWhole, Flow

LEMMA BeginLInv ==
  ASSUME LInv, IInv', NEW t \in Threads, NEW call \in AllCalls \ {"none"}, Begin(t, call),
         t = "servo" <=> call = "tick"
  PROVE  LInv'
<1>0. TypeOK /\ LockHeld /\ WritersLocked /\ CorrectionsWhole /\ th[t] = Idle
  BY Zenon DEF LInv, IInv, Begin
<1>1. /\ th'[t] = [Idle EXCEPT !.call = call] /\ \A u \in Threads : u # t => th'[u] = th[u]
  BY <1>0 DEF Begin, TypeOK
<1>2. th'[t].call = call /\ th'[t].phase = "sample" /\ th[t].call = "none"
  BY <1>0, <1>1 DEF Idle
<1>3. lat_corr_lo_shadow' = lat_corr_lo_shadow /\ lat_corr' = lat_corr
  BY Zenon DEF Begin, card
<1>4. LockHeld'
  <2>1. CASE Locks(t, call)
    <3>1. g_servo_lock = "free" /\ g_servo_lock' = t /\ call \in {"tick", "config.load"}
      BY <2>1 DEF Begin, Locks
    <3>2. \A u \in Threads : th[u].call \notin {"tick", "config.load"}
      BY <1>0, <3>1 DEF LockHeld, Threads
    <3> QED  BY Zenon, <1>1, <1>2, <3>1, <3>2 DEF LockHeld
  <2>2. CASE ~Locks(t, call)
    <3>1. g_servo_lock' = g_servo_lock /\ call \notin {"tick", "config.load"} /\ g_servo_lock # t
      BY <1>0, <1>2, <2>2 DEF Begin, Locks, LockHeld
    <3> QED  BY Zenon, <1>0, <1>1, <1>2, <3>1 DEF LockHeld
  <2> QED  BY Zenon, <2>1, <2>2
<1>5. WritersLocked'
  BY Zenon, <1>0, <1>1, <1>2, <1>3 DEF WritersLocked, Flow
<1>6. CorrectionsWhole'
  BY Zenon, <1>0, <1>3 DEF CorrectionsWhole
<1> QED  BY Zenon, <1>4, <1>5, <1>6 DEF LInv

LEMMA EndLInv == ASSUME LInv, IInv', NEW t \in Threads, End(t) PROVE LInv'
<1>0. TypeOK /\ LockHeld /\ WritersLocked /\ CorrectionsWhole
  BY Zenon DEF LInv, IInv
<1>1. th'[t] = Idle /\ \A u \in Threads : u # t => th'[u] = th[u]
  BY <1>0 DEF End, TypeOK
<1>2. th'[t].call = "none" /\ th'[t].phase = "sample"
  BY <1>1 DEF Idle
<1>3. lat_corr_lo_shadow' = lat_corr_lo_shadow /\ lat_corr' = lat_corr
  BY Zenon DEF End, card
<1>4. LockHeld'
  <2>1. g_servo_lock' = IF g_servo_lock = t THEN "free" ELSE g_servo_lock
    BY Zenon DEF End
  <2>2. "free" \notin Threads
    BY DEF Threads
  <2>3. \A u \in Threads : th'[u].call \in {"tick", "config.load"} <=> g_servo_lock' = u
    <3> SUFFICES ASSUME NEW u \in Threads
                 PROVE  th'[u].call \in {"tick", "config.load"} <=> g_servo_lock' = u
      OBVIOUS
    <3>1. CASE u = t
      BY <1>2, <2>1, <2>2, <3>1
    <3>2. CASE u # t
      BY Zenon, <1>0, <1>1, <2>1, <2>2, <3>2 DEF LockHeld
    <3> QED  BY Zenon, <3>1, <3>2
  <2> QED  BY Zenon, <2>3 DEF LockHeld
<1>5. WritersLocked'
  BY Zenon, <1>0, <1>1, <1>2, <1>3 DEF WritersLocked, Flow
<1>6. CorrectionsWhole'
  BY Zenon, <1>0, <1>3 DEF CorrectionsWhole
<1> QED  BY Zenon, <1>4, <1>5, <1>6 DEF LInv

\* Of the calls, only the tick and config.load come to write.
LEMMA WritingCalls ==
  ASSUME "test.start" \notin Calls, NEW call \in AllCalls, call \notin {"none", "flow.stats"}
  PROVE  call \in Writing
BY CallsAssumption DEF AllCalls, Writing

LEMMA SampleStepLInv ==
  ASSUME "test.start" \notin Calls, LInv, IInv', NEW t \in Threads,
         SameCard(t) \/ Sampled(t) \/ Incoherent(t) \/ Read(t)
  PROVE  LInv'
<1>0. TypeOK /\ th[t] \in Call /\ th[t].call \in AllCalls /\ th[t].phase = "sample" /\ th[t].call # "none"
  BY Zenon, ThreadTypes DEF LInv, IInv, SameCard, Sampled, Incoherent, Read, Busy
<1>1. /\ lat_corr_lo_shadow' = lat_corr_lo_shadow /\ lat_corr' = lat_corr
      /\ g_servo_lock' = g_servo_lock
  BY Zenon DEF SameCard, Sampled, Incoherent, Read, card
<1>2. ASSUME NEW x, th'[t] = [th[t] EXCEPT !.got = x]
      PROVE  th'[t].call = th[t].call /\ th'[t].phase = th[t].phase
  BY <1>0, <1>2 DEF Call
<1>3. Proceed(t).call = th[t].call /\ Proceed(t).phase = "sample"
  BY <1>0 DEF Proceed, Call
<1>4. \A x : ToWrite(t, x).call = th[t].call /\ ToWrite(t, x).phase = "lo"
  BY <1>0 DEF ToWrite, Call
<1>5. /\ th' = [th EXCEPT ![t] = th'[t]] /\ th'[t].call = th[t].call
      /\ th'[t].phase # "sample" => th'[t].phase = "lo" /\ th[t].call \in Writing
  <2>1. CASE SameCard(t)
    <3>1. /\ th' = [th EXCEPT ![t] = th'[t]]
          /\ th'[t] = IF th[t].call \in {"tick", "flow.stats"} THEN Proceed(t) ELSE ToWrite(t, 0)
      BY <1>0, <2>1 DEF SameCard, TypeOK
    <3>2. CASE th[t].call \in {"tick", "flow.stats"}
      BY Zenon, <1>3, <3>1, <3>2
    <3>3. CASE th[t].call \notin {"tick", "flow.stats"}
      BY Zenon, <1>0, <1>4, <3>1, <3>3, WritingCalls
    <3> QED  BY Zenon, <3>2, <3>3
  <2>2. CASE Sampled(t)
    <3> DEFINE corr == Signed(Offset(th[t].got) + xcard_cal_bias(Flow(t)))
    <3>1. /\ th' = [th EXCEPT ![t] = th'[t]]
          /\ th'[t] = IF th[t].call = "flow.stats" THEN Proceed(t) ELSE ToWrite(t, corr)
      BY <1>0, <2>2 DEF Sampled, TypeOK
    <3> HIDE DEF corr
    <3>2. CASE th[t].call = "flow.stats"
      BY Zenon, <1>3, <3>1, <3>2
    <3>3. CASE th[t].call # "flow.stats"
      BY Zenon, <1>0, <1>4, <3>1, <3>3, WritingCalls
    <3> QED  BY Zenon, <3>2, <3>3
  <2>3. CASE Incoherent(t)
    <3>1. /\ th' = [th EXCEPT ![t] = th'[t]]
          /\ th'[t] = [th[t] EXCEPT !.got = <<>>] \/ th'[t] = Proceed(t)
      BY <1>0, <2>3 DEF Incoherent, TypeOK
    <3>2. CASE th'[t] = [th[t] EXCEPT !.got = <<>>]
      BY Zenon, <1>0, <1>2, <3>1, <3>2
    <3>3. CASE th'[t] = Proceed(t)
      BY Zenon, <1>3, <3>1, <3>3
    <3> QED  BY Zenon, <3>1, <3>2, <3>3
  <2>4. CASE Read(t)
    <3>1. PICK w : th' = [th EXCEPT ![t].got = Append(@, w)]
      BY Zenon, <2>4 DEF Read
    <3>2. /\ th' = [th EXCEPT ![t] = th'[t]]
          /\ th'[t] = [th[t] EXCEPT !.got = Append(th[t].got, w)]
      BY <1>0, <3>1 DEF TypeOK
    <3> QED  BY Zenon, <1>0, <1>2, <3>2
  <2> QED  BY Zenon, <2>1, <2>2, <2>3, <2>4
<1> QED  BY Zenon, <1>1, <1>5, KeepLInv

\* A thread that writes is the only one.
LEMMA OneWriter ==
  ASSUME LInv, NEW t \in Threads, NEW u \in Threads,
         th[t].phase # "sample", th[u].phase # "sample"
  PROVE  t = u
BY Zenon DEF LInv, LockHeld, WritersLocked

LEMMA WriteLoLInv == ASSUME LInv, IInv', NEW t \in Threads, WriteLo(t) PROVE LInv'
<1>0. /\ TypeOK /\ LockHeld /\ WritersLocked /\ CorrectionsWhole /\ th[t] \in Call
      /\ th[t].phase # "sample"
  <2>1. th[t].phase = "lo"
    BY Zenon DEF WriteLo, Busy
  <2> QED  BY <2>1, ThreadTypes DEF LInv, IInv
<1>1. /\ th'[t] = [th[t] EXCEPT !.phase = "hi"] /\ \A u \in Threads : u # t => th'[u] = th[u]
  BY <1>0 DEF WriteLo, TypeOK
<1>2. th'[t].call = th[t].call /\ th'[t].i = th[t].i /\ th'[t].corr = th[t].corr
  BY <1>0, <1>1 DEF Call
<1>3. lat_corr' = lat_corr /\ g_servo_lock' = g_servo_lock
  BY Zenon DEF WriteLo
<1>4. lat_corr_lo_shadow'[Flow(t).rx] = Low(th[t].corr)
  <2>1. Flow(t).rx \in Cards
    BY Zenon, <1>0, AtFlowTypes DEF WriteLo, Busy
  <2> QED  BY <1>0, <2>1 DEF WriteLo, TypeOK
<1>5. LockHeld'
  BY Zenon, <1>0, <1>1, <1>2, <1>3 DEF LockHeld
<1>6. WritersLocked'
  <2> SUFFICES ASSUME NEW u \in Threads, th'[u].phase # "sample"
               PROVE  /\ th'[u].call \in {"tick", "config.load"}
                      /\ th'[u].phase = "hi" =>
                           lat_corr_lo_shadow'[FlowMeta[th'[u].i].rx] = Low(th'[u].corr)
    BY Zenon DEF WritersLocked, Flow
  <2>1. u = t
    BY Zenon, <1>0, <1>1, OneWriter
  <2> QED  BY Zenon, <1>0, <1>2, <1>4, <2>1 DEF WritersLocked, Flow
<1>7. CorrectionsWhole'
  BY Zenon, <1>0, <1>3 DEF CorrectionsWhole
<1> QED  BY Zenon, <1>5, <1>6, <1>7 DEF LInv

\* A correction in its register is the one its flow needs.
LEMMA RightWords ==
  ASSUME TypeOK, NEW t \in Threads, th[t].i <= Len(FlowMeta), th[t].corr = Right(Flow(t))
  PROVE  High(th[t].corr) * W + Low(th[t].corr) = Right(Flow(t))
<1> DEFINE x == Right(Flow(t))
<1>1. th[t].corr \in Int
  BY Zenon, ThreadTypes
<1>2. High(x) * W + Low(x) = x % (W * W)
  BY Zenon, <1>1, Words
<1>3. x % (W * W) = x
  <2> DEFINE M == W * W
  <2>0. M \in Nat \ {0}
    BY Zenon, SquareType
  <2>1. x \in 0..(M - 1)
    <3>1. CASE CrossCard(Flow(t))
      <4>1. Epoch[Flow(t).tx] \in Int /\ Epoch[Flow(t).rx] \in Int
        BY AtFlowTypes, CardsAssumption
      <4> DEFINE y == Epoch[Flow(t).tx] - Epoch[Flow(t).rx] + xcard_cal_bias(Flow(t))
      <4>2. y \in Int
        BY <4>1, BiasType
      <4>3. x = y % M
        BY Zenon, <3>1 DEF Right, Signed
      <4> HIDE DEF y, M, x
      <4>4. y % M \in 0..(M - 1)
        BY Zenon, <2>0, <4>2, DivMod
      <4> QED  BY Zenon, <4>3, <4>4
    <3>2. CASE ~CrossCard(Flow(t))
      <4>1. x = 0
        BY Zenon, <3>2 DEF Right
      <4> HIDE DEF M, x
      <4> QED  BY <2>0, <4>1
    <3> QED  BY Zenon, <3>1, <3>2
  <2> HIDE DEF M, x
  <2>2. M * 0 + x = x
    BY <2>0, <2>1
  <2>3. (M * 0 + x) % M = x
    <3>1. 0 \in Int
      OBVIOUS
    <3> QED  BY Zenon, <2>0, <2>1, <3>1, ModUnique
  <2> QED  BY Zenon, <2>2, <2>3 DEF M
<1> QED  BY Zenon, <1>2, <1>3

LEMMA WriteHiLInv == ASSUME LInv, IInv', NEW t \in Threads, WriteHi(t) PROVE LInv'
<1>0. /\ TypeOK /\ LockHeld /\ WritersLocked /\ CorrectionsWhole /\ AcceptedOffsetIsTrue
      /\ th[t] \in Call /\ th[t].phase = "hi" /\ th[t].phase # "sample"
  <2>1. th[t].phase = "hi"
    BY Zenon DEF WriteHi, Busy
  <2> QED  BY <2>1, ThreadTypes DEF LInv, IInv
<1>1. /\ th'[t] = Proceed(t) /\ \A u \in Threads : u # t => th'[u] = th[u]
  BY <1>0 DEF WriteHi, TypeOK
<1>2. th'[t].call = th[t].call /\ th'[t].phase = "sample"
  BY <1>0, <1>1 DEF Call, Proceed
<1>3. lat_corr_lo_shadow' = lat_corr_lo_shadow /\ g_servo_lock' = g_servo_lock
  BY Zenon DEF WriteHi
<1>4. LockHeld'
  BY Zenon, <1>0, <1>1, <1>2, <1>3 DEF LockHeld
<1>5. WritersLocked'
  BY Zenon, <1>0, <1>1, <1>2, <1>3 DEF WritersLocked, Flow
<1>6. CorrectionsWhole'
  <2>1. High(th[t].corr) * W + lat_corr_lo_shadow[Flow(t).rx] = Right(Flow(t))
    <3>1. th[t].i <= Len(FlowMeta)
      BY Zenon DEF WriteHi, Busy
    <3> QED  BY Zenon, <1>0, <3>1, RightWords DEF WritersLocked, AcceptedOffsetIsTrue
  <2> SUFFICES ASSUME NEW i \in DOMAIN FlowMeta
               PROVE  lat_corr'[FlowMeta[i].rx][FlowMeta[i].slot] \in {0, Right(FlowMeta[i])}
    BY Zenon DEF CorrectionsWhole
  <2>2. FlowMeta[i].rx \in Cards /\ FlowMeta[i].slot \in Slots
    <3>1. i \in Nat \ {0} /\ i <= Len(FlowMeta)
      BY FlowsAssumption
    <3> QED  BY Zenon, <3>1, FlowTypes
  <2>3. CASE FlowMeta[i].rx = Flow(t).rx /\ FlowMeta[i].slot = Flow(t).slot
    <3>1. th[t].i \in DOMAIN FlowMeta
      BY Zenon, <1>0, FlowTypes, ThreadTypes DEF WriteHi, Busy
    <3>2. i = th[t].i
      BY Zenon, <2>3, <3>1, FlowsAssumption DEF Flow
    <3>3. lat_corr'[FlowMeta[i].rx][FlowMeta[i].slot] = Right(Flow(t))
      BY Zenon, <1>0, <2>1, <2>2, <2>3, CorrWritten
    <3> QED  BY Zenon, <3>2, <3>3 DEF Flow
  <2>4. CASE ~(FlowMeta[i].rx = Flow(t).rx /\ FlowMeta[i].slot = Flow(t).slot)
    <3>1. lat_corr'[FlowMeta[i].rx][FlowMeta[i].slot] = lat_corr[FlowMeta[i].rx][FlowMeta[i].slot]
      BY Zenon, <1>0, <2>2, <2>4, CorrWritten
    <3> QED  BY Zenon, <1>0, <3>1 DEF CorrectionsWhole
  <2> QED  BY Zenon, <2>3, <2>4
<1> QED  BY Zenon, <1>4, <1>5, <1>6 DEF LInv

LEMMA NextLInv ==
  ASSUME "test.start" \notin Calls PROVE LInv /\ [Next]_vars => LInv'
<1> SUFFICES ASSUME LInv, [Next]_vars PROVE LInv'
  OBVIOUS
<1>0. IInv'
  BY Zenon, NextIInv DEF LInv
<1>1. CASE MasterEdge \/ SlaveEdge \/ UNCHANGED vars
  BY Zenon, <1>0, <1>1, EdgeLInv
<1>2. CASE Begin("servo", "tick")
  <2>1. "servo" \in Threads /\ "tick" \in AllCalls \ {"none"}
    BY DEF Threads, AllCalls
  <2> QED  BY Zenon, <1>0, <1>2, <2>1, BeginLInv
<1>3. ASSUME NEW call \in Calls, Begin("main", call) PROVE LInv'
  <2>1. /\ call \in AllCalls \ {"none"} /\ "main" \in Threads
        /\ ("main" = "servo" <=> call = "tick")
    BY CallsAssumption DEF AllCalls, Threads
  <2> QED  BY Zenon, <1>0, <1>3, <2>1, BeginLInv
<1>4. ASSUME NEW t \in Threads,
             End(t) \/ SameCard(t) \/ Read(t) \/ Sampled(t) \/ Incoherent(t)
               \/ WriteLo(t) \/ WriteHi(t)
      PROVE  LInv'
  BY Zenon, <1>0, <1>4, EndLInv, SampleStepLInv, WriteLoLInv, WriteHiLInv
<1> QED  BY Zenon, <1>1, <1>2, <1>3, <1>4 DEF Next

LEMMA InitLInv == Init => LInv
<1> SUFFICES ASSUME Init PROVE LInv
  OBVIOUS
<1>1. \A t \in Threads : th[t].call = "none" /\ th[t].phase = "sample"
  BY DEF Init, Idle
<1>2. LockHeld
  BY <1>1 DEF Init, LockHeld, Threads
<1>3. WritersLocked
  BY Zenon, <1>1 DEF WritersLocked
<1>4. CorrectionsWhole
  <2> SUFFICES ASSUME NEW i \in DOMAIN FlowMeta
               PROVE  lat_corr[FlowMeta[i].rx][FlowMeta[i].slot] = 0
    BY Zenon DEF CorrectionsWhole
  <2>1. i \in Nat \ {0} /\ i <= Len(FlowMeta)
    BY FlowsAssumption
  <2> QED  BY <2>1, FlowTypes DEF Init
<1> QED  BY Zenon, <1>2, <1>3, <1>4, InitIInv DEF LInv

(* As long as corrections are written under g_servo_lock (the servo tick   *)
(* and config.load, main.c:439 and 806), a correction in use is never put  *)
(* together from two: "the checker never sees a torn {old_hi,new_lo}       *)
(* value" (pw_csr_full.sv:331).  flow.stats may sample beside them.  The   *)
(* hypothesis leaves out test.start, which primes without the lock.        *)
THEOREM CorrectionsStayWhole ==
  ASSUME "test.start" \notin Calls PROVE Spec => []CorrectionsWhole
<1>1. LInv /\ [Next]_vars => LInv'
  BY NextLInv
<1>2. LInv => CorrectionsWhole
  BY Zenon DEF LInv
<1> QED  BY <1>1, <1>2, InitLInv, PTL DEF Spec
=============================================================================
