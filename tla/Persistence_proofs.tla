------------------------- MODULE Persistence_proofs -------------------------
(***************************************************************************)
(* Proofs about what survives packetwyrmd.  For every set of texts: the    *)
(* environment file after any interruption of config.save, what an         *)
(* acknowledged save is worth, what restart_required = false means.  For   *)
(* every flash, image and offset: what a verified write has written, and   *)
(* how far the damage of one that was cut short reaches.                   *)
(***************************************************************************)
EXTENDS Persistence, FiniteSetTheorems, TLAPS

(* A leaf goes to SMT, then to Zenon, and to Z3 with a fresh translation last. *)
USE SMTT(30), Zenon, Z3T(30)

-----------------------------------------------------------------------------
\* The flash.  The call under way, and where it is in its range.
Calling == call.pc # "idle"

IsCall(c) ==
  c = [pc |-> c.pc, by |-> c.by, boot |-> c.boot, offset |-> c.offset, data |-> c.data,
       a |-> c.a, k |-> c.k, p |-> c.p, keep |-> c.keep, mism |-> c.mism]

CallType ==
  /\ IsCall(call)
  /\ call.pc \in {"idle", "warmup", "op", "command", "wait", "done", "reload"}
  /\ Calling =>
       /\ call.offset \in Nat /\ call.data \in Seq(Byte) /\ Len(call.data) > 0
       /\ End(call) <= FLASH_SZ /\ before.offset = call.offset /\ before.data = call.data
       /\ call.a \in Nat /\ call.a % SECTOR = 0 /\ call.a >= call.offset - (call.offset % SECTOR)
       /\ call.k \in 1..Len(Ops(call)) /\ call.p \in Nat /\ call.mism \in Nat
       /\ call.by = "boot" => call.offset = 0 /\ call.data \in Files
  /\ call.pc = "warmup" => call.k = 1 /\ call.p = 0
  /\ call.pc \in {"command", "wait"} => CurOp.op \in {"erase", "program"}
  /\ call.pc \in {"warmup", "op"} => call.p < CurOp.len \/ call.p = 0
  /\ call.pc \in {"command", "wait"} => call.p < CurOp.len
  /\ call.pc \in {"done", "reload"} => ~InLoop(call)
  /\ call.pc = "reload" => call.by = "boot" /\ call.mism = 0

\* The cells the operation under way may change.
OpCells ==
  IF CurOp.op = "erase" THEN call.a..(call.a + SECTOR - 1)
  ELSE CurOp.a..(CurOp.a + CurOp.len - 1)

\* The chip works for the operation that waits for it, or for one that was
\* abandoned, and never outside the sectors of the last call.
ChipInv ==
  /\ call.pc \notin {"idle", "wait"} => doing = Nothing
  /\ call.pc = "wait" => Addr \cap DOMAIN doing.cells \subseteq OpCells
  /\ Addr \cap DOMAIN doing.cells \subseteq Sectors(before)

\* A cell outside the range that the call has not reached, or has verified.
Settled(x) ==
  \/ ~InLoop(call) \/ x < call.a \/ x >= call.a + SECTOR
  \/ call.k < 3 \/ (call.k = 3 /\ call.pc # "wait")
  \/ call.k = 6 /\ x < call.a + call.p
  \/ call.k = 7 /\ (x < call.offset \/ x < End(call) + call.p)

\* A cell of the sector outside the range that has been read.
ReadBack(x) ==
  \/ call.k = 1 /\ x < call.a + call.p
  \/ call.k = 2 /\ (x < call.offset \/ x < End(call) + call.p)
  \/ call.k >= 3

Verified(x) == call.pc \in {"done", "reload"} \/ (call.k = 2 /\ x < call.offset + call.p)

\* While nothing differed: settled cells are as before the call, the kept bytes
\* are those cells, and the verified part of the range holds the image.
Progress ==
  /\ \A x \in Addr \ RangeOf(call) : Settled(x) => flash[x] = before.cells[x]
  /\ InLoop(call) => \A x \in (Addr \cap (call.a..(call.a + SECTOR - 1))) \ RangeOf(call) :
        ReadBack(x) => x \in DOMAIN call.keep /\ call.keep[x] = before.cells[x]
  /\ ~InLoop(call) => \A x \in RangeOf(call) :
        Verified(x) => flash[x] = call.data[x - call.offset + 1]

Written(c) ==
  \A x \in Addr : flash[x] = IF x \in RangeOf(c) THEN c.data[x - c.offset + 1]
                             ELSE before.cells[x]

AnswerInv ==
  answer.code \in {"verified", "updated"} /\ ~Calling =>
    /\ doing = Nothing /\ Written(answer)
    /\ answer.code = "updated" => image = answer.data

FlashInv ==
  /\ CallType /\ ChipInv /\ DamageConfined /\ AnswerInv
  /\ Calling /\ call.mism = 0 => Progress
-----------------------------------------------------------------------------
\* Addresses.
LEMMA Sizes ==
  /\ PAGE \in Nat \ {0} /\ SECTOR \in Nat \ {0} /\ FLASH_SZ \in Nat \ {0} /\ CHUNK \in Nat \ {0}
  /\ UINT32 \in Nat \ {0} /\ SCRATCH \in Nat /\ Requests \subseteq Int
BY FlashAssumption

LEMMA DivMod ==
  ASSUME NEW x \in Nat, NEW m \in Nat \ {0}
  PROVE  x = m * (x \div m) + (x % m) /\ x % m \in 0..(m - 1) /\ x \div m \in Nat
OBVIOUS

LEMMA DivUnique ==
  ASSUME NEW m \in Nat \ {0}, NEW q \in Nat, NEW r \in 0..(m - 1)
  PROVE  (m * q + r) \div m = q /\ (m * q + r) % m = r
<1>1. m * q \in Nat /\ m * q + r \in Nat
  OBVIOUS
<1> DEFINE x == m * q + r
<1>2. x = m * (x \div m) + (x % m) /\ x % m \in 0..(m - 1) /\ x \div m \in Nat
  BY Zenon, <1>1, DivMod
<1> DEFINE d == x \div m
           e == x % m
<1>3. m * q + r = m * d + e /\ e \in 0..(m - 1) /\ d \in Nat
  BY <1>2
<1> HIDE DEF x, d, e
<1>4. m * (q - d) = e - r
  BY <1>3
<1>5. q - d = 0
  <2>1. CASE q - d >= 1
    <3>1. m * (q - d) >= m
      BY <1>3, <2>1
    <3> QED  BY <1>3, <1>4, <3>1
  <2>2. CASE q - d <= -1
    <3>1. m * (q - d) <= -m
      BY <1>3, <2>2
    <3> QED  BY <1>3, <1>4, <3>1
  <2> QED  BY <1>3, <2>1, <2>2
<1>6. q = d /\ r = e
  BY <1>3, <1>4, <1>5
<1> QED  BY <1>6 DEF x, d, e

\* The addresses of a sector are the ones that divide alike.
LEMMA SectorCells ==
  ASSUME NEW m \in Nat \ {0}, NEW a \in Nat, a % m = 0, NEW x \in Nat
  PROVE  x \div m = a \div m <=> x \in a..(a + m - 1)
<1>1. a = m * (a \div m) /\ a \div m \in Nat
  BY DivMod
<1>2. x = m * (x \div m) + (x % m) /\ x % m \in 0..(m - 1) /\ x \div m \in Nat
  BY Zenon, DivMod
<1>3. ASSUME x \div m = a \div m PROVE x \in a..(a + m - 1)
  BY <1>1, <1>2, <1>3
<1>4. ASSUME x \in a..(a + m - 1) PROVE x \div m = a \div m
  <2>1. x - a \in 0..(m - 1) /\ x = m * (a \div m) + (x - a)
    BY <1>1, <1>4
  <2>2. (m * (a \div m) + (x - a)) \div m = a \div m
    BY Zenon, <1>1, <2>1, DivUnique
  <2> QED  BY <2>1, <2>2
<1> QED  BY <1>3, <1>4

LEMMA NextSector ==
  ASSUME NEW m \in Nat \ {0}, NEW a \in Nat, a % m = 0 PROVE (a + m) % m = 0
<1>1. a = m * (a \div m) /\ a \div m \in Nat
  BY DivMod
<1>2. a + m = m * ((a \div m) + 1) + 0
  BY <1>1
<1>3. (m * ((a \div m) + 1) + 0) % m = 0
  BY <1>1, DivUnique
<1> QED  BY <1>2, <1>3

LEMMA SectorStart ==
  ASSUME NEW m \in Nat \ {0}, NEW x \in Nat
  PROVE  x - (x % m) \in Nat /\ (x - (x % m)) % m = 0 /\ x % m \in 0..(m - 1)
<1>1. x = m * (x \div m) + (x % m) /\ x % m \in 0..(m - 1) /\ x \div m \in Nat
  BY Zenon, DivMod
<1>2. x - (x % m) = m * (x \div m) + 0 /\ m * (x \div m) \in Nat
  BY <1>1
<1>3. (m * (x \div m) + 0) % m = 0
  BY SMTT(30), Z3T(30), <1>1, DivUnique
<1> QED  BY <1>1, <1>2, <1>3

\* A command that ends with its page does not wrap.
LEMMA NoPageWrap ==
  ASSUME NEW m \in Nat \ {0}, NEW a \in Nat, NEW i \in Nat, (a % m) + i < m
  PROVE  a - (a % m) + ((a + i) % m) = a + i
<1>1. a = m * (a \div m) + (a % m) /\ a % m \in 0..(m - 1) /\ a \div m \in Nat
  BY Zenon, DivMod
<1>2. a + i = m * (a \div m) + ((a % m) + i) /\ (a % m) + i \in 0..(m - 1)
  BY <1>1
<1>3. (m * (a \div m) + ((a % m) + i)) % m = (a % m) + i
  BY Zenon, <1>1, <1>2, DivUnique
<1> QED  BY <1>1, <1>2, <1>3

LEMMA MinOfTwo ==
  ASSUME NEW x \in Int, NEW y \in Int
  PROVE  Min({x, y}) = IF x <= y THEN x ELSE y
<1>1. CASE x <= y
  <2>1. Min({x, y}) = CHOOSE z \in {x, y} : \A w \in {x, y} : z <= w
    BY DEF Min
  <2> QED  BY <1>1, <2>1
<1>2. CASE ~(x <= y)
  <2>1. Min({x, y}) = CHOOSE z \in {x, y} : \A w \in {x, y} : z <= w
    BY DEF Min
  <2> QED  BY <1>2, <2>1
<1> QED  BY <1>1, <1>2
-----------------------------------------------------------------------------
\* The operations of a sector and of the data.
HeadLen(c) == IF c.a < c.offset THEN c.offset - c.a ELSE 0
TailLen(c) == IF c.a + SECTOR > End(c) THEN c.a + SECTOR - End(c) ELSE 0

LEMMA OpTable ==
  ASSUME NEW c
  PROVE  /\ InLoop(c) =>
              /\ Len(Ops(c)) = 7
              /\ \A i \in {1, 4, 6} : Ops(c)[i].a = c.a /\ Ops(c)[i].len = HeadLen(c)
                                     /\ Ops(c)[i].from = "keep"
              /\ \A i \in {2, 5, 7} : Ops(c)[i].a = End(c) /\ Ops(c)[i].len = TailLen(c)
                                     /\ Ops(c)[i].from = "keep"
              /\ Ops(c)[3].op = "erase" /\ Ops(c)[3].a = c.a /\ Ops(c)[3].len = SECTOR
              /\ \A i \in {1, 2} : Ops(c)[i].op = "read"
              /\ \A i \in {4, 5} : Ops(c)[i].op = "program"
              /\ \A i \in {6, 7} : Ops(c)[i].op = "verify"
         /\ ~InLoop(c) =>
              /\ Len(Ops(c)) = 2
              /\ \A i \in {1, 2} : Ops(c)[i].a = c.offset /\ Ops(c)[i].len = Len(c.data)
                                  /\ Ops(c)[i].from = "data"
              /\ Ops(c)[1].op = "program" /\ Ops(c)[2].op = "verify"
<1>1. ASSUME InLoop(c)
      PROVE  Ops(c) = << Op("read", c.a, HeadLen(c), "keep"), Op("read", End(c), TailLen(c), "keep"),
                         Op("erase", c.a, SECTOR, "none"),
                         Op("program", c.a, HeadLen(c), "keep"),
                         Op("program", End(c), TailLen(c), "keep"),
                         Op("verify", c.a, HeadLen(c), "keep"),
                         Op("verify", End(c), TailLen(c), "keep") >>
  BY <1>1 DEF Ops, SectorOps, HeadLen, TailLen
<1>2. ASSUME ~InLoop(c)
      PROVE  Ops(c) = << Op("program", c.offset, Len(c.data), "data"),
                         Op("verify", c.offset, Len(c.data), "data") >>
  BY <1>2 DEF Ops
<1> QED  BY <1>1, <1>2 DEF Op

\* What the call's operation is, by its number.
LEMMA CurOpIs ==
  ASSUME CallType, Calling
  PROVE  /\ CurOp.len \in Nat /\ CurOp.a \in Nat
         /\ End(call) \in Nat /\ HeadLen(call) \in Nat /\ TailLen(call) \in Nat
         /\ call.a + SECTOR > call.offset
         /\ InLoop(call) =>
              /\ Len(Ops(call)) = 7 /\ call.k \in 1..7
              /\ call.k \in {1, 4, 6} => CurOp.a = call.a /\ CurOp.len = HeadLen(call)
              /\ call.k \in {2, 5, 7} => CurOp.a = End(call) /\ CurOp.len = TailLen(call)
              /\ call.k = 3 => CurOp.a = call.a /\ CurOp.len = SECTOR
              /\ call.k # 3 => CurOp.from = "keep"
              /\ CurOp.op = "read" <=> call.k \in {1, 2}
              /\ CurOp.op = "erase" <=> call.k = 3
              /\ CurOp.op = "program" <=> call.k \in {4, 5}
              /\ CurOp.op = "verify" <=> call.k \in {6, 7}
         /\ ~InLoop(call) =>
              /\ Len(Ops(call)) = 2 /\ call.k \in 1..2
              /\ CurOp.a = call.offset /\ CurOp.len = Len(call.data) /\ CurOp.from = "data"
              /\ CurOp.op = "program" <=> call.k = 1
              /\ CurOp.op = "verify" <=> call.k = 2
              /\ CurOp.op \notin {"read", "erase"}
<1>1. /\ call.offset \in Nat /\ Len(call.data) \in Nat /\ call.a \in Nat
      /\ call.k \in 1..Len(Ops(call)) /\ call.a >= call.offset - (call.offset % SECTOR)
  BY DEF CallType
<1>2. End(call) \in Nat /\ HeadLen(call) \in Nat /\ TailLen(call) \in Nat
  <2>1. End(call) \in Nat
    BY <1>1 DEF End
  <2>2. HeadLen(call) \in Nat
    BY <1>1 DEF HeadLen
  <2>3. TailLen(call) \in Nat
    BY <1>1, <2>1, Sizes DEF TailLen
  <2> QED  BY <2>1, <2>2, <2>3
<1>3. call.a + SECTOR > call.offset
  <2>1. call.offset % SECTOR \in 0..(SECTOR - 1)
    BY Zenon, <1>1, Sizes, SectorStart
  <2> QED  BY <1>1, <2>1, Sizes
<1>4. CASE InLoop(call)
  <2>1. call.k \in 1..7
    BY Zenon, <1>1, <1>4, OpTable
  <2>2. Len(Ops(call)) = 7
    BY <1>4, OpTable
  <2>3. CASE call.k \in {1, 4, 6}
    <3>1. CurOp.a = call.a /\ CurOp.len = HeadLen(call) /\ CurOp.from = "keep"
      BY <1>4, <2>3, OpTable DEF CurOp
    <3>2. CurOp.op = IF call.k = 1 THEN "read" ELSE IF call.k = 4 THEN "program" ELSE "verify"
      BY <1>4, <2>3, OpTable DEF CurOp
    <3> QED  BY <1>1, <1>2, <1>3, <1>4, <2>1, <2>2, <2>3, <3>1, <3>2
  <2>4. CASE call.k \in {2, 5, 7}
    <3>1. CurOp.a = End(call) /\ CurOp.len = TailLen(call) /\ CurOp.from = "keep"
      BY <1>4, <2>4, OpTable DEF CurOp
    <3>2. CurOp.op = IF call.k = 2 THEN "read" ELSE IF call.k = 5 THEN "program" ELSE "verify"
      BY <1>4, <2>4, OpTable DEF CurOp
    <3> QED  BY <1>1, <1>2, <1>3, <1>4, <2>1, <2>2, <2>4, <3>1, <3>2
  <2>5. CASE call.k = 3
    <3>1. CurOp.a = call.a /\ CurOp.len = SECTOR /\ CurOp.op = "erase"
      BY <1>4, <2>5, OpTable DEF CurOp
    <3> QED  BY <1>1, <1>2, <1>3, <1>4, <2>1, <2>2, <2>5, <3>1, Sizes
  <2> QED  BY <2>1, <2>3, <2>4, <2>5
<1>5. CASE ~InLoop(call)
  <2>1. call.k \in 1..2
    BY Zenon, <1>1, <1>5, OpTable
  <2>2. Len(Ops(call)) = 2
    BY <1>5, OpTable
  <2>3. /\ CurOp.a = call.offset /\ CurOp.len = Len(call.data) /\ CurOp.from = "data"
        /\ CurOp.op = IF call.k = 1 THEN "program" ELSE "verify"
    BY <1>5, <2>1, OpTable DEF CurOp
  <2> QED  BY <1>1, <1>2, <1>3, <1>5, <2>1, <2>2, <2>3
<1> QED  BY <1>4, <1>5

\* c is the call but for what it has kept and counted.
Alike(c) ==
  /\ IsCall(c) /\ c.by = call.by /\ c.boot = call.boot /\ c.offset = call.offset
  /\ c.data = call.data /\ c.a = call.a /\ c.k = call.k /\ c.p = call.p

LEMMA AlikeOps ==
  ASSUME NEW c, Alike(c)
  PROVE  End(c) = End(call) /\ InLoop(c) = InLoop(call) /\ Ops(c) = Ops(call)
BY DEF Alike, End, InLoop, Ops

\* Where Advance leaves the call.
LEMMA AdvanceFields ==
  ASSUME NEW c, Alike(c), NEW n
  PROVE  LET d == Advance(c, n) IN
         /\ IsCall(d) /\ d.by = call.by /\ d.boot = call.boot /\ d.offset = call.offset
         /\ d.data = call.data /\ d.keep = c.keep /\ d.mism = c.mism
         /\ \/ /\ call.p + n < CurOp.len
               /\ d.pc = "op" /\ d.a = call.a /\ d.k = call.k /\ d.p = call.p + n
            \/ /\ ~(call.p + n < CurOp.len) /\ call.k < Len(Ops(call))
               /\ d.pc = "op" /\ d.a = call.a /\ d.k = call.k + 1 /\ d.p = 0
            \/ /\ ~(call.p + n < CurOp.len) /\ ~(call.k < Len(Ops(call))) /\ InLoop(call)
               /\ d.pc = "op" /\ d.a = call.a + SECTOR /\ d.k = 1 /\ d.p = 0
            \/ /\ ~(call.p + n < CurOp.len) /\ ~(call.k < Len(Ops(call))) /\ ~InLoop(call)
               /\ d.pc = "done" /\ d.a = call.a /\ d.k = call.k /\ d.p = call.p
<1>1. Ops(c) = Ops(call) /\ InLoop(c) = InLoop(call)
  BY AlikeOps
<1>2. CASE c.p + n < CurOp.len
  BY Zenon, <1>2 DEF Advance, Alike, IsCall
<1>3. CASE ~(c.p + n < CurOp.len) /\ c.k < Len(Ops(c))
  BY Zenon, <1>1, <1>3 DEF Advance, Alike, IsCall
<1>4. CASE ~(c.p + n < CurOp.len) /\ ~(c.k < Len(Ops(c))) /\ InLoop(c)
  BY Zenon, <1>1, <1>4 DEF Advance, Alike, IsCall
<1>5. CASE ~(c.p + n < CurOp.len) /\ ~(c.k < Len(Ops(c))) /\ ~InLoop(c)
  BY <1>1, <1>5 DEF Advance, Alike, IsCall
<1> QED  BY <1>2, <1>3, <1>4, <1>5

\* The operations depend on the range and the sector alone.
LEMMA SameOps ==
  ASSUME call'.offset = call.offset, call'.data = call.data, call'.a = call.a
  PROVE  /\ End(call)' = End(call) /\ InLoop(call)' = InLoop(call) /\ Ops(call)' = Ops(call)
         /\ (call'.k = call.k => CurOp' = CurOp)
BY DEF End, InLoop, Ops, CurOp

LEMMA AdvanceType ==
  ASSUME CallType, Calling, UNCHANGED before, NEW c, Alike(c), c.mism \in Nat, NEW n \in Nat,
         call' = Advance(c, n)
  PROVE  CallType'
<1>0. /\ call.offset \in Nat /\ call.data \in Seq(Byte) /\ Len(call.data) > 0 /\ call.a \in Nat
      /\ call.k \in Nat /\ call.p \in Nat /\ Len(Ops(call)) \in {2, 7} /\ call.k \in 1..Len(Ops(call))
  <2>1. call.k \in 1..Len(Ops(call)) /\ Len(Ops(call)) \in {2, 7}
    BY CurOpIs, OpTable DEF CallType
  <2> QED  BY <2>1 DEF CallType
<1>1. /\ IsCall(call') /\ call'.by = call.by /\ call'.offset = call.offset
      /\ call'.data = call.data /\ call'.mism = c.mism
  BY AdvanceFields
<1>2. /\ call'.offset \in Nat /\ call'.data \in Seq(Byte) /\ Len(call'.data) > 0
      /\ before'.offset = call'.offset /\ before'.data = call'.data /\ call'.mism \in Nat
      /\ call'.by = "boot" => call'.offset = 0 /\ call'.data \in Files
  BY <1>0, <1>1 DEF CallType
<1>3. End(call)' = End(call) /\ End(call) <= FLASH_SZ
  BY <1>1 DEF End, CallType
<1>4. CASE call'.pc = "op" /\ call'.a = call.a
  <2>1. Ops(call)' = Ops(call) /\ (call'.k = call.k => CurOp' = CurOp)
    BY <1>1, <1>4, SameOps
  <2>2. /\ call'.k \in 1..Len(Ops(call)') /\ call'.p \in Nat
        /\ call'.p < CurOp'.len \/ call'.p = 0
    <3>1. CASE call.p + n < CurOp.len /\ call'.k = call.k /\ call'.p = call.p + n
      BY <1>0, <2>1, <3>1
    <3>2. CASE call.k < Len(Ops(call)) /\ call'.k = call.k + 1 /\ call'.p = 0
      BY <1>0, <2>1, <3>2
    <3>3. CASE call'.k = 1 /\ call'.p = 0
      BY <1>0, <2>1, <3>3
    <3> QED  BY <1>4, <3>1, <3>2, <3>3, AdvanceFields
  <2>3. /\ call'.a \in Nat /\ call'.a % SECTOR = 0
        /\ call'.a >= call'.offset - (call'.offset % SECTOR)
    BY <1>1, <1>4 DEF CallType
  <2> QED  BY <1>1, <1>2, <1>3, <1>4, <2>2, <2>3 DEF CallType
<1>5. CASE call'.pc = "op" /\ call'.a = call.a + SECTOR /\ call'.k = 1 /\ call'.p = 0
  <2>1. call'.k \in 1..Len(Ops(call'))
    BY <1>5, OpTable
  <2>0. call.a % SECTOR = 0 /\ call.a >= call.offset - (call.offset % SECTOR)
    BY DEF CallType
  <2>2. call'.a \in Nat /\ call'.a % SECTOR = 0
    <3>1. (call.a + SECTOR) % SECTOR = 0
      BY <1>0, <2>0, NextSector, Sizes
    <3>2. call.a + SECTOR \in Nat
      BY <1>0, Sizes
    <3> QED  BY <1>5, <3>1, <3>2
  <2>3. call'.a >= call'.offset - (call'.offset % SECTOR)
    <3>1. call.offset % SECTOR \in 0..(SECTOR - 1)
      BY Zenon, <1>0, SectorStart, Sizes
    <3> QED  BY <1>0, <1>1, <1>5, <2>0, <3>1, Sizes
  <2> QED  BY <1>1, <1>2, <1>3, <1>5, <2>1, <2>2, <2>3 DEF CallType
<1>6. CASE call'.pc = "done" /\ call'.a = call.a /\ call'.k = call.k /\ call'.p = call.p /\ ~InLoop(call)
  <2>1. Ops(call)' = Ops(call) /\ InLoop(call)' = InLoop(call)
    BY <1>1, <1>6, SameOps
  <2> QED  BY <1>0, <1>1, <1>2, <1>3, <1>6, <2>1 DEF CallType
<1> QED  BY <1>4, <1>5, <1>6, AdvanceFields

LEMMA CallNumbers ==
  ASSUME CallType, Calling
  PROVE  /\ call.offset \in Nat /\ Len(call.data) \in Nat \ {0} /\ End(call) \in Nat
         /\ End(call) = call.offset + Len(call.data)
         /\ call.a \in Nat /\ call.p \in Nat /\ call.k \in Nat
         /\ CurOp.len \in Nat /\ CurOp.a \in Nat /\ call.a + SECTOR > call.offset
         /\ SECTOR \in Nat \ {0} /\ FLASH_SZ \in Nat /\ End(call) <= FLASH_SZ
<1>1. /\ call.offset \in Nat /\ Len(call.data) \in Nat \ {0} /\ call.a \in Nat /\ call.p \in Nat
      /\ End(call) <= FLASH_SZ
  BY DEF CallType
<1>2. call.k \in Nat
  <2>1. call.k \in 1..2 \/ call.k \in 1..7
    BY CurOpIs
  <2> QED  BY <2>1
<1>3. CurOp.len \in Nat /\ CurOp.a \in Nat /\ call.a + SECTOR > call.offset /\ End(call) \in Nat
  BY CurOpIs
<1>4. End(call) = call.offset + Len(call.data)
  BY DEF End
<1> QED  BY <1>1, <1>2, <1>3, <1>4, Sizes

\* The end of an operation of the sector, and of one on the data.
LEMMA LoopOp ==
  ASSUME CallType, Calling, InLoop(call)
  PROVE  /\ Len(Ops(call)) = 7 /\ call.k \in 1..7
         /\ call.k \in {1, 4, 6} => CurOp.a = call.a /\ CurOp.len = HeadLen(call)
         /\ call.k \in {2, 5, 7} => CurOp.a = End(call) /\ CurOp.len = TailLen(call)
         /\ call.k = 3 => CurOp.len = SECTOR
         /\ call.k \in {1, 4, 6} /\ call.a < call.offset => call.a + CurOp.len = call.offset
         /\ call.k \in {1, 4, 6} /\ call.a >= call.offset => CurOp.len = 0
         /\ call.k \in {2, 5, 7} /\ call.a + SECTOR > End(call)
              => End(call) + CurOp.len = call.a + SECTOR
         /\ call.k \in {2, 5, 7} /\ call.a + SECTOR <= End(call) => CurOp.len = 0
<1>1. /\ Len(Ops(call)) = 7 /\ call.k \in 1..7
      /\ call.k \in {1, 4, 6} => CurOp.a = call.a /\ CurOp.len = HeadLen(call)
      /\ call.k \in {2, 5, 7} => CurOp.a = End(call) /\ CurOp.len = TailLen(call)
      /\ call.k = 3 => CurOp.len = SECTOR
  BY CurOpIs
<1>2. /\ call.a < call.offset => call.a + HeadLen(call) = call.offset
      /\ call.a >= call.offset => HeadLen(call) = 0
  BY CallNumbers DEF HeadLen
<1>3. /\ call.a + SECTOR > End(call) => End(call) + TailLen(call) = call.a + SECTOR
      /\ call.a + SECTOR <= End(call) => TailLen(call) = 0
  BY SMTT(30), Z3T(30), CallNumbers DEF TailLen
<1> QED  BY <1>1, <1>2, <1>3

LEMMA DataOp ==
  ASSUME CallType, Calling, ~InLoop(call)
  PROVE  /\ Len(Ops(call)) = 2 /\ call.k \in 1..2
         /\ CurOp.a = call.offset /\ CurOp.len = Len(call.data)
BY CurOpIs

\* Cells outside the range: of the chip, and of the sector under way.
Outside == Addr \ RangeOf(call)
KeptCells == (Addr \cap (call.a..(call.a + SECTOR - 1))) \ RangeOf(call)

\* When the operation under way has come n bytes further: what it read is
\* kept, what it verified holds.
ReadTo(n, keep) ==
  InLoop(call) => \A x \in KeptCells :
    \/ call.k = 1 /\ x < call.a + call.p + n
    \/ call.k = 2 /\ (x < call.offset \/ x < End(call) + call.p + n)
    \/ call.k >= 3
    => x \in DOMAIN keep /\ keep[x] = before.cells[x]
VerifiedTo(n) ==
  /\ InLoop(call) => \A x \in KeptCells :
       \/ call.k = 6 /\ x < call.a + call.p + n
       \/ call.k = 7 /\ (x < call.offset \/ x < End(call) + call.p + n)
       => flash[x] = before.cells[x]
  /\ ~InLoop(call) /\ call.k = 2 => \A x \in RangeOf(call) :
       x < call.offset + call.p + n => flash[x] = call.data[x - call.offset + 1]

LEMMA AdvanceProgress ==
  ASSUME CallType, Calling, Progress, UNCHANGED <<before, flash>>, NEW c, Alike(c), NEW n \in Nat,
         call' = Advance(c, n), ReadTo(n, c.keep), VerifiedTo(n),
         call.k = 3 => call.pc # "wait" \/ n = SECTOR
  PROVE  Progress'
<1> DEFINE off == call.offset
           e == End(call)
<1>0. /\ off \in Nat /\ e \in Nat /\ call.a \in Nat /\ call.p \in Nat /\ call.k \in Nat
      /\ off < e /\ call.a + SECTOR > off /\ e = off + Len(call.data) /\ Len(call.data) \in Nat
      /\ SECTOR \in Nat \ {0} /\ FLASH_SZ \in Nat
  BY CallNumbers
<1>1. /\ call'.offset = call.offset /\ call'.data = call.data /\ call'.keep = c.keep
      /\ RangeOf(call)' = RangeOf(call) /\ RangeOf(call) = off..(e - 1) /\ Addr = 0..(FLASH_SZ - 1)
  <2>1. call'.offset = call.offset /\ call'.data = call.data /\ call'.keep = c.keep
    BY AdvanceFields
  <2> QED  BY <1>0, <2>1 DEF RangeOf, Addr
<1>2. End(call)' = End(call)
  BY <1>1 DEF End
<1>3. CASE call.p + n < CurOp.len /\ call'.pc = "op" /\ call'.a = call.a /\ call'.k = call.k
           /\ call'.p = call.p + n
  <2>1. InLoop(call)' = InLoop(call)
    BY <1>1, <1>3, SameOps
  <2>2. call.k = 3 /\ InLoop(call) => call.pc # "wait"
    BY <1>0, <1>3, LoopOp
  <2>3. ASSUME NEW x \in Outside, Settled(x)' PROVE flash[x] = before.cells[x]
    <3>1. CASE Settled(x)
      BY <3>1 DEF Progress, Outside
    <3>2. CASE ~Settled(x)
      <4>1. InLoop(call) /\ x \in KeptCells
        BY SMTT(30), Z3T(30), <3>2, <1>0, <1>1 DEF Settled, Outside, KeptCells
      <4>2. /\ ~(x < call.a) /\ ~(x >= call.a + SECTOR) /\ ~(call.k < 3)
            /\ ~(call.k = 3 /\ call.pc # "wait")
        BY <3>2 DEF Settled
      <4>3. \/ ~InLoop(call)' \/ x < call'.a \/ x >= call'.a + SECTOR
            \/ call'.k < 3 \/ (call'.k = 3 /\ call'.pc # "wait")
            \/ call'.k = 6 /\ x < call'.a + call'.p
            \/ call'.k = 7 /\ (x < call'.offset \/ x < End(call)' + call'.p)
        BY <2>3 DEF Settled
      <4>4. \/ call.k = 6 /\ x < call.a + (call.p + n)
            \/ call.k = 7 /\ (x < call.offset \/ x < End(call) + (call.p + n))
        BY <1>1, <1>2, <1>3, <2>1, <2>2, <4>1, <4>2, <4>3
      <4>5. \/ call.k = 6 /\ x < call.a + call.p + n
            \/ call.k = 7 /\ (x < call.offset \/ x < End(call) + call.p + n)
        BY <1>0, <4>4
      <4> QED  BY <4>1, <4>5 DEF VerifiedTo
    <3> QED  BY <3>1, <3>2
  <2>4. ASSUME InLoop(call), NEW x \in KeptCells, ReadBack(x)'
        PROVE  x \in DOMAIN c.keep /\ c.keep[x] = before.cells[x]
    <3>1. \/ call.k = 1 /\ x < call.a + call.p + n
          \/ call.k = 2 /\ (x < call.offset \/ x < End(call) + call.p + n)
          \/ call.k >= 3
      BY SMTT(30), Z3T(30), <1>0, <1>1, <1>2, <1>3, <2>4 DEF ReadBack, KeptCells
    <3> QED  BY <2>4, <3>1 DEF ReadTo
  <2>5. ASSUME ~InLoop(call), NEW x \in RangeOf(call), Verified(x)'
        PROVE  flash[x] = call.data[x - call.offset + 1]
    <3>1. call.k = 2 /\ x < call.offset + call.p + n
      BY <1>0, <1>1, <1>3, <2>5 DEF Verified
    <3> QED  BY <2>5, <3>1 DEF VerifiedTo
  <2> QED  BY <1>1, <1>3, <2>1, <2>3, <2>4, <2>5 DEF Progress, Outside, KeptCells
<1>4. CASE ~(call.p + n < CurOp.len) /\ call.k < Len(Ops(call))
           /\ call'.pc = "op" /\ call'.a = call.a /\ call'.k = call.k + 1 /\ call'.p = 0
  <2>1. InLoop(call)' = InLoop(call)
    BY <1>1, <1>4, SameOps
  <2>2. /\ InLoop(call) /\ call.k \in {1, 4, 6} /\ call.a < off => call.a + call.p + n >= off
        /\ InLoop(call) /\ call.k \in {2, 5, 7} /\ call.a + SECTOR > e
              => e + call.p + n >= call.a + SECTOR
        /\ InLoop(call) => call.k \in 1..6
        /\ ~InLoop(call) => call.k = 1
    <3>1. call.p + n >= CurOp.len /\ CurOp.len \in Nat
      BY SMTT(30), Z3T(30), <1>0, <1>4, CallNumbers
    <3>2. CASE InLoop(call)
      <4>1. Len(Ops(call)) = 7 /\ call.k \in 1..7
        BY <3>2, LoopOp
      <4>2. call.k \in 1..6
        BY <1>4, <4>1
      <4>3. /\ call.k \in {1, 4, 6} /\ call.a < call.offset => call.a + CurOp.len = call.offset
            /\ call.k \in {2, 5, 7} /\ call.a + SECTOR > End(call)
                => End(call) + CurOp.len = call.a + SECTOR
        BY <3>2, LoopOp
      <4>4. ASSUME call.k \in {1, 4, 6}, call.a < off PROVE call.a + call.p + n >= off
        <5>1. call.a + CurOp.len = call.offset
          BY <4>3, <4>4
        <5> QED  BY <1>0, <3>1, <5>1
      <4>5. call.k \in {2, 5, 7} /\ call.a + SECTOR > e => e + call.p + n >= call.a + SECTOR
        BY <1>0, <3>1, <4>3
      <4> QED  BY <3>2, <4>2, <4>4, <4>5
    <3>3. CASE ~InLoop(call)
      <4>1. Len(Ops(call)) = 2 /\ call.k \in 1..2
        BY <3>3, DataOp
      <4> QED  BY <1>4, <3>3, <4>1
    <3> QED  BY <3>2, <3>3
  <2>3. ASSUME NEW x \in Outside, Settled(x)' PROVE flash[x] = before.cells[x]
    <3>1. CASE Settled(x)
      BY <3>1 DEF Progress, Outside
    <3>2. CASE ~Settled(x)
      <4>1. InLoop(call) /\ x \in KeptCells
        BY <3>2, <1>0, <1>1 DEF Settled, Outside, KeptCells
      <4>2. /\ ~(x < call.a) /\ ~(x >= call.a + SECTOR) /\ ~(call.k < 3)
            /\ ~(call.k = 3 /\ call.pc # "wait")
        BY <3>2 DEF Settled
      <4>3. \/ ~InLoop(call)' \/ x < call'.a \/ x >= call'.a + SECTOR
            \/ call'.k < 3 \/ (call'.k = 3 /\ call'.pc # "wait")
            \/ call'.k = 6 /\ x < call'.a + call'.p
            \/ call'.k = 7 /\ (x < call'.offset \/ x < End(call)' + call'.p)
        BY <2>3 DEF Settled
      <4>4. x \in Int /\ (x < off \/ x >= e)
        BY <1>0, <1>1, <4>1 DEF KeptCells
      <4>5. call.k \in 3..6
        BY <1>0, <2>2, <4>1, <4>2
      <4>6. call.k = 6 /\ (x < call.offset \/ x < End(call) + 0)
        <5>1. \/ call'.k < 3 \/ call'.k = 3 \/ (call'.k = 6 /\ x < call.a + 0)
              \/ call'.k = 7 /\ (x < call.offset \/ x < End(call) + 0)
          BY <1>1, <1>2, <1>4, <2>1, <4>1, <4>2, <4>3
        <5>2. x < call.a + 0 => x < call.a
          BY <1>0
        <5>3. call'.k = 7
          BY <1>4, <4>2, <4>5, <5>1, <5>2
        <5> QED  BY <1>0, <1>4, <4>5, <5>1, <5>3
      <4>7. x < off /\ x < call.a + call.p + n
        BY <1>0, <2>2, <4>1, <4>2, <4>4, <4>6
      <4> QED  BY Zenon, <4>1, <4>6, <4>7 DEF VerifiedTo
    <3> QED  BY <3>1, <3>2
  <2>4. ASSUME InLoop(call), NEW x \in KeptCells, ReadBack(x)'
        PROVE  x \in DOMAIN c.keep /\ c.keep[x] = before.cells[x]
    <3>1. x \in call.a..(call.a + SECTOR - 1) /\ x \in Int /\ (x < off \/ x >= e)
      BY SMTT(30), Z3T(30), <1>0, <1>1 DEF KeptCells
    <3>2. CASE call.k = 1
      <4>1. x < off
        BY SMTT(30), Z3T(30), <1>0, <1>2, <1>1, <1>4, <2>4, <3>1, <3>2 DEF ReadBack
      <4>2. x < call.a + call.p + n
        BY SMTT(30), Z3T(30), <1>0, <2>2, <2>4, <3>1, <3>2, <4>1
      <4> QED  BY <2>4, <3>2, <4>2 DEF ReadTo
    <3>3. CASE call.k = 2
      <4>1. x < off \/ x < e + call.p + n
        BY SMTT(30), Z3T(30), <1>0, <2>2, <2>4, <3>1, <3>3
      <4> QED  BY <2>4, <3>3, <4>1 DEF ReadTo
    <3>4. CASE call.k >= 3
      BY <2>4, <3>4 DEF ReadTo
    <3> QED  BY <1>0, <2>2, <2>4, <3>2, <3>3, <3>4
  <2>5. ASSUME ~InLoop(call), NEW x \in RangeOf(call), Verified(x)' PROVE FALSE
    BY <1>0, <1>1, <1>4, <2>5 DEF Verified
  <2> QED  BY <1>1, <1>4, <2>1, <2>3, <2>4, <2>5 DEF Progress, Outside, KeptCells
<1>5. CASE ~(call.p + n < CurOp.len) /\ ~(call.k < Len(Ops(call))) /\ InLoop(call)
           /\ call'.pc = "op" /\ call'.a = call.a + SECTOR /\ call'.k = 1 /\ call'.p = 0
  <2>1. call.k = 7 /\ (call.a + SECTOR > e => e + call.p + n >= call.a + SECTOR)
    <3>1. call.p + n >= CurOp.len /\ CurOp.len \in Nat
      BY <1>0, <1>5, CallNumbers
    <3>2. Len(Ops(call)) = 7 /\ call.k \in 1..7
      BY <1>5, LoopOp
    <3>3. call.k = 7
      BY <1>5, <3>2
    <3>4. call.a + SECTOR > End(call) => End(call) + CurOp.len = call.a + SECTOR
      BY Zenon, <1>5, <3>3, LoopOp
    <3> QED  BY <1>0, <3>1, <3>3, <3>4
  <2>2. ASSUME NEW x \in Outside PROVE flash[x] = before.cells[x]
    <3>1. CASE Settled(x)
      BY <3>1 DEF Progress, Outside
    <3>2. CASE ~Settled(x)
      <4>0. ~(x < call.a) /\ ~(x >= call.a + SECTOR)
        BY <3>2 DEF Settled
      <4>1. x \in KeptCells
        <5>1. x \in Addr /\ x \notin RangeOf(call)
          BY DEF Outside
        <5>2. x \in Int
          BY <1>0, <1>1, <5>1
        <5>3. x \in call.a..(call.a + SECTOR - 1)
          BY <1>0, <4>0, <5>2
        <5> QED  BY <5>1, <5>3 DEF KeptCells
      <4>2. x < call.offset \/ x < End(call) + call.p + n
        BY SMTT(30), Z3T(30), <1>0, <1>1, <2>1, <4>1 DEF KeptCells
      <4> QED  BY <1>5, <2>1, <4>1, <4>2 DEF VerifiedTo
    <3> QED  BY <3>1, <3>2
  <2>3. ASSUME NEW x \in KeptCells', ReadBack(x)' PROVE FALSE
    BY <1>0, <1>5, <2>3 DEF ReadBack, KeptCells
  <2>4. ASSUME NEW x \in RangeOf(call), Verified(x)' PROVE FALSE
    BY <1>5, <2>4 DEF Verified
  <2> QED  BY <1>1, <2>2, <2>3, <2>4 DEF Progress, Outside, KeptCells
<1>6. CASE ~(call.p + n < CurOp.len) /\ ~(call.k < Len(Ops(call))) /\ ~InLoop(call)
           /\ call'.pc = "done" /\ call'.a = call.a /\ call'.k = call.k /\ call'.p = call.p
  <2>1. InLoop(call)' = InLoop(call)
    BY <1>1, <1>6, SameOps
  <2>2. call.k = 2 /\ call.p + n >= Len(call.data)
    <3>1. /\ Len(Ops(call)) = 2 /\ call.k \in 1..2 /\ CurOp.len = Len(call.data)
      BY <1>6, DataOp
    <3>2. call.k = 2
      BY <1>6, <3>1
    <3>3. call.p + n >= Len(call.data)
      BY SMTT(30), Z3T(30), <1>0, <1>6, <3>1
    <3> QED  BY <3>2, <3>3
  <2>3. ASSUME NEW x \in Outside PROVE flash[x] = before.cells[x]
    BY <1>6 DEF Progress, Outside, Settled
  <2>4. ASSUME NEW x \in RangeOf(call) PROVE flash[x] = call.data[x - call.offset + 1]
    <3>0. x \in Int /\ x < call.offset + Len(call.data)
      BY <1>0, <1>1
    <3>1. x < call.offset + call.p + n
      BY SMTT(30), Z3T(30), <1>0, <2>2, <3>0
    <3> QED  BY Zenon, <1>6, <2>2, <3>1 DEF VerifiedTo
  <2> QED  BY Zenon, <1>1, <1>6, <2>1, <2>3, <2>4 DEF Progress, Outside
<1> QED  BY <1>3, <1>4, <1>5, <1>6, AdvanceFields

LEMMA AdvanceKeepsFlash ==
  ASSUME FlashInv, Calling, doing = Nothing, UNCHANGED <<flash, doing, before>>,
         NEW c, Alike(c), c.mism \in Nat, NEW n \in Nat, call' = Advance(c, n),
         c.mism = 0 => call.mism = 0 /\ ReadTo(n, c.keep) /\ VerifiedTo(n),
         call.k = 3 => call.pc # "wait" \/ n = SECTOR
  PROVE  FlashInv'
<1>1. CallType'
  BY AdvanceType DEF FlashInv
<1>2. call'.pc \in {"op", "done"} /\ call'.mism = c.mism
  BY Zenon, AdvanceFields
<1>3. ChipInv'
  BY Zenon, <1>2 DEF FlashInv, ChipInv, Sectors, RangeOf
<1>4. DamageConfined'
  BY DEF FlashInv, DamageConfined, Sectors, RangeOf
<1>5. AnswerInv'
  BY <1>2 DEF AnswerInv, Calling
<1>6. ASSUME call'.mism = 0 PROVE Progress'
  <2>1. call.mism = 0 /\ ReadTo(n, c.keep) /\ VerifiedTo(n)
    BY <1>2, <1>6
  <2> QED  BY <2>1, AdvanceProgress DEF FlashInv
<1> QED  BY <1>1, <1>3, <1>4, <1>5, <1>6 DEF FlashInv

\* At an operation's own place nothing more is claimed than Progress says.
LEMMA ProgressSoFar ==
  ASSUME CallType, Calling, Progress
  PROVE  ReadTo(0, call.keep) /\ VerifiedTo(0)
<1>1. /\ call.a + call.p + 0 = call.a + call.p /\ End(call) + call.p + 0 = End(call) + call.p
      /\ call.offset + call.p + 0 = call.offset + call.p
  BY CallNumbers
<1>2. ReadTo(0, call.keep)
  BY <1>1 DEF Progress, ReadTo, ReadBack, KeptCells
<1>3. VerifiedTo(0)
  <2>1. ASSUME InLoop(call), NEW x \in KeptCells,
               \/ call.k = 6 /\ x < call.a + call.p + 0
               \/ call.k = 7 /\ (x < call.offset \/ x < End(call) + call.p + 0)
        PROVE  flash[x] = before.cells[x]
    BY <1>1, <2>1 DEF Progress, Settled, KeptCells
  <2>2. ASSUME ~InLoop(call), call.k = 2, NEW x \in RangeOf(call), x < call.offset + call.p + 0
        PROVE  flash[x] = call.data[x - call.offset + 1]
    BY <1>1, <2>2 DEF Progress, Verified
  <2> QED  BY <2>1, <2>2 DEF VerifiedTo
<1> QED  BY <1>2, <1>3

LEMMA CallIsAlike == ASSUME CallType PROVE Alike(call)
BY DEF CallType, Alike

LEMMA NoBytesKeepsFlash == ASSUME FlashInv, NoBytes PROVE FlashInv'
<1>1. /\ Calling /\ doing = Nothing /\ UNCHANGED <<flash, doing, before>> /\ call' = Advance(call, 0)
      /\ call.pc # "wait"
  BY Zenon DEF NoBytes, Calling, FlashInv, ChipInv
<1>2. Alike(call) /\ call.mism \in Nat
  BY <1>1, CallIsAlike DEF FlashInv, CallType
<1>3. call.mism = 0 => ReadTo(0, call.keep) /\ VerifiedTo(0)
  BY <1>1, ProgressSoFar DEF FlashInv
<1> QED  BY <1>1, <1>2, <1>3, AdvanceKeepsFlash

\* Writing claims nothing new.
LEMMA wait_idleKeepsFlash == ASSUME FlashInv, wait_idle PROVE FlashInv'
<1> DEFINE n == IF CurOp.op = "erase" THEN SECTOR ELSE PageLen(CurOp.a + call.p, CurOp.len - call.p)
<1>1. /\ Calling /\ doing = Nothing /\ UNCHANGED <<flash, doing, before>> /\ call' = Advance(call, n)
      /\ call.pc = "wait"
  BY DEF wait_idle, Calling
<1>2. Alike(call) /\ call.mism \in Nat /\ CallType
  BY <1>1, CallIsAlike DEF FlashInv, CallType
<1>3. /\ InLoop(call) => call.k \in {3, 4, 5} /\ (call.k = 3 => CurOp.op = "erase")
      /\ ~InLoop(call) => call.k = 1
  <2>1. CurOp.op \in {"erase", "program"}
    BY <1>1, <1>2 DEF CallType
  <2> QED  BY Zenon, <1>1, <1>2, <2>1, CurOpIs
<1>4. n \in Nat /\ (call.k = 3 => n = SECTOR)
  <2>1. CASE CurOp.op = "erase"
    BY <2>1, Sizes
  <2>2. CASE CurOp.op # "erase"
    <3>0. call.p < CurOp.len
      BY <1>1, <1>2 DEF CallType
    <3>1. CurOp.a + call.p \in Nat /\ CurOp.len - call.p \in Nat
      BY SMTT(30), Z3T(30), <1>1, <1>2, <3>0, CallNumbers
    <3>2. (CurOp.a + call.p) % PAGE \in 0..(PAGE - 1)
      BY <3>1, Sizes, DivMod
    <3>3. PageLen(CurOp.a + call.p, CurOp.len - call.p) \in Nat
      BY <3>1, <3>2, Sizes, MinOfTwo DEF PageLen
    <3>4. call.k # 3
      BY <1>3, <2>2
    <3> QED  BY <2>2, <3>3, <3>4
  <2> QED  BY <2>1, <2>2
<1> HIDE DEF n
<1>5. call.mism = 0 => ReadTo(n, call.keep) /\ VerifiedTo(n)
  <2> SUFFICES ASSUME call.mism = 0 PROVE ReadTo(n, call.keep) /\ VerifiedTo(n)
    OBVIOUS
  <2>1. Progress
    BY <1>1 DEF FlashInv
  <2>2. ReadTo(n, call.keep)
    <3>1. ASSUME InLoop(call), NEW x \in KeptCells
          PROVE  x \in DOMAIN call.keep /\ call.keep[x] = before.cells[x]
      <4>1. call.k >= 3
        BY <1>3, <3>1
      <4> QED  BY <2>1, <3>1, <4>1 DEF Progress, ReadBack, KeptCells
    <3> QED  BY <3>1 DEF ReadTo
  <2>3. VerifiedTo(n)
    BY <1>3 DEF VerifiedTo
  <2> QED  BY <2>2, <2>3
<1> QED  BY <1>1, <1>2, <1>4, <1>5, AdvanceKeepsFlash

\* A read command continues where the last one ended, inside the operation.
LEMMA ChunkIs ==
  ASSUME CallType, Calling, call.p < CurOp.len
  PROVE  /\ ChunkLen \in Nat \ {0} /\ ChunkLen <= CurOp.len - call.p
         /\ Chunk = (CurOp.a + call.p)..(CurOp.a + call.p + ChunkLen - 1)
<1>1. CurOp.len - call.p \in Nat \ {0} /\ CHUNK \in Nat \ {0}
  BY CallNumbers, Sizes
<1>2. ChunkLen = IF CurOp.len - call.p <= CHUNK THEN CurOp.len - call.p ELSE CHUNK
  BY <1>1, MinOfTwo DEF ChunkLen
<1> QED  BY <1>1, <1>2 DEF Chunk

LEMMA AtOp ==
  ASSUME FlashInv, NEW kinds, At(kinds)
  PROVE  /\ Calling /\ doing = Nothing /\ call.pc # "wait" /\ call.p < CurOp.len
         /\ CurOp.op \in kinds
<1>1. Calling /\ doing = Nothing /\ call.pc = "op" /\ CurOp.op \in kinds /\ CurOp.len > 0
  BY DEF At, Calling, FlashInv, ChipInv
<1>2. call.p < CurOp.len \/ call.p = 0
  BY <1>1 DEF FlashInv, CallType
<1>3. CurOp.len \in Nat
  BY <1>1, CallNumbers DEF FlashInv
<1> QED  BY <1>1, <1>2, <1>3

LEMMA ReadChunkKeepsFlash == ASSUME FlashInv, ReadChunk PROVE FlashInv'
<1> DEFINE keep == [x \in DOMAIN call.keep \cup Chunk |->
                      IF x \in Chunk THEN flash[x] ELSE call.keep[x]]
           c == [call EXCEPT !.keep = keep]
           n == ChunkLen
<1>1. /\ Calling /\ doing = Nothing /\ call.pc # "wait" /\ call.p < CurOp.len /\ CurOp.op = "read"
      /\ CallType
  <2>1. CurOp.op \in {"read"} /\ Calling /\ doing = Nothing /\ call.pc # "wait" /\ call.p < CurOp.len
    BY AtOp DEF ReadChunk
  <2> QED  BY <2>1 DEF FlashInv
<1>2. UNCHANGED <<flash, doing, before>> /\ call' = Advance(c, n)
  BY DEF ReadChunk, CallType, IsCall
<1>3. Alike(c) /\ c.keep = keep /\ c.mism = call.mism /\ call.mism \in Nat
  <2> HIDE DEF keep
  <2>1. IsCall(call) /\ call.mism \in Nat
    BY <1>1 DEF CallType
  <2> QED  BY <2>1 DEF Alike, IsCall
<1>4. InLoop(call) /\ call.k \in {1, 2}
  BY <1>1, CurOpIs
<1>5. n \in Nat /\ Chunk = (CurOp.a + call.p)..(CurOp.a + call.p + n - 1)
  BY <1>1, ChunkIs
<1> HIDE DEF n, c, keep
<1>6. ASSUME call.mism = 0 PROVE ReadTo(n, keep) /\ VerifiedTo(n)
  <2>1. Progress
    BY <1>1, <1>6 DEF FlashInv
  <2>2. ASSUME NEW x \in KeptCells,
               \/ call.k = 1 /\ x < call.a + call.p + n
               \/ call.k = 2 /\ (x < call.offset \/ x < End(call) + call.p + n)
        PROVE  x \in DOMAIN keep /\ keep[x] = before.cells[x]
    <3>1. x \in Addr \ RangeOf(call) /\ x \in Int
      BY DEF KeptCells, Addr
    <3>2. flash[x] = before.cells[x]
      BY <1>4, <2>1, <3>1 DEF Progress, Settled
    <3>3. CASE x \in Chunk
      BY <3>2, <3>3 DEF keep
    <3>4. CASE x \notin Chunk
      <4>1. ReadBack(x)
        <5>1. CASE call.k = 1
          <6>1. CurOp.a = call.a
            BY <1>1, <1>4, <5>1, LoopOp
          <6>2. x < call.a + call.p
            BY SMTT(30), Z3T(30), <1>1, <1>5, <2>2, <3>1, <3>4, <5>1, <6>1, CallNumbers
          <6> QED  BY <5>1, <6>2 DEF ReadBack
        <5>2. CASE call.k = 2
          <6>1. CurOp.a = End(call)
            BY <1>1, <1>4, <5>2, LoopOp
          <6>2. x < call.offset \/ x < End(call) + call.p
            <7>1. x \notin (End(call) + call.p)..(End(call) + call.p + n - 1)
              BY <1>5, <3>4, <6>1
            <7>2. x < call.offset \/ x < End(call) + call.p + n
              BY <2>2, <5>2
            <7>3. End(call) \in Nat /\ call.p \in Nat
              BY <1>1, CallNumbers
            <7> QED  BY <1>5, <3>1, <7>1, <7>2, <7>3
          <6> QED  BY <5>2, <6>2 DEF ReadBack
        <5> QED  BY <1>4, <5>1, <5>2
      <4>2. x \in DOMAIN call.keep /\ call.keep[x] = before.cells[x]
        BY <1>4, <2>1, <4>1 DEF Progress, KeptCells
      <4> QED  BY <3>4, <4>2 DEF keep
    <3> QED  BY <3>3, <3>4
  <2>3. ReadTo(n, keep)
    BY <1>4, <2>2 DEF ReadTo
  <2>4. VerifiedTo(n)
    BY <1>4 DEF VerifiedTo
  <2> QED  BY <2>3, <2>4
<1>7. call.k # 3
  BY <1>4
<1> QED  BY <1>1, <1>2, <1>3, <1>5, <1>6, <1>7, AdvanceKeepsFlash

\* A count of mismatches that stays zero means that none was found.
LEMMA NoneDiffers ==
  ASSUME NEW lo \in Int, NEW hi \in Int, NEW D \in SUBSET (lo..hi), NEW m \in Nat
  PROVE  m + Cardinality(D) \in Nat /\ (m + Cardinality(D) = 0 => m = 0 /\ D = {})
<1>1. IsFiniteSet(lo..hi)
  BY FS_Interval
<1>2. IsFiniteSet(D)
  BY Zenon, <1>1, FS_Subset
<1>3. Cardinality(D) \in Nat /\ (Cardinality(D) = 0 <=> D = {})
  BY Zenon, <1>2, FS_CardinalityType, FS_EmptySet
<1> QED  BY <1>3

LEMMA VerifyChunkKeepsFlash == ASSUME FlashInv, VerifyChunk PROVE FlashInv'
<1> DEFINE D == {x \in Chunk : flash[x] # Expected(x)}
           c == [call EXCEPT !.mism = call.mism + Cardinality(D)]
           n == ChunkLen
<1>1. /\ Calling /\ doing = Nothing /\ call.pc # "wait" /\ call.p < CurOp.len /\ CurOp.op = "verify"
      /\ CallType
  <2>1. CurOp.op \in {"verify"} /\ Calling /\ doing = Nothing /\ call.pc # "wait" /\ call.p < CurOp.len
    BY AtOp DEF VerifyChunk
  <2> QED  BY <2>1 DEF FlashInv
<1>2. UNCHANGED <<flash, doing, before>> /\ call' = Advance(c, n)
  BY DEF VerifyChunk
<1>3. n \in Nat /\ Chunk = (CurOp.a + call.p)..(CurOp.a + call.p + n - 1)
  BY <1>1, ChunkIs
<1>4. IsCall(call) /\ call.mism \in Nat
  BY <1>1 DEF CallType
<1>5. /\ call.mism + Cardinality(D) \in Nat
      /\ call.mism + Cardinality(D) = 0 => call.mism = 0 /\ D = {}
  <2>1. CurOp.a + call.p \in Int /\ CurOp.a + call.p + n - 1 \in Int
    BY <1>1, <1>3, CallNumbers
  <2>2. D \in SUBSET ((CurOp.a + call.p)..(CurOp.a + call.p + n - 1))
    BY <1>3
  <2> HIDE DEF D, n
  <2> QED  BY Zenon, <1>4, <2>1, <2>2, NoneDiffers
<1>6. Alike(c) /\ c.keep = call.keep /\ c.mism = call.mism + Cardinality(D)
  <2> HIDE DEF D
  <2> QED  BY <1>4 DEF Alike, IsCall
<1>7. /\ InLoop(call) => call.k \in {6, 7} /\ CurOp.from = "keep"
      /\ ~InLoop(call) => call.k = 2 /\ CurOp.from = "data" /\ CurOp.a = call.offset
  BY <1>1, CurOpIs
<1> HIDE DEF n, c
<1>8. ASSUME call.mism = 0, D = {} PROVE ReadTo(n, call.keep) /\ VerifiedTo(n)
  <2>1. Progress
    BY <1>1, <1>8 DEF FlashInv
  <2>2. \A x \in Chunk : flash[x] = Expected(x)
    BY <1>8
  <2>3. ASSUME InLoop(call), NEW x \in KeptCells
        PROVE  x \in DOMAIN call.keep /\ call.keep[x] = before.cells[x]
    <3>1. call.k >= 3
      BY <1>7, <2>3
    <3> QED  BY <2>1, <2>3, <3>1 DEF Progress, ReadBack, KeptCells
  <2>4. ReadTo(n, call.keep)
    BY <2>3 DEF ReadTo
  <2>5. ASSUME InLoop(call), NEW x \in KeptCells,
               \/ call.k = 6 /\ x < call.a + call.p + n
               \/ call.k = 7 /\ (x < call.offset \/ x < End(call) + call.p + n)
        PROVE  flash[x] = before.cells[x]
    <3>0. x \in Int /\ x \in Addr \ RangeOf(call)
      BY DEF KeptCells, Addr
    <3>1. CASE x \in Chunk
      <4>1. Expected(x) = call.keep[x]
        BY <1>7, <2>5 DEF Expected
      <4> QED  BY <2>2, <2>3, <2>5, <3>1, <4>1
    <3>2. CASE x \notin Chunk
      <4>0. call.a \in Nat /\ End(call) \in Nat /\ call.p \in Nat
        BY <1>1, CallNumbers
      <4>1. Settled(x)
        <5>1. CASE call.k = 6
          <6>1. x \notin (call.a + call.p)..(call.a + call.p + n - 1)
            BY <1>1, <1>3, <2>5, <3>2, <5>1, LoopOp
          <6>2. x < call.a + call.p + n
            BY <2>5, <5>1
          <6>3. x < call.a + call.p
            BY <1>3, <3>0, <4>0, <6>1, <6>2
          <6> QED  BY <5>1, <6>3 DEF Settled
        <5>2. CASE call.k = 7
          <6>1. x \notin (End(call) + call.p)..(End(call) + call.p + n - 1)
            BY <1>1, <1>3, <2>5, <3>2, <5>2, LoopOp
          <6>2. x < call.offset \/ x < End(call) + call.p + n
            BY <2>5, <5>2
          <6>3. x < call.offset \/ x < End(call) + call.p
            BY <1>3, <3>0, <4>0, <6>1, <6>2
          <6> QED  BY <5>2, <6>3 DEF Settled
        <5> QED  BY <2>5, <5>1, <5>2
      <4> QED  BY <2>1, <3>0, <4>1 DEF Progress
    <3> QED  BY <3>1, <3>2
  <2>6. ASSUME ~InLoop(call), NEW x \in RangeOf(call), x < call.offset + call.p + n
        PROVE  flash[x] = call.data[x - call.offset + 1]
    <3>1. CASE x \in Chunk
      BY <1>7, <2>2, <2>6, <3>1 DEF Expected
    <3>2. CASE x \notin Chunk
      <4>0. call.offset \in Nat /\ call.p \in Nat /\ x \in Int
        BY <1>1, CallNumbers DEF RangeOf
      <4>1. x \notin (call.offset + call.p)..(call.offset + call.p + n - 1)
        BY <1>3, <1>7, <2>6, <3>2
      <4>2. x < call.offset + call.p
        BY <1>3, <2>6, <4>0, <4>1
      <4> QED  BY <1>7, <2>1, <2>6, <4>2 DEF Progress, Verified
    <3> QED  BY <3>1, <3>2
  <2>7. VerifiedTo(n)
    BY <2>5, <2>6 DEF VerifiedTo
  <2> QED  BY <2>4, <2>7
<1>9. call.k = 3 => call.pc # "wait"
  BY <1>1
<1> HIDE DEF D
<1>10. c.mism \in Nat /\ (c.mism = 0 => call.mism = 0 /\ ReadTo(n, c.keep) /\ VerifiedTo(n))
  BY <1>5, <1>6, <1>8
<1> QED  BY <1>1, <1>2, <1>3, <1>6, <1>9, <1>10, AdvanceKeepsFlash

\* What an operation may change is in the sectors of the call.
LEMMA OpCellsInSectors ==
  ASSUME CallType, Calling, CurOp.op \in {"erase", "program"}
  PROVE  Addr \cap OpCells \subseteq Sectors(before)
<1> SUFFICES ASSUME NEW x \in Addr, x \in OpCells PROVE x \in Sectors(before)
  OBVIOUS
<1>0. /\ RangeOf(before) = call.offset..(End(call) - 1) /\ x \in Nat
      /\ call.offset \in Nat /\ End(call) \in Nat /\ call.a \in Nat /\ call.offset < End(call)
      /\ call.a + SECTOR > call.offset /\ SECTOR \in Nat \ {0} /\ call.a % SECTOR = 0
  <2>1. before.offset = call.offset /\ before.data = call.data /\ call.a % SECTOR = 0
    BY DEF CallType
  <2>2. RangeOf(before) = call.offset..(End(call) - 1)
    <3>1. RangeOf(before) = before.offset..(before.offset + Len(before.data) - 1)
      BY DEF RangeOf
    <3>2. End(call) = before.offset + Len(before.data)
      BY <2>1 DEF End
    <3>3. call.offset \in Nat /\ Len(call.data) \in Nat /\ End(call) \in Nat
      BY CallNumbers
    <3> QED  BY <2>1, <3>1, <3>2, <3>3
  <2>3. x \in Nat
    BY DEF Addr
  <2> QED  BY <2>1, <2>2, <2>3, CallNumbers
<1>1. CASE InLoop(call)
  <2>0. call.a < End(call)
    BY <1>1 DEF InLoop
  <2>1. x \in call.a..(call.a + SECTOR - 1)
    <3>1. CASE call.k = 3
      BY <1>1, <3>1, CurOpIs DEF OpCells
    <3>2. CASE call.k = 4
      <4>1. x \in call.a..(call.a + CurOp.len - 1) /\ CurOp.len \in Nat
        BY <1>1, <3>2, CurOpIs DEF OpCells
      <4>2. /\ call.a < call.offset => call.a + CurOp.len = call.offset
            /\ call.a >= call.offset => CurOp.len = 0
        BY <1>1, <3>2, LoopOp
      <4> QED  BY SMTT(30), Z3T(30), <1>0, <4>1, <4>2
    <3>3. CASE call.k = 5
      <4>1. x \in End(call)..(End(call) + CurOp.len - 1) /\ CurOp.len \in Nat
        BY <1>1, <3>3, CurOpIs DEF OpCells
      <4>2. /\ call.a + SECTOR > End(call) => End(call) + CurOp.len = call.a + SECTOR
            /\ call.a + SECTOR <= End(call) => CurOp.len = 0
        BY <1>1, <3>3, LoopOp
      <4> QED  BY SMTT(30), Z3T(30), <1>0, <2>0, <4>1, <4>2
    <3> QED  BY <1>1, <3>1, <3>2, <3>3, CurOpIs
  <2> DEFINE y == IF call.a < call.offset THEN call.offset ELSE call.a
  <2>2. y \in RangeOf(before) /\ y \in call.a..(call.a + SECTOR - 1) /\ y \in Nat
    BY <1>0, <2>0
  <2> HIDE DEF y
  <2>3. x \div SECTOR = call.a \div SECTOR /\ y \div SECTOR = call.a \div SECTOR
    BY Zenon, <1>0, <2>1, <2>2, SectorCells
  <2>4. y \div SECTOR = x \div SECTOR
    BY <2>3
  <2> QED  BY <2>2, <2>4 DEF Sectors
<1>2. CASE ~InLoop(call)
  <2>1. CurOp.a = call.offset /\ CurOp.len = Len(call.data) /\ CurOp.op # "erase"
    BY <1>2, CurOpIs
  <2>2. x \in call.offset..(call.offset + Len(call.data) - 1)
    BY <2>1 DEF OpCells
  <2>3. x \in RangeOf(before)
    BY <1>0, <2>2 DEF End
  <2> QED  BY <2>3 DEF Sectors
<1> QED  BY <1>1, <1>2

\* A command changes cells of its operation only: it does not wrap in its page.
LEMMA CommandInOp ==
  ASSUME CallType, Calling, CurOp.op \in {"erase", "program"}, call.p < CurOp.len
  PROVE  Addr \cap DOMAIN CommandCells \subseteq OpCells
<1> DEFINE a == CurOp.a + call.p
           n == PageLen(a, CurOp.len - call.p)
           at(i) == a - (a % PAGE) + ((a + i) % PAGE)
<1>0. /\ CurOp.a \in Nat /\ call.p \in Nat /\ CurOp.len \in Nat /\ a \in Nat
      /\ call.a \in Nat /\ SECTOR \in Nat \ {0} /\ PAGE \in Nat \ {0}
  BY CallNumbers, Sizes
<1>1. CASE CurOp.op = "erase"
  <2>1. InLoop(call) /\ call.k = 3
    BY Zenon, <1>1, CurOpIs
  <2>2. CurOp.a = call.a /\ CurOp.len = SECTOR /\ call.a % SECTOR = 0
    BY <2>1, CurOpIs DEF CallType
  <2>3. DOMAIN CommandCells = {y \in Addr : y \div SECTOR = a \div SECTOR}
    BY <1>1 DEF CommandCells
  <2>4. a \in call.a..(call.a + SECTOR - 1)
    BY <1>0, <2>2
  <2>5. a \div SECTOR = call.a \div SECTOR
    BY ZenonT(30), <1>0, <2>2, <2>4, SectorCells
  <2>6. ASSUME NEW x \in Addr, x \div SECTOR = a \div SECTOR PROVE x \in OpCells
    <3>1. x \in Nat /\ x \div SECTOR = call.a \div SECTOR
      BY <2>5, <2>6 DEF Addr
    <3>2. x \in call.a..(call.a + SECTOR - 1)
      BY <1>0, <2>2, <3>1, SectorCells
    <3> QED  BY <1>1, <3>2 DEF OpCells
  <2> QED  BY <2>3, <2>6
<1>2. CASE CurOp.op = "program"
  <2>1. DOMAIN CommandCells = {at(i) : i \in 0..(n - 1)}
    BY <1>2 DEF CommandCells
  <2>2. a % PAGE \in 0..(PAGE - 1) /\ CurOp.len - call.p \in Nat
    BY SMTT(30), Z3T(30), <1>0, DivMod
  <2>3. n \in Nat /\ n <= CurOp.len - call.p /\ n <= PAGE - (a % PAGE)
    <3> HIDE DEF a
    <3> QED  BY <1>0, <2>2, MinOfTwo DEF PageLen
  <2>4. ASSUME NEW i \in 0..(n - 1) PROVE at(i) \in OpCells
    <3> HIDE DEF n
    <3>1. i \in Nat /\ (a % PAGE) + i < PAGE /\ i < CurOp.len - call.p
      BY <2>2, <2>3, <1>0
    <3>2. at(i) = a + i
      <4> HIDE DEF a
      <4> QED  BY ZenonT(30), <1>0, <3>1, NoPageWrap
    <3>3. a + i \in CurOp.a..(CurOp.a + CurOp.len - 1)
      BY <1>0, <3>1
    <3> QED  BY <1>2, <3>2, <3>3 DEF OpCells
  <2> QED  BY <2>1, <2>4
<1> QED  BY <1>1, <1>2

\* A step that only changes where in a command the call is.
LEMMA PcKeepsFlash ==
  ASSUME FlashInv, Calling, NEW X \in {"op", "command", "wait", "reload"},
         call' = [call EXCEPT !.pc = X], UNCHANGED <<flash, before>>,
         X = "op" => call.pc = "warmup",
         X \in {"command", "wait"} => CurOp.op \in {"erase", "program"} /\ call.p < CurOp.len,
         X = "reload" => call.pc = "done" /\ call.by = "boot" /\ call.mism = 0,
         call.pc # "wait",
         X # "wait" => doing' = Nothing,
         X = "wait" => Addr \cap DOMAIN doing'.cells \subseteq OpCells
  PROVE  FlashInv'
<1>1. /\ IsCall(call') /\ call'.pc = X /\ call'.by = call.by /\ call'.boot = call.boot
      /\ call'.offset = call.offset /\ call'.data = call.data /\ call'.a = call.a
      /\ call'.k = call.k /\ call'.p = call.p /\ call'.keep = call.keep /\ call'.mism = call.mism
  <2>1. IsCall(call)
    BY DEF FlashInv, CallType
  <2> QED  BY <2>1 DEF IsCall
<1>2. /\ End(call)' = End(call) /\ InLoop(call)' = InLoop(call) /\ Ops(call)' = Ops(call)
      /\ CurOp' = CurOp
  BY <1>1, SameOps
<1>3. CallType'
  <2>1. CallType
    BY DEF FlashInv
  <2>2. /\ call.offset \in Nat /\ call.data \in Seq(Byte) /\ Len(call.data) > 0
        /\ End(call) <= FLASH_SZ /\ before.offset = call.offset /\ before.data = call.data
        /\ call.a \in Nat /\ call.a % SECTOR = 0 /\ call.a >= call.offset - (call.offset % SECTOR)
        /\ call.k \in 1..Len(Ops(call)) /\ call.p \in Nat /\ call.mism \in Nat
        /\ call.by = "boot" => call.offset = 0 /\ call.data \in Files
    BY <2>1 DEF CallType
  <2>3. X = "op" => call.p = 0
    BY <2>1 DEF CallType
  <2>4. X = "reload" => ~InLoop(call)
    BY <2>1 DEF CallType
  <2> QED  BY <1>1, <1>2, <2>2, <2>3, <2>4 DEF CallType
<1>4. ChipInv'
  <2>1. OpCells' = OpCells
    BY <1>1, <1>2 DEF OpCells
  <2>2. Sectors(before)' = Sectors(before)
    BY DEF Sectors, RangeOf
  <2>3. X = "wait" => Addr \cap OpCells \subseteq Sectors(before)
    BY OpCellsInSectors DEF FlashInv
  <2>4. X # "wait" => Addr \cap DOMAIN doing'.cells = {}
    BY DEF Nothing
  <2>5. Addr \cap DOMAIN doing'.cells \subseteq Sectors(before)
    BY <2>3, <2>4
  <2> QED  BY <1>1, <2>1, <2>2, <2>5 DEF ChipInv
<1>5. DamageConfined' /\ AnswerInv'
  BY <1>1 DEF FlashInv, DamageConfined, Sectors, RangeOf, AnswerInv, Calling
<1>6. ASSUME call.mism = 0 PROVE Progress'
  <2>1. Progress
    BY <1>6 DEF FlashInv
  <2>2. RangeOf(call)' = RangeOf(call)
    BY <1>1 DEF RangeOf
  <2>3. \A x : Settled(x)' => Settled(x)
    BY <1>1, <1>2 DEF Settled
  <2>4. \A x : ReadBack(x)' => ReadBack(x)
    BY <1>1, <1>2 DEF ReadBack
  <2>5. \A x : Verified(x)' => Verified(x)
    BY <1>1, <1>2 DEF Verified
  <2> QED  BY <1>1, <1>2, <2>1, <2>2, <2>3, <2>4, <2>5 DEF Progress
<1> QED  BY <1>1, <1>3, <1>4, <1>5, <1>6 DEF FlashInv

LEMMA CommandStepsKeepFlash == ASSUME FlashInv, Warmup \/ Wren \/ Command PROVE FlashInv'
<1>1. CASE Warmup
  <2>1. Calling /\ doing = Nothing
    BY <1>1 DEF Warmup, Calling, FlashInv, ChipInv
  <2> QED  BY <1>1, <2>1, PcKeepsFlash DEF Warmup
<1>2. CASE Wren
  <2>1. /\ Calling /\ doing = Nothing /\ call.pc # "wait" /\ call.p < CurOp.len
        /\ CurOp.op \in {"erase", "program"}
    BY <1>2, AtOp DEF Wren
  <2>2. call' = [call EXCEPT !.pc = "command"] /\ UNCHANGED <<flash, before, doing>>
    BY <1>2 DEF Wren
  <2> QED  BY <2>1, <2>2, PcKeepsFlash
<1>3. CASE Command
  <2>1. /\ Calling /\ doing = Nothing /\ call.pc = "command" /\ call.p < CurOp.len
        /\ CurOp.op \in {"erase", "program"} /\ CallType
    BY <1>3 DEF Command, Calling, FlashInv, ChipInv, CallType
  <2>2. call' = [call EXCEPT !.pc = "wait"] /\ UNCHANGED <<flash, before>>
    BY <1>3 DEF Command
  <2>3. doing' = Nothing \/ doing' = [cells |-> CommandCells]
    BY <1>3, <2>1 DEF Command
  <2>4. Addr \cap DOMAIN doing'.cells \subseteq OpCells
    <3>1. CASE doing' = Nothing
      BY <3>1 DEF Nothing
    <3>2. CASE doing' = [cells |-> CommandCells]
      <4>1. doing'.cells = CommandCells
        BY Zenon, <3>2
      <4> QED  BY <2>1, <4>1, CommandInOp
    <3> QED  BY <2>3, <3>1, <3>2
  <2> QED  BY <2>1, <2>2, <2>4, PcKeepsFlash
<1> QED  BY <1>1, <1>2, <1>3

\* The chip changes only cells of the command it works on.
Spared == \A x \in Addr : x \notin DOMAIN doing.cells => flash'[x] = flash[x]

LEMMA ChipSpares ==
  /\ Chip => Spared /\ doing # Nothing /\ doing' = Nothing /\ UNCHANGED <<call, before, answer, image>>
  /\ PowerFails => Spared /\ doing' = Nothing
<1>1. ASSUME NEW cells, DOMAIN cells \subseteq DOMAIN doing.cells, flash' = Carried(cells) PROVE Spared
  BY <1>1 DEF Carried, Spared
<1>2. ChipDone => Spared
  BY <1>1 DEF ChipDone
<1>3. ChipFault => Spared
  <2> SUFFICES ASSUME ChipFault PROVE Spared
    OBVIOUS
  <2>1. PICK x \in DOMAIN doing.cells :
               flash' = Carried([y \in DOMAIN doing.cells \ {x} |-> doing.cells[y]])
    BY DEF ChipFault
  <2> QED  BY <1>1, <2>1
<1>4. PowerFails => Spared
  <2> SUFFICES ASSUME PowerFails PROVE Spared
    OBVIOUS
  <2>1. PICK done \in SUBSET DOMAIN doing.cells : flash' = Carried([x \in done |-> doing.cells[x]])
    BY DEF PowerFails
  <2> QED  BY <1>1, <2>1
<1> QED  BY Zenon, <1>2, <1>3, <1>4 DEF Chip, ChipDone, ChipFault, PowerFails

LEMMA SparedConfined ==
  ASSUME FlashInv, Spared, UNCHANGED before PROVE DamageConfined'
<1>1. Sectors(before)' = Sectors(before)
  BY DEF Sectors, RangeOf
<1>2. ASSUME NEW x \in Addr \ Sectors(before) PROVE flash'[x] = before.cells[x]
  <2>1. x \notin DOMAIN doing.cells
    BY DEF FlashInv, ChipInv
  <2> QED  BY <2>1 DEF Spared, FlashInv, DamageConfined
<1> QED  BY <1>1, <1>2 DEF DamageConfined

LEMMA ChipKeepsFlash == ASSUME FlashInv, Chip PROVE FlashInv'
<1>1. Spared /\ doing # Nothing /\ doing' = Nothing /\ UNCHANGED <<call, before, answer, image>>
  BY ChipSpares
<1>2. call.pc \in {"idle", "wait"} /\ CallType
  BY Zenon, <1>1 DEF FlashInv, ChipInv
<1>3. CallType' /\ (Calling' <=> Calling)
  BY Zenon, <1>1, <1>2 DEF CallType, End, InLoop, Ops, CurOp, Calling
<1>4. ChipInv'
  BY <1>1 DEF ChipInv, Nothing
<1>5. DamageConfined'
  BY <1>1, SparedConfined
<1>6. AnswerInv'
  BY Zenon, <1>1, <1>3 DEF FlashInv, AnswerInv
<1>7. ASSUME Calling, call.mism = 0 PROVE Progress'
  <2>0. Progress /\ call.pc = "wait"
    BY Zenon, <1>2, <1>7 DEF FlashInv, Calling
  <2>1. CurOp.op \in {"erase", "program"} /\ Addr \cap DOMAIN doing.cells \subseteq OpCells
    BY <1>2, <2>0 DEF CallType, FlashInv, ChipInv
  <2>2. /\ call.offset \in Nat /\ End(call) \in Nat /\ call.a \in Nat /\ SECTOR \in Nat \ {0}
        /\ call.a + SECTOR > call.offset /\ CurOp.len \in Nat /\ FLASH_SZ \in Nat
        /\ RangeOf(call) = call.offset..(End(call) - 1) /\ End(call) = call.offset + Len(call.data)
        /\ Len(call.data) \in Nat
    BY <1>2, <1>7, CallNumbers DEF RangeOf
  <2>3. ASSUME NEW x \in Addr \ RangeOf(call), Settled(x) PROVE x \notin OpCells
    <3>0. x \in Int /\ ~(x >= call.offset /\ x < End(call))
      BY <2>2 DEF Addr
    <3>1. CASE InLoop(call)
      <4>0. call.a < End(call) /\ call.k \in {3, 4, 5}
        BY <1>2, <1>7, <2>1, <3>1, CurOpIs DEF InLoop
      <4>1. x < call.a \/ x >= call.a + SECTOR
        BY SMTT(30), Z3T(30), <2>0, <2>3, <3>1, <4>0 DEF Settled
      <4>2. CASE call.k = 3
        BY <1>2, <1>7, <2>2, <3>0, <3>1, <4>1, <4>2, CurOpIs DEF OpCells
      <4>3. CASE call.k = 4
        <5>1. OpCells = call.a..(call.a + CurOp.len - 1)
          BY <1>2, <1>7, <3>1, <4>3, CurOpIs DEF OpCells
        <5>2. /\ call.a < call.offset => call.a + CurOp.len = call.offset
              /\ call.a >= call.offset => CurOp.len = 0
          BY <1>2, <1>7, <3>1, <4>3, LoopOp
        <5>3. CurOp.len <= SECTOR
          BY <2>2, <5>2
        <5> QED  BY <2>2, <3>0, <4>1, <5>1, <5>3
      <4>4. CASE call.k = 5
        <5>1. OpCells = End(call)..(End(call) + CurOp.len - 1)
          BY Zenon, <1>2, <1>7, <3>1, <4>4, CurOpIs DEF OpCells
        <5>2. /\ call.a + SECTOR > End(call) => End(call) + CurOp.len = call.a + SECTOR
              /\ call.a + SECTOR <= End(call) => CurOp.len = 0
          BY <1>2, <1>7, <3>1, <4>4, LoopOp
        <5>3. End(call) + CurOp.len <= call.a + SECTOR \/ CurOp.len = 0
          BY <2>2, <5>2
        <5> QED  BY SMTT(30), Z3T(30), <2>2, <3>0, <4>0, <4>1, <5>1, <5>3
      <4> QED  BY Zenon, <4>0, <4>2, <4>3, <4>4
    <3>2. CASE ~InLoop(call)
      <4>1. OpCells = call.offset..(call.offset + Len(call.data) - 1)
        BY <1>2, <1>7, <2>1, <3>2, CurOpIs DEF OpCells
      <4> QED  BY SMTT(30), Z3T(30), <2>2, <3>0, <4>1
    <3> QED  BY <3>1, <3>2
  <2>4. ASSUME NEW x \in Addr \ RangeOf(call), Settled(x) PROVE flash'[x] = before.cells[x]
    <3>1. x \notin DOMAIN doing.cells
      BY Zenon, <2>1, <2>3, <2>4
    <3>2. flash[x] = before.cells[x]
      BY <2>0, <2>4 DEF Progress
    <3> QED  BY <1>1, <3>1, <3>2 DEF Spared
  <2>5. ASSUME ~InLoop(call), NEW x \in RangeOf(call), Verified(x) PROVE FALSE
    <3>1. call.k = 1
      BY <1>2, <1>7, <2>1, <2>5, CurOpIs
    <3> QED  BY SMTT(30), Z3T(30), <2>0, <2>5, <3>1 DEF Verified
  <2>6. /\ InLoop(call)' = InLoop(call) /\ RangeOf(call)' = RangeOf(call)
        /\ \A x : /\ Settled(x)' <=> Settled(x)
                  /\ ReadBack(x)' <=> ReadBack(x)
                  /\ Verified(x)' <=> Verified(x)
    BY <1>1 DEF InLoop, End, RangeOf, Settled, ReadBack, Verified
  <2> QED  BY <1>1, <2>0, <2>4, <2>5, <2>6 DEF Progress
<1> QED  BY <1>1, <1>3, <1>4, <1>5, <1>6, <1>7 DEF FlashInv

\* A call that ends without success, however it ends.
LEMMA EndKeepsFlash ==
  ASSUME FlashInv, call' = Idle, answer'.code \notin {"verified", "updated"}, UNCHANGED before,
         (doing' = doing /\ UNCHANGED flash) \/ (doing' = Nothing /\ Spared)
  PROVE  FlashInv'
<1>1. IsCall(call') /\ call'.pc = "idle"
  BY Zenon DEF IsCall, Idle
<1>2. CallType' /\ ~Calling'
  BY <1>1 DEF CallType, Calling
<1>3. ChipInv'
  <2>1. Sectors(before)' = Sectors(before)
    BY DEF Sectors, RangeOf
  <2>2. Addr \cap DOMAIN doing'.cells \subseteq Sectors(before)
    BY DEF FlashInv, ChipInv, Nothing
  <2> QED  BY <1>1, <2>1, <2>2 DEF ChipInv
<1>4. DamageConfined'
  <2>1. CASE UNCHANGED flash
    BY <2>1 DEF FlashInv, DamageConfined, Sectors, RangeOf
  <2> QED  BY <2>1, SparedConfined
<1>5. AnswerInv'
  BY DEF AnswerInv
<1> QED  BY <1>2, <1>3, <1>4, <1>5 DEF FlashInv

LEMMA FailuresKeepFlash ==
  ASSUME FlashInv, TxnFails \/ WriterKilled \/ PowerFails PROVE FlashInv'
<1>1. call' = Idle /\ UNCHANGED before
  BY Zenon DEF TxnFails, WriterKilled, PowerFails
<1>2. answer'.code \notin {"verified", "updated"}
  BY DEF TxnFails, WriterKilled, PowerFails, NoAnswer
<1>3. (doing' = doing /\ UNCHANGED flash) \/ (doing' = Nothing /\ Spared)
  BY ChipSpares DEF TxnFails, WriterKilled
<1> QED  BY Zenon, <1>1, <1>2, <1>3, EndKeepsFlash

LEMMA BeginKeepsFlash ==
  ASSUME FlashInv, doing = Nothing, NEW by, NEW boot, NEW offset \in Nat, NEW data \in Files,
         by = "boot" => offset = 0, Begin(by, boot, offset, data)
  PROVE  FlashInv'
<1>0. UNCHANGED <<flash, doing, image>> /\ ~Calling /\ data \in Seq(Byte) /\ Len(data) \in Nat
  BY ImageAssumption DEF Begin, Calling, Byte
<1>1. CASE UNCHANGED <<call, before>> /\ answer'.code = "refused"
  <2>1. CallType' /\ ChipInv' /\ DamageConfined' /\ ~Calling'
    BY Zenon, <1>0, <1>1 DEF FlashInv, CallType, ChipInv, DamageConfined, Sectors, RangeOf, Calling, OpCells,
       CurOp, Ops, InLoop, End
  <2>2. AnswerInv'
    BY <1>1 DEF AnswerInv
  <2> QED  BY Zenon, <2>1, <2>2 DEF FlashInv
<1>2. CASE /\ Len(data) > 0 /\ offset + Len(data) <= FLASH_SZ
           /\ call' = [Idle EXCEPT !.pc = "warmup", !.by = by, !.boot = boot, !.offset = offset,
                                  !.data = data, !.a = offset - (offset % SECTOR)]
           /\ before' = [cells |-> flash, offset |-> offset, data |-> data]
  <2>1. /\ IsCall(call') /\ call'.pc = "warmup" /\ call'.by = by /\ call'.offset = offset
        /\ call'.data = data /\ call'.a = offset - (offset % SECTOR) /\ call'.k = 1 /\ call'.p = 0
        /\ call'.mism = 0
    BY Zenon, <1>2 DEF IsCall, Idle
  <2>2. /\ call'.a \in Nat /\ call'.a % SECTOR = 0 /\ offset % SECTOR \in 0..(SECTOR - 1)
    <3>1. /\ offset - (offset % SECTOR) \in Nat /\ (offset - (offset % SECTOR)) % SECTOR = 0
          /\ offset % SECTOR \in 0..(SECTOR - 1)
      BY ZenonT(30), SectorStart, Sizes
    <3> QED  BY <2>1, <3>1
  <2>3. before'.cells = flash /\ before'.offset = offset /\ before'.data = data
    BY <1>2
  <2>4. End(call)' <= FLASH_SZ
    BY <1>2, <2>1 DEF End
  <2>5. call'.k \in 1..Len(Ops(call'))
    <3> DEFINE n == Len(Ops(call'))
    <3>1. n = 7 \/ n = 2
      BY Zenon, OpTable
    <3>2. call'.k = 1
      BY Zenon, <2>1
    <3> HIDE DEF n
    <3>3. 1 \in 1..n
      BY <3>1
    <3> QED  BY Zenon, <3>2, <3>3 DEF n
  <2>6. call'.a >= call'.offset - (call'.offset % SECTOR)
    BY <2>1, <2>2
  <2>7. CallType'
    BY SMTT(30), Z3T(30), <1>0, <1>2, <2>1, <2>2, <2>3, <2>4, <2>5, <2>6 DEF CallType
  <2>8. ChipInv'
    BY Zenon, <1>0, <2>1 DEF ChipInv, Nothing
  <2>9. DamageConfined'
    BY <1>0, <2>3 DEF DamageConfined
  <2>10. AnswerInv'
    BY Zenon, <2>1 DEF AnswerInv, Calling
  <2>11. Progress'
    <3>1. ASSUME NEW x \in Addr PROVE flash'[x] = before'.cells[x]
      BY <1>0, <2>3
    <3>2. ASSUME NEW x \in call'.a..(call'.a + SECTOR - 1), ReadBack(x)' PROVE FALSE
      BY <2>1, <2>2, <3>2 DEF ReadBack
    <3>3. ASSUME NEW x, Verified(x)', x \in RangeOf(call') PROVE FALSE
      BY <2>1, <3>3 DEF Verified
    <3> QED  BY <3>1, <3>2, <3>3 DEF Progress
  <2> QED  BY <2>7, <2>8, <2>9, <2>10, <2>11 DEF FlashInv
<1> QED  BY <1>1, <1>2 DEF Begin

LEMMA CallersKeepFlash ==
  ASSUME FlashInv,
         \/ \E r \in Requests, f \in Files : flash_write(r, f)
         \/ \E f \in Files, scratch, boot \in BOOLEAN : firmware_update(f, scratch, boot)
  PROVE  FlashInv'
<1>1. ASSUME NEW r \in Requests, NEW f \in Files, flash_write(r, f) PROVE FlashInv'
  <2>1. r % UINT32 \in Nat
    BY Sizes
  <2> QED  BY Zenon, <1>1, <2>1, BeginKeepsFlash DEF flash_write
<1>2. ASSUME NEW f \in Files, NEW scratch \in BOOLEAN, NEW boot \in BOOLEAN,
             firmware_update(f, scratch, boot)
      PROVE  FlashInv'
  <2>1. CASE scratch
    BY <1>2, <2>1, BeginKeepsFlash, Sizes DEF firmware_update
  <2>2. CASE ~scratch
    BY Zenon, <1>2, <2>2, BeginKeepsFlash DEF firmware_update
  <2> QED  BY <2>1, <2>2
<1> QED  BY <1>1, <1>2

\* All of the range verified and nothing else in doubt: the image is written.
LEMMA DoneIsWritten ==
  ASSUME FlashInv, call.pc \in {"done", "reload"}, call.mism = 0
  PROVE  /\ doing = Nothing /\ Calling
         /\ \A x \in Addr : flash[x] = IF x \in RangeOf(call) THEN call.data[x - call.offset + 1]
                                        ELSE before.cells[x]
<1>1. Calling /\ doing = Nothing /\ ~InLoop(call)
  BY DEF Calling, FlashInv, ChipInv, CallType
<1>2. Progress
  BY <1>1 DEF FlashInv
<1> QED  BY Zenon, <1>1, <1>2 DEF Progress, Settled, Verified

\* A success that is reported: the cells are written, and for an update the
\* card runs the image.
LEMMA SuccessKeepsFlash ==
  ASSUME FlashInv, call.pc \in {"done", "reload"}, call.mism = 0, call' = Idle,
         UNCHANGED <<flash, doing, before>>,
         NEW code, Report(code), code = "updated" => image' = call.data
  PROVE  FlashInv'
<1>1. IsCall(call') /\ call'.pc = "idle"
  BY Zenon DEF IsCall, Idle
<1>2. CallType' /\ ~Calling'
  BY Zenon, <1>1 DEF CallType, Calling
<1>3. /\ answer'.code = code /\ answer'.offset = call.offset /\ answer'.data = call.data
  BY DEF Report
<1>4. RangeOf(answer)' = RangeOf(call)
  BY Zenon, <1>3 DEF RangeOf
<1>5. Written(answer)'
  BY Zenon, <1>3, <1>4, DoneIsWritten DEF Written
<1>6. AnswerInv'
  BY Zenon, <1>3, <1>5, DoneIsWritten DEF AnswerInv
<1>7. ChipInv'
  BY SMTT(30), Z3T(30), <1>1, DoneIsWritten DEF ChipInv, Nothing
<1>8. DamageConfined'
  BY DEF FlashInv, DamageConfined, Sectors, RangeOf
<1> QED  BY Zenon, <1>2, <1>6, <1>7, <1>8 DEF FlashInv

LEMMA FinishKeepsFlash == ASSUME FlashInv, Finish PROVE FlashInv'
<1>0. call.pc = "done" /\ UNCHANGED <<flash, doing, before, image>>
  BY Zenon DEF Finish
<1>1. CASE call.mism # 0
  <2>1. call' = Idle /\ answer'.code = "mismatch"
    BY <1>1 DEF Finish, Report
  <2> QED  BY <1>0, <2>1, EndKeepsFlash
<1>2. CASE call.mism = 0 /\ call.boot /\ call.by = "boot"
  <2>1. call' = [call EXCEPT !.pc = "reload"]
    BY <1>2 DEF Finish
  <2>2. Calling /\ doing = Nothing
    BY <1>0, <1>2, DoneIsWritten
  <2> QED  BY <1>0, <1>2, <2>1, <2>2, PcKeepsFlash
<1>3. CASE call.mism = 0 /\ ~(call.boot /\ call.by = "boot")
  <2>1. call' = Idle /\ (Report("not booted") \/ Report("verified"))
    BY Zenon, <1>3 DEF Finish
  <2> QED  BY Zenon, <1>0, <1>3, <2>1, SuccessKeepsFlash
<1> QED  BY <1>1, <1>2, <1>3

\* The card comes up with the image the flash holds from address 0.
LEMMA BootsWritten ==
  ASSUME NEW f \in Files, f # <<>>, NEW cells, \A k \in 1..Len(f) : cells[k - 1] = f[k]
  PROVE  Booted(cells) = f
<1> DEFINE whole == {g \in Files \ {<<>>} : \A k \in DOMAIN g : cells[k - 1] = g[k]}
<1>0. \A g \in Files : Len(g) \in Nat /\ DOMAIN g = 1..Len(g)
  BY ImageAssumption
<1>1. f \in whole
  BY <1>0
<1>2. ASSUME NEW g \in whole PROVE g = f
  <2>1. Len(g) <= Len(f) \/ Len(f) <= Len(g)
    BY <1>0
  <2>2. CASE Len(g) <= Len(f)
    <3>1. \A k \in 1..Len(g) : g[k] = f[k]
      BY <1>0, <2>2
    <3> QED  BY <2>2, <3>1, ImageAssumption
  <2>3. CASE Len(f) <= Len(g)
    <3>1. \A k \in 1..Len(f) : f[k] = g[k]
      BY <1>0, <2>3
    <3> QED  BY <2>3, <3>1, ImageAssumption
  <2> QED  BY <2>1, <2>2, <2>3
<1>3. Booted(cells) = CHOOSE g \in whole : TRUE
  BY <1>1 DEF Booted
<1> HIDE DEF whole
<1> QED  BY <1>1, <1>2, <1>3

LEMMA ReloadKeepsFlash == ASSUME FlashInv, Reload PROVE FlashInv'
<1>1. /\ call.pc = "reload" /\ call' = Idle /\ image' = Booted(flash)
      /\ UNCHANGED <<flash, doing, before>>
  BY DEF Reload
<1>2. /\ call.by = "boot" /\ call.mism = 0 /\ call.offset = 0 /\ call.data \in Files
      /\ Len(call.data) \in Nat \ {0} /\ End(call) <= FLASH_SZ /\ call.data # <<>>
  <2>1. CallType /\ Calling
    BY Zenon, <1>1 DEF FlashInv, Calling
  <2>2. /\ call.offset \in Nat /\ call.data \in Seq(Byte) /\ Len(call.data) > 0
        /\ End(call) <= FLASH_SZ /\ (call.by = "boot" => call.offset = 0 /\ call.data \in Files)
        /\ call.by = "boot" /\ call.mism = 0
    BY Zenon, <1>1, <2>1 DEF CallType
  <2> QED  BY <2>2
<1>3. image' = call.data
  <2>1. ASSUME NEW k \in 1..Len(call.data) PROVE flash[k - 1] = call.data[k]
    <3>1. k - 1 \in Addr /\ k - 1 \in RangeOf(call) /\ (k - 1) - call.offset + 1 = k
      BY <1>2, Sizes DEF Addr, RangeOf, End
    <3> QED  BY <1>1, <1>2, <3>1, DoneIsWritten
  <2> QED  BY Zenon, <1>1, <1>2, <2>1, BootsWritten
<1>4. PICK code : Report(code)
  BY DEF Reload
<1> QED  BY <1>1, <1>2, <1>3, <1>4, SuccessKeepsFlash

\* What a step of the system does to the flash.
FlashAction ==
  \/ CallStep \/ TxnFails \/ Chip \/ WriterKilled \/ PowerFails
  \/ \E r \in Requests, f \in Files : flash_write(r, f)
  \/ \E f \in Files, scratch, boot \in BOOLEAN : firmware_update(f, scratch, boot)

LEMMA FlashActionKeepsFlash ==
  ASSUME FlashInv, FlashAction \/ UNCHANGED flash_vars PROVE FlashInv'
<1>1. CASE UNCHANGED flash_vars
  <2>1. CallType' /\ ChipInv' /\ DamageConfined'
    BY ZenonT(30), <1>1 DEF flash_vars, FlashInv, CallType, ChipInv, DamageConfined, Sectors, RangeOf, Calling,
       OpCells, CurOp, Ops, InLoop, End
  <2>2. AnswerInv' /\ (Calling' <=> Calling)
    BY ZenonT(30), <1>1 DEF flash_vars, FlashInv, AnswerInv, Written, RangeOf, Calling
  <2>3. Progress => Progress'
    BY <1>1 DEF flash_vars, Progress, RangeOf, Settled, ReadBack, Verified, InLoop, End
  <2> QED  BY Zenon, <1>1, <2>1, <2>2, <2>3 DEF FlashInv, flash_vars
<1>2. CASE FlashAction
  BY <1>2, CommandStepsKeepFlash, NoBytesKeepsFlash, ReadChunkKeepsFlash, VerifyChunkKeepsFlash,
     wait_idleKeepsFlash, FinishKeepsFlash, ReloadKeepsFlash, FailuresKeepFlash, ChipKeepsFlash,
     CallersKeepFlash DEF FlashAction, CallStep
<1> QED  BY <1>1, <1>2

LEMMA InitFlash == ASSUME FlashInit PROVE FlashInv
<1>1. IsCall(call) /\ call.pc = "idle"
  BY Zenon DEF FlashInit, IsCall, Idle
<1>2. CallType /\ ~Calling
  BY Zenon, <1>1 DEF CallType, Calling
<1>3. ChipInv
  BY <1>1 DEF FlashInit, ChipInv, Nothing
<1>4. DamageConfined
  BY DEF FlashInit, DamageConfined
<1>5. AnswerInv
  BY DEF FlashInit, AnswerInv, NoAnswer
<1> QED  BY Zenon, <1>2, <1>3, <1>4, <1>5 DEF FlashInv

LEMMA FlashInvMeans == FlashInv => DamageConfined /\ VerifiedIsWritten
<1>1. ASSUME FlashInv PROVE VerifiedIsWritten
  <2>1. call = Idle => ~Calling
    BY DEF Idle, Calling
  <2> QED  BY <1>1, <2>1 DEF FlashInv, AnswerInv, Written, VerifiedIsWritten
<1> QED  BY <1>1 DEF FlashInv
-----------------------------------------------------------------------------
\* The environment file.
Sound(text) == IsText(text) /\ Accepted(text) /\ text.secret # PW_SECRET_REDACTED
IsFile(f) == f = File(f.text, f.mode, f.synced)
SoundFile(f) == IsFile(f) /\ f.mode = 640 /\ f.synced /\ Sound(f.text)

\* The save under way: its text is sound from the start, the temporary file
\* holds it once written, and is durable before it takes the file's place.
SaveInv ==
  /\ save = [pc |-> save.pc, text |-> save.text, kept |-> save.kept, restart |-> save.restart,
             tmp |-> save.tmp]
  /\ IsFile(save.tmp)
  /\ save.pc # "idle" => /\ daemon = "up" /\ reply = NoReply /\ Sound(save.text)
                         /\ ~save.restart => save.text = loaded
  /\ save.pc \in {"write", "sync", "rename", "syncdir"} => save.tmp.mode = 640
  /\ save.pc \in {"sync", "rename", "syncdir"} => save.tmp.text = save.text
  /\ save.pc \in {"rename", "syncdir"} => save.tmp.synced
  /\ save.pc = "syncdir" => file = save.tmp

\* What the daemon kept of the file is what it parsed.
Kept ==
  /\ daemon = "stash" => file.text = parsed /\ save.pc = "idle"
  /\ daemon = "up" => loaded = parsed

Acked == reply.ok /\ reply.synced => file.text = reply.text /\ durable.text = reply.text

EnvInv ==
  /\ SoundFile(file) /\ SoundFile(durable) /\ IsText(view)
  /\ SaveInv /\ Kept /\ Acked

\* What a step of the whole does to the environment file.
EnvAction ==
  \/ SaveStep \/ StashEnv \/ ParseEnv \/ config_get_raw
  \/ \E t \in Texts \cup {view} : config_save(t)
  \/ \E t \in Texts : Accepted(t) /\ t.secret # PW_SECRET_REDACTED /\ Edit(t)
  \/ DaemonDies \/ DiskLosesPower

LEMMA StepIsEnvAction == [Next]_vars => EnvAction \/ UNCHANGED env_vars
BY DEF Next, EnvStep, FlashStep, Crash, PowerLoss, CallOrChip, Request, EnvAction, vars

LEMMA NoTextIsText == IsText(NoText) /\ IsFile(File(NoText, 600, FALSE))
BY DEF IsText, NoText, IsFile, File

LEMMA InitEnv == Init => EnvInv
<1> SUFFICES ASSUME EnvInit PROVE EnvInv
  BY DEF Init
<1>1. SoundFile(file) /\ SoundFile(durable)
  BY EnvAssumption DEF EnvInit, SoundFile, IsFile, Sound, File
<1>2. SaveInv
  BY ZenonT(30), NoTextIsText DEF EnvInit, SaveInv, NoSave
<1>3. Kept /\ Acked
  BY DEF EnvInit, Kept, Acked, NoReply
<1> QED  BY Zenon, <1>1, <1>2, <1>3, NoTextIsText DEF EnvInit, EnvInv

\* A save that ends, whatever ended it.
LEMMA NoSaveInv == ASSUME save' = NoSave PROVE SaveInv'
BY ZenonT(30), NoTextIsText DEF SaveInv, NoSave

LEMMA SystemCallKeepsEnv ==
  ASSUME EnvInv, CreateTmp \/ WriteTmp \/ SyncTmp PROVE EnvInv'
<1>0. UNCHANGED <<file, durable, daemon, parsed, loaded, view>>
  BY DEF CreateTmp, WriteTmp, SyncTmp
<1>1. CASE Refuse
  <2>1. Acked' /\ Kept'
    BY <1>0, <1>1 DEF EnvInv, Refuse, NoReply, NoSave, Kept, Acked
  <2> QED  BY <1>0, <1>1, <2>1, NoSaveInv DEF EnvInv, Refuse, SoundFile
<1>2. CASE ~Refuse
  <2>0. save.pc # "idle" /\ UNCHANGED reply /\ daemon = "up"
    BY <1>2 DEF CreateTmp, WriteTmp, SyncTmp, EnvInv, SaveInv
  <2>1. Acked' /\ Kept'
    BY <1>0, <2>0 DEF EnvInv, Kept, Acked
  <2>2. CASE CreateTmp
    <3>1. save' = [save EXCEPT !.pc = "write", !.tmp = File(Torn, 640, FALSE)]
      BY <1>2, <2>2 DEF CreateTmp, EnvInv, SoundFile
    <3>2. IsFile(File(Torn, 640, FALSE)) /\ File(Torn, 640, FALSE).mode = 640
      BY DEF IsFile, File
    <3>3. /\ save'.pc = "write" /\ save'.tmp = File(Torn, 640, FALSE) /\ save'.text = save.text
          /\ save'.restart = save.restart /\ save'.kept = save.kept
          /\ save' = [pc |-> save'.pc, text |-> save'.text, kept |-> save'.kept,
                      restart |-> save'.restart, tmp |-> save'.tmp]
      <4>1. save = [pc |-> save.pc, text |-> save.text, kept |-> save.kept,
                    restart |-> save.restart, tmp |-> save.tmp]
        BY DEF EnvInv, SaveInv
      <4> QED  BY ZenonT(30), <3>1, <4>1
    <3>4. /\ Sound(save.text) /\ reply = NoReply /\ (~save.restart => save.text = loaded)
      BY <2>0 DEF EnvInv, SaveInv
    <3>5. SaveInv'
      <4>1. IsFile(save'.tmp) /\ save'.tmp.mode = 640
        BY ZenonT(30), <3>2, <3>3
      <4>2. Sound(save'.text)
        BY <3>3, <3>4
      <4>3. daemon' = "up" /\ reply' = NoReply
        BY <1>0, <2>0, <3>4
      <4>4. ~save'.restart => save'.text = loaded'
        BY <1>0, <3>3, <3>4
      <4> QED  BY Zenon, <3>3, <4>1, <4>2, <4>3, <4>4 DEF SaveInv
    <3> QED  BY <1>0, <2>1, <3>5 DEF EnvInv
  <2>3. CASE WriteTmp
    <3>1. save.pc = "write" /\ save' = [save EXCEPT !.pc = "sync", !.tmp.text = save.text]
      BY <1>2, <2>3 DEF WriteTmp
    <3> QED  BY ZenonT(30), <1>0, <2>0, <2>1, <3>1 DEF EnvInv, SaveInv, IsFile, File
  <2>4. CASE SyncTmp
    <3>1. save.pc = "sync" /\ save' = [save EXCEPT !.pc = "rename", !.tmp.synced = TRUE]
      BY <1>2, <2>4 DEF SyncTmp
    <3> QED  BY ZenonT(30), <1>0, <2>0, <2>1, <3>1 DEF EnvInv, SaveInv, IsFile, File
  <2> QED  BY <2>2, <2>3, <2>4
<1> QED  BY <1>1, <1>2

LEMMA RenameKeepsEnv == ASSUME EnvInv, Rename PROVE EnvInv'
<1>0. UNCHANGED <<durable, daemon, parsed, loaded, view>> /\ save.pc = "rename" /\ daemon = "up"
  BY DEF Rename, EnvInv, SaveInv
<1>1. CASE Refuse /\ UNCHANGED file
  <2>1. Acked' /\ Kept'
    BY <1>0, <1>1 DEF EnvInv, Refuse, NoReply, NoSave, Kept, Acked
  <2> QED  BY <1>0, <1>1, <2>1, NoSaveInv DEF EnvInv, Refuse, SoundFile
<1>2. CASE file' = save.tmp /\ save' = [save EXCEPT !.pc = "syncdir"] /\ UNCHANGED reply
  <2>1. reply = NoReply
    BY <1>0 DEF EnvInv, SaveInv
  <2>2. Acked' /\ Kept'
    BY <1>0, <1>2, <2>1 DEF EnvInv, NoReply, Kept, Acked
  <2>3. SoundFile(file')
    BY <1>0, <1>2 DEF EnvInv, SaveInv, SoundFile, IsFile
  <2>4. SaveInv'
    BY <1>0, <1>2 DEF EnvInv, SaveInv
  <2> QED  BY <1>0, <2>2, <2>3, <2>4 DEF EnvInv
<1> QED  BY <1>1, <1>2 DEF Rename

LEMMA SyncDirKeepsEnv == ASSUME EnvInv, SyncDir PROVE EnvInv'
<1>0. /\ UNCHANGED <<file, daemon, parsed, loaded, view>> /\ save.pc = "syncdir" /\ save' = NoSave
      /\ file = save.tmp /\ save.tmp.text = save.text /\ daemon = "up"
  BY DEF SyncDir, EnvInv, SaveInv
<1>1. PICK synced \in BOOLEAN :
        /\ durable' = IF synced THEN file ELSE durable
        /\ reply' = [ok |-> TRUE, text |-> save.text, restart |-> save.restart, synced |-> synced]
  BY Zenon DEF SyncDir
<1>2. Acked' /\ Kept'
  BY <1>0, <1>1 DEF EnvInv, Kept, Acked, NoSave
<1>3. SoundFile(durable')
  BY <1>1 DEF EnvInv
<1> QED  BY <1>0, <1>2, <1>3, NoSaveInv DEF EnvInv

\* Only the secret is rewritten, and only of a text.
LEMMA RewriteIsText ==
  ASSUME NEW t, IsText(t), NEW secret
  PROVE  /\ IsText(Rewritten(t, secret)) /\ Rewritten(t, secret).body = t.body
         /\ IsText(Redacted(t))
BY DEF IsText, Rewritten, Redacted

LEMMA config_saveKeepsEnv ==
  ASSUME EnvInv, NEW t \in Texts \cup {view}, config_save(t) PROVE EnvInv'
<1> DEFINE out == IF t.secret = PW_SECRET_REDACTED THEN Rewritten(t, parsed.secret) ELSE t
<1>0. /\ UNCHANGED <<file, durable, daemon, parsed, loaded, view>> /\ daemon = "up"
      /\ reply' = NoReply
  BY DEF config_save, Refuse
<1>1. Acked' /\ Kept'
  BY <1>0 DEF EnvInv, Kept, Acked, NoReply
<1>2. SaveInv'
  <2>1. CASE save' = NoSave
    BY <2>1, NoSaveInv
  <2>2. CASE save' # NoSave
    <3>1. IsText(t) /\ IsText(out) /\ out.body = t.body
      BY EnvAssumption, RewriteIsText DEF EnvInv
    <3>2. /\ Accepted(t) /\ out.secret # PW_SECRET_REDACTED
          /\ save' = [NoSave EXCEPT !.pc = "create", !.text = out,
                                   !.kept = t.secret = PW_SECRET_REDACTED,
                                   !.restart = restart_required(out)]
      BY <2>2 DEF config_save, Refuse
    <3>3. Sound(out)
      BY <3>1, <3>2 DEF Sound, Accepted
    <3> HIDE DEF out
    <3>4. /\ save'.pc = "create" /\ save'.text = out /\ save'.restart = restart_required(out)
          /\ save'.tmp = File(NoText, 600, FALSE)
          /\ save' = [pc |-> save'.pc, text |-> save'.text, kept |-> save'.kept,
                      restart |-> save'.restart, tmp |-> save'.tmp]
      BY ZenonT(30), <3>2 DEF NoSave
    <3>5. ~save'.restart => save'.text = loaded'
      BY Zenon, <1>0, <3>4 DEF restart_required
    <3>6. IsFile(save'.tmp) /\ Sound(save'.text)
      BY Zenon, <3>3, <3>4, NoTextIsText
    <3> QED  BY Zenon, <1>0, <3>4, <3>5, <3>6 DEF SaveInv
  <2> QED  BY <2>1, <2>2
<1> QED  BY <1>0, <1>1, <1>2 DEF EnvInv

LEMMA EditKeepsEnv ==
  ASSUME EnvInv, NEW t \in Texts, Accepted(t), t.secret # PW_SECRET_REDACTED, Edit(t)
  PROVE  EnvInv'
<1>1. /\ file' = File(t, 640, TRUE) /\ durable' = file' /\ reply' = NoReply
      /\ daemon # "stash" /\ save.pc = "idle" /\ UNCHANGED <<daemon, parsed, loaded, save, view>>
  BY DEF Edit, EnvInv, SoundFile
<1>2. IsFile(file') /\ file'.text = t /\ file'.mode = 640 /\ file'.synced
  BY <1>1 DEF IsFile, File
<1>3. SoundFile(file') /\ SoundFile(durable')
  <2>1. Sound(t)
    BY EnvAssumption DEF Sound
  <2>2. SoundFile(file')
    BY <1>2, <2>1 DEF SoundFile
  <2> QED  BY Zenon, <1>1, <2>2
<1>4. SaveInv' /\ Kept' /\ Acked'
  BY ZenonT(30), <1>1 DEF EnvInv, SaveInv, Kept, Acked, NoReply
<1> QED  BY Zenon, <1>1, <1>3, <1>4 DEF EnvInv

LEMMA DaemonKeepsEnv ==
  ASSUME EnvInv, ParseEnv \/ StashEnv \/ config_get_raw \/ DaemonDies PROVE EnvInv'
<1>1. UNCHANGED <<file, durable, reply>>
  BY DEF ParseEnv, StashEnv, config_get_raw, DaemonDies
<1>2. Acked' /\ SoundFile(file') /\ SoundFile(durable')
  BY <1>1 DEF EnvInv, Acked
<1>3. IsText(view')
  <2>1. IsText(view) /\ IsText(file.text)
    BY DEF EnvInv, SoundFile, Sound
  <2> QED  BY <2>1, RewriteIsText DEF ParseEnv, StashEnv, config_get_raw, DaemonDies
<1>4. SaveInv'
  <2>1. CASE DaemonDies
    BY <2>1, NoSaveInv DEF DaemonDies
  <2>2. CASE ParseEnv \/ StashEnv \/ config_get_raw
    <3>1. save.pc = "idle" /\ UNCHANGED save
      BY <2>2 DEF ParseEnv, StashEnv, config_get_raw, EnvInv, SaveInv
    <3> QED  BY <3>1 DEF EnvInv, SaveInv
  <2> QED  BY <2>1, <2>2
<1>5. Kept'
  <2>1. CASE DaemonDies
    BY <2>1 DEF DaemonDies, Kept
  <2>2. CASE ParseEnv
    BY <2>2 DEF ParseEnv, Kept, EnvInv, SaveInv
  <2>3. CASE StashEnv
    BY <2>3 DEF StashEnv, Kept, EnvInv
  <2>4. CASE config_get_raw
    BY <2>4 DEF config_get_raw, Kept, EnvInv
  <2> QED  BY <2>1, <2>2, <2>3, <2>4
<1> QED  BY <1>2, <1>3, <1>4, <1>5 DEF EnvInv

LEMMA PowerLossKeepsEnv == ASSUME EnvInv, DiskLosesPower PROVE EnvInv'
<1>1. PICK f \in {file, durable} :
        \E text \in {f.text} \cup (IF f.synced THEN {} ELSE {Torn}) :
            file' = File(text, f.mode, TRUE) /\ durable' = file'
  BY Zenon DEF DiskLosesPower
<1>2. SoundFile(f)
  BY DEF EnvInv
<1>3. file' = File(f.text, 640, TRUE) /\ durable' = file'
  BY ZenonT(30), <1>1, <1>2 DEF SoundFile
<1>4. IsFile(file') /\ file'.text = f.text /\ file'.mode = 640 /\ file'.synced
  BY <1>3 DEF IsFile, File
<1>5. SoundFile(file') /\ SoundFile(durable')
  BY Zenon, <1>2, <1>3, <1>4 DEF SoundFile
<1>6. save' = NoSave /\ daemon' = "down" /\ UNCHANGED <<view, reply>>
  BY DEF DiskLosesPower
<1>7. Kept' /\ Acked'
  <2>1. Kept'
    BY <1>6 DEF Kept
  <2>2. reply.ok /\ reply.synced => f.text = reply.text
    BY DEF EnvInv, Acked
  <2>3. file'.text = f.text /\ durable'.text = f.text /\ reply' = reply
    BY Zenon, <1>3, <1>4, <1>6
  <2> QED  BY <2>1, <2>2, <2>3, Zenon DEF Acked
<1> QED  BY <1>5, <1>6, <1>7, NoSaveInv DEF EnvInv

LEMMA EnvActionKeepsEnv == EnvInv /\ [Next]_vars => EnvInv'
<1> SUFFICES ASSUME EnvInv, EnvAction \/ UNCHANGED env_vars PROVE EnvInv'
  BY StepIsEnvAction
<1>1. CASE UNCHANGED env_vars
  BY <1>1 DEF env_vars, EnvInv, SaveInv, Kept, Acked
<1>2. CASE EnvAction
  BY <1>2, SystemCallKeepsEnv, RenameKeepsEnv, SyncDirKeepsEnv, config_saveKeepsEnv, EditKeepsEnv,
     DaemonKeepsEnv, PowerLossKeepsEnv DEF EnvAction, SaveStep
<1> QED  BY <1>1, <1>2

LEMMA AlwaysEnv == Spec => []EnvInv
BY InitEnv, EnvActionKeepsEnv, PTL DEF Spec

(* For every set of texts and of refused bodies: wherever a save, the      *)
(* daemon or the power stops, the environment file is one the daemon can   *)
(* start from, with a real secret and its mode (do_config_save).           *)
THEOREM EnvFileSurvives == Spec => []EnvFileWhole
<1>1. EnvInv => EnvFileWhole
  BY DEF EnvInv, EnvFileWhole, SoundFile, Sound
<1> QED  BY AlwaysEnv, <1>1, PTL

(* For every such set: an acknowledged save whose directory was synced is  *)
(* what the file holds, after power loss too, until the next save or edit  *)
(* (do_config_save, main.c:1123-1132).                                     *)
THEOREM AcknowledgedSurvives == Spec => []AckedSaveSurvives
<1>1. EnvInv => AckedSaveSurvives
  BY DEF EnvInv, Acked, AckedSaveSurvives
<1> QED  BY AlwaysEnv, <1>1, PTL

(* For every such set: a save answered with restart_required = false put   *)
(* in place the text the daemon runs (do_config_save against               *)
(* g_env_loaded_yaml).                                                     *)
THEOREM RestartAnswerTrue == Spec => RestartTruthful
<1>1. ASSUME EnvInv, [Next]_vars, save.pc = "syncdir", reply'.ok, ~reply'.restart, env_vars' # env_vars
      PROVE  file.text = parsed
  <2>1. /\ file.text = save.text /\ daemon = "up" /\ loaded = parsed
        /\ (~save.restart => save.text = loaded)
    BY <1>1 DEF EnvInv, SaveInv, Kept
  <2>2. CASE SyncDir
    <3>1. reply'.restart = save.restart
      BY <2>2 DEF SyncDir
    <3> QED  BY <1>1, <2>1, <3>1
  <2>3. CASE ~SyncDir
    <3>1. reply = NoReply
      BY <1>1 DEF EnvInv, SaveInv
    <3>2. UNCHANGED reply
      BY Zenon, <1>1, <2>1, <2>3, StepIsEnvAction DEF EnvAction, SaveStep, CreateTmp, WriteTmp, SyncTmp, Rename,
         StashEnv, ParseEnv, config_get_raw, config_save, Edit, DaemonDies, DiskLosesPower
    <3> QED  BY <1>1, <3>1, <3>2 DEF NoReply
  <2> QED  BY <2>2, <2>3
<1>2. EnvInv /\ [Next]_vars
        => [save.pc = "syncdir" /\ reply'.ok /\ ~reply'.restart => file.text = parsed]_env_vars
  BY <1>1
<1> QED  BY AlwaysEnv, <1>2, PTL DEF Spec, RestartTruthful
-----------------------------------------------------------------------------
\* The flash: what a step of the whole does to it.
LEMMA StepIsFlashAction == [Next]_vars => FlashAction \/ UNCHANGED flash_vars
BY DEF Next, EnvStep, FlashStep, Crash, PowerLoss, CallOrChip, Request, FlashAction, vars

LEMMA AlwaysFlash == Spec => []FlashInv
<1>1. Init => FlashInv
  BY InitFlash DEF Init
<1>2. FlashInv /\ [Next]_vars => FlashInv'
  BY StepIsFlashAction, FlashActionKeepsFlash
<1> QED  BY <1>1, <1>2, PTL DEF Spec

(* For every flash, sector, page and read size, every image and offset: a  *)
(* call of pw_flash_program, finished, failed or cut short at any command, *)
(* leaves the sectors its range does not touch as they were.               *)
THEOREM DamageIsConfined == Spec => []DamageConfined
<1> QED  BY AlwaysFlash, FlashInvMeans, PTL

(* For every such chip and image: a write reported verified, and an update *)
(* reported running, means that the flash holds the image and every other  *)
(* byte is what it was before the call, whatever cells failed to take and  *)
(* whatever earlier calls left behind (pw_flash_program's two verifies,    *)
(* flash.write, cmd_firmware).                                             *)
THEOREM VerifiedMeansWritten == Spec => []VerifiedIsWritten
<1> QED  BY AlwaysFlash, FlashInvMeans, PTL
=============================================================================
