--------------------------- MODULE RxPath_proofs ----------------------------
(***************************************************************************)
(* Proofs about the store-and-forward buffer and the receive path around   *)
(* it.  The first part is about the buffer alone, for every depth, beat    *)
(* set and route set and for inputs of any order: type correctness, the    *)
(* order of its pointers, and that no committed beat is overwritten.  The  *)
(* second is about the path, for every length of the delay line and of the *)
(* frames: what is drained is whole and under its own decision.            *)
(***************************************************************************)
EXTENDS RxPath, TLAPS

(* A leaf goes to SMT, then to Zenon, and to Z3 with a fresh translation last. *)
USE SMTT(30), Zenon, Z3T(30)

\* Pointer arithmetic modulo 2 * n: types and the effect of one step.
LEMMA IncType ==
  ASSUME NEW n \in Nat \ {0}, NEW p \in 0..(2 * n - 1)
  PROVE  Inc(p, n) \in 0..(2 * n - 1)
BY DEF Inc

LEMMA AddrType ==
  ASSUME NEW n \in Nat \ {0}, NEW p \in 0..(2 * n - 1)
  PROVE  Addr(p, n) \in 0..(n - 1)
BY DEF Addr

LEMMA DistType ==
  ASSUME NEW n \in Nat \ {0}, NEW p \in 0..(2 * n - 1), NEW q \in 0..(2 * n - 1)
  PROVE  Dist(p, q, n) \in 0..(2 * n - 1) /\ Dist(q, q, n) = 0
BY DEF Dist

LEMMA DistIncHead ==
  ASSUME NEW n \in Nat \ {0}, NEW p \in 0..(2 * n - 1), NEW q \in 0..(2 * n - 1),
         Dist(p, q, n) < 2 * n - 1
  PROVE  Dist(Inc(p, n), q, n) = Dist(p, q, n) + 1
BY DEF Inc, Dist

LEMMA DistIncTail ==
  ASSUME NEW n \in Nat \ {0}, NEW p \in 0..(2 * n - 1), NEW q \in 0..(2 * n - 1), p # q
  PROVE  Dist(p, Inc(q, n), n) = Dist(p, q, n) - 1 /\ Dist(p, q, n) > 0
BY DEF Inc, Dist

\* Two pointers less than n apart from a common origin, that have the same
\* address, are the same distance away.
LEMMA AddrInjective ==
  ASSUME NEW n \in Nat \ {0}, NEW p \in 0..(2 * n - 1), NEW q \in 0..(2 * n - 1),
         NEW r \in 0..(2 * n - 1),
         Addr(p, n) = Addr(q, n), Dist(p, r, n) < n, Dist(q, r, n) < n
  PROVE  Dist(p, r, n) = Dist(q, r, n)
BY DEF Addr, Dist
-----------------------------------------------------------------------------
LEMMA InitType == SafInit => SafTypeOK
<1>1. 0 \in Ptrs /\ 0 \in DescPtrs
  BY DepthAssumption, DescDepthAssumption DEF Ptrs, DescPtrs
<1> QED  BY <1>1, Zenon DEF SafInit, SafTypeOK

LEMMA TickType ==
  ASSUME SafTypeOK, NEW in \in Inputs, NEW dec \in Decisions, NEW ready \in BOOLEAN,
         SafTick(in, dec, ready)
  PROVE  SafTypeOK'
<1>1. /\ Inc(wr_spec, DEPTH) \in Ptrs /\ Inc(rd_ptr, DEPTH) \in Ptrs
      /\ Addr(wr_spec, DEPTH) \in 0..(DEPTH - 1) /\ Addr(rd_ptr, DEPTH) \in 0..(DEPTH - 1)
  BY Zenon, DepthAssumption, IncType, AddrType DEF SafTypeOK, Ptrs
<1>2. /\ Inc(desc_wr, DESC_DEPTH) \in DescPtrs /\ Inc(desc_rd, DESC_DEPTH) \in DescPtrs
  BY Zenon, DescDepthAssumption, IncType DEF SafTypeOK, DescPtrs
<1>3. beat_we(in) => in.beat \in Beats
  BY DEF Inputs
<1>4. (dec.valid /\ Publish(dec)) => dec.route \in Routes
  BY DEF Decisions
<1>5. mem' \in [0..(DEPTH - 1) -> Beats]
  BY <1>1, <1>3 DEF SafTypeOK, SafTick, WriteSide
<1>6. wr_spec' \in Ptrs /\ wr_commit' \in Ptrs
  BY <1>1 DEF SafTypeOK, SafTick, WriteSide
<1>7. desc_mem' \in [0..(DESC_DEPTH - 1) -> Routes] /\ desc_wr' \in DescPtrs
  BY <1>2, <1>4 DEF SafTypeOK, SafTick, WriteSide
<1>8. rd_ptr' \in Ptrs /\ dbeat' \in Beats /\ desc_rd' \in DescPtrs
  BY <1>1, <1>2 DEF SafTypeOK, SafTick, DrainSide
<1>9. in.valid \in BOOLEAN /\ dec.valid \in BOOLEAN
  BY DEF Inputs, Decisions
<1>10. aborted' \in BOOLEAN /\ overflow_drop' \in BOOLEAN
  BY <1>9, Zenon DEF SafTypeOK, SafTick, WriteSide
<1>11. dvalid' \in BOOLEAN
  BY Zenon DEF SafTypeOK, SafTick, DrainSide
<1> QED  BY <1>5, <1>6, <1>7, <1>8, <1>10, <1>11 DEF SafTypeOK

LEMMA ResetType == SafTypeOK /\ SafReset => SafTypeOK'
<1>1. 0 \in Ptrs /\ 0 \in DescPtrs
  BY DepthAssumption, DescDepthAssumption DEF Ptrs, DescPtrs
<1> QED  BY <1>1, Zenon DEF SafReset, SafTypeOK

LEMMA StutterType == SafTypeOK /\ UNCHANGED safvars => SafTypeOK'
BY Zenon DEF SafTypeOK, safvars

(* Every variable of the buffer keeps its type (pw_frame_saf.sv:67-94):    *)
(* pointers stay in 0..2*DEPTH-1 and never index outside the memories.     *)
THEOREM SafTypeCorrect == SafSpec => []SafTypeOK
<1>1. SafTypeOK /\ [SafNext]_safvars => SafTypeOK'
  BY TickType, ResetType, StutterType, Zenon DEF SafNext
<1> QED  BY InitType, <1>1, PTL DEF SafSpec
-----------------------------------------------------------------------------
\* What one clock edge does to the three distances from the read pointer.
LEMMA TickOrder ==
  ASSUME SafTypeOK, PointerOrder,
         NEW in \in Inputs, NEW dec \in Decisions, NEW ready \in BOOLEAN,
         SafTick(in, dec, ready)
  PROVE  PointerOrder'
<1> DEFINE D(p) == Dist(p, rd_ptr, DEPTH)
<1> USE DepthAssumption
<1>1. /\ rd_ptr \in 0..(2 * DEPTH - 1) /\ wr_commit \in 0..(2 * DEPTH - 1)
      /\ wr_spec \in 0..(2 * DEPTH - 1)
  BY DEF SafTypeOK, Ptrs
<1>2. /\ D(wr_commit) \in Nat /\ D(wr_spec) \in Nat
      /\ D(wr_commit) <= D(wr_spec) /\ D(wr_spec) <= DEPTH
  BY <1>1, DistType DEF PointerOrder
<1>3. beat_we(in) => D(Inc(wr_spec, DEPTH)) = D(wr_spec) + 1 /\ D(wr_spec) < DEPTH
  BY <1>1, <1>2, DistIncHead DEF beat_we, can_write, used_spec
<1>4. /\ wr_commit' \in 0..(2 * DEPTH - 1) /\ wr_spec' \in 0..(2 * DEPTH - 1)
      /\ D(wr_commit) <= D(wr_commit') /\ D(wr_commit') <= D(wr_spec') /\ D(wr_spec') <= DEPTH
  <2>1. CASE dec.valid /\ ~Publish(dec)
    BY <2>1, <1>1, <1>2 DEF SafTick, WriteSide
  <2>2. CASE dec.valid /\ Publish(dec)
    BY <2>2, <1>1, <1>2, <1>3, IncType DEF SafTick, WriteSide
  <2>3. CASE ~dec.valid
    BY <2>3, <1>1, <1>2, <1>3, IncType DEF SafTick, WriteSide
  <2> QED  BY <2>1, <2>2, <2>3
<1>5. CASE ~fetch(ready)
  <2>1. rd_ptr' = rd_ptr
    BY <1>5 DEF SafTick, DrainSide
  <2> QED  BY <2>1, <1>4 DEF PointerOrder
<1>6. CASE fetch(ready)
  <2>1. rd_ptr' = Inc(rd_ptr, DEPTH) /\ rd_ptr # wr_commit
    BY <1>6 DEF SafTick, DrainSide, fetch, avail
  <2>2. D(wr_commit) > 0
    BY <2>1, <1>1, DistIncTail
  <2>3. wr_commit' # rd_ptr /\ wr_spec' # rd_ptr
    <3>1. D(rd_ptr) = 0
      BY <1>1, DistType
    <3>2. D(wr_commit') \in Nat /\ D(wr_spec') \in Nat
      BY <1>1, <1>4, DistType
    <3>3. D(wr_commit') > 0 /\ D(wr_spec') > 0
      BY <2>2, <1>4, <1>2, <3>2
    <3> HIDE DEF D
    <3> QED  BY <3>1, <3>3
  <2>4. /\ Dist(wr_commit', rd_ptr', DEPTH) = D(wr_commit') - 1
        /\ Dist(wr_spec', rd_ptr', DEPTH) = D(wr_spec') - 1
    BY <2>1, <2>3, <1>1, <1>4, DistIncTail
  <2>5. D(wr_commit') \in Nat /\ D(wr_spec') \in Nat
    BY <1>1, <1>4, DistType
  <2> QED  BY <2>4, <2>5, <1>4 DEF PointerOrder
<1> QED  BY <1>5, <1>6

LEMMA ResetOrder == SafReset => PointerOrder'
BY DepthAssumption DEF SafReset, PointerOrder, Dist

LEMMA InitOrder == SafInit => PointerOrder
BY DepthAssumption DEF SafInit, PointerOrder, Dist

LEMMA StepOrder == SafTypeOK /\ PointerOrder /\ [SafNext]_safvars => PointerOrder'
<1>1. PointerOrder /\ UNCHANGED safvars => PointerOrder'
  BY Zenon DEF PointerOrder, safvars
<1> QED  BY <1>1, TickOrder, ResetOrder, Zenon DEF SafNext

(* The buffer never holds more beats than it has room for and never        *)
(* commits beyond what was written (pw_frame_saf.sv:75-84), for every      *)
(* depth and every order of beats, decisions and grants.                   *)
THEOREM SafPointerOrder == SafSpec => []PointerOrder
BY SafTypeCorrect, InitOrder, StepOrder, PTL DEF SafSpec
-----------------------------------------------------------------------------
LEMMA TickKeeps ==
  ASSUME SafTypeOK, PointerOrder,
         NEW in \in Inputs, NEW dec \in Decisions, NEW ready \in BOOLEAN,
         SafTick(in, dec, ready), NEW p \in Ptrs, Undrained(p)
  PROVE  mem'[Addr(p, DEPTH)] = mem[Addr(p, DEPTH)]
<1> USE DepthAssumption
<1>1. /\ rd_ptr \in 0..(2 * DEPTH - 1) /\ wr_commit \in 0..(2 * DEPTH - 1)
      /\ wr_spec \in 0..(2 * DEPTH - 1) /\ p \in 0..(2 * DEPTH - 1)
  BY DEF SafTypeOK, Ptrs
<1>2. CASE ~beat_we(in)
  BY <1>2 DEF SafTick, WriteSide
<1>3. CASE beat_we(in)
  <2>0. Dist(wr_spec, rd_ptr, DEPTH) \in Int /\ Dist(p, rd_ptr, DEPTH) \in Int
    BY <1>1, DistType
  <2>1. Dist(wr_spec, rd_ptr, DEPTH) < DEPTH
    BY <1>3, <2>0 DEF beat_we, can_write, used_spec, PointerOrder
  <2>2. Dist(p, rd_ptr, DEPTH) < Dist(wr_spec, rd_ptr, DEPTH)
    BY <1>1, DistType DEF Undrained, PointerOrder
  <2>3. Addr(p, DEPTH) # Addr(wr_spec, DEPTH)
    <3>1. Dist(p, rd_ptr, DEPTH) < DEPTH
      BY <2>0, <2>1, <2>2
    <3>2. Dist(p, rd_ptr, DEPTH) # Dist(wr_spec, rd_ptr, DEPTH)
      BY <2>0, <2>2
    <3> QED  BY <3>1, <3>2, <2>1, <1>1, AddrInjective
  <2>4. mem' = [mem EXCEPT ![Addr(wr_spec, DEPTH)] = in.beat]
    BY <1>3 DEF SafTick, WriteSide
  <2> QED  BY <2>3, <2>4, <1>1, AddrType DEF SafTypeOK
<1> QED  BY <1>2, <1>3

(* "read/write addresses never collide" (pw_frame_saf.sv:70-72): no clock  *)
(* edge overwrites a committed beat before it is fetched.                  *)
THEOREM SafCommittedBeatsKept == SafSpec => CommittedBeatsKept
<1> DEFINE Kept == \A p \in Ptrs : Undrained(p) => mem'[Addr(p, DEPTH)] = mem[Addr(p, DEPTH)]
<1>1. SafTypeOK /\ PointerOrder /\ [SafNext]_safvars => [Kept]_safvars
  <2> SUFFICES ASSUME SafTypeOK, PointerOrder, SafNext PROVE Kept
    OBVIOUS
  <2>1. CASE SafReset
    BY <2>1 DEF SafReset
  <2>2. CASE \E in \in Inputs, dec \in Decisions, ready \in BOOLEAN : SafTick(in, dec, ready)
    BY <2>2, TickKeeps, Zenon
  <2> QED  BY <2>1, <2>2 DEF SafNext
<1> QED  BY <1>1, SafTypeCorrect, SafPointerOrder, PTL DEF SafSpec, CommittedBeatsKept
-----------------------------------------------------------------------------
\* Pointer p lies in the window from lo up to, not including, hi.  The
\* fetched-from region, the speculative region and the descriptor queue are
\* such windows.
In(p, lo, hi, n) == Dist(p, lo, n) < Dist(hi, lo, n)

LEMMA IncInjective ==
  ASSUME NEW n \in Nat \ {0}, NEW p \in 0..(2 * n - 1), NEW q \in 0..(2 * n - 1),
         Inc(p, n) = Inc(q, n)
  PROVE  p = q
BY DEF Inc

LEMMA WindowEnds ==
  ASSUME NEW n \in Nat \ {0}, NEW lo \in 0..(2 * n - 1), NEW hi \in 0..(2 * n - 1)
  PROVE  /\ ~In(hi, lo, hi, n)
         /\ lo # hi => In(lo, lo, hi, n)
         /\ Dist(hi, lo, n) = 0 <=> lo = hi
BY DEF In, Dist

LEMMA WindowNext ==
  ASSUME NEW n \in Nat \ {0}, NEW lo \in 0..(2 * n - 1), NEW hi \in 0..(2 * n - 1),
         Dist(hi, lo, n) <= n,
         NEW p \in 0..(2 * n - 1), In(p, lo, hi, n)
  PROVE  /\ lo # hi /\ Inc(p, n) # lo
         /\ Inc(p, n) # hi => In(Inc(p, n), lo, hi, n)
BY DEF In, Dist, Inc

LEMMA WindowLast ==
  ASSUME NEW n \in Nat \ {0}, NEW lo \in 0..(2 * n - 1), NEW hi \in 0..(2 * n - 1),
         lo # hi
  PROVE  \E p \in 0..(2 * n - 1) : In(p, lo, hi, n) /\ Inc(p, n) = hi
<1>1. CASE hi = 0
  <2>1. 2 * n - 1 \in 0..(2 * n - 1) /\ In(2 * n - 1, lo, hi, n) /\ Inc(2 * n - 1, n) = hi
    BY <1>1 DEF In, Dist, Inc
  <2> QED  BY <2>1, Zenon
<1>2. CASE hi # 0
  <2>1. hi - 1 \in 0..(2 * n - 1) /\ In(hi - 1, lo, hi, n) /\ Inc(hi - 1, n) = hi
    BY <1>2 DEF In, Dist, Inc
  <2> QED  BY <2>1, Zenon
<1> QED  BY <1>1, <1>2

\* The window without its first pointer.
LEMMA WindowDrop ==
  ASSUME NEW n \in Nat \ {0}, NEW lo \in 0..(2 * n - 1), NEW hi \in 0..(2 * n - 1),
         lo # hi, Dist(hi, lo, n) <= n
  PROVE  /\ Dist(hi, Inc(lo, n), n) <= n
         /\ \A p \in 0..(2 * n - 1) : In(p, Inc(lo, n), hi, n) <=> (In(p, lo, hi, n) /\ p # lo)
BY DEF In, Dist, Inc

\* The window with one pointer more.
LEMMA WindowPush ==
  ASSUME NEW n \in Nat \ {0}, NEW lo \in 0..(2 * n - 1), NEW hi \in 0..(2 * n - 1),
         Dist(hi, lo, n) < n
  PROVE  /\ Dist(Inc(hi, n), lo, n) <= n
         /\ \A p \in 0..(2 * n - 1) : In(p, lo, Inc(hi, n), n) <=> (In(p, lo, hi, n) \/ p = hi)
BY DEF In, Dist, Inc

\* Two windows that meet.
LEMMA WindowJoin ==
  ASSUME NEW n \in Nat \ {0}, NEW lo \in 0..(2 * n - 1), NEW mid \in 0..(2 * n - 1),
         NEW hi \in 0..(2 * n - 1),
         Dist(mid, lo, n) <= Dist(hi, lo, n), Dist(hi, lo, n) <= n
  PROVE  /\ Dist(hi, mid, n) = Dist(hi, lo, n) - Dist(mid, lo, n)
         /\ \A p \in 0..(2 * n - 1) :
              /\ In(p, lo, hi, n) <=> (In(p, lo, mid, n) \/ In(p, mid, hi, n))
              /\ ~(In(p, lo, mid, n) /\ In(p, mid, hi, n))
BY DEF In, Dist

LEMMA WindowAddr ==
  ASSUME NEW n \in Nat \ {0}, NEW lo \in 0..(2 * n - 1), NEW hi \in 0..(2 * n - 1),
         Dist(hi, lo, n) <= n,
         NEW p \in 0..(2 * n - 1), NEW q \in 0..(2 * n - 1),
         In(p, lo, hi, n), In(q, lo, hi, n), p # q
  PROVE  Addr(p, n) # Addr(q, n)
BY DEF In, Dist, Addr

\* Positions in a window.
LEMMA WindowPosition ==
  ASSUME NEW n \in Nat \ {0}, NEW lo \in 0..(2 * n - 1), NEW hi \in 0..(2 * n - 1),
         Dist(hi, lo, n) <= n, NEW p \in 0..(2 * n - 1), In(p, lo, hi, n)
  PROVE  /\ Dist(p, lo, n) \in 0..(n - 1)
         /\ Dist(Inc(p, n), lo, n) = Dist(p, lo, n) + 1
BY DEF In, Dist, Inc
-----------------------------------------------------------------------------
(* What waits on the drain side, as a predicate on values: bt gives the    *)
(* beat at a buffer pointer, rt the route at a descriptor pointer; rd, wc  *)
(* bound the committed beats, dr, dw the descriptors; db, dv are the       *)
(* output register and x the last beat consumed.                           *)
Und(p, rd, wc) == In(p, rd, wc, DEPTH)
Queued(d, dr, dw) == In(d, dr, dw, DESC_DEPTH)

\* Beat b may follow the consumed beat x.
Follows(x, b) == IF x = Unused \/ x.last THEN b.idx = 1
                 ELSE b.frame = x.frame /\ b.idx = x.idx + 1

\* Beat c follows beat b, and c's descriptor follows b's at a frame boundary.
Link(b, c, rt, dr, dw) ==
  IF b.last
  THEN /\ c.idx = 1
       /\ \A d \in DescPtrs : (Queued(d, dr, dw) /\ rt[d] = b.frame) =>
            /\ Queued(Inc(d, DESC_DEPTH), dr, dw) /\ rt[Inc(d, DESC_DEPTH)] = c.frame
  ELSE c.frame = b.frame /\ c.idx = b.idx + 1

\* b is the last beat of the last committed frame.
Closes(b, rt, dr, dw) ==
  /\ b.last
  /\ \A d \in DescPtrs : (Queued(d, dr, dw) /\ Inc(d, DESC_DEPTH) = dw) => rt[d] = b.frame

\* b is the next beat to consume, under the head descriptor.
Leads(b, rt, dr, dw, x) == dr # dw /\ rt[dr] = b.frame /\ Follows(x, b)

Pend(bt, rd, wc, rt, dr, dw, db, dv, x) ==
  /\ \A d, e \in DescPtrs : (Queued(d, dr, dw) /\ Queued(e, dr, dw) /\ rt[d] = rt[e]) => d = e
  /\ \A p \in Ptrs : Und(p, rd, wc) => bt[p].idx > 0
  /\ \A p \in Ptrs : (Und(p, rd, wc) /\ Und(Inc(p, DEPTH), rd, wc)) =>
                        Link(bt[p], bt[Inc(p, DEPTH)], rt, dr, dw)
  /\ \A p \in Ptrs : (Und(p, rd, wc) /\ Inc(p, DEPTH) = wc) => Closes(bt[p], rt, dr, dw)
  /\ dv => db.idx > 0 /\ Leads(db, rt, dr, dw, x)
  /\ (dv /\ rd # wc) => Link(db, bt[rd], rt, dr, dw)
  /\ (dv /\ rd = wc) => Closes(db, rt, dr, dw)
  /\ (~dv /\ rd # wc) => Leads(bt[rd], rt, dr, dw, x)
  /\ (~dv /\ rd = wc) => dr = dw /\ (x = Unused \/ x.last)

\* Without the first descriptor the links hold that held with it.
LEMMA LinkPop ==
  ASSUME NEW dr \in DescPtrs, NEW dw \in DescPtrs, NEW rt, NEW b, NEW c,
         dr # dw, Dist(dw, dr, DESC_DEPTH) <= DESC_DEPTH
  PROVE  /\ Link(b, c, rt, dr, dw) => Link(b, c, rt, Inc(dr, DESC_DEPTH), dw)
         /\ Closes(b, rt, dr, dw) => Closes(b, rt, Inc(dr, DESC_DEPTH), dw)
<1> USE DescDepthAssumption DEF DescPtrs
<1>1. \A d \in DescPtrs : Queued(d, Inc(dr, DESC_DEPTH), dw) <=> (Queued(d, dr, dw) /\ d # dr)
  BY WindowDrop DEF Queued
<1>2. \A d \in DescPtrs : Inc(d, DESC_DEPTH) \in DescPtrs
  BY IncType
<1>3. \A d \in DescPtrs : Queued(d, dr, dw) => Inc(d, DESC_DEPTH) # dr
  BY WindowNext DEF Queued
<1> QED  BY Zenon, <1>1, <1>2, <1>3 DEF Link, Closes

\* An empty output register is filled.
LEMMA PendFetch ==
  ASSUME NEW bt, NEW rd \in Ptrs, NEW wc \in Ptrs, NEW rt, NEW dr \in DescPtrs,
         NEW dw \in DescPtrs, NEW db, NEW x,
         Dist(wc, rd, DEPTH) <= DEPTH, rd # wc,
         Pend(bt, rd, wc, rt, dr, dw, db, FALSE, x)
  PROVE  Pend(bt, Inc(rd, DEPTH), wc, rt, dr, dw, bt[rd], TRUE, x)
<1> USE DepthAssumption
<1>1. \A p \in Ptrs : Und(p, Inc(rd, DEPTH), wc) <=> (Und(p, rd, wc) /\ p # rd)
  BY WindowDrop DEF Und, Ptrs
<1>2. Inc(rd, DEPTH) \in Ptrs /\ Und(rd, rd, wc) /\ (Inc(rd, DEPTH) # wc => Und(Inc(rd, DEPTH), rd, wc))
  BY IncType, WindowEnds, WindowNext DEF Und, Ptrs
<1>3. \A p \in Ptrs : Inc(p, DEPTH) \in Ptrs
  BY IncType DEF Ptrs
<1>4. bt[rd].idx > 0 /\ Leads(bt[rd], rt, dr, dw, x)
  BY <1>2 DEF Pend
<1>5. Inc(rd, DEPTH) # wc => Link(bt[rd], bt[Inc(rd, DEPTH)], rt, dr, dw)
  BY Zenon, <1>2 DEF Pend
<1>6. Inc(rd, DEPTH) = wc => Closes(bt[rd], rt, dr, dw)
  BY Zenon, <1>2 DEF Pend
<1> QED  BY Zenon, <1>1, <1>3, <1>4, <1>5, <1>6 DEF Pend

\* A consumed beat that does not end its frame is replaced by the next.
LEMMA PendPass ==
  ASSUME NEW bt, NEW rd \in Ptrs, NEW wc \in Ptrs, NEW rt, NEW dr \in DescPtrs,
         NEW dw \in DescPtrs, NEW db \in FrameBeats, NEW x,
         Dist(wc, rd, DEPTH) <= DEPTH, rd # wc, ~db.last,
         Pend(bt, rd, wc, rt, dr, dw, db, TRUE, x)
  PROVE  Pend(bt, Inc(rd, DEPTH), wc, rt, dr, dw, bt[rd], TRUE, db)
<1>1. Pend(bt, rd, wc, rt, dr, dw, db, FALSE, db)
  <2>1. Link(db, bt[rd], rt, dr, dw) /\ Leads(db, rt, dr, dw, x) /\ db.idx > 0
    BY Zenon DEF Pend
  <2>2. bt[rd].frame = db.frame /\ bt[rd].idx = db.idx + 1
    BY <2>1 DEF Link
  <2>3. db # Unused
    BY <2>1 DEF Unused
  <2>4. Leads(bt[rd], rt, dr, dw, db)
    BY Zenon, <2>1, <2>2, <2>3 DEF Leads, Follows
  <2> QED  BY Zenon, <2>4 DEF Pend
<1> QED  BY Zenon, <1>1, PendFetch

\* The end of a frame is consumed: its descriptor is released.
LEMMA PendRelease ==
  ASSUME NEW bt, NEW rd \in Ptrs, NEW wc \in Ptrs, NEW rt, NEW dr \in DescPtrs,
         NEW dw \in DescPtrs, NEW db, NEW x,
         Dist(dw, dr, DESC_DEPTH) <= DESC_DEPTH, db.last,
         Pend(bt, rd, wc, rt, dr, dw, db, TRUE, x)
  PROVE  Pend(bt, rd, wc, rt, Inc(dr, DESC_DEPTH), dw, db, FALSE, db)
<1> USE DescDepthAssumption
<1>1. dr # dw /\ rt[dr] = db.frame
  BY Zenon DEF Pend, Leads
<1>2. \A d \in DescPtrs : Queued(d, Inc(dr, DESC_DEPTH), dw) <=> (Queued(d, dr, dw) /\ d # dr)
  BY <1>1, WindowDrop DEF Queued, DescPtrs
<1>3. Queued(dr, dr, dw) /\ ~Queued(dw, dr, dw)
  BY <1>1, WindowEnds DEF Queued, DescPtrs
<1>4. \A b, c : /\ Link(b, c, rt, dr, dw) => Link(b, c, rt, Inc(dr, DESC_DEPTH), dw)
                /\ Closes(b, rt, dr, dw) => Closes(b, rt, Inc(dr, DESC_DEPTH), dw)
  BY Zenon, <1>1, LinkPop
<1>5. ASSUME rd # wc
      PROVE  Leads(bt[rd], rt, Inc(dr, DESC_DEPTH), dw, db)
  <2>1. Link(db, bt[rd], rt, dr, dw)
    BY Zenon, <1>5 DEF Pend
  <2>2. bt[rd].idx = 1 /\ Queued(Inc(dr, DESC_DEPTH), dr, dw) /\ rt[Inc(dr, DESC_DEPTH)] = bt[rd].frame
    BY Zenon, <2>1, <1>1, <1>3 DEF Link
  <2>3. Inc(dr, DESC_DEPTH) # dw
    BY Zenon, <2>2, <1>3
  <2> QED  BY Zenon, <2>2, <2>3 DEF Leads, Follows
<1>6. ASSUME rd = wc
      PROVE  Inc(dr, DESC_DEPTH) = dw
  <2>1. Closes(db, rt, dr, dw)
    BY Zenon, <1>6 DEF Pend
  <2>2. PICK d \in DescPtrs : Queued(d, dr, dw) /\ Inc(d, DESC_DEPTH) = dw
    BY <1>1, WindowLast DEF Queued, DescPtrs
  <2>3. rt[d] = rt[dr]
    BY Zenon, <2>1, <2>2, <1>1 DEF Closes
  <2>4. d = dr
    BY Zenon, <2>2, <2>3, <1>3 DEF Pend
  <2> QED  BY <2>2, <2>4
<1> QED  BY Zenon, <1>2, <1>4, <1>5, <1>6 DEF Pend
-----------------------------------------------------------------------------
\* Only the beats and routes that wait matter.
LEMMA PendSame ==
  ASSUME NEW bt, NEW bu, NEW rd \in Ptrs, NEW wc \in Ptrs, NEW rt, NEW dr \in DescPtrs,
         NEW dw \in DescPtrs, NEW db, NEW dv \in BOOLEAN, NEW x,
         \A p \in Ptrs : Und(p, rd, wc) => bu[p] = bt[p],
         Pend(bt, rd, wc, rt, dr, dw, db, dv, x)
  PROVE  Pend(bu, rd, wc, rt, dr, dw, db, dv, x)
<1>1. rd # wc => bu[rd] = bt[rd]
  BY DepthAssumption, WindowEnds DEF Und, Ptrs
<1>2. \A p \in Ptrs : Inc(p, DEPTH) \in Ptrs
  BY DepthAssumption, IncType DEF Ptrs
<1> QED  BY Zenon, <1>1, <1>2 DEF Pend

\* A new descriptor at dw, for a frame no waiting beat belongs to.
LEMMA LinkPush ==
  ASSUME NEW dr \in DescPtrs, NEW dw \in DescPtrs, NEW rt, NEW ru, NEW F, NEW b, NEW c,
         Dist(dw, dr, DESC_DEPTH) < DESC_DEPTH,
         \A d \in DescPtrs : Queued(d, dr, dw) => ru[d] = rt[d],
         ru[dw] = F, b.frame # F
  PROVE  /\ Link(b, c, rt, dr, dw) => Link(b, c, ru, dr, Inc(dw, DESC_DEPTH))
         /\ (/\ Closes(b, rt, dr, dw) /\ dr # dw /\ c.idx = 1 /\ c.frame = F
             /\ \A d, e \in DescPtrs :
                  (Queued(d, dr, dw) /\ Queued(e, dr, dw) /\ rt[d] = rt[e]) => d = e)
            => Link(b, c, ru, dr, Inc(dw, DESC_DEPTH))
<1> USE DescDepthAssumption
<1>1. \A d \in DescPtrs : Queued(d, dr, Inc(dw, DESC_DEPTH)) <=> (Queued(d, dr, dw) \/ d = dw)
  BY WindowPush DEF Queued, DescPtrs
<1>2. \A d \in DescPtrs : Inc(d, DESC_DEPTH) \in DescPtrs
  BY IncType DEF DescPtrs
<1>3. ASSUME Link(b, c, rt, dr, dw)
      PROVE  Link(b, c, ru, dr, Inc(dw, DESC_DEPTH))
  <2>1. CASE ~b.last
    BY Zenon, <1>3, <2>1 DEF Link
  <2>2. CASE b.last
    <3>1. ASSUME NEW d \in DescPtrs, Queued(d, dr, Inc(dw, DESC_DEPTH)), ru[d] = b.frame
          PROVE  /\ Queued(Inc(d, DESC_DEPTH), dr, Inc(dw, DESC_DEPTH))
                 /\ ru[Inc(d, DESC_DEPTH)] = c.frame
      <4>1. d # dw
        BY <3>1
      <4>2. Queued(d, dr, dw) /\ rt[d] = b.frame
        BY Zenon, <3>1, <4>1, <1>1
      <4>3. Queued(Inc(d, DESC_DEPTH), dr, dw) /\ rt[Inc(d, DESC_DEPTH)] = c.frame
        BY Zenon, <1>3, <2>2, <4>2 DEF Link
      <4> QED  BY Zenon, <4>3, <1>1, <1>2
    <3>2. c.idx = 1
      BY Zenon, <1>3, <2>2 DEF Link
    <3> QED  BY Zenon, <2>2, <3>1, <3>2 DEF Link
  <2> QED  BY <2>1, <2>2
<1>4. ASSUME Closes(b, rt, dr, dw), dr # dw, c.idx = 1, c.frame = F,
             \A d, e \in DescPtrs :
               (Queued(d, dr, dw) /\ Queued(e, dr, dw) /\ rt[d] = rt[e]) => d = e
      PROVE  Link(b, c, ru, dr, Inc(dw, DESC_DEPTH))
  <2>1. PICK e \in DescPtrs : Queued(e, dr, dw) /\ Inc(e, DESC_DEPTH) = dw
    BY <1>4, WindowLast DEF Queued, DescPtrs
  <2>2. rt[e] = b.frame /\ b.last
    BY Zenon, <1>4, <2>1 DEF Closes
  <2>3. ASSUME NEW d \in DescPtrs, Queued(d, dr, Inc(dw, DESC_DEPTH)), ru[d] = b.frame
        PROVE  Inc(d, DESC_DEPTH) = dw
    <3>1. d # dw
      BY <2>3
    <3>2. Queued(d, dr, dw) /\ rt[d] = rt[e]
      BY Zenon, <3>1, <2>2, <2>3, <1>1
    <3>3. d = e
      BY Zenon, <3>2, <2>1, <1>4
    <3> QED  BY <3>3, <2>1
  <2>4. Queued(dw, dr, Inc(dw, DESC_DEPTH)) /\ ru[dw] = c.frame
    BY Zenon, <1>1, <1>4
  <2> QED  BY Zenon, <2>2, <2>3, <2>4, <1>4 DEF Link
<1> QED  BY Zenon, <1>3, <1>4

\* The frame with the beats from wc up to ws is complete, its descriptor is
\* new at dw, and no waiting beat or descriptor is of that frame.
Committing(bt, rd, wc, ws, rt, ru, dr, dw, db, dv) ==
  /\ Dist(wc, rd, DEPTH) <= Dist(ws, rd, DEPTH) /\ Dist(ws, rd, DEPTH) <= DEPTH /\ wc # ws
  /\ Dist(dw, dr, DESC_DEPTH) < DESC_DEPTH
  /\ \A d \in DescPtrs : Queued(d, dr, dw) => ru[d] = rt[d] /\ rt[d] # ru[dw]
  /\ \A p \in Ptrs : Und(p, rd, wc) => bt[p].frame # ru[dw]
  /\ dv => db.frame # ru[dw]
  /\ \A p \in Ptrs : Und(p, wc, ws) => /\ bt[p].frame = ru[dw]
                                       /\ bt[p].idx = Dist(p, wc, DEPTH) + 1
                                       /\ bt[p].last <=> Inc(p, DEPTH) = ws

LEMMA PendPublish ==
  ASSUME NEW bt, NEW rd \in Ptrs, NEW wc \in Ptrs, NEW ws \in Ptrs, NEW rt, NEW ru,
         NEW dr \in DescPtrs, NEW dw \in DescPtrs, NEW db, NEW dv \in BOOLEAN, NEW x,
         Committing(bt, rd, wc, ws, rt, ru, dr, dw, db, dv),
         Pend(bt, rd, wc, rt, dr, dw, db, dv, x)
  PROVE  Pend(bt, rd, ws, ru, dr, Inc(dw, DESC_DEPTH), db, dv, x)
<1> USE DepthAssumption, DescDepthAssumption
<1>h1. /\ Dist(wc, rd, DEPTH) <= Dist(ws, rd, DEPTH) /\ Dist(ws, rd, DEPTH) <= DEPTH /\ wc # ws
      /\ Dist(dw, dr, DESC_DEPTH) < DESC_DEPTH
  BY Zenon DEF Committing
<1>h2. \A d \in DescPtrs : Queued(d, dr, dw) => ru[d] = rt[d] /\ rt[d] # ru[dw]
  BY Zenon DEF Committing
<1>h3. /\ \A p \in Ptrs : Und(p, rd, wc) => bt[p].frame # ru[dw]
       /\ dv => db.frame # ru[dw]
  BY Zenon DEF Committing
<1>h4. \A p \in Ptrs : Und(p, wc, ws) => /\ bt[p].frame = ru[dw]
                                         /\ bt[p].idx = Dist(p, wc, DEPTH) + 1
                                         /\ bt[p].last <=> Inc(p, DEPTH) = ws
  BY Zenon DEF Committing
<1> USE <1>h1, <1>h2, <1>h3
<1> DEFINE F == ru[dw]
<1> DEFINE du == Inc(dw, DESC_DEPTH)
<1>1. \A d \in DescPtrs : Queued(d, dr, du) <=> (Queued(d, dr, dw) \/ d = dw)
  BY WindowPush DEF Queued, DescPtrs
<1>2. Queued(dr, dr, du) /\ dr # du /\ (dr # dw => Queued(dr, dr, dw))
  <2>1. dr # dw => Queued(dr, dr, dw)
    BY WindowEnds DEF Queued, DescPtrs
  <2>2. Queued(dr, dr, du)
    BY Zenon, <2>1, <1>1
  <2>3. du \in DescPtrs
    BY IncType DEF DescPtrs
  <2>4. dr # du
    BY <2>2, <2>3, WindowEnds DEF Queued, DescPtrs
  <2> QED  BY <2>1, <2>2, <2>4
<1>3. Dist(wc, rd, DEPTH) \in Int /\ Dist(ws, rd, DEPTH) \in Int /\ Dist(wc, rd, DEPTH) <= DEPTH
  BY DistType DEF Ptrs
<1>4. /\ Dist(ws, wc, DEPTH) <= DEPTH
      /\ \A p \in Ptrs : /\ Und(p, rd, ws) <=> (Und(p, rd, wc) \/ Und(p, wc, ws))
                         /\ ~(Und(p, rd, wc) /\ Und(p, wc, ws))
  <2>1. Dist(wc, rd, DEPTH) >= 0
    BY DistType DEF Ptrs
  <2>2. /\ Dist(ws, wc, DEPTH) = Dist(ws, rd, DEPTH) - Dist(wc, rd, DEPTH)
        /\ \A p \in Ptrs : /\ Und(p, rd, ws) <=> (Und(p, rd, wc) \/ Und(p, wc, ws))
                           /\ ~(Und(p, rd, wc) /\ Und(p, wc, ws))
    BY WindowJoin DEF Und, Ptrs
  <2> QED  BY <2>1, <2>2, <1>3
<1>5. Und(wc, wc, ws) /\ bt[wc].frame = F /\ bt[wc].idx = 1
  <2>1. Und(wc, wc, ws)
    BY WindowEnds DEF Und, Ptrs
  <2>2. Dist(wc, wc, DEPTH) + 1 = 1
    BY DEF Dist, Ptrs
  <2> QED  BY Zenon, <2>1, <2>2, <1>h4
<1>6. \A p \in Ptrs : Inc(p, DEPTH) \in Ptrs
  BY IncType DEF Ptrs
<1>7. \A d, e \in DescPtrs : (Queued(d, dr, du) /\ Queued(e, dr, du) /\ ru[d] = ru[e]) => d = e
  <2> HIDE DEF du
  <2> QED  BY Zenon, <1>1 DEF Pend
<1>8. \A b, c : (b.frame # F /\ Link(b, c, rt, dr, dw)) => Link(b, c, ru, dr, du)
  BY Zenon, LinkPush
<1>9. \A b, c : (b.frame # F /\ Closes(b, rt, dr, dw) /\ dr # dw /\ c.idx = 1 /\ c.frame = F)
                   => Link(b, c, ru, dr, du)
  <2> SUFFICES ASSUME NEW b, NEW c, b.frame # F, Closes(b, rt, dr, dw), dr # dw,
                      c.idx = 1, c.frame = F
               PROVE  Link(b, c, ru, dr, du)
    BY Zenon
  <2>1. \A d, e \in DescPtrs : (Queued(d, dr, dw) /\ Queued(e, dr, dw) /\ rt[d] = rt[e]) => d = e
    BY Zenon DEF Pend
  <2> QED  BY Zenon, <2>1, LinkPush
<1>10. ASSUME NEW p \in Ptrs, Und(p, rd, ws)
       PROVE  bt[p].idx > 0
  <2>1. CASE Und(p, rd, wc)
    BY Zenon, <2>1 DEF Pend
  <2>2. CASE Und(p, wc, ws)
    <3>1. bt[p].idx = Dist(p, wc, DEPTH) + 1
      BY Zenon, <2>2, <1>h4
    <3>2. Dist(p, wc, DEPTH) \in 0..(DEPTH - 1)
      BY <2>2, <1>4, WindowPosition DEF Und, Ptrs
    <3> QED  BY <3>1, <3>2
  <2> QED  BY <1>4, <1>10, <2>1, <2>2
\* A beat that waits is not the last committed one when nothing waits, and
\* there is a descriptor while there is a beat.
<1>11. ASSUME NEW p \in Ptrs, Und(p, rd, wc)
       PROVE  rd # wc /\ dr # dw
  <2>1. rd # wc
    BY <1>3, <1>11, WindowNext DEF Und, Ptrs
  <2> QED  BY Zenon, <2>1 DEF Pend, Leads
<1>12. ASSUME NEW p \in Ptrs, Und(p, rd, ws), Und(Inc(p, DEPTH), rd, ws)
       PROVE  Link(bt[p], bt[Inc(p, DEPTH)], ru, dr, du)
  <2>1. CASE Und(p, rd, wc) /\ Inc(p, DEPTH) # wc
    <3>1. Und(Inc(p, DEPTH), rd, wc)
      BY <2>1, <1>3, WindowNext DEF Und, Ptrs
    <3>2. Link(bt[p], bt[Inc(p, DEPTH)], rt, dr, dw)
      BY Zenon, <2>1, <3>1 DEF Pend
    <3> QED  BY Zenon, <2>1, <3>2, <1>8
  <2>2. CASE Und(p, rd, wc) /\ Inc(p, DEPTH) = wc
    <3>1. Closes(bt[p], rt, dr, dw)
      BY Zenon, <2>2 DEF Pend
    <3> HIDE DEF du
    <3> QED  BY Zenon, <2>2, <3>1, <1>5, <1>9, <1>11
  <2>3. CASE Und(p, wc, ws)
    <3>1. Inc(p, DEPTH) # ws
      BY <1>12, <1>6, WindowEnds DEF Und, Ptrs
    <3>2. Und(Inc(p, DEPTH), wc, ws)
      BY <2>3, <3>1, <1>4, WindowNext DEF Und, Ptrs
    <3>3. Dist(Inc(p, DEPTH), wc, DEPTH) = Dist(p, wc, DEPTH) + 1
      BY <2>3, <1>4, WindowPosition DEF Und, Ptrs
    <3>4. /\ ~bt[p].last /\ bt[p].frame = F /\ bt[p].idx = Dist(p, wc, DEPTH) + 1
          /\ bt[Inc(p, DEPTH)].frame = F
          /\ bt[Inc(p, DEPTH)].idx = Dist(Inc(p, DEPTH), wc, DEPTH) + 1
      BY Zenon, <2>3, <3>1, <3>2, <1>6, <1>h4
    <3> QED  BY Zenon, <3>3, <3>4 DEF Link
  <2> QED  BY Zenon, <1>4, <1>12, <2>1, <2>2, <2>3
<1>13. ASSUME NEW p \in Ptrs, Und(p, rd, ws), Inc(p, DEPTH) = ws
       PROVE  Closes(bt[p], ru, dr, du)
  <2>1. Und(p, wc, ws)
    <3>1. PICK q \in Ptrs : Und(q, wc, ws) /\ Inc(q, DEPTH) = ws
      BY WindowLast DEF Und, Ptrs
    <3>2. p = q
      BY <3>1, <1>13, IncInjective DEF Ptrs
    <3> QED  BY <3>1, <3>2
  <2>2. bt[p].last /\ bt[p].frame = F
    BY Zenon, <1>h4, <2>1, <1>13
  <2>3. \A d \in DescPtrs : Inc(d, DESC_DEPTH) = du => d = dw
    BY IncInjective DEF DescPtrs
  <2> HIDE DEF du
  <2> QED  BY Zenon, <2>2, <2>3 DEF Closes
<1>14. rd # ws
  <2>1. rd = ws => Dist(ws, rd, DEPTH) = 0 /\ Dist(wc, rd, DEPTH) > 0
    BY DEF Ptrs, Dist
  <2> QED  BY <2>1, <1>3
<1>15. ASSUME dv
       PROVE  db.idx > 0 /\ Leads(db, ru, dr, du, x) /\ Link(db, bt[rd], ru, dr, du)
  <2>1. db.idx > 0 /\ Leads(db, rt, dr, dw, x)
    BY Zenon, <1>15 DEF Pend
  <2>2. dr # dw /\ ru[dr] = rt[dr]
    BY Zenon, <2>1, <1>2 DEF Leads
  <2>3. Leads(db, ru, dr, du, x)
    BY Zenon, <2>1, <2>2, <1>2 DEF Leads
  <2>4. CASE rd # wc
    <3>1. Link(db, bt[rd], rt, dr, dw)
      BY Zenon, <1>15, <2>4 DEF Pend
    <3> QED  BY Zenon, <1>15, <2>1, <2>3, <3>1, <1>8
  <2>5. CASE rd = wc
    <3>1. Closes(db, rt, dr, dw)
      BY Zenon, <1>15, <2>5 DEF Pend
    <3> HIDE DEF du
    <3> QED  BY Zenon, <1>15, <2>1, <2>2, <2>3, <2>5, <3>1, <1>5, <1>9
  <2> QED  BY <2>4, <2>5
<1>16. ASSUME ~dv
       PROVE  Leads(bt[rd], ru, dr, du, x)
  <2>1. CASE rd # wc
    <3>1. Leads(bt[rd], rt, dr, dw, x)
      BY Zenon, <1>16, <2>1 DEF Pend
    <3>2. dr # dw /\ ru[dr] = rt[dr]
      BY Zenon, <3>1, <1>2 DEF Leads
    <3> QED  BY Zenon, <3>1, <3>2, <1>2 DEF Leads
  <2>2. CASE rd = wc
    <3>1. dr = dw /\ (x = Unused \/ x.last)
      BY Zenon, <1>16, <2>2 DEF Pend
    <3> HIDE DEF du
    <3> QED  BY Zenon, <3>1, <2>2, <1>2, <1>5 DEF Leads, Follows
  <2> QED  BY <2>1, <2>2
<1> HIDE DEF du
<1>17. Pend(bt, rd, ws, ru, dr, du, db, dv, x)
  BY Zenon, <1>7, <1>10, <1>12, <1>13, <1>14, <1>15, <1>16 DEF Pend
<1> QED  BY <1>17 DEF du
-----------------------------------------------------------------------------
(* The inductive invariant of the receive path.                            *)
PathType ==
  /\ SafTypeOK
  /\ raw \in [frame : 0..MaxFrame, idx : 0..(MaxLen - 1), gap : Nat]
  /\ rxd \in [1..SAF_DLY -> Inputs] /\ rxd_armed \in BOOLEAN
  /\ decq \in [1..(SAF_DLY + 1) -> Decisions]
  /\ drained \in Beats

\* Input y comes one cycle after input x: the beats of a frame follow each
\* other without a pause, and a frame begins after an idle cycle.
Joined(x, y) ==
  /\ y.valid => IF y.beat.idx = 1 THEN ~x.valid
                ELSE /\ x.valid /\ ~x.beat.last
                     /\ y.beat.frame = x.beat.frame /\ y.beat.idx = x.beat.idx + 1
  /\ (x.valid /\ ~x.beat.last) => y.valid

\* d is in the decision pipeline where x is in the delay line.
Judged(x, d) == x.valid => /\ d.valid <=> x.beat.last
                           /\ d.valid => d.route = x.beat.frame

LineOK ==
  /\ \A k \in 1..(SAF_DLY - 1) : Joined(rxd[k + 1], rxd[k])
  /\ \A k \in 1..SAF_DLY : Judged(rxd[k], decq[k])
  /\ \A k \in 1..SAF_DLY : decq[k + 1].valid => ~rxd[k].valid

\* The head of the delay line against what the MAC sends next.
RawOK ==
  /\ decq[1].valid => raw.idx = 0 /\ raw.gap > 0
  /\ ~rxd_armed => \A k \in 1..SAF_DLY : ~rxd[k].valid
  /\ (rxd_armed /\ raw.idx > 0) => /\ rxd[1].valid /\ ~rxd[1].beat.last
                                   /\ rxd[1].beat.frame = raw.frame /\ rxd[1].beat.idx = raw.idx
  /\ (raw.idx = 0 /\ rxd[1].valid) => rxd[1].beat.last
-----------------------------------------------------------------------------
LEMMA UnusedBeat == Unused \in Beats
BY PathAssumption, StreamAssumption DEF Unused, FrameBeats

\* What the MAC can send.
LEMMA MacSendsNext ==
  ASSUME PathType, NEW in \in MacInputs
  PROVE  /\ in \in Inputs
         /\ ~in.valid => raw.idx = 0
         /\ in.valid => /\ raw.gap = 0 /\ in.beat.idx = raw.idx + 1
                        /\ in.beat.frame = IF raw.idx > 0 THEN raw.frame ELSE raw.frame + 1
                        /\ in.beat.idx \in 1..MaxLen /\ in.beat.frame \in 0..MaxFrame
                        /\ in.beat.last \in BOOLEAN
                        /\ in.beat.idx = MaxLen => in.beat.last
<1>1. /\ raw.frame \in 0..MaxFrame /\ raw.idx \in 0..(MaxLen - 1) /\ raw.gap \in Nat
  BY DEF PathType
<1>2. CASE in \in IdleCycle
  <2>1. in = Idle /\ ~(raw.idx > 0)
    BY <1>2 DEF IdleCycle, InFrame
  <2>2. Idle \in Inputs /\ ~Idle.valid
    <3>1. Unused \in Beats
      BY UnusedBeat
    <3> QED  BY <3>1 DEF Idle, Inputs
  <2> QED  BY <2>1, <2>2, <1>1
<1>3. CASE in \in BeatCycle
  <2> DEFINE n == IF raw.idx > 0 THEN raw.frame ELSE raw.frame + 1
             beats == [frame : {n}, idx : {raw.idx + 1}, last : BOOLEAN]
  <2>1. ~(raw.gap > 0 \/ n > MaxFrame) /\ in \in [valid : {TRUE}, beat : {b \in beats : b.idx = MaxLen => b.last}]
    BY Zenon, <1>3 DEF BeatCycle, InFrame
  <2>2. in.valid = TRUE /\ in.beat \in beats /\ (in.beat.idx = MaxLen => in.beat.last)
        /\ in = [valid |-> in.valid, beat |-> in.beat]
    <3> HIDE DEF n, beats
    <3> QED  BY Zenon, <2>1
  <2>3. /\ in.beat.frame = n /\ in.beat.idx = raw.idx + 1 /\ in.beat.last \in BOOLEAN
        /\ in.beat = [frame |-> in.beat.frame, idx |-> in.beat.idx, last |-> in.beat.last]
    BY <2>2
  <2>4. raw.gap = 0 /\ n \in 0..MaxFrame /\ raw.idx + 1 \in 1..MaxLen
    BY <2>1, <1>1, PathAssumption
  <2>5. in.beat \in Beats
    BY <2>3, <2>4, StreamAssumption DEF FrameBeats
  <2>6. in \in Inputs
    <3> HIDE DEF n, beats
    <3> QED  BY Zenon, <2>2, <2>5 DEF Inputs
  <2> QED  BY <2>2, <2>3, <2>4, <2>6
<1> QED  BY <1>2, <1>3 DEF MacInputs

\* The delay line and the decision pipeline move by one cycle.
LEMMA LineMoves ==
  ASSUME PathType, NEW in \in MacInputs, NEW keep \in BOOLEAN, DelayLine(in),
         decq' = Shift(decq, Verdict(in, keep))
  PROVE  /\ rxd'[1] = RxdIn(in) /\ decq'[1] = Verdict(in, keep)
         /\ \A k \in 2..SAF_DLY : rxd'[k] = rxd[k - 1]
         /\ \A k \in 2..(SAF_DLY + 1) : decq'[k] = decq[k - 1]
         /\ DOMAIN rxd' = 1..SAF_DLY /\ DOMAIN decq' = 1..(SAF_DLY + 1)
BY PathAssumption DEF PathType, DelayLine, Shift

LEMMA VerdictType ==
  ASSUME PathType, NEW in \in MacInputs, NEW keep \in BOOLEAN
  PROVE  /\ Verdict(in, keep) \in Decisions
         /\ Verdict(in, keep).valid <=> (in.valid /\ in.beat.last)
         /\ Verdict(in, keep).valid => Verdict(in, keep).route = in.beat.frame
<1>1. in \in Inputs /\ in.valid \in BOOLEAN
      /\ (in.valid => in.beat.frame \in 0..MaxFrame /\ in.beat.last \in BOOLEAN)
  BY MacSendsNext DEF Inputs
<1>2. CASE in.valid /\ in.beat.last
  <2>1. Verdict(in, keep) = [valid |-> TRUE, keep |-> keep, route |-> in.beat.frame]
    BY Zenon, <1>2 DEF Verdict
  <2>2. in.beat.frame \in Routes
    BY Zenon, <1>1, <1>2, StreamAssumption
  <2> QED  BY <2>1, <2>2, <1>2 DEF Decisions
<1>3. CASE ~(in.valid /\ in.beat.last)
  <2>1. Verdict(in, keep) = [valid |-> FALSE, keep |-> FALSE, route |-> 0]
    BY Zenon, <1>3 DEF Verdict, NoDec
  <2>2. 0 \in Routes
    BY StreamAssumption, PathAssumption
  <2> QED  BY <2>1, <2>2, <1>3 DEF Decisions
<1> QED  BY <1>2, <1>3

\* What enters the delay line fits what is at its head.
LEMMA HeadFits ==
  ASSUME PathType, LineOK, RawOK, NEW in \in MacInputs, NEW keep \in BOOLEAN
  PROVE  /\ RxdIn(in) \in Inputs
         /\ Joined(rxd[1], RxdIn(in))
         /\ Judged(RxdIn(in), Verdict(in, keep))
         /\ decq[1].valid => ~RxdIn(in).valid
<1>0. 1 \in 1..SAF_DLY
  BY PathAssumption
<1>1. /\ raw.idx \in Nat /\ raw.gap \in Nat /\ rxd[1] \in Inputs /\ rxd_armed \in BOOLEAN
  BY <1>0 DEF PathType
<1>2. CASE ~rxd_armed
  <2>1. RxdIn(in) = Idle /\ Idle \in Inputs /\ ~Idle.valid
    BY <1>2, UnusedBeat DEF RxdIn, Idle, Inputs
  <2>2. ~rxd[1].valid
    BY Zenon, <1>0, <1>2 DEF RawOK
  <2> QED  BY Zenon, <2>1, <2>2 DEF Joined, Judged
<1>3. CASE rxd_armed
  <2>1. RxdIn(in) = in
    BY Zenon, <1>3 DEF RxdIn
  <2>2. in \in Inputs
    BY MacSendsNext
  <2>3. Judged(in, Verdict(in, keep))
    BY Zenon, VerdictType DEF Judged
  <2>4. decq[1].valid => ~in.valid
    <3>1. in.valid => raw.gap = 0
      BY Zenon, MacSendsNext
    <3> QED  BY <3>1 DEF RawOK
  <2>5. CASE ~in.valid
    <3>1. raw.idx = 0
      BY Zenon, <2>5, MacSendsNext
    <3>2. rxd[1].valid => rxd[1].beat.last
      BY Zenon, <3>1 DEF RawOK
    <3>3. Joined(rxd[1], in)
      BY Zenon, <2>5, <3>2 DEF Joined
    <3> QED  BY Zenon, <2>1, <2>2, <2>3, <2>4, <3>3
  <2>6. CASE in.valid /\ raw.idx = 0
    <3>1. in.beat.idx = 1
      BY <2>6, MacSendsNext
    <3>2. ~rxd[1].valid
      <4>1. rxd[1].valid => rxd[1].beat.last
        BY Zenon, <2>6 DEF RawOK
      <4>2. rxd[1].valid => decq[1].valid
        BY Zenon, <4>1, <1>0 DEF LineOK, Judged
      <4> QED  BY Zenon, <4>2, <2>4, <2>6
    <3>3. Joined(rxd[1], in)
      BY Zenon, <3>1, <3>2 DEF Joined
    <3> QED  BY Zenon, <2>1, <2>2, <2>3, <2>4, <3>3
  <2>7. CASE in.valid /\ raw.idx # 0
    <3>1. raw.idx > 0
      BY <2>7, <1>1
    <3>2. in.beat.idx = raw.idx + 1 /\ in.beat.frame = raw.frame /\ in.beat.idx # 1
      BY <2>7, <3>1, <1>1, MacSendsNext
    <3>3. /\ rxd[1].valid /\ ~rxd[1].beat.last
          /\ rxd[1].beat.frame = raw.frame /\ rxd[1].beat.idx = raw.idx
      BY Zenon, <1>3, <3>1 DEF RawOK
    <3>4. Joined(rxd[1], in)
      BY Zenon, <2>7, <3>2, <3>3 DEF Joined
    <3> QED  BY Zenon, <2>1, <2>2, <2>3, <2>4, <3>4
  <2> QED  BY Zenon, <2>5, <2>6, <2>7
<1> QED  BY Zenon, <1>2, <1>3, <1>1

LEMMA LineStep ==
  ASSUME PathType, LineOK, RawOK, NEW in \in MacInputs, NEW keep \in BOOLEAN, DelayLine(in),
         decq' = Shift(decq, Verdict(in, keep))
  PROVE  LineOK'
<1> USE PathAssumption
<1>1. /\ rxd'[1] = RxdIn(in) /\ decq'[1] = Verdict(in, keep)
      /\ \A k \in 2..SAF_DLY : rxd'[k] = rxd[k - 1]
      /\ \A k \in 2..(SAF_DLY + 1) : decq'[k] = decq[k - 1]
  BY Zenon, LineMoves
<1>2. /\ Joined(rxd[1], RxdIn(in)) /\ Judged(RxdIn(in), Verdict(in, keep))
      /\ decq[1].valid => ~RxdIn(in).valid
  BY Zenon, HeadFits
<1>3. ASSUME NEW k \in 1..(SAF_DLY - 1)
      PROVE  Joined(rxd'[k + 1], rxd'[k])
  <2>1. rxd'[k + 1] = rxd[k]
    BY <1>1
  <2>2. CASE k = 1
    BY Zenon, <2>1, <2>2, <1>1, <1>2
  <2>3. CASE k # 1
    <3>1. k - 1 \in 1..(SAF_DLY - 1) /\ (k - 1) + 1 = k /\ k \in 2..SAF_DLY
      BY <2>3
    <3>2. Joined(rxd[k], rxd[k - 1])
      BY Zenon, <3>1 DEF LineOK
    <3>3. rxd'[k] = rxd[k - 1]
      BY Zenon, <3>1, <1>1
    <3> QED  BY Zenon, <2>1, <3>2, <3>3
  <2> QED  BY <2>2, <2>3
<1>4. ASSUME NEW k \in 1..SAF_DLY
      PROVE  Judged(rxd'[k], decq'[k])
  <2>1. CASE k = 1
    BY Zenon, <2>1, <1>1, <1>2
  <2>2. CASE k # 1
    <3>1. k - 1 \in 1..SAF_DLY /\ k \in 2..SAF_DLY /\ k \in 2..(SAF_DLY + 1)
      BY <2>2
    <3> QED  BY Zenon, <3>1, <1>1 DEF LineOK
  <2> QED  BY <2>1, <2>2
<1>5. ASSUME NEW k \in 1..SAF_DLY
      PROVE  decq'[k + 1].valid => ~rxd'[k].valid
  <2>1. decq'[k + 1] = decq[k]
    BY <1>1
  <2>2. CASE k = 1
    BY Zenon, <2>1, <2>2, <1>1, <1>2
  <2>3. CASE k # 1
    <3>1. k - 1 \in 1..SAF_DLY /\ (k - 1) + 1 = k /\ k \in 2..SAF_DLY
      BY <2>3
    <3>2. decq[k].valid => ~rxd[k - 1].valid
      BY Zenon, <3>1 DEF LineOK
    <3> QED  BY Zenon, <2>1, <3>1, <3>2, <1>1
  <2> QED  BY <2>2, <2>3
<1> QED  BY Zenon, <1>3, <1>4, <1>5 DEF LineOK

\* The MAC's state after a cycle.
LEMMA RawMoves ==
  ASSUME PathType, NEW in \in MacInputs, MacSends(in)
  PROVE  /\ raw' \in [frame : 0..MaxFrame, idx : 0..(MaxLen - 1), gap : Nat]
         /\ ~in.valid => raw'.frame = raw.frame /\ raw'.idx = raw.idx
         /\ in.valid => /\ raw'.frame = in.beat.frame
                        /\ raw'.idx = IF in.beat.last THEN 0 ELSE in.beat.idx
                        /\ in.beat.last => raw'.gap = MinGap
<1>1. /\ raw \in [frame : 0..MaxFrame, idx : 0..(MaxLen - 1), gap : Nat]
      /\ raw.frame \in 0..MaxFrame /\ raw.idx \in 0..(MaxLen - 1) /\ raw.gap \in Nat
  BY DEF PathType
<1>2. CASE ~in.valid
  <2>1. raw' = [raw EXCEPT !.gap = IF raw.gap > 0 THEN raw.gap - 1 ELSE 0]
    BY <1>2 DEF MacSends
  <2>2. (IF raw.gap > 0 THEN raw.gap - 1 ELSE 0) \in Nat
    BY <1>1
  <2> QED  BY <2>1, <2>2, <1>1, <1>2
<1>3. CASE in.valid
  <2>1. raw' = [frame |-> in.beat.frame, idx |-> IF in.beat.last THEN 0 ELSE in.beat.idx,
                gap |-> IF in.beat.last THEN MinGap ELSE 0]
    BY Zenon, <1>3 DEF MacSends
  <2>2. /\ in.beat.frame \in 0..MaxFrame /\ in.beat.idx \in 1..MaxLen
        /\ in.beat.idx = MaxLen => in.beat.last
    BY Zenon, <1>3, MacSendsNext
  <2>3. (IF in.beat.last THEN 0 ELSE in.beat.idx) \in 0..(MaxLen - 1)
    BY <2>2, PathAssumption
  <2>4. (IF in.beat.last THEN MinGap ELSE 0) \in Nat
    BY PathAssumption
  <2> QED  BY <2>1, <2>2, <2>3, <2>4, <1>3
<1> QED  BY <1>2, <1>3

\* A frame that ends is followed by an idle cycle, since the MAC leaves one.
LEMMA VerdictGap ==
  ASSUME PathType, MinGap # 0, NEW in \in MacInputs, NEW keep \in BOOLEAN, MacSends(in)
  PROVE  Verdict(in, keep).valid => raw'.idx = 0 /\ raw'.gap > 0
<1>1. MinGap > 0
  BY PathAssumption
<1>2. Verdict(in, keep).valid => in.valid /\ in.beat.last
  BY Zenon, VerdictType
<1>3. (in.valid /\ in.beat.last) => raw'.idx = 0 /\ raw'.gap = MinGap
  BY Zenon, RawMoves
<1> QED  BY <1>1, <1>2, <1>3

LEMMA RawStep ==
  ASSUME PathType, RawOK, MinGap # 0, NEW in \in MacInputs, NEW keep \in BOOLEAN,
         MacSends(in), DelayLine(in), decq' = Shift(decq, Verdict(in, keep))
  PROVE  RawOK'
<1>1. rxd'[1] = RxdIn(in) /\ decq'[1] = Verdict(in, keep)
      /\ \A k \in 2..SAF_DLY : rxd'[k] = rxd[k - 1]
  BY Zenon, LineMoves
<1>2. rxd_armed \in BOOLEAN /\ in.valid \in BOOLEAN /\ rxd_armed' = (rxd_armed \/ ~in.valid)
  BY MacSendsNext DEF PathType, Inputs, DelayLine
<1>3. RxdIn(in) = IF rxd_armed THEN in ELSE Idle
  BY DEF RxdIn
<1>4. decq'[1].valid => raw'.idx = 0 /\ raw'.gap > 0
  BY Zenon, <1>1, VerdictGap
<1>5. ASSUME ~rxd_armed', NEW k \in 1..SAF_DLY
      PROVE  ~rxd'[k].valid
  <2>1. ~rxd_armed
    BY Zenon, <1>2, <1>5
  <2>2. CASE k = 1
    BY <2>1, <2>2, <1>1, <1>3 DEF Idle
  <2>3. CASE k # 1
    <3>1. k \in 2..SAF_DLY /\ k - 1 \in 1..SAF_DLY
      BY <2>3, PathAssumption
    <3> QED  BY Zenon, <3>1, <2>1, <1>1 DEF RawOK
  <2> QED  BY <2>2, <2>3
<1>6. ASSUME rxd_armed', raw'.idx > 0
      PROVE  /\ rxd'[1].valid /\ ~rxd'[1].beat.last
             /\ rxd'[1].beat.frame = raw'.frame /\ rxd'[1].beat.idx = raw'.idx
  <2>1. ~(raw.idx = 0 /\ ~in.valid)
    <3>1. (raw.idx = 0 /\ ~in.valid) => raw'.idx = 0
      BY Zenon, RawMoves
    <3> QED  BY <3>1, <1>6
  <2>2. in.valid
    BY Zenon, <2>1, MacSendsNext
  <2>3. rxd_armed
    BY Zenon, <2>2, <1>2, <1>6
  <2>4. raw'.frame = in.beat.frame /\ raw'.idx = IF in.beat.last THEN 0 ELSE in.beat.idx
    BY Zenon, <2>2, RawMoves
  <2>5. ~in.beat.last
    BY <2>4, <1>6
  <2> QED  BY Zenon, <2>2, <2>3, <2>4, <2>5, <1>1, <1>3
<1>7. ASSUME raw'.idx = 0, rxd'[1].valid
      PROVE  rxd'[1].beat.last
  <2>1. rxd'[1] = in
    <3>1. ~Idle.valid
      BY DEF Idle
    <3> QED  BY Zenon, <3>1, <1>1, <1>3, <1>7
  <2>2. in.valid
    BY <2>1, <1>7
  <2>3. raw'.idx = (IF in.beat.last THEN 0 ELSE in.beat.idx) /\ in.beat.idx \in 1..MaxLen
    BY Zenon, <2>2, RawMoves, MacSendsNext
  <2> QED  BY <2>1, <2>3, <1>7
<1> QED  BY Zenon, <1>4, <1>5, <1>6, <1>7 DEF RawOK

\* The soft reset: an empty line, and the decision pipeline goes on.
LEMMA LineFlushed ==
  ASSUME PathType, RawOK, MinGap # 0, NEW in \in MacInputs, NEW keep \in BOOLEAN,
         MacSends(in), FlushDelayLine, decq' = Shift(decq, Verdict(in, keep))
  PROVE  LineOK' /\ RawOK' /\ \A k \in 1..SAF_DLY : ~rxd'[k].valid
<1>1. \A k \in 1..SAF_DLY : ~rxd'[k].valid
  BY DEF FlushDelayLine, Idle
<1>2. ~rxd_armed'
  BY DEF FlushDelayLine
<1>3. decq'[1].valid => raw'.idx = 0 /\ raw'.gap > 0
  <2>1. decq'[1] = Verdict(in, keep)
    BY PathAssumption DEF Shift, PathType
  <2> QED  BY Zenon, <2>1, VerdictGap
<1>4. 1 \in 1..SAF_DLY
  BY PathAssumption
<1>5. RawOK'
  BY Zenon, <1>1, <1>2, <1>3, <1>4 DEF RawOK
<1>6. \A k \in 1..(SAF_DLY - 1) : k \in 1..SAF_DLY /\ k + 1 \in 1..SAF_DLY
  BY PathAssumption
<1>7. LineOK'
  BY Zenon, <1>1, <1>6 DEF LineOK, Joined, Judged
<1> QED  BY <1>1, <1>5, <1>7

\* The end of the line: what the buffer will see in the next cycle.
LEMMA LineEnd ==
  ASSUME PathType, LineOK, RawOK, NEW in \in MacInputs, NEW keep \in BOOLEAN, DelayLine(in),
         decq' = Shift(decq, Verdict(in, keep))
  PROVE  /\ rxd[SAF_DLY] \in Inputs /\ decq[SAF_DLY + 1] \in Decisions
         /\ decq[SAF_DLY + 1].valid => ~rxd[SAF_DLY].valid
         /\ Joined(rxd[SAF_DLY], rxd'[SAF_DLY])
         /\ Judged(rxd[SAF_DLY], decq'[SAF_DLY + 1])
<1> USE PathAssumption
<1>1. /\ rxd'[1] = RxdIn(in)
      /\ \A k \in 2..SAF_DLY : rxd'[k] = rxd[k - 1]
      /\ \A k \in 2..(SAF_DLY + 1) : decq'[k] = decq[k - 1]
  BY Zenon, LineMoves
<1>2. rxd[SAF_DLY] \in Inputs /\ decq[SAF_DLY + 1] \in Decisions
  BY DEF PathType
<1>3. decq[SAF_DLY + 1].valid => ~rxd[SAF_DLY].valid
  BY DEF LineOK
<1>4. Joined(rxd[SAF_DLY], rxd'[SAF_DLY])
  <2>1. CASE SAF_DLY = 1
    BY Zenon, <2>1, <1>1, HeadFits
  <2>2. CASE SAF_DLY # 1
    <3>1. SAF_DLY - 1 \in 1..(SAF_DLY - 1) /\ (SAF_DLY - 1) + 1 = SAF_DLY /\ SAF_DLY \in 2..SAF_DLY
      BY <2>2
    <3> QED  BY Zenon, <3>1, <1>1 DEF LineOK
  <2> QED  BY <2>1, <2>2
<1>5. Judged(rxd[SAF_DLY], decq'[SAF_DLY + 1])
  <2>1. SAF_DLY \in 1..SAF_DLY /\ decq'[SAF_DLY + 1] = decq[SAF_DLY]
    BY <1>1
  <2> QED  BY Zenon, <2>1 DEF LineOK
<1> QED  BY <1>2, <1>3, <1>4, <1>5
-----------------------------------------------------------------------------
At(p) == mem[Addr(p, DEPTH)]
Out == rxd[SAF_DLY]             \* the beat at the buffer's input
Dec == decq[SAF_DLY + 1]        \* the decision at the buffer's input
SpecFrame == At(wr_commit).frame
Receiving == ~aborted /\ wr_spec # wr_commit

\* The speculative region: from wr_commit up to wr_spec the first beats of
\* the frame whose next beat, or whose decision, is at the input.
SpecOK ==
  /\ aborted => Dec.valid \/ (Out.valid /\ Out.beat.idx # 1)
  /\ (~aborted /\ wr_spec = wr_commit /\ Out.valid) => Out.beat.idx = 1
  /\ Receiving =>
       /\ \A p \in Ptrs : Und(p, wr_commit, wr_spec) =>
            /\ At(p).frame = SpecFrame /\ At(p).idx = Dist(p, wr_commit, DEPTH) + 1
            /\ At(p).last <=> (Dec.valid /\ Inc(p, DEPTH) = wr_spec)
       /\ Dec.valid => Dec.route = SpecFrame
       /\ ~Dec.valid => /\ Out.valid /\ Out.beat.frame = SpecFrame
                        /\ Out.beat.idx = Dist(wr_spec, wr_commit, DEPTH) + 1

\* The write side when no beat is written.
LEMMA SpecQuiet ==
  ASSUME PathType, LineOK, RawOK, SpecOK, NEW in \in MacInputs, NEW keep \in BOOLEAN,
         DelayLine(in), decq' = Shift(decq, Verdict(in, keep)),
         WriteSide(Out, Dec), Dec.valid \/ ~beat_we(Out)
  PROVE  SpecOK' /\ ~Receiving' /\ mem' = mem
<1>1. /\ Dec.valid => ~Out.valid
      /\ Joined(Out, Out') /\ Judged(Out, Dec')
  BY Zenon, LineEnd DEF Out, Dec
<1>2. ~Out.valid => (Out'.valid => Out'.beat.idx = 1)
  BY Zenon, <1>1 DEF Joined
<1>3. ~beat_we(Out) /\ mem' = mem
  BY Zenon, <1>1 DEF WriteSide, beat_we
<1>4. CASE Dec.valid
  <2>1. aborted' = FALSE /\ wr_spec' = wr_commit'
    BY Zenon, <1>3, <1>4 DEF WriteSide
  <2> QED  BY Zenon, <2>1, <1>1, <1>2, <1>3, <1>4 DEF SpecOK, Receiving
<1>5. CASE ~Dec.valid /\ ~Out.valid
  <2>1. ~aborted /\ wr_spec = wr_commit
    BY Zenon, <1>5 DEF SpecOK, Receiving
  <2>2. ~aborted' /\ wr_spec' = wr_commit'
    BY Zenon, <1>3, <1>5, <2>1 DEF WriteSide
  <2> QED  BY Zenon, <2>2, <1>2, <1>3, <1>5 DEF SpecOK, Receiving
<1>6. CASE ~Dec.valid /\ Out.valid
  <2>1. aborted'
    BY Zenon, <1>3, <1>6 DEF WriteSide
  <2>2. Dec'.valid \/ (Out'.valid /\ Out'.beat.idx # 1)
    BY Zenon, <1>1, <1>6 DEF Joined, Judged
  <2> QED  BY Zenon, <2>1, <2>2, <1>3 DEF SpecOK, Receiving
<1> QED  BY Zenon, <1>4, <1>5, <1>6

\* The write side when a beat of the frame in progress is written.
LEMMA SpecWrite ==
  ASSUME PathType, PointerOrder, LineOK, RawOK, SpecOK, NEW in \in MacInputs,
         NEW keep \in BOOLEAN, DelayLine(in), decq' = Shift(decq, Verdict(in, keep)),
         WriteSide(Out, Dec), ~Dec.valid, beat_we(Out)
  PROVE  /\ SpecOK' /\ SpecFrame' = Out.beat.frame
         /\ Dec'.valid <=> Out.beat.last
         /\ UNCHANGED <<wr_commit, desc_mem, desc_wr>>
<1> USE DepthAssumption
<1>1. Joined(Out, Out') /\ Judged(Out, Dec')
  BY Zenon, LineEnd DEF Out, Dec
<1>2. /\ mem' = [mem EXCEPT ![Addr(wr_spec, DEPTH)] = Out.beat]
      /\ wr_spec' = Inc(wr_spec, DEPTH) /\ ~aborted'
      /\ UNCHANGED <<wr_commit, desc_mem, desc_wr>>
      /\ ~aborted /\ Out.valid /\ can_write
  BY Zenon DEF WriteSide, beat_we
<1>3. /\ wr_commit \in 0..(2 * DEPTH - 1) /\ wr_spec \in 0..(2 * DEPTH - 1)
      /\ rd_ptr \in 0..(2 * DEPTH - 1) /\ DOMAIN mem = 0..(DEPTH - 1)
  BY DEF PathType, SafTypeOK, Ptrs
<1>4. Dist(wr_spec, wr_commit, DEPTH) < DEPTH /\ Dist(wr_spec, wr_commit, DEPTH) \in Nat
  <2>1. /\ Dist(wr_spec, wr_commit, DEPTH) = Dist(wr_spec, rd_ptr, DEPTH) - Dist(wr_commit, rd_ptr, DEPTH)
        /\ Dist(wr_spec, rd_ptr, DEPTH) <= DEPTH
    BY <1>3, WindowJoin DEF PointerOrder
  <2>2. /\ Dist(wr_spec, rd_ptr, DEPTH) \in 0..(2 * DEPTH - 1)
        /\ Dist(wr_commit, rd_ptr, DEPTH) \in 0..(2 * DEPTH - 1)
        /\ Dist(wr_spec, wr_commit, DEPTH) \in 0..(2 * DEPTH - 1)
    BY Zenon, <1>3, DistType
  <2>3. Dist(wr_spec, rd_ptr, DEPTH) # DEPTH
    BY Zenon, <1>2 DEF can_write, used_spec
  <2> QED  BY <2>1, <2>2, <2>3
<1>5. /\ Dist(wr_spec', wr_commit, DEPTH) <= DEPTH
      /\ Dist(wr_spec', wr_commit, DEPTH) = Dist(wr_spec, wr_commit, DEPTH) + 1
      /\ \A p \in Ptrs : Und(p, wr_commit, wr_spec') <=> (Und(p, wr_commit, wr_spec) \/ p = wr_spec)
      /\ wr_spec' # wr_commit /\ wr_spec' \in 0..(2 * DEPTH - 1)
  <2>1. /\ Dist(Inc(wr_spec, DEPTH), wr_commit, DEPTH) <= DEPTH
        /\ \A p \in Ptrs : Und(p, wr_commit, Inc(wr_spec, DEPTH)) <=> (Und(p, wr_commit, wr_spec) \/ p = wr_spec)
    BY <1>3, <1>4, WindowPush DEF Und, Ptrs
  <2>2. Dist(Inc(wr_spec, DEPTH), wr_commit, DEPTH) = Dist(wr_spec, wr_commit, DEPTH) + 1
    BY <1>3, <1>4, DistIncHead
  <2>3. Inc(wr_spec, DEPTH) \in 0..(2 * DEPTH - 1)
    BY <1>3, IncType
  <2>4. Inc(wr_spec, DEPTH) # wr_commit
    BY <2>2, <1>3, <1>4, DistType
  <2> QED  BY Zenon, <2>1, <2>2, <2>3, <2>4, <1>2
<1> DEFINE bu(p) == mem'[Addr(p, DEPTH)]
           F == Out.beat.frame
<1>6. bu(wr_spec) = Out.beat
  BY <1>2, <1>3, AddrType
<1>7. ASSUME NEW p \in Ptrs, Und(p, wr_commit, wr_spec)
      PROVE  bu(p) = At(p) /\ p # wr_spec
  <2>1. p # wr_spec
    BY <1>7, <1>3, WindowEnds DEF Und
  <2>2. Und(p, wr_commit, wr_spec') /\ Und(wr_spec, wr_commit, wr_spec')
    BY Zenon, <1>3, <1>5, <1>7 DEF Ptrs
  <2>3. Addr(p, DEPTH) # Addr(wr_spec, DEPTH)
    BY <2>1, <2>2, <1>3, <1>5, WindowAddr DEF Und, Ptrs
  <2>4. Addr(p, DEPTH) \in DOMAIN mem
    BY <1>3, AddrType DEF Ptrs
  <2> QED  BY <1>2, <2>1, <2>3, <2>4 DEF At
<1>8. bu(wr_commit).frame = F /\ Out.beat.idx = Dist(wr_spec, wr_commit, DEPTH) + 1
  <2>1. CASE wr_spec = wr_commit
    <3>1. Out.beat.idx = 1 /\ Dist(wr_spec, wr_commit, DEPTH) = 0
      BY <2>1, <1>2, <1>3, DistType DEF SpecOK
    <3> QED  BY <2>1, <3>1, <1>6
  <2>2. CASE wr_spec # wr_commit
    <3>1. F = At(wr_commit).frame /\ Out.beat.idx = Dist(wr_spec, wr_commit, DEPTH) + 1
      BY Zenon, <2>2, <1>2 DEF SpecOK, SpecFrame, Receiving
    <3>2. Und(wr_commit, wr_commit, wr_spec)
      BY <2>2, <1>3, WindowEnds DEF Und
    <3>3. bu(wr_commit) = At(wr_commit)
      BY Zenon, <3>2, <1>3, <1>7 DEF Ptrs
    <3> QED  BY Zenon, <3>1, <3>3
  <2> QED  BY <2>1, <2>2
<1>9. ASSUME NEW p \in Ptrs, Und(p, wr_commit, wr_spec')
      PROVE  /\ bu(p).frame = F /\ bu(p).idx = Dist(p, wr_commit, DEPTH) + 1
             /\ bu(p).last <=> (Dec'.valid /\ Inc(p, DEPTH) = wr_spec')
  <2>1. CASE p = wr_spec
    BY Zenon, <2>1, <1>1, <1>2, <1>6, <1>8 DEF Judged
  <2>2. CASE Und(p, wr_commit, wr_spec)
    <3>1. bu(p) = At(p) /\ p # wr_spec
      BY Zenon, <2>2, <1>7
    <3>2. wr_spec # wr_commit
      BY <2>2, <1>3, <1>4, WindowNext DEF Und, Ptrs
    <3>3. /\ At(p).frame = F /\ At(p).idx = Dist(p, wr_commit, DEPTH) + 1
          /\ ~At(p).last
      BY Zenon, <2>2, <3>2, <1>2 DEF SpecOK, Receiving
    <3>4. Inc(p, DEPTH) # wr_spec'
      BY <3>1, <1>2, <1>3, IncInjective DEF Ptrs
    <3> QED  BY Zenon, <3>1, <3>3, <3>4
  <2> QED  BY Zenon, <1>5, <1>9, <2>1, <2>2
<1>10. /\ Dec'.valid => Dec'.route = F
       /\ ~Dec'.valid => /\ Out'.valid /\ Out'.beat.frame = F
                         /\ Out'.beat.idx = Dist(wr_spec', wr_commit, DEPTH) + 1
  <2>1. Dec'.valid => Dec'.route = F
    BY Zenon, <1>1, <1>2 DEF Judged
  <2>2. ~Dec'.valid => /\ Out'.valid /\ Out'.beat.frame = F /\ Out'.beat.idx = Out.beat.idx + 1
    BY Zenon, <1>1, <1>2 DEF Judged, Joined
  <2> QED  BY Zenon, <2>1, <2>2, <1>5, <1>8
<1>11. SpecFrame' = F
  BY <1>2, <1>8 DEF SpecFrame, At
<1>12. (\A p \in Ptrs : Und(p, wr_commit, wr_spec) =>
            /\ At(p).frame = SpecFrame /\ At(p).idx = Dist(p, wr_commit, DEPTH) + 1
            /\ At(p).last <=> (Dec.valid /\ Inc(p, DEPTH) = wr_spec))'
  BY Zenon, <1>2, <1>9, <1>11 DEF At
<1>13. SpecOK'
  BY Zenon, <1>2, <1>5, <1>10, <1>11, <1>12 DEF SpecOK, Receiving
<1>14. Dec'.valid <=> Out.beat.last
  BY Zenon, <1>1, <1>2 DEF Judged
<1> QED  BY <1>2, <1>11, <1>13, <1>14
-----------------------------------------------------------------------------
\* Frame f, ended if e, came before the n newest inputs of the delay line
\* and before what the MAC sends next.
Older(f, e, n, line, r) ==
  /\ f \in Nat
  /\ \A k \in 1..n : line[k].valid => f <= line[k].beat.frame /\ (e => f < line[k].beat.frame)
  /\ f <= r.frame /\ ((e /\ r.idx > 0) => f < r.frame)

\* Frame f is over, and older than the speculative frame s if there is one.
Past(f, line, r, receiving, s) == Older(f, TRUE, SAF_DLY, line, r) /\ (receiving => f < s)

BeatAt == [p \in Ptrs |-> mem[Addr(p, DEPTH)]]
RouteAt == [d \in DescPtrs |-> desc_mem[Addr(d, DESC_DEPTH)]]

\* Frames come in the order of their numbers, so that the descriptors of
\* the frames that wait are told apart by them.
OrderOK ==
  /\ \A k \in 1..SAF_DLY :
       rxd[k].valid => Older(rxd[k].beat.frame, rxd[k].beat.last, k - 1, rxd, raw)
  /\ Receiving => Older(SpecFrame, Dec.valid, SAF_DLY, rxd, raw)
  /\ \A d \in DescPtrs : Queued(d, desc_rd, desc_wr) => Past(RouteAt[d], rxd, raw, Receiving, SpecFrame)
  /\ \A p \in Ptrs : Und(p, rd_ptr, wr_commit) => Past(BeatAt[p].frame, rxd, raw, Receiving, SpecFrame)
  /\ dvalid => Past(dbeat.frame, rxd, raw, Receiving, SpecFrame)

LEMMA OlderStep ==
  ASSUME PathType, NEW in \in MacInputs, NEW keep \in BOOLEAN, MacSends(in), DelayLine(in),
         decq' = Shift(decq, Verdict(in, keep)),
         NEW f, NEW e, NEW n \in 0..SAF_DLY, NEW m \in 0..SAF_DLY, m <= n + 1,
         Older(f, e, n, rxd, raw)
  PROVE  Older(f, e, m, rxd', raw')
<1> USE PathAssumption
<1>1. rxd'[1] = RxdIn(in) /\ \A k \in 2..SAF_DLY : rxd'[k] = rxd[k - 1]
  BY Zenon, LineMoves
<1>2. f \in Nat /\ f <= raw.frame /\ ((e /\ raw.idx > 0) => f < raw.frame)
      /\ raw.frame \in Nat /\ raw.idx \in Nat
  BY DEF Older, PathType
<1>3. in.valid => f <= in.beat.frame /\ (e => f < in.beat.frame)
  <2>1. in.valid => in.beat.frame = IF raw.idx > 0 THEN raw.frame ELSE raw.frame + 1
    BY Zenon, MacSendsNext
  <2> QED  BY <2>1, <1>2
<1>4. ASSUME NEW k \in 1..m, rxd'[k].valid
      PROVE  f <= rxd'[k].beat.frame /\ (e => f < rxd'[k].beat.frame)
  <2>1. CASE k = 1
    <3>1. RxdIn(in).valid => RxdIn(in) = in
      BY DEF RxdIn, Idle
    <3> QED  BY Zenon, <3>1, <2>1, <1>1, <1>3, <1>4
  <2>2. CASE k # 1
    <3>1. k \in 2..SAF_DLY /\ k - 1 \in 1..n
      BY <2>2
    <3> QED  BY Zenon, <3>1, <1>1, <1>4 DEF Older
  <2> QED  BY <2>1, <2>2
<1>5. f <= raw'.frame /\ ((e /\ raw'.idx > 0) => f < raw'.frame)
  <2>1. CASE ~in.valid
    BY Zenon, <2>1, <1>2, RawMoves
  <2>2. CASE in.valid
    BY Zenon, <2>2, <1>3, RawMoves
  <2> QED  BY <2>1, <2>2
<1> QED  BY Zenon, <1>2, <1>4, <1>5 DEF Older

\* A frame that is over stays over, also for the frame that is received next.
LEMMA PastStep ==
  ASSUME PathType, NEW in \in MacInputs, NEW keep \in BOOLEAN, MacSends(in), DelayLine(in),
         decq' = Shift(decq, Verdict(in, keep)), NEW f,
         Older(f, TRUE, SAF_DLY, rxd, raw),
         Receiving' => Out.valid /\ SpecFrame' = Out.beat.frame
  PROVE  Past(f, rxd', raw', Receiving', SpecFrame')
<1>1. SAF_DLY \in 0..SAF_DLY /\ SAF_DLY <= SAF_DLY + 1 /\ SAF_DLY \in 1..SAF_DLY
  BY PathAssumption
<1>2. Older(f, TRUE, SAF_DLY, rxd', raw')
  BY Zenon, <1>1, OlderStep
<1>3. Out.valid => f < Out.beat.frame
  BY Zenon, <1>1 DEF Older, Out
<1> QED  BY Zenon, <1>2, <1>3 DEF Past

\* The order in the delay line.
LEMMA LineOrder ==
  ASSUME PathType, OrderOK, NEW in \in MacInputs, NEW keep \in BOOLEAN, MacSends(in),
         DelayLine(in), decq' = Shift(decq, Verdict(in, keep)),
         NEW k \in 1..SAF_DLY, rxd'[k].valid
  PROVE  Older(rxd'[k].beat.frame, rxd'[k].beat.last, k - 1, rxd', raw')
<1> USE PathAssumption
<1>1. rxd'[1] = RxdIn(in) /\ \A j \in 2..SAF_DLY : rxd'[j] = rxd[j - 1]
  BY Zenon, LineMoves
<1>2. CASE k = 1
  <2>1. rxd'[k] = in /\ in.valid
    BY <1>1, <1>2 DEF RxdIn, Idle
  <2>2. /\ raw'.frame = in.beat.frame /\ raw'.idx = (IF in.beat.last THEN 0 ELSE in.beat.idx)
        /\ in.beat.frame \in 0..MaxFrame
    BY Zenon, <2>1, RawMoves, MacSendsNext
  <2>3. in.beat.frame \in Nat /\ in.beat.frame <= raw'.frame /\ ~(in.beat.last /\ raw'.idx > 0)
    BY <2>2
  <2>4. 1..(k - 1) = {}
    BY <1>2
  <2> QED  BY Zenon, <2>1, <2>3, <2>4 DEF Older
<1>3. CASE k # 1
  <2>1. k \in 2..SAF_DLY /\ k - 1 \in 1..SAF_DLY /\ (k - 1) - 1 \in 0..SAF_DLY
        /\ k - 1 \in 0..SAF_DLY /\ k - 1 <= ((k - 1) - 1) + 1
    BY <1>3
  <2>2. rxd'[k] = rxd[k - 1] /\ rxd[k - 1].valid
    BY Zenon, <2>1, <1>1
  <2>3. Older(rxd[k - 1].beat.frame, rxd[k - 1].beat.last, (k - 1) - 1, rxd, raw)
    BY Zenon, <2>1, <2>2 DEF OrderOK
  <2>4. Older(rxd[k - 1].beat.frame, rxd[k - 1].beat.last, k - 1, rxd', raw')
    BY Zenon, <2>1, <2>3, OlderStep
  <2> QED  BY Zenon, <2>2, <2>4
<1> QED  BY <1>2, <1>3
-----------------------------------------------------------------------------
PendOK ==
  /\ Dist(desc_wr, desc_rd, DESC_DEPTH) <= DESC_DEPTH
  /\ Pend(BeatAt, rd_ptr, wr_commit, RouteAt, desc_rd, desc_wr, dbeat, dvalid, drained)

\* The drain side of one clock edge, on what was committed before it.
LEMMA DrainPend ==
  ASSUME PathType, PointerOrder, PendOK, NEW ready \in BOOLEAN, DrainSide(ready),
         drained' = IF consume(ready) THEN dbeat ELSE drained
  PROVE  Pend(BeatAt, rd_ptr', wr_commit, RouteAt, desc_rd', desc_wr, dbeat', dvalid', drained')
<1> USE DepthAssumption, DescDepthAssumption
<1>1. /\ rd_ptr \in Ptrs /\ wr_commit \in Ptrs /\ desc_rd \in DescPtrs /\ desc_wr \in DescPtrs
      /\ dvalid \in BOOLEAN
  BY DEF PathType, SafTypeOK
<1>2. dbeat \in FrameBeats
  BY StreamAssumption DEF PathType, SafTypeOK
<1>3. Dist(wr_commit, rd_ptr, DEPTH) <= DEPTH
  <2>1. Dist(wr_commit, rd_ptr, DEPTH) \in 0..(2 * DEPTH - 1) /\ Dist(wr_spec, rd_ptr, DEPTH) \in 0..(2 * DEPTH - 1)
    BY Zenon, DistType DEF PathType, SafTypeOK, Ptrs
  <2> QED  BY <2>1 DEF PointerOrder
<1>4. Pend(BeatAt, rd_ptr, wr_commit, RouteAt, desc_rd, desc_wr, dbeat, dvalid, drained)
      /\ Dist(desc_wr, desc_rd, DESC_DEPTH) <= DESC_DEPTH
  BY Zenon DEF PendOK
<1>5. rd_ptr # wr_commit => desc_rd # desc_wr
  BY Zenon, <1>1, <1>4 DEF Pend, Leads
<1>6. BeatAt[rd_ptr] = mem[Addr(rd_ptr, DEPTH)]
  BY <1>1 DEF BeatAt
<1>7. CASE ~consume(ready) /\ fetch(ready)
  <2>1. rd_ptr # wr_commit /\ ~dvalid
    BY Zenon, <1>7 DEF fetch, avail
  <2>2. /\ dbeat' = BeatAt[rd_ptr] /\ rd_ptr' = Inc(rd_ptr, DEPTH) /\ dvalid' = TRUE
        /\ desc_rd' = desc_rd /\ drained' = drained
    BY Zenon, <1>6, <1>7 DEF DrainSide
  <2>3. Pend(BeatAt, rd_ptr, wr_commit, RouteAt, desc_rd, desc_wr, dbeat, FALSE, drained)
    BY Zenon, <2>1, <1>1, <1>4
  <2>4. Pend(BeatAt, Inc(rd_ptr, DEPTH), wr_commit, RouteAt, desc_rd, desc_wr, BeatAt[rd_ptr], TRUE, drained)
    BY Zenon, <2>1, <2>3, <1>1, <1>3, PendFetch
  <2> QED  BY Zenon, <2>2, <2>4
<1>8. CASE ~consume(ready) /\ ~fetch(ready)
  <2>1. dbeat' = dbeat /\ rd_ptr' = rd_ptr /\ desc_rd' = desc_rd /\ drained' = drained
    BY Zenon, <1>8 DEF DrainSide
  <2>2. dvalid' = dvalid
    BY Zenon, <1>1, <1>8 DEF DrainSide
  <2> QED  BY Zenon, <2>1, <2>2, <1>4
<1>9. CASE consume(ready) /\ ~dbeat.last
  <2>1. dvalid = TRUE /\ desc_rd' = desc_rd /\ drained' = dbeat
    BY Zenon, <1>1, <1>9 DEF DrainSide, consume
  <2>2. rd_ptr # wr_commit
    BY Zenon, <2>1, <1>4, <1>9 DEF Pend, Closes
  <2>3. fetch(ready)
    BY Zenon, <2>2, <1>5, <1>9 DEF fetch, avail, desc_empty
  <2>4. dbeat' = BeatAt[rd_ptr] /\ rd_ptr' = Inc(rd_ptr, DEPTH) /\ dvalid' = TRUE
    BY Zenon, <1>6, <2>3 DEF DrainSide
  <2>5. Pend(BeatAt, rd_ptr, wr_commit, RouteAt, desc_rd, desc_wr, dbeat, TRUE, drained)
    BY Zenon, <2>1, <1>4
  <2>6. Pend(BeatAt, Inc(rd_ptr, DEPTH), wr_commit, RouteAt, desc_rd, desc_wr, BeatAt[rd_ptr], TRUE, dbeat)
    BY Zenon, <2>2, <2>5, <1>1, <1>2, <1>3, <1>9, PendPass
  <2> QED  BY Zenon, <2>1, <2>4, <2>6
<1>10. CASE consume(ready) /\ dbeat.last
  <2> DEFINE dr == Inc(desc_rd, DESC_DEPTH)
  <2>1. dvalid = TRUE /\ desc_rd' = dr /\ drained' = dbeat
    BY Zenon, <1>1, <1>10 DEF DrainSide, consume
  <2>2. Pend(BeatAt, rd_ptr, wr_commit, RouteAt, dr, desc_wr, dbeat, FALSE, dbeat)
    <3>1. Pend(BeatAt, rd_ptr, wr_commit, RouteAt, desc_rd, desc_wr, dbeat, TRUE, drained)
      BY Zenon, <2>1, <1>4
    <3> QED  BY Zenon, <3>1, <1>1, <1>4, <1>10, PendRelease
  <2>3. CASE rd_ptr = wr_commit
    <3>1. ~fetch(ready)
      BY Zenon, <2>3 DEF fetch, avail
    <3>2. dbeat' = dbeat /\ rd_ptr' = rd_ptr /\ dvalid' = FALSE
      BY Zenon, <3>1, <1>10 DEF DrainSide
    <3> QED  BY Zenon, <2>1, <2>2, <3>2
  <2>4. CASE rd_ptr # wr_commit
    <3>1. fetch(ready)
      BY Zenon, <2>4, <1>5, <1>10 DEF fetch, avail, desc_empty
    <3>2. dbeat' = BeatAt[rd_ptr] /\ rd_ptr' = Inc(rd_ptr, DEPTH) /\ dvalid' = TRUE
      BY Zenon, <1>6, <3>1 DEF DrainSide
    <3>3. dr \in DescPtrs
      BY Zenon, <1>1, IncType DEF DescPtrs
    <3> HIDE DEF dr
    <3>4. Pend(BeatAt, Inc(rd_ptr, DEPTH), wr_commit, RouteAt, dr, desc_wr, BeatAt[rd_ptr], TRUE, dbeat)
      BY Zenon, <2>2, <2>4, <3>3, <1>1, <1>3, PendFetch
    <3> QED  BY Zenon, <2>1, <3>2, <3>4
  <2> QED  BY <2>3, <2>4
<1> QED  BY Zenon, <1>7, <1>8, <1>9, <1>10

\* What the drain side does to the windows.
LEMMA DrainWindows ==
  ASSUME PathType, PointerOrder, PendOK, NEW ready \in BOOLEAN, DrainSide(ready)
  PROVE  /\ rd_ptr' \in Ptrs /\ desc_rd' \in DescPtrs
         /\ Dist(desc_wr, desc_rd', DESC_DEPTH) <= Dist(desc_wr, desc_rd, DESC_DEPTH)
         /\ Dist(wr_commit, rd_ptr', DEPTH) <= Dist(wr_spec, rd_ptr', DEPTH)
         /\ Dist(wr_spec, rd_ptr', DEPTH) <= DEPTH
         /\ \A p \in Ptrs : Und(p, rd_ptr', wr_commit) => Und(p, rd_ptr, wr_commit)
         /\ \A d \in DescPtrs : Queued(d, desc_rd', desc_wr) => Queued(d, desc_rd, desc_wr)
         /\ dvalid' => \/ dvalid /\ dbeat' = dbeat
                       \/ Und(rd_ptr, rd_ptr, wr_commit) /\ dbeat' = BeatAt[rd_ptr]
<1> USE DepthAssumption, DescDepthAssumption
<1>1. /\ rd_ptr \in Ptrs /\ wr_commit \in Ptrs /\ desc_rd \in DescPtrs /\ desc_wr \in DescPtrs
      /\ dvalid \in BOOLEAN /\ wr_spec \in Ptrs
  BY DEF PathType, SafTypeOK
<1>2. /\ Dist(wr_commit, rd_ptr, DEPTH) <= Dist(wr_spec, rd_ptr, DEPTH)
      /\ Dist(wr_spec, rd_ptr, DEPTH) <= DEPTH
      /\ Dist(desc_wr, desc_rd, DESC_DEPTH) <= DESC_DEPTH
  BY Zenon DEF PointerOrder, PendOK
<1>3. /\ rd_ptr' \in Ptrs
      /\ Dist(wr_commit, rd_ptr', DEPTH) <= Dist(wr_spec, rd_ptr', DEPTH)
      /\ Dist(wr_spec, rd_ptr', DEPTH) <= DEPTH
      /\ \A p \in Ptrs : Und(p, rd_ptr', wr_commit) => Und(p, rd_ptr, wr_commit)
  <2>1. CASE rd_ptr' = rd_ptr
    BY Zenon, <2>1, <1>1, <1>2
  <2>2. CASE rd_ptr' = Inc(rd_ptr, DEPTH) /\ rd_ptr # wr_commit
    <3>1. Inc(rd_ptr, DEPTH) \in Ptrs
      BY <1>1, IncType DEF Ptrs
    <3>2. /\ Dist(wr_commit, Inc(rd_ptr, DEPTH), DEPTH) <= Dist(wr_spec, Inc(rd_ptr, DEPTH), DEPTH)
          /\ Dist(wr_spec, Inc(rd_ptr, DEPTH), DEPTH) <= DEPTH
      BY <2>2, <1>1, <1>2 DEF Ptrs, Dist, Inc
    <3>3. \A p \in Ptrs : Und(p, Inc(rd_ptr, DEPTH), wr_commit) => Und(p, rd_ptr, wr_commit)
      BY <2>2, <1>1, <1>2 DEF Ptrs, Und, In, Dist, Inc
    <3> QED  BY Zenon, <2>2, <3>1, <3>2, <3>3
  <2>3. rd_ptr' = rd_ptr \/ (rd_ptr' = Inc(rd_ptr, DEPTH) /\ rd_ptr # wr_commit)
    BY Zenon DEF DrainSide, fetch, avail
  <2> QED  BY <2>1, <2>2, <2>3
<1>4. /\ desc_rd' \in DescPtrs
      /\ Dist(desc_wr, desc_rd', DESC_DEPTH) <= Dist(desc_wr, desc_rd, DESC_DEPTH)
      /\ \A d \in DescPtrs : Queued(d, desc_rd', desc_wr) => Queued(d, desc_rd, desc_wr)
  <2>1. CASE desc_rd' = desc_rd
    <3>1. Dist(desc_wr, desc_rd, DESC_DEPTH) <= Dist(desc_wr, desc_rd, DESC_DEPTH)
      BY <1>1 DEF Dist, DescPtrs
    <3> QED  BY Zenon, <2>1, <3>1, <1>1
  <2>2. CASE desc_rd' = Inc(desc_rd, DESC_DEPTH) /\ desc_rd # desc_wr
    <3>1. Inc(desc_rd, DESC_DEPTH) \in DescPtrs
      BY <1>1, IncType DEF DescPtrs
    <3>2. Dist(desc_wr, Inc(desc_rd, DESC_DEPTH), DESC_DEPTH) <= Dist(desc_wr, desc_rd, DESC_DEPTH)
      BY <2>2, <1>1 DEF DescPtrs, Dist, Inc
    <3>3. \A d \in DescPtrs : Queued(d, Inc(desc_rd, DESC_DEPTH), desc_wr) => Queued(d, desc_rd, desc_wr)
      BY <2>2, <1>1, <1>2, WindowDrop DEF DescPtrs, Queued
    <3> QED  BY Zenon, <2>2, <3>1, <3>2, <3>3
  <2>3. desc_rd' = desc_rd \/ (desc_rd' = Inc(desc_rd, DESC_DEPTH) /\ dvalid)
    BY Zenon DEF DrainSide, consume
  <2>4. dvalid => desc_rd # desc_wr
    BY Zenon DEF PendOK, Pend, Leads
  <2> QED  BY Zenon, <2>1, <2>2, <2>3, <2>4
<1>5. ASSUME dvalid'
      PROVE  \/ dvalid /\ dbeat' = dbeat
             \/ Und(rd_ptr, rd_ptr, wr_commit) /\ dbeat' = BeatAt[rd_ptr]
  <2>1. CASE fetch(ready)
    <3>1. rd_ptr # wr_commit /\ dbeat' = mem[Addr(rd_ptr, DEPTH)]
      BY Zenon, <2>1 DEF DrainSide, fetch, avail
    <3>2. Und(rd_ptr, rd_ptr, wr_commit)
      BY <3>1, <1>1, WindowEnds DEF Und, Ptrs
    <3> QED  BY <3>1, <3>2, <1>1 DEF BeatAt
  <2>2. CASE ~fetch(ready)
    BY Zenon, <2>2, <1>5 DEF DrainSide
  <2> QED  BY <2>1, <2>2
<1> QED  BY Zenon, <1>3, <1>4, <1>5
-----------------------------------------------------------------------------
IInv == /\ PathType /\ PointerOrder
        /\ LineOK /\ RawOK /\ SpecOK /\ OrderOK /\ PendOK

\* What one clock edge with the reset inactive does, and the lemmas' name
\* for it: the buffer sees Out and Dec.
Edge(in, keep, ready) ==
  /\ MacSends(in) /\ SafTick(Out, Dec, ready) /\ DelayLine(in)
  /\ decq' = Shift(decq, Verdict(in, keep))
  /\ drained' = IF consume(ready) THEN dbeat ELSE drained

LEMMA EdgeType ==
  ASSUME PathType, NEW in \in MacInputs, NEW keep \in BOOLEAN, NEW ready \in BOOLEAN,
         Edge(in, keep, ready)
  PROVE  PathType'
<1>1. SafTypeOK /\ Out \in Inputs /\ Dec \in Decisions
  BY PathAssumption DEF PathType, Out, Dec
<1>2. SafTypeOK'
  BY Zenon, <1>1, TickType DEF Edge
<1>3. raw' \in [frame : 0..MaxFrame, idx : 0..(MaxLen - 1), gap : Nat]
  BY Zenon, RawMoves DEF Edge
<1>4. RxdIn(in) \in Inputs
  <2>1. Idle \in Inputs
    BY UnusedBeat DEF Idle, Inputs
  <2> QED  BY Zenon, <2>1, MacSendsNext DEF RxdIn
<1>5. rxd' \in [1..SAF_DLY -> Inputs]
  <2>1. rxd' = [s \in 1..SAF_DLY |-> IF s = 1 THEN RxdIn(in) ELSE rxd[s - 1]]
    BY DEF Edge, DelayLine, Shift, PathType
  <2>2. \A s \in 1..SAF_DLY : (IF s = 1 THEN RxdIn(in) ELSE rxd[s - 1]) \in Inputs
    BY <1>4, PathAssumption DEF PathType
  <2> QED  BY Zenon, <2>1, <2>2
<1>6. decq' \in [1..(SAF_DLY + 1) -> Decisions]
  <2>1. decq' = [s \in 1..(SAF_DLY + 1) |-> IF s = 1 THEN Verdict(in, keep) ELSE decq[s - 1]]
    BY DEF Edge, Shift, PathType
  <2>2. Verdict(in, keep) \in Decisions
    BY Zenon, VerdictType
  <2>3. \A s \in 1..(SAF_DLY + 1) : (IF s = 1 THEN Verdict(in, keep) ELSE decq[s - 1]) \in Decisions
    BY <2>2, PathAssumption DEF PathType
  <2> QED  BY Zenon, <2>1, <2>3
<1>7. rxd_armed' \in BOOLEAN
  BY Zenon DEF Edge, DelayLine
<1>8. drained' \in Beats
  BY Zenon DEF Edge, PathType, SafTypeOK
<1> QED  BY Zenon, <1>2, <1>3, <1>5, <1>6, <1>7, <1>8 DEF PathType

\* The order of frames after a clock edge, when every frame that then waits
\* was over before it.
LEMMA EdgeOrder ==
  ASSUME IInv, NEW in \in MacInputs, NEW keep \in BOOLEAN, NEW ready \in BOOLEAN,
         Edge(in, keep, ready),
         Receiving' => /\ Out.valid /\ SpecFrame' = Out.beat.frame
                       /\ Dec'.valid <=> Out.beat.last,
         \A d \in DescPtrs : Queued(d, desc_rd', desc_wr') => Older(RouteAt'[d], TRUE, SAF_DLY, rxd, raw),
         \A p \in Ptrs : Und(p, rd_ptr', wr_commit') => Older(BeatAt'[p].frame, TRUE, SAF_DLY, rxd, raw),
         dvalid' => Older(dbeat'.frame, TRUE, SAF_DLY, rxd, raw)
  PROVE  OrderOK'
<1>0. PathType /\ OrderOK /\ MacSends(in) /\ DelayLine(in) /\ decq' = Shift(decq, Verdict(in, keep))
  BY Zenon DEF IInv, Edge
<1>1. \A k \in 1..SAF_DLY :
        rxd'[k].valid => Older(rxd'[k].beat.frame, rxd'[k].beat.last, k - 1, rxd', raw')
  BY Zenon, <1>0, LineOrder
<1>2. \A f : Older(f, TRUE, SAF_DLY, rxd, raw) => Past(f, rxd', raw', Receiving', SpecFrame')
  BY Zenon, <1>0, PastStep
<1>3. ASSUME Receiving'
      PROVE  Older(SpecFrame', Dec'.valid, SAF_DLY, rxd', raw')
  <2>1. SAF_DLY \in 1..SAF_DLY /\ SAF_DLY - 1 \in 0..SAF_DLY /\ SAF_DLY \in 0..SAF_DLY
        /\ SAF_DLY <= (SAF_DLY - 1) + 1
    BY PathAssumption
  <2>2. Older(Out.beat.frame, Out.beat.last, SAF_DLY - 1, rxd, raw)
    BY Zenon, <1>0, <1>3, <2>1 DEF OrderOK, Out
  <2>3. Older(Out.beat.frame, Out.beat.last, SAF_DLY, rxd', raw')
    BY Zenon, <1>0, <2>1, <2>2, OlderStep
  <2> QED  BY Zenon, <2>3, <1>3 DEF Older
<1> QED  BY Zenon, <1>1, <1>2, <1>3 DEF OrderOK

\* Every frame that waits before the edge, and the output register after it.
LEMMA WaitingOver ==
  ASSUME IInv, NEW ready \in BOOLEAN, DrainSide(ready)
  PROVE  /\ \A d \in DescPtrs : Queued(d, desc_rd', desc_wr) => Older(RouteAt[d], TRUE, SAF_DLY, rxd, raw)
         /\ \A p \in Ptrs : Und(p, rd_ptr', wr_commit) => Older(BeatAt[p].frame, TRUE, SAF_DLY, rxd, raw)
         /\ dvalid' => Older(dbeat'.frame, TRUE, SAF_DLY, rxd, raw)
<1>1. PathType /\ PointerOrder /\ PendOK /\ OrderOK
  BY Zenon DEF IInv
<1>2. rd_ptr \in Ptrs
  BY Zenon, <1>1 DEF PathType, SafTypeOK
<1>3. /\ \A p \in Ptrs : Und(p, rd_ptr', wr_commit) => Und(p, rd_ptr, wr_commit)
      /\ \A d \in DescPtrs : Queued(d, desc_rd', desc_wr) => Queued(d, desc_rd, desc_wr)
      /\ dvalid' => \/ dvalid /\ dbeat' = dbeat
                    \/ Und(rd_ptr, rd_ptr, wr_commit) /\ dbeat' = BeatAt[rd_ptr]
  BY Zenon, <1>1, DrainWindows
<1> QED  BY Zenon, <1>1, <1>2, <1>3 DEF OrderOK, Past

\* A clock edge that commits no frame.
LEMMA EdgeNoCommit ==
  ASSUME IInv, NEW in \in MacInputs, NEW keep \in BOOLEAN, NEW ready \in BOOLEAN,
         Edge(in, keep, ready), ~(Dec.valid /\ Publish(Dec))
  PROVE  SpecOK' /\ OrderOK' /\ PendOK'
<1>1. /\ PathType /\ PointerOrder /\ LineOK /\ RawOK /\ SpecOK /\ OrderOK /\ PendOK /\ SafTypeOK
      /\ MacSends(in) /\ DelayLine(in) /\ decq' = Shift(decq, Verdict(in, keep))
      /\ SafTick(Out, Dec, ready) /\ WriteSide(Out, Dec) /\ DrainSide(ready)
      /\ drained' = IF consume(ready) THEN dbeat ELSE drained
  BY Zenon DEF IInv, Edge, SafTick, PathType
<1>2. UNCHANGED <<wr_commit, desc_mem, desc_wr>>
  BY Zenon, <1>1 DEF WriteSide
<1>3. /\ SpecOK'
      /\ Receiving' => /\ Out.valid /\ SpecFrame' = Out.beat.frame
                       /\ Dec'.valid <=> Out.beat.last
  <2>1. CASE Dec.valid \/ ~beat_we(Out)
    BY Zenon, <2>1, <1>1, SpecQuiet
  <2>2. CASE ~Dec.valid /\ beat_we(Out)
    <3>1. Out.valid
      BY Zenon, <2>2 DEF beat_we
    <3> QED  BY Zenon, <2>2, <3>1, <1>1, SpecWrite
  <2> QED  BY Zenon, <2>1, <2>2
<1>4. RouteAt' = RouteAt
  BY Zenon, <1>2 DEF RouteAt
<1>5. \A p \in Ptrs : Und(p, rd_ptr, wr_commit) => BeatAt'[p] = BeatAt[p]
  <2> SUFFICES ASSUME NEW p \in Ptrs, Und(p, rd_ptr, wr_commit)
               PROVE  mem'[Addr(p, DEPTH)] = mem[Addr(p, DEPTH)]
    BY DEF BeatAt
  <2>1. Undrained(p)
    BY Zenon DEF Undrained, Und, In
  <2>2. Out \in Inputs /\ Dec \in Decisions
    BY Zenon, <1>1, LineEnd DEF Out, Dec
  <2> QED  BY Zenon, <2>1, <2>2, <1>1, TickKeeps
<1>6. /\ rd_ptr' \in Ptrs /\ desc_rd' \in DescPtrs
      /\ Dist(desc_wr, desc_rd', DESC_DEPTH) <= Dist(desc_wr, desc_rd, DESC_DEPTH)
      /\ \A p \in Ptrs : Und(p, rd_ptr', wr_commit) => Und(p, rd_ptr, wr_commit)
  BY Zenon, <1>1, DrainWindows
<1>7. PendOK'
  <2>1. Pend(BeatAt, rd_ptr', wr_commit, RouteAt, desc_rd', desc_wr, dbeat', dvalid', drained')
    BY Zenon, <1>1, DrainPend
  <2>2. wr_commit \in Ptrs /\ desc_wr \in DescPtrs /\ desc_rd \in DescPtrs
    BY Zenon, <1>1 DEF SafTypeOK
  <2>3. dvalid' \in BOOLEAN
    BY Zenon, <1>1, EdgeType DEF PathType, SafTypeOK
  <2>4. \A p \in Ptrs : Und(p, rd_ptr', wr_commit) => BeatAt'[p] = BeatAt[p]
    BY Zenon, <1>5, <1>6
  <2>5. Pend(BeatAt', rd_ptr', wr_commit, RouteAt, desc_rd', desc_wr, dbeat', dvalid', drained')
    BY Zenon, <2>1, <2>2, <2>3, <2>4, <1>6, PendSame
  <2>6. Dist(desc_wr, desc_rd', DESC_DEPTH) <= DESC_DEPTH
    <3>1. /\ Dist(desc_wr, desc_rd', DESC_DEPTH) \in Int /\ Dist(desc_wr, desc_rd, DESC_DEPTH) \in Int
          /\ Dist(desc_wr, desc_rd, DESC_DEPTH) <= DESC_DEPTH
      BY <2>2, <1>1, <1>6, DescDepthAssumption DEF Dist, DescPtrs, PendOK
    <3> QED  BY <3>1, <1>6, DescDepthAssumption
  <2> QED  BY Zenon, <2>5, <2>6, <1>2, <1>4 DEF PendOK
<1>8. /\ \A d \in DescPtrs : Queued(d, desc_rd', desc_wr') => Older(RouteAt'[d], TRUE, SAF_DLY, rxd, raw)
      /\ \A p \in Ptrs : Und(p, rd_ptr', wr_commit') => Older(BeatAt'[p].frame, TRUE, SAF_DLY, rxd, raw)
      /\ dvalid' => Older(dbeat'.frame, TRUE, SAF_DLY, rxd, raw)
  <2>1. /\ \A d \in DescPtrs : Queued(d, desc_rd', desc_wr) => Older(RouteAt[d], TRUE, SAF_DLY, rxd, raw)
        /\ \A p \in Ptrs : Und(p, rd_ptr', wr_commit) => Older(BeatAt[p].frame, TRUE, SAF_DLY, rxd, raw)
        /\ dvalid' => Older(dbeat'.frame, TRUE, SAF_DLY, rxd, raw)
    BY Zenon, <1>1, WaitingOver
  <2>2. desc_wr' = desc_wr /\ wr_commit' = wr_commit
    BY Zenon, <1>2
  <2> QED  BY Zenon, <2>1, <2>2, <1>4, <1>5, <1>6
<1>9. OrderOK'
  BY Zenon, <1>3, <1>8, EdgeOrder
<1> QED  BY <1>3, <1>7, <1>9

\* A clock edge that commits the speculative frame.
LEMMA EdgeCommit ==
  ASSUME IInv, NEW in \in MacInputs, NEW keep \in BOOLEAN, NEW ready \in BOOLEAN,
         Edge(in, keep, ready), Dec.valid, Publish(Dec)
  PROVE  SpecOK' /\ OrderOK' /\ PendOK'
<1> USE DepthAssumption, DescDepthAssumption
<1> DEFINE F == SpecFrame
<1>1. /\ PathType /\ PointerOrder /\ LineOK /\ RawOK /\ SpecOK /\ OrderOK /\ PendOK /\ SafTypeOK
      /\ MacSends(in) /\ DelayLine(in) /\ decq' = Shift(decq, Verdict(in, keep))
      /\ SafTick(Out, Dec, ready) /\ WriteSide(Out, Dec) /\ DrainSide(ready)
      /\ drained' = IF consume(ready) THEN dbeat ELSE drained
  BY Zenon DEF IInv, Edge, SafTick, PathType
<1>2. SpecOK' /\ ~Receiving' /\ mem' = mem
  BY Zenon, <1>1, SpecQuiet
<1>3. /\ wr_commit' = wr_spec /\ desc_wr' = Inc(desc_wr, DESC_DEPTH)
      /\ desc_mem' = [desc_mem EXCEPT ![Addr(desc_wr, DESC_DEPTH)] = Dec.route]
  BY Zenon, <1>1 DEF WriteSide
<1>4. Receiving /\ wr_spec # wr_commit /\ Dist(desc_wr, desc_rd, DESC_DEPTH) # DESC_DEPTH
  BY Zenon DEF Publish, Receiving, desc_full, desc_used
<1>5. Dec.route = F /\ Older(F, TRUE, SAF_DLY, rxd, raw) /\ F \in Nat
  <2>1. Dec \in Decisions
    BY Zenon, <1>1, LineEnd DEF Dec
  <2>2. Dec.valid = TRUE
    BY <2>1 DEF Decisions
  <2> QED  BY Zenon, <2>2, <1>1, <1>4 DEF SpecOK, OrderOK, Older
<1>6. BeatAt' = BeatAt
  BY Zenon, <1>2 DEF BeatAt
<1>7. /\ wr_commit \in Ptrs /\ wr_spec \in Ptrs /\ desc_wr \in DescPtrs /\ desc_rd \in DescPtrs
      /\ DOMAIN desc_mem = 0..(DESC_DEPTH - 1)
  BY <1>1 DEF SafTypeOK
<1>8. /\ rd_ptr' \in Ptrs /\ desc_rd' \in DescPtrs
      /\ Dist(desc_wr, desc_rd', DESC_DEPTH) <= Dist(desc_wr, desc_rd, DESC_DEPTH)
      /\ Dist(wr_commit, rd_ptr', DEPTH) <= Dist(wr_spec, rd_ptr', DEPTH)
      /\ Dist(wr_spec, rd_ptr', DEPTH) <= DEPTH
      /\ \A p \in Ptrs : Und(p, rd_ptr', wr_commit) => Und(p, rd_ptr, wr_commit)
      /\ \A d \in DescPtrs : Queued(d, desc_rd', desc_wr) => Queued(d, desc_rd, desc_wr)
  BY Zenon, <1>1, DrainWindows
<1>9. Dist(desc_wr, desc_rd', DESC_DEPTH) < DESC_DEPTH
  <2>1. /\ Dist(desc_wr, desc_rd', DESC_DEPTH) \in Int /\ Dist(desc_wr, desc_rd, DESC_DEPTH) \in Int
        /\ Dist(desc_wr, desc_rd, DESC_DEPTH) <= DESC_DEPTH
    BY <1>1, <1>7, <1>8 DEF Dist, DescPtrs, PendOK
  <2> QED  BY <2>1, <1>4, <1>8
<1>10. /\ \A d \in DescPtrs : Queued(d, desc_rd', desc_wr') <=> (Queued(d, desc_rd', desc_wr) \/ d = desc_wr)
       /\ Dist(desc_wr', desc_rd', DESC_DEPTH) <= DESC_DEPTH /\ desc_wr' \in DescPtrs
  <2>1. /\ \A d \in DescPtrs : Queued(d, desc_rd', Inc(desc_wr, DESC_DEPTH))
                                 <=> (Queued(d, desc_rd', desc_wr) \/ d = desc_wr)
        /\ Dist(Inc(desc_wr, DESC_DEPTH), desc_rd', DESC_DEPTH) <= DESC_DEPTH
    BY <1>7, <1>8, <1>9, WindowPush DEF Queued, DescPtrs
  <2>2. Inc(desc_wr, DESC_DEPTH) \in DescPtrs
    BY <1>7, IncType DEF DescPtrs
  <2> QED  BY Zenon, <2>1, <2>2, <1>3
<1>11. RouteAt'[desc_wr] = F
  <2>1. Addr(desc_wr, DESC_DEPTH) \in 0..(DESC_DEPTH - 1)
    BY <1>7, AddrType DEF DescPtrs
  <2>2. desc_mem'[Addr(desc_wr, DESC_DEPTH)] = F
    BY <2>1, <1>3, <1>5, <1>7
  <2> QED  BY <2>2, <1>7 DEF RouteAt
<1>12. ASSUME NEW d \in DescPtrs, Queued(d, desc_rd', desc_wr)
       PROVE  RouteAt'[d] = RouteAt[d]
  <2>1. d # desc_wr
    BY <1>7, <1>8, <1>12, WindowEnds DEF Queued, DescPtrs
  <2>2. Queued(d, desc_rd', desc_wr') /\ Queued(desc_wr, desc_rd', desc_wr')
    BY Zenon, <1>7, <1>10, <1>12
  <2>3. Addr(d, DESC_DEPTH) # Addr(desc_wr, DESC_DEPTH)
    BY <2>1, <2>2, <1>7, <1>8, <1>10, WindowAddr DEF Queued, DescPtrs
  <2>4. desc_mem'[Addr(d, DESC_DEPTH)] = desc_mem[Addr(d, DESC_DEPTH)]
    <3>1. Addr(d, DESC_DEPTH) \in 0..(DESC_DEPTH - 1)
      BY AddrType DEF DescPtrs
    <3> QED  BY <2>3, <3>1, <1>3, <1>7
  <2> QED  BY <2>4 DEF RouteAt
<1>13. /\ \A d \in DescPtrs : Queued(d, desc_rd', desc_wr) => Older(RouteAt[d], TRUE, SAF_DLY, rxd, raw)
       /\ \A p \in Ptrs : Und(p, rd_ptr', wr_commit) => Older(BeatAt[p].frame, TRUE, SAF_DLY, rxd, raw)
       /\ dvalid' => Older(dbeat'.frame, TRUE, SAF_DLY, rxd, raw)
  BY Zenon, <1>1, WaitingOver
<1>14. \A p \in Ptrs : Und(p, wr_commit, wr_spec) =>
         /\ BeatAt[p].frame = F /\ BeatAt[p].idx = Dist(p, wr_commit, DEPTH) + 1
         /\ BeatAt[p].last <=> Inc(p, DEPTH) = wr_spec
  <2>1. \A p \in Ptrs : BeatAt[p] = At(p)
    BY DEF BeatAt, At
  <2> QED  BY Zenon, <2>1, <1>1, <1>4 DEF SpecOK
<1>15. OrderOK'
  <2>1. \A d \in DescPtrs : Queued(d, desc_rd', desc_wr') => Older(RouteAt'[d], TRUE, SAF_DLY, rxd, raw)
    BY Zenon, <1>5, <1>10, <1>11, <1>12, <1>13
  <2>2. \A p \in Ptrs : Und(p, rd_ptr', wr_commit') => Older(BeatAt'[p].frame, TRUE, SAF_DLY, rxd, raw)
    <3>1. \A p \in Ptrs : Und(p, rd_ptr', wr_spec) <=> (Und(p, rd_ptr', wr_commit) \/ Und(p, wr_commit, wr_spec))
      BY <1>7, <1>8, WindowJoin DEF Und, Ptrs
    <3> QED  BY Zenon, <3>1, <1>3, <1>5, <1>6, <1>13, <1>14
  <2> QED  BY Zenon, <2>1, <2>2, <1>2, <1>13, EdgeOrder
<1>16. /\ \A d \in DescPtrs : Queued(d, desc_rd', desc_wr) => RouteAt[d] # F
       /\ \A p \in Ptrs : Und(p, rd_ptr', wr_commit) => BeatAt[p].frame # F
       /\ dvalid' => dbeat'.frame # F
  <2>1. \A f : Past(f, rxd, raw, Receiving, F) => f # F
    <3>1. \A f : Past(f, rxd, raw, Receiving, F) => f \in Nat /\ f < F
      BY Zenon, <1>4 DEF Past, Older
    <3> HIDE DEF F
    <3> QED  BY <3>1, <1>5
  <2>2. /\ rd_ptr \in Ptrs
        /\ dvalid' => \/ dvalid /\ dbeat' = dbeat
                      \/ Und(rd_ptr, rd_ptr, wr_commit) /\ dbeat' = BeatAt[rd_ptr]
    BY Zenon, <1>1, DrainWindows DEF SafTypeOK
  <2>3. /\ \A d \in DescPtrs : Queued(d, desc_rd, desc_wr) => Past(RouteAt[d], rxd, raw, Receiving, F)
        /\ \A p \in Ptrs : Und(p, rd_ptr, wr_commit) => Past(BeatAt[p].frame, rxd, raw, Receiving, F)
        /\ dvalid => Past(dbeat.frame, rxd, raw, Receiving, F)
    BY Zenon, <1>1 DEF OrderOK
  <2> HIDE DEF F
  <2> QED  BY Zenon, <2>1, <2>2, <2>3, <1>8
<1>17. PendOK'
  <2>1. Pend(BeatAt, rd_ptr', wr_commit, RouteAt, desc_rd', desc_wr, dbeat', dvalid', drained')
    BY Zenon, <1>1, DrainPend
  <2>2. dvalid' \in BOOLEAN
    <3>1. PathType'
      BY Zenon, <1>1, EdgeType
    <3> QED  BY Zenon, <3>1 DEF PathType, SafTypeOK
  <2>3. Pend(BeatAt, rd_ptr', wr_spec, RouteAt', desc_rd', Inc(desc_wr, DESC_DEPTH), dbeat', dvalid', drained')
    <3> DEFINE ru == RouteAt'
               db == dbeat'
    <3>1. F = ru[desc_wr]
      BY <1>11
    <3>2. /\ \A d \in DescPtrs : Queued(d, desc_rd', desc_wr) => ru[d] = RouteAt[d] /\ RouteAt[d] # ru[desc_wr]
          /\ wr_commit # wr_spec
      BY Zenon, <3>1, <1>4, <1>12, <1>16
    <3>3. /\ \A p \in Ptrs : Und(p, rd_ptr', wr_commit) => BeatAt[p].frame # ru[desc_wr]
          /\ dvalid' => db.frame # ru[desc_wr]
      BY Zenon, <3>1, <1>16
    <3>4. \A p \in Ptrs : Und(p, wr_commit, wr_spec) =>
            /\ BeatAt[p].frame = ru[desc_wr] /\ BeatAt[p].idx = Dist(p, wr_commit, DEPTH) + 1
            /\ BeatAt[p].last <=> Inc(p, DEPTH) = wr_spec
      BY Zenon, <3>1, <1>14
    <3>5. Pend(BeatAt, rd_ptr', wr_commit, RouteAt, desc_rd', desc_wr, db, dvalid', drained')
      BY <2>1
    <3> HIDE DEF ru, db
    <3>6. Committing(BeatAt, rd_ptr', wr_commit, wr_spec, RouteAt, ru, desc_rd', desc_wr, db, dvalid')
      BY Zenon, <3>2, <3>3, <3>4, <1>8, <1>9 DEF Committing
    <3>7. Pend(BeatAt, rd_ptr', wr_spec, ru, desc_rd', Inc(desc_wr, DESC_DEPTH), db, dvalid', drained')
      <4>1. /\ rd_ptr' \in Ptrs /\ wr_commit \in Ptrs /\ wr_spec \in Ptrs
            /\ desc_rd' \in DescPtrs /\ desc_wr \in DescPtrs
        BY Zenon, <1>7, <1>8
      <4> QED  BY <2>2, <3>5, <3>6, <4>1, PendPublish
    <3> QED  BY <3>7 DEF ru, db
  <2> QED  BY Zenon, <2>3, <1>3, <1>6, <1>10 DEF PendOK
<1> QED  BY <1>2, <1>15, <1>17
-----------------------------------------------------------------------------
\* With nothing buffered, nothing queued and an empty delay line there is
\* nothing to keep in order: the state of the path at power-up and in reset.
Emptied ==
  /\ rd_ptr = 0 /\ wr_commit = 0 /\ wr_spec = 0 /\ ~aborted
  /\ desc_rd = 0 /\ desc_wr = 0 /\ ~dvalid /\ drained = Unused
  /\ \A k \in 1..SAF_DLY : ~rxd[k].valid

LEMMA EmptyPath == Emptied => PointerOrder /\ SpecOK /\ OrderOK /\ PendOK
<1> SUFFICES ASSUME Emptied PROVE PointerOrder /\ SpecOK /\ OrderOK /\ PendOK
  OBVIOUS
<1> USE DEF Emptied
<1>1. ~Out.valid
  BY PathAssumption DEF Out
<1>2. /\ \A p \in Ptrs : ~Und(p, rd_ptr, wr_commit)
      /\ \A d \in DescPtrs : ~Queued(d, desc_rd, desc_wr)
      /\ Dist(desc_wr, desc_rd, DESC_DEPTH) <= DESC_DEPTH /\ PointerOrder
  BY DepthAssumption, DescDepthAssumption DEF Und, Queued, In, Dist, Ptrs, DescPtrs, PointerOrder
<1>3. SpecOK /\ ~Receiving
  BY Zenon, <1>1 DEF SpecOK, Receiving
<1>4. OrderOK
  BY Zenon, <1>2, <1>3 DEF OrderOK
<1>5. PendOK
  BY Zenon, <1>2 DEF PendOK, Pend
<1> QED  BY <1>2, <1>3, <1>4, <1>5

LEMMA PathInit == Init => IInv
<1> SUFFICES ASSUME Init PROVE IInv
  OBVIOUS
<1> USE PathAssumption
<1>1. PathType
  <2>1. SafTypeOK
    BY Zenon, InitType DEF Init
  <2>2. Idle \in Inputs
    BY UnusedBeat DEF Idle, Inputs
  <2>3. NoDec \in Decisions
    BY StreamAssumption DEF NoDec, Decisions
  <2>4. rxd \in [1..SAF_DLY -> Inputs] /\ decq \in [1..(SAF_DLY + 1) -> Decisions]
    BY <2>2, <2>3 DEF Init
  <2>5. raw \in [frame : 0..MaxFrame, idx : 0..(MaxLen - 1), gap : Nat]
    BY DEF Init
  <2> QED  BY Zenon, <2>1, <2>4, <2>5, UnusedBeat DEF Init, PathType
<1>2. /\ \A k \in 1..SAF_DLY : ~rxd[k].valid
      /\ \A k \in 1..(SAF_DLY + 1) : ~decq[k].valid
  BY DEF Init, Idle, NoDec
<1>3. PointerOrder /\ SpecOK /\ OrderOK /\ PendOK
  BY Zenon, <1>2, EmptyPath DEF Init, SafInit, Emptied
<1>4. /\ 1 \in 1..SAF_DLY /\ 1 \in 1..(SAF_DLY + 1)
      /\ \A k \in 1..SAF_DLY : k \in 1..(SAF_DLY + 1) /\ k + 1 \in 1..(SAF_DLY + 1)
      /\ \A k \in 1..(SAF_DLY - 1) : k \in 1..SAF_DLY /\ k + 1 \in 1..SAF_DLY
  OBVIOUS
<1>5. LineOK
  BY Zenon, <1>2, <1>4 DEF LineOK, Joined, Judged
<1>6. ~(raw.idx > 0)
  BY DEF Init
<1>7. RawOK
  BY Zenon, <1>2, <1>4, <1>6 DEF RawOK
<1> QED  BY <1>1, <1>3, <1>5, <1>7 DEF IInv

LEMMA RunKeeps ==
  ASSUME IInv, MinGap # 0, NEW in \in MacInputs, NEW keep \in BOOLEAN, NEW ready \in BOOLEAN,
         NEW pulse \in BOOLEAN, Run(in, keep, ready, pulse)
  PROVE  IInv'
<1>1. Edge(in, keep, ready)
  BY Zenon DEF Run, Edge, Out, Dec
<1>2. /\ PathType /\ PointerOrder /\ LineOK /\ RawOK /\ SafTypeOK
      /\ MacSends(in) /\ DelayLine(in) /\ decq' = Shift(decq, Verdict(in, keep))
      /\ SafTick(Out, Dec, ready)
  BY Zenon, <1>1 DEF IInv, Edge, PathType
<1>3. PathType'
  BY Zenon, <1>1, <1>2, EdgeType
<1>4. PointerOrder'
  <2>1. Out \in Inputs /\ Dec \in Decisions
    BY Zenon, <1>2, LineEnd DEF Out, Dec
  <2> QED  BY Zenon, <2>1, <1>2, TickOrder
<1>5. LineOK' /\ RawOK'
  BY Zenon, <1>2, LineStep, RawStep
<1>6. SpecOK' /\ OrderOK' /\ PendOK'
  BY Zenon, <1>1, EdgeCommit, EdgeNoCommit
<1> QED  BY Zenon, <1>3, <1>4, <1>5, <1>6 DEF IInv

LEMMA ResetKeeps ==
  ASSUME IInv, MinGap # 0, NEW in \in MacInputs, NEW keep \in BOOLEAN, NEW pulse \in BOOLEAN,
         ResetCycle(in, keep, pulse)
  PROVE  IInv'
<1>1. /\ PathType /\ RawOK /\ SafTypeOK
      /\ MacSends(in) /\ FlushDelayLine /\ decq' = Shift(decq, Verdict(in, keep))
      /\ SafReset /\ drained' = Unused
  BY Zenon DEF IInv, PathType, ResetCycle
<1>2. PathType'
  <2>1. SafTypeOK'
    BY Zenon, <1>1, ResetType
  <2>2. raw' \in [frame : 0..MaxFrame, idx : 0..(MaxLen - 1), gap : Nat]
    BY Zenon, <1>1, RawMoves
  <2>3. rxd' \in [1..SAF_DLY -> Inputs] /\ rxd_armed' \in BOOLEAN
    <3>1. Idle \in Inputs
      BY UnusedBeat DEF Idle, Inputs
    <3>2. rxd' = [s \in 1..SAF_DLY |-> Idle] /\ rxd_armed' = FALSE
      BY Zenon, <1>1 DEF FlushDelayLine
    <3> QED  BY Zenon, <3>1, <3>2
  <2>4. decq' \in [1..(SAF_DLY + 1) -> Decisions]
    <3>1. decq' = [s \in 1..(SAF_DLY + 1) |-> IF s = 1 THEN Verdict(in, keep) ELSE decq[s - 1]]
      BY <1>1 DEF Shift, PathType
    <3>2. Verdict(in, keep) \in Decisions
      BY Zenon, <1>1, VerdictType
    <3>3. \A s \in 1..(SAF_DLY + 1) : (IF s = 1 THEN Verdict(in, keep) ELSE decq[s - 1]) \in Decisions
      BY <3>2, <1>1, PathAssumption DEF PathType
    <3> QED  BY Zenon, <3>1, <3>3
  <2> QED  BY Zenon, <2>1, <2>2, <2>3, <2>4, <1>1, UnusedBeat DEF PathType
<1>3. LineOK' /\ RawOK' /\ \A k \in 1..SAF_DLY : ~rxd'[k].valid
  BY Zenon, <1>1, LineFlushed
<1>4. Emptied'
  BY Zenon, <1>1, <1>3 DEF SafReset, Emptied
<1>5. (PointerOrder /\ SpecOK /\ OrderOK /\ PendOK)'
  BY <1>4, EmptyPath, PTL
<1> QED  BY Zenon, <1>2, <1>3, <1>5 DEF IInv

LEMMA StutterKeeps == IInv /\ UNCHANGED vars => IInv'
<1> SUFFICES ASSUME IInv, UNCHANGED vars PROVE IInv'
  OBVIOUS
<1>1. /\ UNCHANGED <<raw, rxd, rxd_armed, decq, drained>>
      /\ UNCHANGED <<mem, rd_ptr, wr_commit, wr_spec, aborted>>
      /\ UNCHANGED <<desc_mem, desc_rd, desc_wr, dbeat, dvalid, overflow_drop>>
  BY Zenon DEF vars, safvars
<1>2. PathType' /\ PointerOrder'
  BY Zenon, <1>1 DEF IInv, PathType, SafTypeOK, PointerOrder
<1>3. LineOK' /\ RawOK'
  BY Zenon, <1>1 DEF IInv, LineOK, RawOK
<1>4. Receiving' = Receiving /\ SpecFrame' = SpecFrame /\ Out' = Out /\ Dec' = Dec
  BY Zenon, <1>1 DEF Receiving, SpecFrame, At, Out, Dec
<1>5. BeatAt' = BeatAt /\ RouteAt' = RouteAt
  BY Zenon, <1>1 DEF BeatAt, RouteAt
<1>6. SpecOK'
  BY Zenon, <1>1, <1>4 DEF IInv, SpecOK, At
<1>7. OrderOK'
  BY Zenon, <1>1, <1>4, <1>5 DEF IInv, OrderOK
<1>8. PendOK'
  BY Zenon, <1>1, <1>5 DEF IInv, PendOK
<1> QED  BY Zenon, <1>2, <1>3, <1>6, <1>7, <1>8 DEF IInv

LEMMA PathInductive == ASSUME MinGap # 0 PROVE IInv /\ [Next]_vars => IInv'
<1>1. ASSUME IInv, Next PROVE IInv'
  BY Zenon, <1>1, RunKeeps, ResetKeeps DEF Next
<1> QED  BY Zenon, <1>1, StutterKeeps

LEMMA HeadWhole == IInv => DrainedWhole
<1> SUFFICES ASSUME IInv, dvalid
             PROVE  /\ ~desc_empty /\ m_route = dbeat.frame
                    /\ IF drained = Unused \/ drained.last THEN dbeat.idx = 1
                       ELSE dbeat.frame = drained.frame /\ dbeat.idx = drained.idx + 1
  BY Zenon DEF DrainedWhole
<1>1. Leads(dbeat, RouteAt, desc_rd, desc_wr, drained)
  BY Zenon DEF IInv, PendOK, Pend
<1>2. RouteAt[desc_rd] = desc_mem[Addr(desc_rd, DESC_DEPTH)]
  BY DEF IInv, PathType, SafTypeOK, RouteAt
<1> QED  BY Zenon, <1>1, <1>2 DEF Leads, Follows, desc_empty, m_route

(* What leaves the store-and-forward buffer is whole: the beats of a frame *)
(* in order from the first to the last and under the descriptor its own    *)
(* decision pushed, across soft resets, overflows and dropped neighbours   *)
(* (pw_data_plane_axis.sv:496-603, pw_frame_saf.sv:96-188).  It needs an   *)
(* idle cycle between frames, which the MAC's inter-frame gap gives.       *)
THEOREM DrainedAlwaysWhole == ASSUME MinGap # 0 PROVE Spec => []DrainedWhole
<1>1. IInv /\ [Next]_vars => IInv'
  BY PathInductive
<1> QED  BY PathInit, <1>1, HeadWhole, PTL DEF Spec
=============================================================================
