------------------------------ MODULE FrameSaf ------------------------------
(***************************************************************************)
(* The store-and-forward buffer of one ingress port                        *)
(* (rtl/phase3/pw_frame_saf.sv), clock edge by clock edge.  Beats of the   *)
(* frame in progress are written speculatively; the decision that follows  *)
(* its last beat commits the whole frame or rolls it back.  Committed      *)
(* frames drain in order through a one-beat output register.               *)
(*                                                                         *)
(* Pointers have one bit more than the address, as in the code: they count *)
(* modulo 2 * DEPTH, and the address is the pointer modulo DEPTH.          *)
(***************************************************************************)
EXTENDS Integers

CONSTANTS DEPTH,        \* DEPTH_BEATS
          DESC_DEPTH,   \* frames in flight
          Beats,        \* beats, records with a field last
          Routes        \* routing tags

ASSUME DepthAssumption == DEPTH \in Nat \ {0}
ASSUME DescDepthAssumption == DESC_DEPTH \in Nat \ {0}
ASSUME BeatsAssumption == \A b \in Beats : b.last \in BOOLEAN

VARIABLES mem, rd_ptr, wr_commit, wr_spec, aborted,
          desc_mem, desc_rd, desc_wr,
          dbeat, dvalid,
          overflow_drop
safvars == <<mem, rd_ptr, wr_commit, wr_spec, aborted,
             desc_mem, desc_rd, desc_wr, dbeat, dvalid, overflow_drop>>

Ptrs == 0..(2 * DEPTH - 1)
DescPtrs == 0..(2 * DESC_DEPTH - 1)

\* Arithmetic on pointers that wrap at 2 * n.
Inc(p, n) == IF p = 2 * n - 1 THEN 0 ELSE p + 1
Dist(p, q, n) == IF p >= q THEN p - q ELSE p - q + 2 * n
Addr(p, n) == IF p < n THEN p ELSE p - n

used_spec == Dist(wr_spec, rd_ptr, DEPTH)
can_write == used_spec # DEPTH
desc_used == Dist(desc_wr, desc_rd, DESC_DEPTH)
desc_empty == desc_wr = desc_rd
desc_full == desc_used = DESC_DEPTH

SafInit ==
  /\ mem \in [0..(DEPTH - 1) -> Beats]
  /\ rd_ptr = 0 /\ wr_commit = 0 /\ wr_spec = 0 /\ aborted = FALSE
  /\ desc_mem \in [0..(DESC_DEPTH - 1) -> Routes]
  /\ desc_rd = 0 /\ desc_wr = 0
  /\ dbeat \in Beats /\ dvalid = FALSE
  /\ overflow_drop = FALSE

MutBeatWe(in) == in.valid /\ ~aborted    \* a full buffer is not noticed

beat_we(in) == in.valid /\ ~aborted /\ can_write

MutPublish(dec) == dec.keep /\ ~desc_full /\ wr_spec # wr_commit
MutPublishEmpty(dec) == dec.keep /\ ~aborted /\ ~desc_full

\* The frame can be published: wanted, whole, and there is a descriptor.
Publish(dec) == dec.keep /\ ~aborted /\ ~desc_full /\ wr_spec # wr_commit

\* Write side.  A decision's effect on wr_spec and aborted comes last in the
\* code and wins over the beat's.
WriteSide(in, dec) ==
  /\ mem' = IF beat_we(in) THEN [mem EXCEPT ![Addr(wr_spec, DEPTH)] = in.beat] ELSE mem
  /\ wr_spec' = IF dec.valid /\ ~Publish(dec) THEN wr_commit
                ELSE IF beat_we(in) THEN Inc(wr_spec, DEPTH) ELSE wr_spec
  /\ aborted' = IF dec.valid THEN FALSE ELSE aborted \/ (in.valid /\ ~beat_we(in))
  /\ IF dec.valid /\ Publish(dec)
     THEN /\ wr_commit' = wr_spec
          /\ desc_mem' = [desc_mem EXCEPT ![Addr(desc_wr, DESC_DEPTH)] = dec.route]
          /\ desc_wr' = Inc(desc_wr, DESC_DEPTH)
     ELSE UNCHANGED <<wr_commit, desc_mem, desc_wr>>
  /\ overflow_drop' = (dec.valid /\ ~Publish(dec) /\ dec.keep /\ (aborted \/ desc_full))

avail == rd_ptr # wr_commit /\ ~desc_empty
consume(ready) == dvalid /\ ready
fetch(ready) == avail /\ (~dvalid \/ consume(ready))

m_route == IF desc_empty THEN 0 ELSE desc_mem[Addr(desc_rd, DESC_DEPTH)]

\* Drain side: one-ahead fetch, descriptor released with the last beat.
DrainSide(ready) ==
  /\ IF fetch(ready)
     THEN /\ dbeat' = mem[Addr(rd_ptr, DEPTH)]
          /\ rd_ptr' = Inc(rd_ptr, DEPTH)
          /\ dvalid' = TRUE
     ELSE /\ dvalid' = (dvalid /\ ~consume(ready))
          /\ UNCHANGED <<dbeat, rd_ptr>>
  /\ desc_rd' = IF consume(ready) /\ dbeat.last THEN Inc(desc_rd, DESC_DEPTH) ELSE desc_rd

\* One clock edge.
SafTick(in, dec, ready) == WriteSide(in, dec) /\ DrainSide(ready)

\* dp_rst_n low: everything but the memories.
SafReset ==
  /\ rd_ptr' = 0 /\ wr_commit' = 0 /\ wr_spec' = 0 /\ aborted' = FALSE
  /\ desc_rd' = 0 /\ desc_wr' = 0
  /\ dvalid' = FALSE /\ overflow_drop' = FALSE
  /\ UNCHANGED <<mem, desc_mem, dbeat>>

\* The buffer alone, with any input whatever.
Inputs == [valid : BOOLEAN, beat : Beats]
Decisions == [valid : BOOLEAN, keep : BOOLEAN, route : Routes]

SafNext == \/ SafReset
           \/ \E in \in Inputs, dec \in Decisions, ready \in BOOLEAN : SafTick(in, dec, ready)

SafSpec == SafInit /\ [][SafNext]_safvars
-----------------------------------------------------------------------------
SafTypeOK ==
  /\ mem \in [0..(DEPTH - 1) -> Beats]
  /\ rd_ptr \in Ptrs /\ wr_commit \in Ptrs /\ wr_spec \in Ptrs
  /\ aborted \in BOOLEAN
  /\ desc_mem \in [0..(DESC_DEPTH - 1) -> Routes]
  /\ desc_rd \in DescPtrs /\ desc_wr \in DescPtrs
  /\ dbeat \in Beats /\ dvalid \in BOOLEAN /\ overflow_drop \in BOOLEAN

(* The committed region lies inside the speculative one and the buffer     *)
(* never holds more than DEPTH beats, whatever the order of beats,         *)
(* decisions and drain steps, and across the wrap of the pointers.         *)
PointerOrder ==
  /\ Dist(wr_commit, rd_ptr, DEPTH) <= Dist(wr_spec, rd_ptr, DEPTH)
  /\ Dist(wr_spec, rd_ptr, DEPTH) <= DEPTH

\* Pointer p addresses a committed beat that has not been fetched.
Undrained(p) == Dist(p, rd_ptr, DEPTH) < Dist(wr_commit, rd_ptr, DEPTH)

(* "read/write addresses never collide" (pw_frame_saf.sv:70-72): a clock   *)
(* edge never overwrites a committed beat that is still to be fetched.     *)
CommittedBeatsKept ==
  [][\A p \in Ptrs : Undrained(p) => mem'[Addr(p, DEPTH)] = mem[Addr(p, DEPTH)]]_safvars
=============================================================================
