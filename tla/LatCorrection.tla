---------------------------- MODULE LatCorrection ---------------------------
(***************************************************************************)
(* The inter-card latency correction, register access by register access.  *)
(* Cards latch their own clock at a shared sync edge (pw_gpio_sync.sv);    *)
(* software reads both latches, checks with the edge counters that no edge *)
(* fell in between (gpio_sync.c) and writes the difference of the clocks   *)
(* into the correction slot of each cross-card flow.  The servo thread     *)
(* does so all the time, control RPCs on the main thread do it too         *)
(* (packetwyrmd/src/main.c: servo_lat_correction, prime_lat_correction,    *)
(* servo_converged, build_flow_stats).  A 64-bit register is accessed as   *)
(* two words, the second of which is shared by all threads: reading        *)
(* TS_LOW latches TS_HIGH, and the low word of a correction waits in one   *)
(* shadow register per card (pw_csr_full.sv).                              *)
(*                                                                         *)
(* Clocks do not drift here, so the right correction is a constant.        *)
(* Whether a failed sample is retried or given up is left open: the code   *)
(* retries 8 (servo, statistics) or 8 * 200 times (prime).                 *)
(***************************************************************************)
EXTENDS Integers, Sequences

CONSTANTS W,           \* values of a register word (2^32)
          Epoch,       \* clock of each card at time 0
          Period,      \* clock ticks between two sync edges
          Cal,         \* --xcard-lat-cal: fixed bias between cards
          FlowMeta,    \* sequence of [tx, rx, slot]: the program's flows with an RX slot
          Calls,       \* RPCs the main thread handles
          MaxEdges,    \* bound: sync edges
          MaxBetween   \* bound: accesses while an edge travels between cards

Cards == DOMAIN Epoch
Threads == {"servo", "main"}
Slots == {FlowMeta[i].slot : i \in DOMAIN FlowMeta}
Master == 0            \* setup_gpio_sync: the first open card

ASSUME WordAssumption == W \in Nat \ {0}
ASSUME CardsAssumption == Cards = {0, 1} /\ \A c \in Cards : Epoch[c] \in Nat
ASSUME ClockAssumption == Period \in Nat /\ Cal \in Int /\ MaxEdges \in Nat

\* An edge crosses the cable in less than the last five of a sample's reads.
ASSUME CableAssumption == MaxBetween \in 0..4

\* A flow has an RX slot of its own (rx_local_flow_id).
ASSUME FlowsAssumption ==
  /\ FlowMeta \in Seq([tx : Cards, rx : Cards, slot : Nat])
  /\ \A i, j \in DOMAIN FlowMeta :
       FlowMeta[i].rx = FlowMeta[j].rx /\ FlowMeta[i].slot = FlowMeta[j].slot => i = j
ASSUME CallsAssumption == Calls \subseteq {"config.load", "test.start", "flow.stats"}

VARIABLES sync_seq,            \* edges each card has seen
          between,             \* accesses since an edge left the master
          ts_high_latched,     \* per card
          lat_corr_lo_shadow,  \* per card
          lat_corr,            \* per card and slot: the correction in use
          g_servo_lock,        \* holder of the mutex
          th                   \* what each thread is doing
card == <<ts_high_latched, lat_corr_lo_shadow, lat_corr>>
vars == <<sync_seq, between, card, g_servo_lock, th>>

\* The clock card c latched at its edge number n; the latch now.
Latched(c, n) == IF n = 0 THEN 0 ELSE Epoch[c] + Period * n
sync_ts(c) == Latched(c, sync_seq[c])
Low(x) == x % W
High(x) == (x % (W * W)) \div W
Signed(x) == x % (W * W)         \* a 64-bit difference, two's complement
CrossCard(m) == m.tx # m.rx

xcard_cal_bias(m) == IF m.tx < m.rx THEN Cal ELSE -Cal

\* i: the loop over the flows; got: the words of the sample read so far; corr:
\* the correction being written, word by word.
Idle == [call |-> "none", i |-> 1, got |-> <<>>, phase |-> "sample", corr |-> 0]
-----------------------------------------------------------------------------
\* An edge reaches the master and, some accesses later, the other card.
MasterEdge ==
  /\ sync_seq[0] = sync_seq[1] /\ sync_seq[0] < MaxEdges
  /\ sync_seq' = [sync_seq EXCEPT ![Master] = @ + 1] /\ between' = 0
  /\ UNCHANGED <<card, g_servo_lock, th>>

SlaveEdge ==
  /\ sync_seq[1] < sync_seq[0]
  /\ sync_seq' = [sync_seq EXCEPT ![1] = @ + 1] /\ between' = 0
  /\ UNCHANGED <<card, g_servo_lock, th>>

\* Every register access takes time; an edge in flight arrives soon.
Access == IF sync_seq[1] < sync_seq[0]
          THEN between < MaxBetween /\ between' = between + 1 /\ UNCHANGED sync_seq
          ELSE UNCHANGED <<sync_seq, between>>
-----------------------------------------------------------------------------
MutLocks(t, call) == t = "servo"      \* config.load programs without the lock

\* The servo tick takes the lock; of the RPCs only config.load does.
Locks(t, call) == t = "servo" \/ call = "config.load"

Begin(t, call) ==
  /\ th[t] = Idle
  /\ g_servo_lock' = IF Locks(t, call) THEN t ELSE g_servo_lock
  /\ Locks(t, call) => g_servo_lock = "free"
  /\ th' = [th EXCEPT ![t].call = call]
  /\ UNCHANGED <<sync_seq, between, card>>

End(t) ==
  /\ th[t].call # "none" /\ th[t].i > Len(FlowMeta)
  /\ th' = [th EXCEPT ![t] = Idle]
  /\ g_servo_lock' = IF g_servo_lock = t THEN "free" ELSE g_servo_lock
  /\ UNCHANGED <<sync_seq, between, card>>

Busy(t, phase) == th[t].call # "none" /\ th[t].i <= Len(FlowMeta) /\ th[t].phase = phase
Flow(t) == FlowMeta[th[t].i]
ToWrite(t, corr) == [th[t] EXCEPT !.got = <<>>, !.phase = "lo", !.corr = corr]
Proceed(t) == [th[t] EXCEPT !.got = <<>>, !.phase = "sample", !.corr = 0, !.i = @ + 1]

\* A same-card flow: a tick and the statistics pass over it, prime sets its
\* slot to zero.
SameCard(t) ==
  /\ Busy(t, "sample") /\ ~CrossCard(Flow(t))
  /\ th' = [th EXCEPT ![t] = IF th[t].call \in {"tick", "flow.stats"} THEN Proceed(t)
                             ELSE ToWrite(t, 0)]
  /\ UNCHANGED <<sync_seq, between, card, g_servo_lock>>

\* The eight reads of one sample, in order, and the card each one goes to.
Registers == <<"SEQ", "SEQ", "TS_LOW", "TS_HIGH", "TS_LOW", "TS_HIGH", "SEQ", "SEQ">>
Sides == <<"tx", "rx", "tx", "tx", "rx", "rx", "tx", "rx">>

Read(t) ==
  LET n == Len(th[t].got) + 1
      c == IF Sides[n] = "tx" THEN Flow(t).tx ELSE Flow(t).rx
      word == CASE Registers[n] = "SEQ" -> sync_seq[c]
                [] Registers[n] = "TS_LOW" -> Low(sync_ts(c))
                [] Registers[n] = "TS_HIGH" -> ts_high_latched[c]
  IN  /\ Busy(t, "sample") /\ CrossCard(Flow(t)) /\ n <= Len(Registers)
      /\ Access
      /\ ts_high_latched' = IF Registers[n] = "TS_LOW"
                            THEN [ts_high_latched EXCEPT ![c] = High(sync_ts(c))]
                            ELSE ts_high_latched
      /\ th' = [th EXCEPT ![t].got = Append(@, word)]
      /\ UNCHANGED <<lat_corr_lo_shadow, lat_corr, g_servo_lock>>

MutCoherent(got) == got[1] # 0 /\ got[2] # 0 /\ got[2] = got[8]

\* Both cards have seen an edge and no edge came during the sample.
Coherent(got) == got[1] # 0 /\ got[2] # 0 /\ got[1] = got[7] /\ got[2] = got[8]
Offset(got) == Signed((got[4] * W + got[3]) - (got[6] * W + got[5]))

\* Statistics report the offset, the others write it to the flow's slot.
Sampled(t) ==
  /\ Busy(t, "sample") /\ Len(th[t].got) = Len(Registers)
  /\ Coherent(th[t].got)
  /\ th' = [th EXCEPT ![t] =
              IF th[t].call = "flow.stats" THEN Proceed(t)
              ELSE ToWrite(t, Signed(Offset(th[t].got) + xcard_cal_bias(Flow(t))))]
  /\ UNCHANGED <<sync_seq, between, card, g_servo_lock>>

Incoherent(t) ==
  /\ Busy(t, "sample") /\ Len(th[t].got) = Len(Registers)
  /\ ~Coherent(th[t].got)
  /\ th' \in {[th EXCEPT ![t].got = <<>>], [th EXCEPT ![t] = Proceed(t)]}
  /\ UNCHANGED <<sync_seq, between, card, g_servo_lock>>

\* pw_gpio_sync_write_correction: LO is staged, HI commits both.
WriteLo(t) ==
  /\ Busy(t, "lo") /\ Access
  /\ lat_corr_lo_shadow' = [lat_corr_lo_shadow EXCEPT ![Flow(t).rx] = Low(th[t].corr)]
  /\ th' = [th EXCEPT ![t].phase = "hi"]
  /\ UNCHANGED <<ts_high_latched, lat_corr, g_servo_lock>>

WriteHi(t) ==
  /\ Busy(t, "hi") /\ Access
  /\ lat_corr' = [lat_corr EXCEPT ![Flow(t).rx][Flow(t).slot] =
                    High(th[t].corr) * W + lat_corr_lo_shadow[Flow(t).rx]]
  /\ th' = [th EXCEPT ![t] = Proceed(t)]
  /\ UNCHANGED <<ts_high_latched, lat_corr_lo_shadow, g_servo_lock>>
-----------------------------------------------------------------------------
Init ==
  /\ sync_seq = [c \in Cards |-> 0] /\ between = 0
  /\ ts_high_latched = [c \in Cards |-> 0] /\ lat_corr_lo_shadow = [c \in Cards |-> 0]
  /\ lat_corr = [c \in Cards |-> [s \in Slots |-> 0]]
  /\ g_servo_lock = "free"
  /\ th = [t \in Threads |-> Idle]

Next ==
  \/ MasterEdge \/ SlaveEdge
  \/ Begin("servo", "tick") \/ \E call \in Calls : Begin("main", call)
  \/ \E t \in Threads :
       End(t) \/ SameCard(t) \/ Read(t) \/ Sampled(t) \/ Incoherent(t) \/ WriteLo(t) \/ WriteHi(t)

Spec == Init /\ [][Next]_vars
-----------------------------------------------------------------------------

\* The correction a flow needs.
Right(m) == IF CrossCard(m) THEN Signed(Epoch[m.tx] - Epoch[m.rx] + xcard_cal_bias(m)) ELSE 0

(* An accepted sample is the difference of the two clocks: no edge, no     *)
(* edge still on its way, and no other thread that reads the same latch    *)
(* in between makes pw_gpio_sync_offset_coherent return a mixture          *)
(* (gpio_sync.c:53-66).                                                    *)
AcceptedOffsetIsTrue ==
  \A t \in Threads : th[t].phase # "sample" => th[t].corr = Right(Flow(t))

(* A correction in use is the one its flow needs (or still zero), never    *)
(* the high word of one slot with the low word of another: "the checker    *)
(* never sees a torn {old_hi,new_lo} value" (pw_csr_full.sv:331).          *)
CorrectionsWhole ==
  \A i \in DOMAIN FlowMeta :
    LET m == FlowMeta[i] IN lat_corr[m.rx][m.slot] \in {0, Right(m)}
=============================================================================
