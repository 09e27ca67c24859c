---------------------------- MODULE LatHistogram ----------------------------
(***************************************************************************)
(* The shared latency histogram (rtl/phase3/pw_lat_histogram.sv): one      *)
(* counter per (flow, bucket) in a block RAM, a one-deep holder per event  *)
(* source, and an engine that reads on one cycle and writes back on the    *)
(* next, or walks the memory to zero.                                      *)
(*                                                                         *)
(* ev[s] is source s's event in this cycle: a counter address, or NoAddr.  *)
(***************************************************************************)
EXTENDS Integers, FiniteSets

CONSTANTS DEPTH,      \* NUM_FLOWS * NUM_BUCKETS
          N_EV        \* event sources (ingress ports)

VARIABLES hmem, doutA, state, clr_addr, eng_addr, hv, ha, rr
hvars == <<hmem, doutA, state, clr_addr, eng_addr, hv, ha, rr>>

Addrs == 0..(DEPTH - 1)
Sources == 0..(N_EV - 1)
NoAddr == DEPTH

\* Round-robin order of the sources, starting at rr.
Turn(k) == (rr + k) % N_EV
sel_v == \E s \in Sources : hv[s]
sel_idx == IF sel_v THEN Turn(CHOOSE k \in Sources : hv[Turn(k)] /\ \A j \in 0..(k - 1) : ~hv[Turn(j)])
           ELSE 0

After(s) == (s + 1) % N_EV
consume(s) == state = "READ" /\ sel_v /\ sel_idx = s

HInit ==
  /\ hmem \in [Addrs -> {1}]            \* power-up contents are not zero
  /\ doutA = 0 /\ eng_addr = 0 /\ rr = 0
  /\ state = "CLEAR" /\ clr_addr = 0
  /\ hv = [s \in Sources |-> FALSE] /\ ha = [s \in Sources |-> 0]

\* The memory: port A is read-first and shared by the engine and the walk.
PortA ==
  LET addrA == IF state = "CLEAR" THEN clr_addr
               ELSE IF state = "READ" THEN ha[sel_idx] ELSE eng_addr
  IN /\ doutA' = hmem[addrA]
     /\ hmem' = IF state = "CLEAR" THEN [hmem EXCEPT ![addrA] = 0]
                ELSE IF state = "WRITE" THEN [hmem EXCEPT ![addrA] = doutA + 1]
                ELSE hmem

\* The holders: emptied during the walk, refilled by a new event.
Holders(ev) ==
  /\ hv' = [s \in Sources |->
              /\ state # "CLEAR"
              /\ \/ ev[s] # NoAddr
                 \/ hv[s] /\ ~consume(s)]
  /\ ha' = [s \in Sources |-> IF state # "CLEAR" /\ ev[s] # NoAddr THEN ev[s] ELSE ha[s]]

\* clear_i outside a walk restarts the walk.
HStartClear(ev) ==
  /\ state # "CLEAR"
  /\ state' = "CLEAR" /\ clr_addr' = 0
  /\ PortA /\ Holders(ev)
  /\ UNCHANGED <<eng_addr, rr>>

HClearStep(ev) ==
  /\ state = "CLEAR"
  /\ IF clr_addr = DEPTH - 1 THEN state' = "READ" /\ clr_addr' = 0
                             ELSE clr_addr' = clr_addr + 1 /\ UNCHANGED state
  /\ PortA /\ Holders(ev)
  /\ UNCHANGED <<eng_addr, rr>>

HRead(ev) ==
  /\ state = "READ"
  /\ IF sel_v THEN /\ eng_addr' = ha[sel_idx]
                   /\ rr' = After(sel_idx)
                   /\ state' = "WRITE"
              ELSE UNCHANGED <<eng_addr, rr, state>>
  /\ PortA /\ Holders(ev)
  /\ UNCHANGED clr_addr

HWrite(ev) ==
  /\ state = "WRITE"
  /\ state' = "READ"
  /\ PortA /\ Holders(ev)
  /\ UNCHANGED <<eng_addr, rr, clr_addr>>

\* One clock edge.
HTick(clear, ev) ==
  \/ clear /\ HStartClear(ev)
  \/ HClearStep(ev)
  \/ ~clear /\ (HRead(ev) \/ HWrite(ev))
-----------------------------------------------------------------------------
\* Events accepted and not yet written back to counter a.
Pending(a) == Cardinality({s \in Sources : hv[s] /\ ha[s] = a})
              + (IF state = "WRITE" /\ eng_addr = a THEN 1 ELSE 0)
=============================================================================
