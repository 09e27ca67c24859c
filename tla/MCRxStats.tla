----------------------------- MODULE MCRxStats ------------------------------
(* Two flow slots and two ports; two latencies in different buckets; a gap *)
(* in the sequence numbers, so that lost events occur; clears at any time. *)
EXTENDS RxStats

MCFrames ==
  {[flow |-> 0, act |-> "TEST_RX", test |-> TRUE, seq |-> 0, raw |-> 0],
   [flow |-> 0, act |-> "TEST_RX", test |-> TRUE, seq |-> 2, raw |-> 2],
   [flow |-> 0, act |-> "OTHER", test |-> FALSE, seq |-> 0, raw |-> 0]}
MCPowerUpRecs == {[blank_rec EXCEPT !.exp = 1, !.lost = 1, !.seen = TRUE]}
=============================================================================
