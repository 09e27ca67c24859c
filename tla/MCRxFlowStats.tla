--------------------------- MODULE MCRxFlowStats ----------------------------
(* Two flows; flow 0 carries test frames with four sequence numbers and    *)
(* latencies below, inside and above the 32-bit range, flow 1 counts only. *)
EXTENDS RxFlowStats

MCFrames ==
  [flow : {0}, act : {"TEST_RX"}, test : {TRUE}, seq : 0..3, raw : {-1, 1, 3}]
  \cup [flow : {1, 2}, act : {"TEST_RX", "OTHER"}, test : {FALSE}, seq : {0}, raw : {0}]
=============================================================================
