---------------------------- MODULE MCRxChecker -----------------------------
(* Two flow slots.  Events may arrive in every cycle, to the same flow or  *)
(* to alternating ones, so that every bypass case occurs; a TEST_RX result *)
(* for a slot that does not exist and a result of another action occur too.*)
EXTENDS RxChecker

MCFrames ==
  [flow : {0, 1}, act : {"TEST_RX"}, test : {TRUE}, seq : {0, 2}, raw : {1}]
  \cup {[flow |-> 1, act |-> "TEST_RX", test |-> FALSE, seq |-> 0, raw |-> -1],
        [flow |-> 2, act |-> "TEST_RX", test |-> FALSE, seq |-> 0, raw |-> 0],
        [flow |-> 0, act |-> "OTHER", test |-> FALSE, seq |-> 0, raw |-> 0]}
MCPowerUpRecs == {[blank_rec EXCEPT !.exp = 1, !.lost = 1, !.seen = TRUE]}
=============================================================================
