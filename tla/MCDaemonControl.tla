--------------------------- MODULE MCDaemonControl --------------------------
(* Two cards with one flow row each.  Slot 1 stays on card 0, slot 2 goes  *)
(* from card 1 to card 0, slot 3 exceeds the capacity of card 0.           *)
EXTENDS DaemonControl

MCTxCard == <<0, 1, 0>>
MCRxCard == <<0, 0, 1>>
MCFlowsOf == [both |-> <<1, 2>>, one |-> <<1>>, many |-> <<1, 2, 3>>]
=============================================================================
