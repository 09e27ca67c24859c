--------------------------- MODULE MCLatCorrection --------------------------
(* Two cards whose clocks differ by more than a word.  Card 1 receives a   *)
(* cross-card flow and one of its own, card 0 a cross-card flow.           *)
EXTENDS LatCorrection

MCEpoch == [c \in {0, 1} |-> IF c = 0 THEN 4 ELSE 1]
MCFlowMeta == <<[tx |-> 0, rx |-> 1, slot |-> 0], [tx |-> 1, rx |-> 1, slot |-> 1],
                [tx |-> 1, rx |-> 0, slot |-> 0]>>
=============================================================================
