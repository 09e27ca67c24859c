----------------------------- MODULE MCSlowPath -----------------------------
(* A ring of four buffers and five punted frames, every third one for an   *)
(* interface without a TAP; two TAPs on different ports, two frames per    *)
(* direction, an inject FIFO of one frame.                                 *)
EXTENDS SlowPath

MCLifOf == [n \in 1..MaxFrames |-> n % 3]
MCBound == {0, 1}
MCEgress == <<1, 0>>
=============================================================================
