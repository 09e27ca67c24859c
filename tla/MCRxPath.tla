------------------------------ MODULE MCRxPath ------------------------------
(* A buffer of four beats and two descriptors and frames of one to three   *)
(* beats, behind the delay line and the reset stretch of the hardware:     *)
(* frames that overflow, that straddle a reset and that wait for their     *)
(* decision while the next one arrives all occur.                          *)
EXTENDS RxPath

MCRoutes == 0..MaxFrame
=============================================================================
