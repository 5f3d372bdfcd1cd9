---------------------------- MODULE MCDlBroadcast ----------------------------
(* A cell of 15 PRB (8 groups, 2 for an SI message) with SIB1, one SI      *)
(* message and four frames, the MCCH in every fourth frame.                *)
EXTENDS DlBroadcast

MCSibPeriod == 0 :> 2 @@ 1 :> 4
=============================================================================
