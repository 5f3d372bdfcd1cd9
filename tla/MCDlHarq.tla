------------------------------ MODULE MCDlHarq ------------------------------
(***************************************************************************)
(* Small instances of DlHarq. The hyperframe is short, so every run wraps  *)
(* the TTI many times; the proportions of the code are kept: a process     *)
(* outlives several round trips before its time-out, the feedback slots    *)
(* cover a round trip and divide the hyperframe, and a subframe is sent    *)
(* before its feedback can be decoded.                                     *)
(***************************************************************************)
EXTENDS DlHarq

OneBlock  == {0}
TwoBlocks == {0, 1}

ASSUME Proportions ==
    /\ TtiMod % SlotMod = 0
    /\ SlotMod > Rtt
    /\ Timeout > Rtt /\ Timeout < TtiMod
    /\ NofWorkers <= Rtt
=============================================================================
