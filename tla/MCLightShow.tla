---------------------------- MODULE MCLightShow ----------------------------
(* Small instances of LightShow. *)
EXTENDS LightShow, TLC

(* One tempo in each range that statisticalCorr changes; corrects = FALSE   *)
(* covers the range it leaves alone.                                        *)
MCTempos == {90, 210}

MCSymmetry == Permutations(Tasks)

MCOneTempo == {90}
=============================================================================
