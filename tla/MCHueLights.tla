---------------------------- MODULE MCHueLights ----------------------------
(* Small instances of HueLights. *)
EXTENDS HueLights, TLC

(* Off with a value out of range, on with a value in range. *)
MCBodies == { "on" :> FALSE @@ "hue" :> 70000, "on" :> TRUE @@ "hue" :> 2 }

MCSymmetry == Permutations(Lights) \union Permutations(Handlers)
=============================================================================
