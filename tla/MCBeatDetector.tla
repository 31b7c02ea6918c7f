--------------------------- MODULE MCBeatDetector ---------------------------
(* BeatDetector on small sizes: the arrays shrink, the thresholds stay.     *)
EXTENDS BeatDetector

(* 60, inside the 80 ms threshold, two of them beyond it; 1500, longer than *)
(* the window.                                                              *)
MCGaps == {60, 1500}

(* 0, onsets of one burst of Pd, closer than the clock can tell; 749, twice *)
(* the last millisecond before the window's time is up.                     *)
MCWindowGaps == {0, 749}
MCVolumes == {1, 2}

(* A tempo, and one near its double: octaves within the 8 bpm tolerance.    *)
MCClusterTempos == {60, 122}
MCAutoResults == {<<60, 0>>, <<120, 1>>}

(* One tempo and one result, for the run about the window alone.            *)
MCOneTempo == {60}
MCOneResult == {<<60, 0>>}
MCOneVolume == {1}
=============================================================================
