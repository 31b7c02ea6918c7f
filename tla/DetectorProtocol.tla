-------------------------- MODULE DetectorProtocol --------------------------
(***************************************************************************)
(* What the pdbeatdetection external promises to the patch it sits in,     *)
(* without any of the signal processing: after newDetection it listens, it *)
(* reports one tempo, it then waits for a loud onset, sends one "start     *)
(* song" message (the list -1 -1), and ignores its input until it is told  *)
(* to detect again.                                                        *)
(*                                                                         *)
(* BeatDetector implements this specification; LightShow uses it as the    *)
(* detector it composes with the activities.                               *)
(***************************************************************************)
EXTENDS Integers

CONSTANT Tempos    \* the tempos a report can carry

ASSUME TemposAssumption == Tempos \subseteq Nat \ {0}

VARIABLES
  phase,  \* "ignoring", "listening" or "reported"
  sent    \* the last list sent on x_outlist, <<tempo, style>>

pvars == <<phase, sent>>

NotSent   == <<0, 0>>      \* nothing sent yet: never a list the outlet carries
StartSong == <<-1, -1>>    \* outstart

(* A report carries a positive tempo, so that the receiver can tell it from *)
(* StartSong by its first element alone, and the style, straight or swung.  *)
Report == Tempos \X {0, 1}

ProtocolTypeOK ==
  /\ phase \in {"ignoring", "listening", "reported"}
  /\ sent \in Report \union {NotSent, StartSong}

ProtocolInit == phase = "ignoring" /\ sent = NotSent

(* newDetection: accepted in every phase; whatever was pending is dropped. *)
Restart == phase' = "listening" /\ UNCHANGED sent

SendReport == phase = "listening" /\ phase' = "reported" /\ sent' \in Report

SendStartSong == phase = "reported" /\ phase' = "ignoring" /\ sent' = StartSong

ProtocolNext == Restart \/ SendReport \/ SendStartSong

ProtocolSpec == ProtocolInit /\ [][ProtocolNext]_pvars
=============================================================================
