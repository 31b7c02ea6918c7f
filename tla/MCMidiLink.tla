----------------------------- MODULE MCMidiLink -----------------------------
(* Small instances of MidiLink. *)
EXTENDS MidiLink

(* Two data bytes, which make one number, and one data byte, on the         *)
(* channels at both ends.                                                   *)
MCMessages ==
  { [kind |-> "PITCH_BEND", channel |-> 15, data |-> <<-100, 0>>],
    [kind |-> "AFTERTOUCH", channel |-> 0, data |-> <<5, 0>>] }
=============================================================================
