------------------------------ MODULE MidiLink ------------------------------
(***************************************************************************)
(* BluetoothMidiService over BluetoothSppConnection: the device of each    *)
(* attempt sends the bytes of MIDI messages, as the service's own send     *)
(* methods write them; the ConnectedThreads pass them on to one parser,    *)
(* processByte, whose state survives lost links and is shared by the       *)
(* thread of an old link that still delivers what it has read.             *)
(*                                                                         *)
(* A read returns one byte, the shortest buffer.  The service's foreground *)
(* state is left out.                                                      *)
(***************************************************************************)
EXTENDS SppConnection, Sequences

CONSTANT Messages    \* what devices send: members of MessageType

BendValues == -8192 .. 8191

(* A data value counts from 0 to 127, except that of PITCH_BEND.            *)
MessageType ==
  [kind : {"NOTE_OFF", "NOTE_ON", "POLY_TOUCH", "CONTROL_CHANGE"}, channel : 0 .. 15,
   data : (0 .. 127) \X (0 .. 127)]
  \union [kind : {"PROGRAM_CHANGE", "AFTERTOUCH"}, channel : 0 .. 15, data : (0 .. 127) \X {0}]
  \union [kind : {"PITCH_BEND"}, channel : 0 .. 15, data : BendValues \X {0}]

ASSUME MessagesAssumption == Messages \subseteq MessageType

VARIABLES
  midiState, channel, firstByte,   \* BluetoothMidiService, the parser
  sending,    \* per attempt: the message its device is sending
  position,   \* per attempt: bytes of it that have been read
  handed,     \* history: the last message handed to the receiver, <<>> when none
  latest,     \* history: the newest attempt that has delivered a byte
  mixed       \* history: an older link has delivered after a newer one

parser == <<midiState, channel, firstByte>>
midi   == <<parser, sending, position, handed, latest, mixed>>

(* The order of the enumeration State. *)
Kinds == <<"NOTE_OFF", "NOTE_ON", "POLY_TOUCH", "CONTROL_CHANGE",
           "PROGRAM_CHANGE", "AFTERTOUCH", "PITCH_BEND", "NONE">>

OneByteKinds == {"PROGRAM_CHANGE", "AFTERTOUCH"}

(* A byte is signed in Java. *)
Signed(b) == IF b > 127 THEN b - 256 ELSE b

Status(m) ==
  LET i == CHOOSE k \in 1 .. 7 : Kinds[k] = m.kind IN Signed(128 + 16 * (i - 1) + m.channel)

(* sendPitchbend. *)
BendBytes(v) == <<(v + 8192) % 128, (v + 8192) \div 128>>

(* sendNoteOff to sendPitchbend: the status byte and its data bytes.        *)
Bytes(m) ==
  CASE m.kind = "PITCH_BEND" -> <<Status(m)>> \o BendBytes(m.data[1])
    [] m.kind \in OneByteKinds -> <<Status(m), m.data[1]>>
    [] OTHER -> <<Status(m)>> \o m.data

MidiInit ==
  /\ Init
  /\ midiState = "NONE" /\ channel = 0 /\ firstByte = 0
  /\ sending \in [Attempts -> Messages]
  /\ position = [a \in Attempts |-> 0]
  /\ handed = <<>> /\ latest = NoAttempt /\ mixed = FALSE

-----------------------------------------------------------------------------
(* processByte. *)

Pending == -1    \* firstByte while no data byte has come

(* Fault: a data byte left from a message cut short stays. *)
AfterStatusKept == firstByte

AfterStatus == Pending

(* A negative byte is a status byte; 0xf0 to 0xff go out as raw bytes.      *)
ProcessStatus(b) ==
  /\ midiState' = Kinds[((b \div 16) % 8) + 1]
  /\ IF midiState' = "NONE"
       THEN UNCHANGED <<channel, firstByte>>
       ELSE channel' = b % 16 /\ firstByte' = AfterStatus
  /\ UNCHANGED handed

Hand(data) == handed' = [kind |-> midiState, channel |-> channel, data |-> data]

ProcessData(b) ==
  /\ UNCHANGED <<midiState, channel>>
  /\ CASE midiState = "NONE" -> UNCHANGED <<firstByte, handed>>
       [] midiState \in OneByteKinds -> Hand(<<b, 0>>) /\ UNCHANGED firstByte
       [] OTHER ->
            IF firstByte < 0
              THEN firstByte' = b /\ UNCHANGED handed
              ELSE /\ firstByte' = Pending
                   /\ Hand(IF midiState = "PITCH_BEND" THEN <<128 * b + firstByte - 8192, 0>>
                                                       ELSE <<firstByte, b>>)

ProcessByte(b) == IF b < 0 THEN ProcessStatus(b) ELSE ProcessData(b)

-----------------------------------------------------------------------------
(* The next byte of the device's message is read, ... *)
ReadByte(a) ==
  /\ Read(a)
  /\ position' = [position EXCEPT ![a] = @ + 1]
  /\ UNCHANGED <<parser, sending, handed, latest, mixed>>

(* ... and processed.  After its last byte the device goes on to another.   *)
DeliverByte(a) ==
  /\ Deliver(a)
  /\ ProcessByte(Bytes(sending[a])[position[a]])
  /\ latest' = IF a > latest THEN a ELSE latest
  /\ mixed' = (mixed \/ a < latest)
  /\ IF position[a] = Len(Bytes(sending[a]))
       THEN /\ position' = [position EXCEPT ![a] = 0]
            /\ \E m \in Messages : sending' = [sending EXCEPT ![a] = m]
       ELSE UNCHANGED <<position, sending>>

(* The steps of the connection that touch no byte. *)
Silent ==
  \/ Stop \/ Connect \/ ConnectReturns \/ ConnectThrows
  \/ \E a \in Attempts :
       Connector(a) \/ ReadFails(a) \/ ConnectionLost(a) \/ ReportLost(a)

MidiNext ==
  \/ Silent /\ UNCHANGED midi
  \/ \E a \in Attempts : ReadByte(a) \/ DeliverByte(a)

MidiSpec == MidiInit /\ [][MidiNext]_<<vars, midi>>

(* The fairness of SppConnection; a delivery hands its byte to the parser.  *)
MidiFairSpec ==
  /\ MidiSpec
  /\ WF_vars(ConnectReturns)
  /\ \A a \in Attempts :
       /\ WF_vars(Connector(a))
       /\ WF_vars(DeliverByte(a) \/ ConnectionLost(a) \/ ReportLost(a))
       /\ WF_vars(socket[a] = "closed" /\ ReadFails(a))

-----------------------------------------------------------------------------
(* What the parser hands to its receiver is a message some device has sent, *)
(* whatever was cut short before it on a lost link, whatever its kind and   *)
(* channel.  Only an old link's thread that delivers its last byte after    *)
(* a newer link has begun can spoil a message.                              *)
HandsOnMessages == handed # <<>> /\ ~mixed => handed \in Messages
=============================================================================
