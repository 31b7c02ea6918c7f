--------------------------- MODULE MidiLinkProofs ---------------------------
(***************************************************************************)
(* The MIDI service over the serial connection, for any number of links    *)
(* and any set of messages: the bytes of a message are read back as the    *)
(* message, and the parser's state goes with the bytes that the newest     *)
(* link has delivered of its message.  What the connection promises by     *)
(* itself, it promises the service.                                        *)
(***************************************************************************)
EXTENDS MidiLink, SppConnectionProofs

(* The kinds of messages, in the order of their status bytes. *)
LEMMA KindsAre ==
  ASSUME NEW i \in 1 .. 7
  PROVE  /\ Kinds[i] # "NONE"
         /\ \A k \in 1 .. 7 : Kinds[k] = Kinds[i] => k = i
BY DEF Kinds

LEMMA MessageKinds ==
  ASSUME NEW m \in MessageType
  PROVE  /\ \E i \in 1 .. 7 : Kinds[i] = m.kind
         /\ m.channel \in 0 .. 15
         /\ IF m.kind = "PITCH_BEND" THEN m.data \in BendValues \X {0}
            ELSE IF m.kind \in OneByteKinds THEN m.data \in (0 .. 127) \X {0}
            ELSE m.data \in (0 .. 127) \X (0 .. 127)
         /\ m = [kind |-> m.kind, channel |-> m.channel, data |-> m.data]
<1>1. \E i \in 1 .. 7 : Kinds[i] = m.kind
  <2>1. /\ 1 \in 1 .. 7 /\ 2 \in 1 .. 7 /\ 3 \in 1 .. 7 /\ 4 \in 1 .. 7 /\ 5 \in 1 .. 7
        /\ 6 \in 1 .. 7 /\ 7 \in 1 .. 7
    OBVIOUS
  <2>2. m.kind \in {Kinds[1], Kinds[2], Kinds[3], Kinds[4], Kinds[5], Kinds[6], Kinds[7]}
    BY DEF MessageType, Kinds
  <2>. QED
    BY <2>1, <2>2
<1>2. CASE m \in [kind : {"NOTE_OFF", "NOTE_ON", "POLY_TOUCH", "CONTROL_CHANGE"},
                    channel : 0 .. 15, data : (0 .. 127) \X (0 .. 127)]
  BY <1>1, <1>2 DEF OneByteKinds
<1>3. CASE m \in [kind : OneByteKinds, channel : 0 .. 15, data : (0 .. 127) \X {0}]
  BY <1>1, <1>3 DEF OneByteKinds
<1>4. CASE m \in [kind : {"PITCH_BEND"}, channel : 0 .. 15, data : BendValues \X {0}]
  BY <1>1, <1>4
<1>. QED
  BY <1>2, <1>3, <1>4 DEF MessageType, OneByteKinds

(* Parsing a status byte is the inverse of writing it. *)
LEMMA StatusDecodes ==
  ASSUME NEW m \in MessageType
  PROVE  /\ Status(m) \in -128 .. -1
         /\ Kinds[((Status(m) \div 16) % 8) + 1] = m.kind
         /\ Status(m) % 16 = m.channel
         /\ m.kind # "NONE"
<1>1. PICK i \in 1 .. 7 : Kinds[i] = m.kind
  BY MessageKinds
<1>2. (CHOOSE k \in 1 .. 7 : Kinds[k] = m.kind) = i
  BY <1>1, KindsAre
<1>3. m.channel \in 0 .. 15
  BY MessageKinds
<1>4. Status(m) = 16 * (i - 9) + m.channel
  <2>1. Status(m) = Signed(128 + 16 * (i - 1) + m.channel)
    BY <1>2 DEF Status
  <2>2. 128 + 16 * (i - 1) + m.channel > 127
    BY <1>3
  <2>3. \A b \in Int : b > 127 => Signed(b) = b - 256
    BY DEF Signed
  <2>. QED
    BY <1>3, <2>1, <2>2, <2>3
<1>5. Status(m) \div 16 = i - 9 /\ Status(m) % 16 = m.channel
  BY <1>3, <1>4
<1>6. (i - 9) % 8 = i - 1
  OBVIOUS
<1>. QED
  BY <1>1, <1>3, <1>4, <1>5, <1>6, KindsAre

(* sendPitchbend writes two data bytes from which processByte makes the     *)
(* number again.                                                            *)
LEMMA BendRoundTrip ==
  ASSUME NEW v \in BendValues
  PROVE  /\ BendBytes(v)[1] \in 0 .. 127 /\ BendBytes(v)[2] \in 0 .. 127
         /\ 128 * BendBytes(v)[2] + BendBytes(v)[1] - 8192 = v
<1>. DEFINE n == v + 8192
            low == n % 128
            high == n \div 128
<1>1. v \in Int /\ n \in Int /\ 0 <= n /\ n <= 16383
  <2>1. v \in Int
    BY DEF BendValues
  <2>2. 0 <= v + 8192
    BY DEF BendValues
  <2>3. v + 8192 <= 16383
    BY DEF BendValues
  <2>. QED
    BY <2>1, <2>2, <2>3
<1>2. n = v + 8192
  OBVIOUS
<1>3. BendBytes(v)[1] = low /\ BendBytes(v)[2] = high
  BY DEF BendBytes
<1>. HIDE DEF n
<1>4. low \in 0 .. 127
  BY <1>1
<1>5. 128 * high + low = n
  BY <1>1
<1>6. high \in 0 .. 127
  <2>1. high \in Int /\ high >= 0
    BY <1>1
  <2>2. high <= 127
    BY <1>1
  <2>. QED
    BY <2>1, <2>2
<1>. HIDE DEF low, high
<1>7. 128 * high + low - 8192 = v
  <2>1. (128 * high + low) - 8192 = n - 8192
    BY <1>5
  <2>2. n - 8192 = v
    BY <1>1, <1>2
  <2>3. 128 * high + low - 8192 = (128 * high + low) - 8192
    BY <1>4, <1>6
  <2>. QED
    BY <2>1, <2>2, <2>3
<1>. QED
  BY <1>3, <1>4, <1>6, <1>7

LEMMA BytesAre ==
  ASSUME NEW m \in MessageType
  PROVE  /\ Len(Bytes(m)) = IF m.kind \in OneByteKinds THEN 2 ELSE 3
         /\ Bytes(m)[1] = Status(m)
         /\ Bytes(m)[2] = IF m.kind = "PITCH_BEND" THEN BendBytes(m.data[1])[1] ELSE m.data[1]
         /\ m.kind = "PITCH_BEND" => Bytes(m)[3] = BendBytes(m.data[1])[2]
         /\ m.kind \notin OneByteKinds \union {"PITCH_BEND"} => Bytes(m)[3] = m.data[2]
<1>1. ASSUME NEW x \in Int, NEW y \in Int, NEW s \in Int
      PROVE  /\ Len(<<s>> \o <<x, y>>) = 3 /\ (<<s>> \o <<x, y>>)[1] = s
             /\ (<<s>> \o <<x, y>>)[2] = x /\ (<<s>> \o <<x, y>>)[3] = y
  OBVIOUS
<1>2. Status(m) \in Int
  BY StatusDecodes
<1>3. CASE m.kind = "PITCH_BEND"
  <2>1. m.data[1] \in BendValues /\ m.kind \notin OneByteKinds
    BY <1>3, MessageKinds DEF OneByteKinds
  <2>2. BendBytes(m.data[1])[1] \in Int /\ BendBytes(m.data[1])[2] \in Int
    BY <2>1, BendRoundTrip
  <2>3. BendBytes(m.data[1]) = <<BendBytes(m.data[1])[1], BendBytes(m.data[1])[2]>>
    BY DEF BendBytes
  <2>4. Bytes(m) = <<Status(m)>> \o BendBytes(m.data[1])
    BY <1>3, <2>1 DEF Bytes
  <2>. QED
    BY <1>1, <1>2, <1>3, <2>1, <2>2, <2>3, <2>4
<1>4. CASE m.kind \in OneByteKinds
  <2>1. m.kind # "PITCH_BEND" /\ Bytes(m) = <<Status(m), m.data[1]>>
    BY <1>4 DEF Bytes, OneByteKinds
  <2>. QED
    BY <1>4, <2>1
<1>5. CASE m.kind \notin OneByteKinds \union {"PITCH_BEND"}
  <2>1. m.data = <<m.data[1], m.data[2]>> /\ m.data[1] \in Int /\ m.data[2] \in Int
    BY <1>5, MessageKinds
  <2>2. Bytes(m) = <<Status(m)>> \o <<m.data[1], m.data[2]>>
    BY <1>5, <2>1 DEF Bytes
  <2>. QED
    BY <1>1, <1>2, <1>5, <2>1, <2>2
<1>. QED
  BY <1>3, <1>4, <1>5

-----------------------------------------------------------------------------
(* The service adds to the connection and changes nothing of it: what holds *)
(* of every behaviour of SppConnection holds when its bytes are parsed.     *)
LEMMA ServiceStepIsStep == [MidiNext]_<<vars, midi>> => [Next]_vars
<1>1. CASE Silent
  BY <1>1 DEF Silent, Next, Reader
<1>2. CASE \E a \in Attempts : ReadByte(a) \/ DeliverByte(a)
  BY <1>2 DEF ReadByte, DeliverByte, Next, Reader
<1>. QED
  BY <1>1, <1>2 DEF MidiNext

THEOREM ServiceIsConnection == MidiSpec => Spec
<1>1. MidiInit => Init
  BY DEF MidiInit
<1>. QED
  BY <1>1, ServiceStepIsStep, PTL DEF MidiSpec, Spec

(* So the service's links, too, are established, reported and lost as       *)
(* SppProtocol says.                                                        *)
COROLLARY ServiceImplementsProtocol == MidiSpec => ImplementsProtocol
BY ServiceIsConnection, ConnectionImplementsProtocol, PTL

-----------------------------------------------------------------------------
(* The inductive invariant.                                                 *)

(* The bytes of attempt a's message that the parser has been given. *)
Processed(a) == IF reader[a] = "delivering" THEN position[a] - 1 ELSE position[a]

Devices ==
  /\ sending \in [Attempts -> Messages] /\ position \in [Attempts -> Int]
  /\ latest \in 0 .. MaxAttempts

(* A message is not finished, and links newer than latest have delivered    *)
(* nothing.                                                                 *)
Positions ==
  \A a \in Attempts :
    /\ Processed(a) \in 0 .. Len(Bytes(sending[a])) - 1
    /\ a > latest => Processed(a) = 0

(* The parser is where the first d bytes of message m leave it. *)
Ready(m, d) ==
  d > 0 =>
    /\ midiState = m.kind /\ channel = m.channel
    /\ d = 1 => firstByte = Pending
    /\ d = 2 => firstByte = Bytes(m)[2]

Parsed == ~mixed /\ latest # NoAttempt => Ready(sending[latest], Processed(latest))

MidiInv == Devices /\ Positions /\ Parsed /\ HandsOnMessages

(* processByte takes the parser from one byte of a message to the next, and *)
(* hands the message on with its last byte.                                 *)
LEMMA ParsesNextByte ==
  ASSUME NEW m \in MessageType, NEW d \in 0 .. Len(Bytes(m)) - 1,
         Ready(m, d), ProcessByte(Bytes(m)[d + 1])
  PROVE  IF d + 1 = Len(Bytes(m)) THEN handed' = m ELSE Ready(m, d + 1)' /\ UNCHANGED handed
<1>. DEFINE one == m.kind \in OneByteKinds
            bend == m.kind = "PITCH_BEND"
<1>0. \A x \in 0 .. 127 : x \in Int /\ ~(x < 0)
  OBVIOUS
<1>1. /\ Len(Bytes(m)) = IF one THEN 2 ELSE 3
      /\ Bytes(m)[1] = Status(m)
      /\ Bytes(m)[2] = IF bend THEN BendBytes(m.data[1])[1] ELSE m.data[1]
      /\ bend => Bytes(m)[3] = BendBytes(m.data[1])[2]
      /\ ~one /\ ~bend => Bytes(m)[3] = m.data[2]
  BY BytesAre
<1>2. /\ IF bend THEN m.data[1] \in BendValues /\ m.data = <<m.data[1], 0>>
         ELSE IF one THEN m.data[1] \in 0 .. 127 /\ m.data = <<m.data[1], 0>>
         ELSE /\ m.data[1] \in 0 .. 127 /\ m.data[2] \in 0 .. 127
              /\ m.data = <<m.data[1], m.data[2]>>
      /\ m = [kind |-> m.kind, channel |-> m.channel, data |-> m.data]
  BY MessageKinds
<1>3. bend => ~one
  BY DEF OneByteKinds
<1>4. CASE d = 0
  <2>1. ProcessStatus(Status(m))
    BY <1>1, <1>4, StatusDecodes DEF ProcessByte
  <2>2. midiState' = m.kind /\ channel' = m.channel /\ firstByte' = Pending /\ UNCHANGED handed
    BY <2>1, StatusDecodes DEF ProcessStatus, AfterStatus
  <2>. QED
    BY <1>1, <1>4, <2>2 DEF Ready
<1>5. CASE d = 1
  <2>1. midiState = m.kind /\ channel = m.channel /\ firstByte = Pending /\ midiState # "NONE"
    BY <1>5, StatusDecodes DEF Ready
  <2>2. Bytes(m)[2] \in 0 .. 127
    BY <1>1, <1>2, BendRoundTrip
  <2>3. ProcessData(Bytes(m)[2])
    <3>1. ProcessByte(Bytes(m)[2])
      BY <1>5
    <3>2. ~(Bytes(m)[2] < 0)
      BY <1>0, <2>2
    <3>. QED
      BY <3>1, <3>2 DEF ProcessByte
  <2>4. CASE one
    <3>1. handed' = [kind |-> m.kind, channel |-> m.channel, data |-> <<m.data[1], 0>>]
      BY <1>1, <1>3, <2>1, <2>3, <2>4 DEF ProcessData, Hand
    <3>. QED
      BY <1>1, <1>2, <1>3, <1>5, <2>4, <3>1
  <2>5. CASE ~one
    <3>1. UNCHANGED <<midiState, channel, handed>> /\ firstByte' = Bytes(m)[2]
      BY <2>1, <2>3, <2>5 DEF ProcessData, Pending
    <3>. QED
      BY <1>1, <1>5, <2>1, <2>5, <3>1 DEF Ready
  <2>. QED
    BY <2>4, <2>5
<1>6. CASE d = 2
  <2>1. /\ midiState = m.kind /\ channel = m.channel /\ firstByte = Bytes(m)[2]
        /\ midiState # "NONE" /\ ~one
    BY <1>1, <1>6, StatusDecodes DEF Ready
  <2>2. Bytes(m)[2] \in 0 .. 127 /\ Bytes(m)[3] \in 0 .. 127
    BY <1>1, <1>2, <2>1, BendRoundTrip
  <2>3. ProcessData(Bytes(m)[3])
    <3>1. ProcessByte(Bytes(m)[3])
      BY <1>6
    <3>2. ~(Bytes(m)[3] < 0)
      BY <1>0, <2>2
    <3>. QED
      BY <3>1, <3>2 DEF ProcessByte
  <2>4. Hand(IF bend THEN <<128 * Bytes(m)[3] + Bytes(m)[2] - 8192, 0>>
                     ELSE <<Bytes(m)[2], Bytes(m)[3]>>)
    <3>1. ~(firstByte < 0)
      BY <1>0, <2>1, <2>2
    <3>2. Hand(IF bend THEN <<128 * Bytes(m)[3] + firstByte - 8192, 0>>
                       ELSE <<firstByte, Bytes(m)[3]>>)
      BY <2>1, <2>3, <3>1 DEF ProcessData
    <3>. QED
      BY <2>1, <3>2
  <2>5. CASE bend
    <3>1. 128 * Bytes(m)[3] + Bytes(m)[2] - 8192 = m.data[1]
      BY <1>1, <1>2, <2>5, BendRoundTrip
    <3>. QED
      BY <1>1, <1>2, <1>6, <2>1, <2>4, <2>5, <3>1 DEF Hand
  <2>6. CASE ~bend
    BY <1>1, <1>2, <1>6, <2>1, <2>4, <2>6 DEF Hand
  <2>. QED
    BY <2>5, <2>6
<1>. QED
  BY <1>1, <1>4, <1>5, <1>6

LEMMA MidiInitInv == MidiInit => MidiInv
<1>. SUFFICES ASSUME MidiInit PROVE MidiInv
  OBVIOUS
<1>1. Devices
  BY AttemptsAssumption DEF MidiInit, Devices, NoAttempt
<1>2. ASSUME NEW a \in Attempts
      PROVE  Processed(a) = 0 /\ 0 \in 0 .. Len(Bytes(sending[a])) - 1
  <2>1. reader[a] # "delivering" /\ position[a] = 0 /\ sending[a] \in MessageType
    BY MessagesAssumption DEF MidiInit, Init
  <2>. QED
    BY <2>1, BytesAre DEF Processed
<1>3. Positions
  BY <1>2 DEF Positions
<1>. QED
  BY <1>1, <1>3 DEF MidiInit, MidiInv, Parsed, HandsOnMessages

(* Steps that give the parser nothing. *)
LEMMA NoByteKeepsInv ==
  ASSUME MidiInv, UNCHANGED <<parser, sending, handed, latest, mixed>>,
         position' \in [Attempts -> Int], \A a \in Attempts : Processed(a)' = Processed(a)
  PROVE  MidiInv'
<1>1. UNCHANGED <<midiState, channel, firstByte, sending, handed, latest, mixed>>
  BY DEF parser
<1>2. Devices' /\ Positions'
  BY <1>1 DEF MidiInv, Devices, Positions
<1>3. Parsed'
  <2>1. latest # NoAttempt => latest \in Attempts
    BY AttemptsAssumption DEF MidiInv, Devices, Attempts, NoAttempt
  <2>2. latest # NoAttempt => Processed(latest)' = Processed(latest)
    BY <1>1, <2>1
  <2>. QED
    BY <1>1, <2>2 DEF MidiInv, Parsed, Ready
<1>4. HandsOnMessages'
  BY <1>1 DEF MidiInv, HandsOnMessages
<1>. QED
  BY <1>2, <1>3, <1>4 DEF MidiInv

LEMMA SilentKeepsInv == ASSUME IInv, MidiInv, Silent, UNCHANGED midi PROVE MidiInv'
<1>1. reader \in [Attempts -> {"new", "reading", "delivering", "losing", "telling", "done"}]
  BY DEF IInv, TypeOK
<1>2. ASSUME NEW a \in Attempts
      PROVE  reader'[a] = "delivering" <=> reader[a] = "delivering"
  <2>1. CASE UNCHANGED reader
    BY <2>1
  <2>2. ASSUME NEW b \in Attempts, Enter(b)
        PROVE  reader'[a] = "delivering" <=> reader[a] = "delivering"
    <3>1. connector[b] = "entering" /\ reader' = [reader EXCEPT ![b] = "reading"]
      BY <2>2 DEF Enter, ConnectorMoves
    <3>2. reader[b] = "new"
      BY <3>1 DEF IInv, Reported
    <3>. QED
      BY <1>1, <3>1, <3>2
  <2>3. ASSUME NEW b \in Attempts, ReadFails(b) \/ ConnectionLost(b) \/ ReportLost(b)
        PROVE  reader'[a] = "delivering" <=> reader[a] = "delivering"
    BY <1>1, <2>3 DEF ReadFails, ConnectionLost, ReportLost, ReaderMoves, AfterLoss
  <2>. QED
    BY <2>1, <2>2, <2>3
    DEF Silent, Stop, Connect, ConnectReturns, ConnectThrows, Connector, SocketConnects,
        SocketFails, EnterThrows, ReportConnected, SetConnected, ConnectionFailed, ReportFailed
<1>3. position' \in [Attempts -> Int] /\ \A a \in Attempts : Processed(a)' = Processed(a)
  BY <1>2 DEF midi, MidiInv, Devices, Processed
<1>. QED
  BY <1>3, NoByteKeepsInv DEF midi

LEMMA ReadKeepsInv ==
  ASSUME IInv, MidiInv, NEW a \in Attempts, ReadByte(a) PROVE MidiInv'
<1>1. reader \in [Attempts -> {"new", "reading", "delivering", "losing", "telling", "done"}]
  BY DEF IInv, TypeOK
<1>2. /\ reader[a] = "reading" /\ reader' = [reader EXCEPT ![a] = "delivering"]
      /\ position' = [position EXCEPT ![a] = @ + 1] /\ position \in [Attempts -> Int]
  BY DEF ReadByte, Read, ReaderMoves, MidiInv, Devices
<1>3. \A b \in Attempts : Processed(b)' = Processed(b)
  BY <1>1, <1>2 DEF Processed
<1>4. position' \in [Attempts -> Int]
  BY <1>2
<1>. QED
  BY <1>3, <1>4, NoByteKeepsInv DEF ReadByte

LEMMA DeliverKeepsInv ==
  ASSUME IInv, MidiInv, NEW a \in Attempts, DeliverByte(a) PROVE MidiInv'
<1>1. /\ reader \in [Attempts -> {"new", "reading", "delivering", "losing", "telling", "done"}]
      /\ reader[a] = "delivering" /\ reader' = [reader EXCEPT ![a] = "reading"]
  BY DEF IInv, TypeOK, DeliverByte, Deliver, ReaderMoves
<1>2. /\ sending \in [Attempts -> Messages] /\ position \in [Attempts -> Int]
      /\ sending[a] \in Messages /\ sending[a] \in MessageType
      /\ latest \in 0 .. MaxAttempts /\ a \in 1 .. MaxAttempts
  BY MessagesAssumption DEF MidiInv, Devices, Attempts
<1>3. PICK m \in Messages : m = sending[a] /\ m \in MessageType
  BY <1>2
<1>4. PICK d \in Int : d = position[a] - 1 /\ d = Processed(a)
  <2>1. position[a] \in Int
    BY <1>2
  <2>2. Processed(a) = position[a] - 1
    BY <1>1 DEF Processed
  <2>. QED
    BY <2>1, <2>2
<1>. DEFINE ends == d + 1 = Len(Bytes(m))
<1>5. d \in 0 .. Len(Bytes(m)) - 1 /\ Len(Bytes(m)) \in {2, 3}
  BY <1>3, <1>4, BytesAre DEF MidiInv, Positions
<1>6. /\ ProcessByte(Bytes(m)[d + 1])
      /\ latest' = IF a > latest THEN a ELSE latest
      /\ mixed' = (mixed \/ a < latest)
  BY <1>2, <1>3, <1>4 DEF DeliverByte
<1>7. /\ ends => /\ position' = [position EXCEPT ![a] = 0]
                 /\ \E n \in Messages : sending' = [sending EXCEPT ![a] = n]
      /\ ~ends => UNCHANGED <<position, sending>>
  BY <1>2, <1>3, <1>4 DEF DeliverByte
<1>8. Devices'
  BY <1>2, <1>6, <1>7, AttemptsAssumption DEF Devices
<1>9. /\ ends => Processed(a)' = 0 /\ sending'[a] \in Messages
      /\ ~ends => Processed(a)' = d + 1 /\ sending'[a] = m
  <2>1. Processed(a)' = position'[a]
    BY <1>1 DEF Processed
  <2>2. ends => position'[a] = 0 /\ sending'[a] \in Messages
    BY <1>2, <1>7
  <2>3. ~ends => position'[a] = d + 1 /\ sending'[a] = m
    BY <1>2, <1>3, <1>4, <1>7
  <2>. QED
    BY <2>1, <2>2, <2>3
<1>10. ASSUME NEW b \in Attempts, b # a
       PROVE  Processed(b)' = Processed(b) /\ sending'[b] = sending[b]
  BY <1>1, <1>2, <1>7, <1>10 DEF Processed
<1>11. Positions'
  <2>1. Processed(a)' \in 0 .. Len(Bytes(sending'[a])) - 1
    <3>1. CASE ends
      <4>1. Len(Bytes(sending'[a])) \in {2, 3}
        BY <1>9, <3>1, MessagesAssumption, BytesAre
      <4>2. 0 \in 0 .. Len(Bytes(sending'[a])) - 1
        <5>1. \A l \in {2, 3} : 0 \in 0 .. l - 1
          OBVIOUS
        <5>. QED
          BY <4>1, <5>1
      <4>. QED
        BY <1>9, <3>1, <4>2
    <3>2. CASE ~ends
      BY <1>5, <1>9, <3>2
    <3>. QED
      BY <3>1, <3>2
  <2>2. ~(a > latest')
    BY <1>2, <1>6
  <2>3. ASSUME NEW b \in Attempts, b # a
        PROVE  /\ Processed(b)' \in 0 .. Len(Bytes(sending'[b])) - 1
               /\ b > latest' => Processed(b)' = 0
    <3>1. b > latest' => b > latest
      BY <1>2, <1>6 DEF Attempts
    <3>. QED
      BY <1>10, <2>3, <3>1 DEF MidiInv, Positions
  <2>. QED
    BY <2>1, <2>2, <2>3 DEF Positions
<1>12. CASE mixed'
  BY <1>8, <1>11, <1>12 DEF MidiInv, Parsed, HandsOnMessages
<1>13. CASE ~mixed'
  <2>1. ~mixed /\ ~(a < latest)
    BY <1>6, <1>13
  <2>2. (a = latest \/ a > latest) /\ latest' = a
    BY <1>2, <1>6, <2>1
  <2>3. Ready(m, d)
    <3>1. CASE a = latest
      BY <1>2, <1>3, <1>4, <2>1, <3>1 DEF MidiInv, Parsed, NoAttempt
    <3>2. CASE a > latest
      <4>1. d = 0
        BY <1>4, <3>2 DEF MidiInv, Positions
      <4>. QED
        BY <4>1 DEF Ready
    <3>. QED
      BY <2>2, <3>1, <3>2
  <2>4. IF ends THEN handed' = m ELSE Ready(m, d + 1)' /\ UNCHANGED handed
    BY <1>3, <1>5, <1>6, <2>3, ParsesNextByte
  <2>5. HandsOnMessages'
    BY <1>3, <2>1, <2>4 DEF MidiInv, HandsOnMessages
  <2>6. Parsed'
    BY <1>9, <2>2, <2>4 DEF Parsed, Ready
  <2>. QED
    BY <1>8, <1>11, <2>5, <2>6 DEF MidiInv
<1>. QED
  BY <1>12, <1>13

(* Whatever links come and go, what the parser hands to its receiver is a   *)
(* message that some device has sent, byte for byte, unless an old link's   *)
(* thread has delivered after a newer link had begun.                       *)
THEOREM HandedAreSent == MidiSpec => []HandsOnMessages
<1>1. ASSUME IInv, MidiInv, [MidiNext]_<<vars, midi>> PROVE MidiInv'
  <2>1. CASE Silent /\ UNCHANGED midi
    BY <1>1, <2>1, SilentKeepsInv
  <2>2. ASSUME NEW a \in Attempts, ReadByte(a) PROVE MidiInv'
    BY <1>1, <2>2, ReadKeepsInv
  <2>3. ASSUME NEW a \in Attempts, DeliverByte(a) PROVE MidiInv'
    BY <1>1, <2>3, DeliverKeepsInv
  <2>4. CASE UNCHANGED <<vars, midi>>
    <3>1. UNCHANGED reader /\ UNCHANGED midi
      BY <2>4 DEF vars
    <3>2. position' \in [Attempts -> Int] /\ \A a \in Attempts : Processed(a)' = Processed(a)
      BY <1>1, <3>1 DEF midi, MidiInv, Devices, Processed
    <3>. QED
      BY <1>1, <3>1, <3>2, NoByteKeepsInv DEF midi
  <2>. QED
    BY <1>1, <2>1, <2>2, <2>3, <2>4 DEF MidiNext
<1>2. MidiInv => HandsOnMessages
  BY DEF MidiInv
<1>3. MidiSpec => []IInv
  BY ServiceIsConnection, SpecIInv, PTL
<1>. QED
  BY <1>1, <1>2, <1>3, MidiInitInv, PTL DEF MidiSpec
=============================================================================
