--------------------------- MODULE SppConnection ---------------------------
(***************************************************************************)
(* BluetoothSppConnection: the thread of the user calls connect and stop;  *)
(* each attempt runs a ConnectThread, which blocks in socket.connect, and  *)
(* after that a ConnectedThread, which reads the socket.  stop, connect    *)
(* and connected exclude each other (synchronized); the end of a thread,   *)
(* in connectionFailed or connectionLost, does not.  Cancelling a thread   *)
(* closes its socket; what it is doing then fails, sooner or later.        *)
(*                                                                         *)
(* The receiver's callbacks return.  write changes nothing here: what it   *)
(* finds is WriteFindsThread.                                              *)
(***************************************************************************)
EXTENDS Integers

CONSTANT MaxAttempts    \* bound: calls of connect that create a ConnectThread

ASSUME AttemptsAssumption == MaxAttempts \in Nat

Attempts  == 1 .. MaxAttempts
NoAttempt == 0
User      == -1

VARIABLES
  connectionState, connectThread, connectedThread,
  holder,     \* of the monitor: an attempt in connected, User in connect, or NoAttempt
  asked,      \* attempts so far; they are numbered in this order
  socket,     \* per attempt: "none", "open" or "closed"
  connector,  \* per attempt: position of its ConnectThread
  reader,     \* per attempt: position of its ConnectedThread
  told,       \* per attempt: callbacks made to the receiver
  stopped,    \* history: the last call of the user was stop
  refused,    \* history: the last call of the user was a connect that threw
  overtaken   \* history: connected has cleared a connectThread that was not its own

fields == <<connectionState, connectThread, connectedThread>>
calls  == <<holder, asked, stopped, refused, overtaken>>
vars   == <<fields, calls, socket, connector, reader, told>>

Init ==
  /\ connectionState = "NONE"
  /\ connectThread = NoAttempt /\ connectedThread = NoAttempt
  /\ holder = NoAttempt /\ asked = 0
  /\ socket = [a \in Attempts |-> "none"]
  /\ connector = [a \in Attempts |-> "new"] /\ reader = [a \in Attempts |-> "new"]
  /\ told = [a \in Attempts |-> {}]
  /\ stopped = FALSE /\ refused = FALSE /\ overtaken = FALSE

-----------------------------------------------------------------------------
(* The user. *)

(* Fault: only the thread that reads is cancelled. *)
CancelledThreadsReader == {connectedThread}

CancelledThreads == {connectThread, connectedThread}

Close(threads) == [a \in Attempts |-> IF a \in threads THEN "closed" ELSE socket[a]]

(* stop: cancelThreads, then NONE. *)
Stop ==
  /\ holder = NoAttempt
  /\ socket' = Close(CancelledThreads)
  /\ connectionState' = "NONE"
  /\ connectThread' = NoAttempt /\ connectedThread' = NoAttempt
  /\ stopped' = TRUE /\ refused' = FALSE
  /\ UNCHANGED <<holder, asked, overtaken, connector, reader, told>>

(* connect: cancelThreads, then a new thread is made and started. *)
Connect ==
  /\ holder = NoAttempt /\ asked < MaxAttempts
  /\ asked' = asked + 1
  /\ socket' = [Close(CancelledThreads) EXCEPT ![asked + 1] = "open"]
  /\ connectThread' = asked + 1 /\ connectedThread' = NoAttempt
  /\ connector' = [connector EXCEPT ![asked + 1] = "connecting"]
  /\ holder' = User /\ stopped' = FALSE /\ refused' = FALSE
  /\ UNCHANGED <<connectionState, overtaken, reader, told>>

ConnectReturns ==
  /\ holder = User /\ holder' = NoAttempt
  /\ connectionState' = "CONNECTING"
  /\ UNCHANGED <<connectThread, connectedThread, asked, stopped, refused, overtaken,
                 socket, connector, reader, told>>

(* The address is not valid or there is no socket: connect throws. *)
ConnectThrows ==
  /\ holder = NoAttempt
  /\ socket' = Close(CancelledThreads)
  /\ connectThread' = NoAttempt /\ connectedThread' = NoAttempt
  /\ stopped' = FALSE /\ refused' = TRUE
  /\ UNCHANGED <<connectionState, holder, asked, overtaken, connector, reader, told>>

-----------------------------------------------------------------------------
(* ConnectThread.run. *)

ConnectorMoves(a, from, to) ==
  connector[a] = from /\ connector' = [connector EXCEPT ![a] = to]

SocketConnects(a) ==
  /\ socket[a] = "open" /\ ConnectorMoves(a, "connecting", "entering")
  /\ UNCHANGED <<fields, calls, socket, reader, told>>

(* Fault: an attempt that was cancelled ends without a word. *)
AfterSocketFailsSilent == "done"

AfterSocketFails == "failing"

SocketFails(a) ==
  /\ ConnectorMoves(a, "connecting", AfterSocketFails)
  /\ UNCHANGED <<fields, calls, socket, reader, told>>

(* Fault: connected is not synchronized. *)
LocksNot(a) == UNCHANGED holder

Locks(a) == holder = NoAttempt /\ holder' = a

Overtakes(a) == connectThread \notin {a, NoAttempt}

(* Fault: the link there was goes on. *)
ReplacedThreadNone == {}

ReplacedThread == {connectedThread}

(* connected: the new ConnectedThread is started, ... *)
Enter(a) ==
  /\ Locks(a) /\ ConnectorMoves(a, "entering", "reporting")
  /\ connectThread' = NoAttempt /\ connectedThread' = a
  /\ socket' = Close(ReplacedThread)
  /\ reader' = [reader EXCEPT ![a] = "reading"]
  /\ overtaken' = (overtaken \/ Overtakes(a))
  /\ UNCHANGED <<connectionState, asked, stopped, refused, told>>

(* ... or its constructor throws and run fails. *)
EnterThrows(a) ==
  /\ holder = NoAttempt /\ ConnectorMoves(a, "entering", "failing")
  /\ connectThread' = NoAttempt /\ connectedThread' = NoAttempt
  /\ socket' = Close(ReplacedThread)
  /\ overtaken' = (overtaken \/ Overtakes(a))
  /\ UNCHANGED <<connectionState, holder, asked, stopped, refused, reader, told>>

(* ... onDeviceConnected, ... *)
ReportConnected(a) ==
  /\ ConnectorMoves(a, "reporting", "setting")
  /\ told' = [told EXCEPT ![a] = @ \union {"connected"}]
  /\ UNCHANGED <<fields, calls, socket, reader>>

(* ... CONNECTED. *)
SetConnected(a) ==
  /\ ConnectorMoves(a, "setting", "done")
  /\ connectionState' = "CONNECTED"
  /\ holder' = NoAttempt
  /\ UNCHANGED <<connectThread, connectedThread, asked, stopped, refused, overtaken,
                 socket, reader, told>>

(* connectionFailed. *)
ConnectionFailed(a) ==
  /\ ConnectorMoves(a, "failing", "telling")
  /\ connectionState' = "NONE"
  /\ UNCHANGED <<connectThread, connectedThread, calls, socket, reader, told>>

ReportFailed(a) ==
  /\ ConnectorMoves(a, "telling", "done")
  /\ told' = [told EXCEPT ![a] = @ \union {"failed"}]
  /\ socket' = Close({a})
  /\ UNCHANGED <<fields, calls, reader>>

Connector(a) ==
  \/ SocketConnects(a) \/ SocketFails(a) \/ Enter(a) \/ EnterThrows(a)
  \/ ReportConnected(a) \/ SetConnected(a) \/ ConnectionFailed(a) \/ ReportFailed(a)

-----------------------------------------------------------------------------
(* ConnectedThread.run. *)

ReaderMoves(a, from, to) ==
  /\ reader[a] = from /\ reader' = [reader EXCEPT ![a] = to]
  /\ UNCHANGED <<calls, socket, connector>>

Read(a) ==
  /\ socket[a] = "open" /\ ReaderMoves(a, "reading", "delivering")
  /\ UNCHANGED <<fields, told>>

(* onBytesReceived, also when the socket has been closed meanwhile. *)
Deliver(a) ==
  /\ ReaderMoves(a, "delivering", "reading")
  /\ UNCHANGED <<fields, told>>

ReadFails(a) ==
  /\ ReaderMoves(a, "reading", "losing")
  /\ UNCHANGED <<fields, told>>

(* Fault: the thread goes back to its read. *)
AfterLossReads == "reading"

AfterLoss == "telling"

(* connectionLost.  Nobody closes the socket. *)
ConnectionLost(a) ==
  /\ ReaderMoves(a, "losing", AfterLoss)
  /\ connectionState' = "NONE"
  /\ UNCHANGED <<connectThread, connectedThread, told>>

ReportLost(a) ==
  /\ ReaderMoves(a, "telling", "done")
  /\ told' = [told EXCEPT ![a] = @ \union {"lost"}]
  /\ UNCHANGED fields

Reader(a) == Read(a) \/ Deliver(a) \/ ReadFails(a) \/ ConnectionLost(a) \/ ReportLost(a)

Next ==
  \/ Stop \/ Connect \/ ConnectReturns \/ ConnectThrows
  \/ \E a \in Attempts : Connector(a) \/ Reader(a)

Spec == Init /\ [][Next]_vars

(* Threads run; socket.connect returns, in success or with a timeout; a     *)
(* read of a closed socket throws.  Nothing is assumed of the user, nor of  *)
(* the device: a read may block for ever.                                   *)
Fairness ==
  /\ WF_vars(ConnectReturns)
  /\ \A a \in Attempts :
       /\ WF_vars(Connector(a))
       /\ WF_vars(Deliver(a) \/ ConnectionLost(a) \/ ReportLost(a))
       /\ WF_vars(socket[a] = "closed" /\ ReadFails(a))

FairSpec == Spec /\ Fairness

-----------------------------------------------------------------------------
(* Every field holds a value of its type, and the monitor has the holder    *)
(* that the threads' positions say.                                         *)
TypeOK ==
  /\ connectionState \in {"NONE", "CONNECTING", "CONNECTED"}
  /\ asked \in 0 .. MaxAttempts
  /\ connectThread \in 0 .. asked /\ connectedThread \in 0 .. asked
  /\ holder \in Attempts \union {NoAttempt, User}
  /\ socket \in [Attempts -> {"none", "open", "closed"}]
  /\ connector \in [Attempts -> {"new", "connecting", "entering", "reporting", "setting",
                                 "failing", "telling", "done"}]
  /\ reader \in [Attempts -> {"new", "reading", "delivering", "losing", "telling", "done"}]
  /\ told \in [Attempts -> SUBSET {"connected", "failed", "lost"}]
  /\ stopped \in BOOLEAN /\ refused \in BOOLEAN /\ overtaken \in BOOLEAN
  /\ \A a \in Attempts : holder = a <=> connector[a] \in {"reporting", "setting"}

Reads(a) == reader[a] \in {"reading", "delivering"}

(* However attempts and stops overlap, a link whose socket is open and      *)
(* whose thread still reads is the one connectedThread refers to, so that   *)
(* two devices never feed the receiver from open sockets.                   *)
OneLink ==
  \A a \in Attempts : socket[a] = "open" /\ Reads(a) => connectedThread = a

(* "Stop all threads and close SPP connection": after stop no thread        *)
(* connects or reads with an open socket.  That is what the code provides   *)
(* as long as no attempt was overtaken: an older attempt, cancelled between *)
(* socket.connect and connected, that clears connectThread, which refers to *)
(* a newer one, leaves that one out of reach of stop.                       *)
StopCloses ==
  stopped /\ ~overtaken =>
    \A a \in Attempts :
      connector[a] \in {"connecting", "entering"} \/ Reads(a) => socket[a] = "closed"

(* A write that finds CONNECTED finds a thread to write to, except after a  *)
(* connect that threw, which leaves the state of the link it has cancelled, *)
(* or while an attempt whose ConnectedThread could not be made is failing.  *)
WriteFindsThread ==
  holder = NoAttempt /\ connectionState = "CONNECTED" /\ connectedThread = NoAttempt =>
    refused \/ \E a \in Attempts : connector[a] = "failing"

(* Every attempt is reported connected or failed, cancelled ones too.       *)
AttemptsSettle ==
  \A a \in Attempts : asked >= a ~> told[a] \intersect {"connected", "failed"} # {}

(* A link that was established and then cut is reported lost.               *)
CutLinksAreReported ==
  \A a \in Attempts : Reads(a) /\ socket[a] = "closed" ~> "lost" \in told[a]

-----------------------------------------------------------------------------
(* The carrier is the link of connectedThread while its socket is open and  *)
(* its thread reads.                                                        *)
Carrier ==
  IF \E a \in Attempts : connectedThread = a /\ socket[a] = "open" /\ Reads(a)
    THEN connectedThread ELSE NoAttempt

Protocol ==
  INSTANCE SppProtocol WITH links <- {a \in Attempts : reader[a] # "new"}, carrier <- Carrier

(* The connection keeps the promises of SppProtocol.                        *)
ImplementsProtocol == Protocol!ProtocolSpec
=============================================================================
