------------------------ MODULE SppConnectionProofs ------------------------
(***************************************************************************)
(* Safety of the serial connection, and that it implements SppProtocol,    *)
(* for any number of attempts.  The invariant relates the positions of an  *)
(* attempt's two threads to what has been reported of it, and says which   *)
(* open sockets the two fields lead to: what stop cannot reach.            *)
(***************************************************************************)
EXTENDS SppConnection, TLAPS

(* Attempts not made yet are untouched. *)
Unasked ==
  \A a \in Attempts :
    /\ connector[a] = "new" <=> a > asked
    /\ connector[a] = "new" <=> socket[a] = "none"

(* What has been reported of an attempt, by the positions of its threads.   *)
Reported ==
  \A a \in Attempts :
    /\ connector[a] \in {"new", "connecting", "entering", "failing", "telling"} =>
         reader[a] = "new" /\ told[a] = {}
    /\ connector[a] \in {"reporting", "setting"} => reader[a] # "new"
    /\ connector[a] = "reporting" => "connected" \notin told[a]
    /\ IF reader[a] = "new" THEN told[a] \intersect {"connected", "lost"} = {}
                            ELSE "failed" \notin told[a]
    /\ reader[a] # "done" => "lost" \notin told[a]

(* While connected holds the monitor, connectedThread is its own.           *)
Held == holder \in Attempts => connectedThread = holder

(* As long as nobody was overtaken, stop reaches every attempt that may     *)
(* still connect.                                                           *)
Reachable ==
  ~overtaken =>
    \A a \in Attempts :
      connector[a] \in {"connecting", "entering"} /\ socket[a] = "open" => connectThread = a

(* WriteFindsThread, at every point at which connect is not under way.      *)
WritesFind ==
  holder # User /\ connectionState = "CONNECTED" /\ connectedThread = NoAttempt =>
    refused \/ \E a \in Attempts : connector[a] = "failing"

(* TypeOK, in four parts. *)
Scalars ==
  /\ connectionState \in {"NONE", "CONNECTING", "CONNECTED"}
  /\ asked \in 0 .. MaxAttempts
  /\ connectThread \in 0 .. asked /\ connectedThread \in 0 .. asked
  /\ holder \in Attempts \union {NoAttempt, User}

Flags == stopped \in BOOLEAN /\ refused \in BOOLEAN /\ overtaken \in BOOLEAN

Threads ==
  /\ socket \in [Attempts -> {"none", "open", "closed"}]
  /\ connector \in [Attempts -> {"new", "connecting", "entering", "reporting", "setting",
                                 "failing", "telling", "done"}]
  /\ reader \in [Attempts -> {"new", "reading", "delivering", "losing", "telling", "done"}]
  /\ told \in [Attempts -> SUBSET {"connected", "failed", "lost"}]

Monitor == \A a \in Attempts : holder = a <=> connector[a] \in {"reporting", "setting"}

IInv == /\ TypeOK /\ Unasked /\ Reported /\ Held /\ Reachable /\ WritesFind
        /\ OneLink /\ StopCloses

LEMMA TypeParts == TypeOK <=> Scalars /\ Flags /\ Threads /\ Monitor
BY DEF TypeOK, Scalars, Flags, Threads, Monitor

LEMMA TypePartsNext == TypeOK' <=> Scalars' /\ Flags' /\ Threads' /\ Monitor'
BY DEF TypeOK, Scalars, Flags, Threads, Monitor

LEMMA InitIInv == Init => IInv
<1>. SUFFICES ASSUME Init PROVE IInv
  OBVIOUS
<1>. USE AttemptsAssumption DEF Init, Attempts, NoAttempt, User
<1>1. TypeOK
  <2>1. Scalars
    BY DEF Scalars
  <2>2. Threads
    BY DEF Threads
  <2>3. Monitor
    BY DEF Monitor
  <2>4. Flags
    BY DEF Flags
  <2>. QED
    BY <2>1, <2>2, <2>3, <2>4, TypeParts
<1>2. Unasked /\ Reported /\ Held
  BY DEF Unasked, Reported, Held
<1>3. Reachable /\ WritesFind /\ OneLink /\ StopCloses
  BY DEF Reachable, WritesFind, OneLink, StopCloses, Reads
<1>. QED
  BY <1>1, <1>2, <1>3 DEF IInv

-----------------------------------------------------------------------------
(* The calls of the user. *)
LEMMA UserKeepsIInv ==
  ASSUME IInv, Stop \/ Connect \/ ConnectReturns \/ ConnectThrows PROVE IInv'
<1>. USE AttemptsAssumption DEF Attempts, NoAttempt, User, fields, calls
<1>. Scalars /\ Flags /\ Threads /\ Monitor /\ Unasked
  BY TypeParts DEF IInv
<1>1. CASE Stop
  <2>1. TypeOK'
    <3>1. Scalars'
      BY <1>1 DEF Stop, Close, CancelledThreads, Scalars, Unasked
    <3>2. Threads'
      BY <1>1 DEF Stop, Close, CancelledThreads, Scalars, Threads
    <3>3. Monitor'
      BY <1>1 DEF Stop, Close, CancelledThreads, Scalars, Threads, Monitor, Unasked
    <3>4. Flags'
      BY <1>1 DEF Stop, Close, CancelledThreads, Flags
    <3>. QED
      BY <3>1, <3>2, <3>3, <3>4, TypePartsNext
  <2>2. Unasked' /\ Held'
    BY <1>1 DEF Stop, Close, CancelledThreads, IInv, TypeOK, Unasked, Held
  <2>3. Reported'
    BY <1>1 DEF Stop, Close, CancelledThreads, IInv, TypeOK, Unasked, Reported
  <2>4. Reachable'
    BY <1>1 DEF Stop, Close, CancelledThreads, IInv, TypeOK, Unasked, Reachable
  <2>5. OneLink'
    BY <1>1 DEF Stop, Close, CancelledThreads, IInv, TypeOK, Unasked, Reported, OneLink, Reads
  <2>6. WritesFind'
    BY <1>1 DEF Stop, Close, CancelledThreads, IInv, TypeOK, Unasked, Held, WritesFind
  <2>7. StopCloses'
    BY <1>1 DEF Stop, Close, CancelledThreads, Scalars, Threads, Monitor, Unasked, IInv, Reported, Reachable, StopCloses, OneLink, Reads
  <2>. QED
    BY <2>1, <2>2, <2>3, <2>4, <2>5, <2>6, <2>7 DEF IInv
<1>2. CASE Connect
  <2>1. TypeOK'
    <3>1. Scalars'
      BY <1>2 DEF Connect, Close, CancelledThreads, Scalars, Unasked
    <3>2. Threads'
      BY <1>2 DEF Connect, Close, CancelledThreads, Scalars, Threads
    <3>3. Monitor'
      BY <1>2 DEF Connect, Close, CancelledThreads, Scalars, Threads, Monitor, Unasked
    <3>4. Flags'
      BY <1>2 DEF Connect, Close, CancelledThreads, Flags
    <3>. QED
      BY <3>1, <3>2, <3>3, <3>4, TypePartsNext
  <2>2. Unasked' /\ Held'
    BY <1>2 DEF Connect, Close, CancelledThreads, IInv, TypeOK, Unasked, Held
  <2>3. Reported'
    BY <1>2 DEF Connect, Close, CancelledThreads, IInv, TypeOK, Unasked, Reported
  <2>4. Reachable'
    BY <1>2 DEF Connect, Close, CancelledThreads, IInv, TypeOK, Unasked, Reachable
  <2>5. OneLink'
    BY <1>2 DEF Connect, Close, CancelledThreads, IInv, TypeOK, Unasked, Reported, OneLink, Reads
  <2>6. WritesFind'
    BY <1>2 DEF Connect, Close, CancelledThreads, IInv, TypeOK, Unasked, Held, WritesFind
  <2>7. StopCloses'
    BY <1>2 DEF Connect, StopCloses
  <2>. QED
    BY <2>1, <2>2, <2>3, <2>4, <2>5, <2>6, <2>7 DEF IInv
<1>3. CASE ConnectReturns
  <2>1. TypeOK'
    <3>1. Scalars'
      BY <1>3 DEF ConnectReturns, Scalars, Unasked
    <3>2. Threads'
      BY <1>3 DEF ConnectReturns, Scalars, Threads
    <3>3. Monitor'
      BY <1>3 DEF ConnectReturns, Scalars, Threads, Monitor, Unasked
    <3>4. Flags'
      BY <1>3 DEF ConnectReturns, Flags
    <3>. QED
      BY <3>1, <3>2, <3>3, <3>4, TypePartsNext
  <2>2. Unasked' /\ Held'
    BY <1>3 DEF ConnectReturns, IInv, TypeOK, Unasked, Held
  <2>3. Reported'
    BY <1>3 DEF ConnectReturns, IInv, TypeOK, Unasked, Reported
  <2>4. Reachable'
    BY <1>3 DEF ConnectReturns, IInv, TypeOK, Unasked, Reachable
  <2>5. OneLink'
    BY <1>3 DEF ConnectReturns, IInv, TypeOK, Unasked, Reported, OneLink, Reads
  <2>6. WritesFind'
    BY <1>3 DEF ConnectReturns, IInv, TypeOK, Unasked, Held, WritesFind
  <2>7. StopCloses'
    BY <1>3 DEF ConnectReturns, Threads, Unasked, IInv, StopCloses, Reads
  <2>. QED
    BY <2>1, <2>2, <2>3, <2>4, <2>5, <2>6, <2>7 DEF IInv
<1>4. CASE ConnectThrows
  <2>1. TypeOK'
    <3>1. Scalars'
      BY <1>4 DEF ConnectThrows, Close, CancelledThreads, Scalars, Unasked
    <3>2. Threads'
      BY <1>4 DEF ConnectThrows, Close, CancelledThreads, Scalars, Threads
    <3>3. Monitor'
      BY <1>4 DEF ConnectThrows, Close, CancelledThreads, Scalars, Threads, Monitor, Unasked
    <3>4. Flags'
      BY <1>4 DEF ConnectThrows, Close, CancelledThreads, Flags
    <3>. QED
      BY <3>1, <3>2, <3>3, <3>4, TypePartsNext
  <2>2. Unasked' /\ Held'
    BY <1>4 DEF ConnectThrows, Close, CancelledThreads, IInv, TypeOK, Unasked, Held
  <2>3. Reported'
    BY <1>4 DEF ConnectThrows, Close, CancelledThreads, IInv, TypeOK, Unasked, Reported
  <2>4. Reachable'
    BY <1>4 DEF ConnectThrows, Close, CancelledThreads, IInv, TypeOK, Unasked, Reachable
  <2>5. OneLink'
    BY <1>4 DEF ConnectThrows, Close, CancelledThreads, IInv, TypeOK, Unasked, Reported, OneLink, Reads
  <2>6. WritesFind'
    BY <1>4 DEF ConnectThrows, Close, CancelledThreads, IInv, TypeOK, Unasked, Held, WritesFind
  <2>7. StopCloses'
    BY <1>4 DEF ConnectThrows, StopCloses
  <2>. QED
    BY <2>1, <2>2, <2>3, <2>4, <2>5, <2>6, <2>7 DEF IInv
<1>. QED
  BY <1>1, <1>2, <1>3, <1>4

(* The steps of a ConnectThread. *)
LEMMA ConnectorKeepsIInv ==
  ASSUME IInv, NEW a \in Attempts, Connector(a) PROVE IInv'
<1>. USE AttemptsAssumption DEF Attempts, NoAttempt, User, fields, calls
<1>. Scalars /\ Flags /\ Threads /\ Monitor /\ Unasked
  BY TypeParts DEF IInv
<1>1. CASE SocketConnects(a)
  <2>1. TypeOK'
    <3>1. Scalars'
      BY <1>1 DEF SocketConnects, ConnectorMoves, Scalars, Unasked
    <3>2. Threads'
      BY <1>1 DEF SocketConnects, ConnectorMoves, Scalars, Threads
    <3>3. Monitor'
      BY <1>1 DEF SocketConnects, ConnectorMoves, Scalars, Threads, Monitor, Unasked
    <3>4. Flags'
      BY <1>1 DEF SocketConnects, ConnectorMoves, Flags
    <3>. QED
      BY <3>1, <3>2, <3>3, <3>4, TypePartsNext
  <2>2. Unasked' /\ Held'
    BY <1>1 DEF SocketConnects, ConnectorMoves, IInv, TypeOK, Unasked, Held
  <2>3. Reported'
    BY <1>1 DEF SocketConnects, ConnectorMoves, IInv, TypeOK, Unasked, Reported
  <2>4. Reachable'
    BY <1>1 DEF SocketConnects, ConnectorMoves, IInv, TypeOK, Unasked, Reachable
  <2>5. OneLink'
    BY <1>1 DEF SocketConnects, ConnectorMoves, IInv, TypeOK, Unasked, Reported, OneLink, Reads
  <2>6. WritesFind'
    BY <1>1 DEF SocketConnects, ConnectorMoves, IInv, TypeOK, Unasked, Held, WritesFind
  <2>7. StopCloses'
    BY <1>1 DEF SocketConnects, ConnectorMoves, Threads, Unasked, IInv, StopCloses, Reads
  <2>. QED
    BY <2>1, <2>2, <2>3, <2>4, <2>5, <2>6, <2>7 DEF IInv
<1>2. CASE SocketFails(a)
  <2>1. TypeOK'
    <3>1. Scalars'
      BY <1>2 DEF SocketFails, AfterSocketFails, ConnectorMoves, Scalars, Unasked
    <3>2. Threads'
      BY <1>2 DEF SocketFails, AfterSocketFails, ConnectorMoves, Scalars, Threads
    <3>3. Monitor'
      BY <1>2 DEF SocketFails, AfterSocketFails, ConnectorMoves, Scalars, Threads, Monitor, Unasked
    <3>4. Flags'
      BY <1>2 DEF SocketFails, AfterSocketFails, ConnectorMoves, Flags
    <3>. QED
      BY <3>1, <3>2, <3>3, <3>4, TypePartsNext
  <2>2. Unasked' /\ Held'
    BY <1>2 DEF SocketFails, AfterSocketFails, ConnectorMoves, IInv, TypeOK, Unasked, Held
  <2>3. Reported'
    BY <1>2 DEF SocketFails, AfterSocketFails, ConnectorMoves, IInv, TypeOK, Unasked, Reported
  <2>4. Reachable'
    BY <1>2 DEF SocketFails, AfterSocketFails, ConnectorMoves, IInv, TypeOK, Unasked, Reachable
  <2>5. OneLink'
    BY <1>2 DEF SocketFails, AfterSocketFails, ConnectorMoves, IInv, TypeOK, Unasked, Reported, OneLink, Reads
  <2>6. WritesFind'
    BY <1>2 DEF SocketFails, AfterSocketFails, ConnectorMoves, IInv, TypeOK, Unasked, Held, WritesFind
  <2>7. StopCloses'
    BY <1>2 DEF SocketFails, AfterSocketFails, ConnectorMoves, Threads, Unasked, IInv, StopCloses, Reads
  <2>. QED
    BY <2>1, <2>2, <2>3, <2>4, <2>5, <2>6, <2>7 DEF IInv
<1>3. CASE Enter(a)
  <2>1. TypeOK'
    <3>1. Scalars'
      BY <1>3 DEF Enter, Locks, Overtakes, Close, ReplacedThread, ConnectorMoves, Scalars, Unasked
    <3>2. Threads'
      BY <1>3 DEF Enter, Locks, Overtakes, Close, ReplacedThread, ConnectorMoves, Scalars, Threads
    <3>3. Monitor'
      BY <1>3 DEF Enter, Locks, Overtakes, Close, ReplacedThread, ConnectorMoves, Scalars, Threads, Monitor, Unasked
    <3>4. Flags'
      <4>1. (overtaken \/ Overtakes(a)) \in BOOLEAN
        OBVIOUS
      <4>. QED
        BY <1>3, <4>1 DEF Enter, Flags
    <3>. QED
      BY <3>1, <3>2, <3>3, <3>4, TypePartsNext
  <2>2. Unasked' /\ Held'
    BY <1>3 DEF Enter, Locks, Overtakes, Close, ReplacedThread, ConnectorMoves, IInv, TypeOK, Unasked, Held
  <2>3. Reported'
    BY <1>3 DEF Enter, Locks, Overtakes, Close, ReplacedThread, ConnectorMoves, IInv, TypeOK, Unasked, Reported
  <2>4. Reachable'
    BY <1>3 DEF Enter, Locks, Overtakes, Close, ReplacedThread, ConnectorMoves, IInv, TypeOK, Unasked, Reachable
  <2>5. OneLink'
    BY <1>3 DEF Enter, Locks, Overtakes, Close, ReplacedThread, ConnectorMoves, IInv, TypeOK, Unasked, Reported, OneLink, Reads
  <2>6. WritesFind'
    BY <1>3 DEF Enter, Locks, Overtakes, Close, ReplacedThread, ConnectorMoves, IInv, TypeOK, Unasked, Held, WritesFind
  <2>7. StopCloses'
    BY <1>3 DEF Enter, Locks, Overtakes, Close, ReplacedThread, ConnectorMoves, Threads, Unasked, IInv, StopCloses, Reads
  <2>. QED
    BY <2>1, <2>2, <2>3, <2>4, <2>5, <2>6, <2>7 DEF IInv
<1>4. CASE EnterThrows(a)
  <2>1. TypeOK'
    <3>1. Scalars'
      BY <1>4 DEF EnterThrows, Overtakes, Close, ReplacedThread, ConnectorMoves, Scalars, Unasked
    <3>2. Threads'
      BY <1>4 DEF EnterThrows, Overtakes, Close, ReplacedThread, ConnectorMoves, Scalars, Threads
    <3>3. Monitor'
      BY <1>4 DEF EnterThrows, Overtakes, Close, ReplacedThread, ConnectorMoves, Scalars, Threads, Monitor, Unasked
    <3>4. Flags'
      <4>1. (overtaken \/ Overtakes(a)) \in BOOLEAN
        OBVIOUS
      <4>. QED
        BY <1>4, <4>1 DEF EnterThrows, Flags
    <3>. QED
      BY <3>1, <3>2, <3>3, <3>4, TypePartsNext
  <2>2. Unasked' /\ Held'
    BY <1>4 DEF EnterThrows, Overtakes, Close, ReplacedThread, ConnectorMoves, IInv, TypeOK, Unasked, Held
  <2>3. Reported'
    BY <1>4 DEF EnterThrows, Overtakes, Close, ReplacedThread, ConnectorMoves, IInv, TypeOK, Unasked, Reported
  <2>4. Reachable'
    BY <1>4 DEF EnterThrows, Overtakes, Close, ReplacedThread, ConnectorMoves, IInv, TypeOK, Unasked, Reachable
  <2>5. OneLink'
    BY <1>4 DEF EnterThrows, Overtakes, Close, ReplacedThread, ConnectorMoves, IInv, TypeOK, Unasked, Reported, OneLink, Reads
  <2>6. WritesFind'
    BY <1>4 DEF EnterThrows, Overtakes, Close, ReplacedThread, ConnectorMoves, IInv, TypeOK, Unasked, Held, WritesFind
  <2>7. StopCloses'
    BY <1>4 DEF EnterThrows, Overtakes, Close, ReplacedThread, ConnectorMoves, Threads, Unasked, IInv, StopCloses, Reads
  <2>. QED
    BY <2>1, <2>2, <2>3, <2>4, <2>5, <2>6, <2>7 DEF IInv
<1>5. CASE ReportConnected(a)
  <2>1. TypeOK'
    <3>1. Scalars'
      BY <1>5 DEF ReportConnected, ConnectorMoves, Scalars, Unasked
    <3>2. Threads'
      BY <1>5 DEF ReportConnected, ConnectorMoves, Scalars, Threads
    <3>3. Monitor'
      BY <1>5 DEF ReportConnected, ConnectorMoves, Scalars, Threads, Monitor, Unasked
    <3>4. Flags'
      BY <1>5 DEF ReportConnected, ConnectorMoves, Flags
    <3>. QED
      BY <3>1, <3>2, <3>3, <3>4, TypePartsNext
  <2>2. Unasked' /\ Held'
    BY <1>5 DEF ReportConnected, ConnectorMoves, IInv, TypeOK, Unasked, Held
  <2>3. Reported'
    BY <1>5 DEF ReportConnected, ConnectorMoves, IInv, TypeOK, Unasked, Reported
  <2>4. Reachable'
    BY <1>5 DEF ReportConnected, ConnectorMoves, IInv, TypeOK, Unasked, Reachable
  <2>5. OneLink'
    BY <1>5 DEF ReportConnected, ConnectorMoves, IInv, TypeOK, Unasked, Reported, OneLink, Reads
  <2>6. WritesFind'
    BY <1>5 DEF ReportConnected, ConnectorMoves, IInv, TypeOK, Unasked, Held, WritesFind
  <2>7. StopCloses'
    BY <1>5 DEF ReportConnected, ConnectorMoves, Threads, Unasked, IInv, StopCloses, Reads
  <2>. QED
    BY <2>1, <2>2, <2>3, <2>4, <2>5, <2>6, <2>7 DEF IInv
<1>6. CASE SetConnected(a)
  <2>1. TypeOK'
    <3>1. Scalars'
      BY <1>6 DEF SetConnected, ConnectorMoves, Scalars, Unasked
    <3>2. Threads'
      BY <1>6 DEF SetConnected, ConnectorMoves, Scalars, Threads
    <3>3. Monitor'
      BY <1>6 DEF SetConnected, ConnectorMoves, Scalars, Threads, Monitor, Unasked
    <3>4. Flags'
      BY <1>6 DEF SetConnected, ConnectorMoves, Flags
    <3>. QED
      BY <3>1, <3>2, <3>3, <3>4, TypePartsNext
  <2>2. Unasked' /\ Held'
    BY <1>6 DEF SetConnected, ConnectorMoves, IInv, TypeOK, Unasked, Held
  <2>3. Reported'
    BY <1>6 DEF SetConnected, ConnectorMoves, IInv, TypeOK, Unasked, Reported
  <2>4. Reachable'
    BY <1>6 DEF SetConnected, ConnectorMoves, IInv, TypeOK, Unasked, Reachable
  <2>5. OneLink'
    BY <1>6 DEF SetConnected, ConnectorMoves, IInv, TypeOK, Unasked, Reported, OneLink, Reads
  <2>6. WritesFind'
    BY <1>6 DEF SetConnected, ConnectorMoves, IInv, TypeOK, Unasked, Held, WritesFind
  <2>7. StopCloses'
    BY <1>6 DEF SetConnected, ConnectorMoves, Threads, Unasked, IInv, StopCloses, Reads
  <2>. QED
    BY <2>1, <2>2, <2>3, <2>4, <2>5, <2>6, <2>7 DEF IInv
<1>7. CASE ConnectionFailed(a)
  <2>1. TypeOK'
    <3>1. Scalars'
      BY <1>7 DEF ConnectionFailed, ConnectorMoves, Scalars, Unasked
    <3>2. Threads'
      BY <1>7 DEF ConnectionFailed, ConnectorMoves, Scalars, Threads
    <3>3. Monitor'
      BY <1>7 DEF ConnectionFailed, ConnectorMoves, Scalars, Threads, Monitor, Unasked
    <3>4. Flags'
      BY <1>7 DEF ConnectionFailed, ConnectorMoves, Flags
    <3>. QED
      BY <3>1, <3>2, <3>3, <3>4, TypePartsNext
  <2>2. Unasked' /\ Held'
    BY <1>7 DEF ConnectionFailed, ConnectorMoves, IInv, TypeOK, Unasked, Held
  <2>3. Reported'
    BY <1>7 DEF ConnectionFailed, ConnectorMoves, IInv, TypeOK, Unasked, Reported
  <2>4. Reachable'
    BY <1>7 DEF ConnectionFailed, ConnectorMoves, IInv, TypeOK, Unasked, Reachable
  <2>5. OneLink'
    BY <1>7 DEF ConnectionFailed, ConnectorMoves, IInv, TypeOK, Unasked, Reported, OneLink, Reads
  <2>6. WritesFind'
    BY <1>7 DEF ConnectionFailed, ConnectorMoves, IInv, TypeOK, Unasked, Held, WritesFind
  <2>7. StopCloses'
    BY <1>7 DEF ConnectionFailed, ConnectorMoves, Threads, Unasked, IInv, StopCloses, Reads
  <2>. QED
    BY <2>1, <2>2, <2>3, <2>4, <2>5, <2>6, <2>7 DEF IInv
<1>8. CASE ReportFailed(a)
  <2>1. TypeOK'
    <3>1. Scalars'
      BY <1>8 DEF ReportFailed, Close, ConnectorMoves, Scalars, Unasked
    <3>2. Threads'
      BY <1>8 DEF ReportFailed, Close, ConnectorMoves, Scalars, Threads
    <3>3. Monitor'
      BY <1>8 DEF ReportFailed, Close, ConnectorMoves, Scalars, Threads, Monitor, Unasked
    <3>4. Flags'
      BY <1>8 DEF ReportFailed, Close, ConnectorMoves, Flags
    <3>. QED
      BY <3>1, <3>2, <3>3, <3>4, TypePartsNext
  <2>2. Unasked' /\ Held'
    BY <1>8 DEF ReportFailed, Close, ConnectorMoves, IInv, TypeOK, Unasked, Held
  <2>3. Reported'
    BY <1>8 DEF ReportFailed, Close, ConnectorMoves, IInv, TypeOK, Unasked, Reported
  <2>4. Reachable'
    BY <1>8 DEF ReportFailed, Close, ConnectorMoves, IInv, TypeOK, Unasked, Reachable
  <2>5. OneLink'
    BY <1>8 DEF ReportFailed, Close, ConnectorMoves, IInv, TypeOK, Unasked, Reported, OneLink, Reads
  <2>6. WritesFind'
    BY <1>8 DEF ReportFailed, Close, ConnectorMoves, IInv, TypeOK, Unasked, Held, WritesFind
  <2>7. StopCloses'
    BY <1>8 DEF ReportFailed, Close, ConnectorMoves, Threads, Unasked, IInv, StopCloses, Reads
  <2>. QED
    BY <2>1, <2>2, <2>3, <2>4, <2>5, <2>6, <2>7 DEF IInv
<1>. QED
  BY <1>1, <1>2, <1>3, <1>4, <1>5, <1>6, <1>7, <1>8 DEF Connector

(* The steps of a ConnectedThread. *)
LEMMA ReaderKeepsIInv ==
  ASSUME IInv, NEW a \in Attempts, Reader(a) PROVE IInv'
<1>. USE AttemptsAssumption DEF Attempts, NoAttempt, User, fields, calls
<1>. Scalars /\ Flags /\ Threads /\ Monitor /\ Unasked
  BY TypeParts DEF IInv
<1>1. CASE Read(a)
  <2>1. TypeOK'
    <3>1. Scalars'
      BY <1>1 DEF Read, ReaderMoves, Scalars, Unasked
    <3>2. Threads'
      BY <1>1 DEF Read, ReaderMoves, Scalars, Threads
    <3>3. Monitor'
      BY <1>1 DEF Read, ReaderMoves, Scalars, Threads, Monitor, Unasked
    <3>4. Flags'
      BY <1>1 DEF Read, ReaderMoves, Flags
    <3>. QED
      BY <3>1, <3>2, <3>3, <3>4, TypePartsNext
  <2>2. Unasked' /\ Held'
    BY <1>1 DEF Read, ReaderMoves, IInv, TypeOK, Unasked, Held
  <2>3. Reported'
    BY <1>1 DEF Read, ReaderMoves, IInv, TypeOK, Unasked, Reported
  <2>4. Reachable'
    BY <1>1 DEF Read, ReaderMoves, IInv, TypeOK, Unasked, Reachable
  <2>5. OneLink'
    BY <1>1 DEF Read, ReaderMoves, IInv, TypeOK, Unasked, Reported, OneLink, Reads
  <2>6. WritesFind'
    BY <1>1 DEF Read, ReaderMoves, IInv, TypeOK, Unasked, Held, WritesFind
  <2>7. StopCloses'
    BY <1>1 DEF Read, ReaderMoves, Threads, Unasked, IInv, StopCloses, Reads
  <2>. QED
    BY <2>1, <2>2, <2>3, <2>4, <2>5, <2>6, <2>7 DEF IInv
<1>2. CASE Deliver(a)
  <2>1. TypeOK'
    <3>1. Scalars'
      BY <1>2 DEF Deliver, ReaderMoves, Scalars, Unasked
    <3>2. Threads'
      BY <1>2 DEF Deliver, ReaderMoves, Scalars, Threads
    <3>3. Monitor'
      BY <1>2 DEF Deliver, ReaderMoves, Scalars, Threads, Monitor, Unasked
    <3>4. Flags'
      BY <1>2 DEF Deliver, ReaderMoves, Flags
    <3>. QED
      BY <3>1, <3>2, <3>3, <3>4, TypePartsNext
  <2>2. Unasked' /\ Held'
    BY <1>2 DEF Deliver, ReaderMoves, IInv, TypeOK, Unasked, Held
  <2>3. Reported'
    BY <1>2 DEF Deliver, ReaderMoves, IInv, TypeOK, Unasked, Reported
  <2>4. Reachable'
    BY <1>2 DEF Deliver, ReaderMoves, IInv, TypeOK, Unasked, Reachable
  <2>5. OneLink'
    BY <1>2 DEF Deliver, ReaderMoves, IInv, TypeOK, Unasked, Reported, OneLink, Reads
  <2>6. WritesFind'
    BY <1>2 DEF Deliver, ReaderMoves, IInv, TypeOK, Unasked, Held, WritesFind
  <2>7. StopCloses'
    BY <1>2 DEF Deliver, ReaderMoves, Threads, Unasked, IInv, StopCloses, Reads
  <2>. QED
    BY <2>1, <2>2, <2>3, <2>4, <2>5, <2>6, <2>7 DEF IInv
<1>3. CASE ReadFails(a)
  <2>1. TypeOK'
    <3>1. Scalars'
      BY <1>3 DEF ReadFails, ReaderMoves, Scalars, Unasked
    <3>2. Threads'
      BY <1>3 DEF ReadFails, ReaderMoves, Scalars, Threads
    <3>3. Monitor'
      BY <1>3 DEF ReadFails, ReaderMoves, Scalars, Threads, Monitor, Unasked
    <3>4. Flags'
      BY <1>3 DEF ReadFails, ReaderMoves, Flags
    <3>. QED
      BY <3>1, <3>2, <3>3, <3>4, TypePartsNext
  <2>2. Unasked' /\ Held'
    BY <1>3 DEF ReadFails, ReaderMoves, IInv, TypeOK, Unasked, Held
  <2>3. Reported'
    BY <1>3 DEF ReadFails, ReaderMoves, IInv, TypeOK, Unasked, Reported
  <2>4. Reachable'
    BY <1>3 DEF ReadFails, ReaderMoves, IInv, TypeOK, Unasked, Reachable
  <2>5. OneLink'
    BY <1>3 DEF ReadFails, ReaderMoves, IInv, TypeOK, Unasked, Reported, OneLink, Reads
  <2>6. WritesFind'
    BY <1>3 DEF ReadFails, ReaderMoves, IInv, TypeOK, Unasked, Held, WritesFind
  <2>7. StopCloses'
    BY <1>3 DEF ReadFails, ReaderMoves, Threads, Unasked, IInv, StopCloses, Reads
  <2>. QED
    BY <2>1, <2>2, <2>3, <2>4, <2>5, <2>6, <2>7 DEF IInv
<1>4. CASE ConnectionLost(a)
  <2>1. TypeOK'
    <3>1. Scalars'
      BY <1>4 DEF ConnectionLost, AfterLoss, ReaderMoves, Scalars, Unasked
    <3>2. Threads'
      BY <1>4 DEF ConnectionLost, AfterLoss, ReaderMoves, Scalars, Threads
    <3>3. Monitor'
      BY <1>4 DEF ConnectionLost, AfterLoss, ReaderMoves, Scalars, Threads, Monitor, Unasked
    <3>4. Flags'
      BY <1>4 DEF ConnectionLost, AfterLoss, ReaderMoves, Flags
    <3>. QED
      BY <3>1, <3>2, <3>3, <3>4, TypePartsNext
  <2>2. Unasked' /\ Held'
    BY <1>4 DEF ConnectionLost, AfterLoss, ReaderMoves, IInv, TypeOK, Unasked, Held
  <2>3. Reported'
    BY <1>4 DEF ConnectionLost, AfterLoss, ReaderMoves, IInv, TypeOK, Unasked, Reported
  <2>4. Reachable'
    BY <1>4 DEF ConnectionLost, AfterLoss, ReaderMoves, IInv, TypeOK, Unasked, Reachable
  <2>5. OneLink'
    BY <1>4 DEF ConnectionLost, AfterLoss, ReaderMoves, IInv, TypeOK, Unasked, Reported, OneLink, Reads
  <2>6. WritesFind'
    BY <1>4 DEF ConnectionLost, AfterLoss, ReaderMoves, IInv, TypeOK, Unasked, Held, WritesFind
  <2>7. StopCloses'
    BY <1>4 DEF ConnectionLost, AfterLoss, ReaderMoves, Threads, Unasked, IInv, StopCloses, Reads
  <2>. QED
    BY <2>1, <2>2, <2>3, <2>4, <2>5, <2>6, <2>7 DEF IInv
<1>5. CASE ReportLost(a)
  <2>1. TypeOK'
    <3>1. Scalars'
      BY <1>5 DEF ReportLost, ReaderMoves, Scalars, Unasked
    <3>2. Threads'
      BY <1>5 DEF ReportLost, ReaderMoves, Scalars, Threads
    <3>3. Monitor'
      BY <1>5 DEF ReportLost, ReaderMoves, Scalars, Threads, Monitor, Unasked
    <3>4. Flags'
      BY <1>5 DEF ReportLost, ReaderMoves, Flags
    <3>. QED
      BY <3>1, <3>2, <3>3, <3>4, TypePartsNext
  <2>2. Unasked' /\ Held'
    BY <1>5 DEF ReportLost, ReaderMoves, IInv, TypeOK, Unasked, Held
  <2>3. Reported'
    BY <1>5 DEF ReportLost, ReaderMoves, IInv, TypeOK, Unasked, Reported
  <2>4. Reachable'
    BY <1>5 DEF ReportLost, ReaderMoves, IInv, TypeOK, Unasked, Reachable
  <2>5. OneLink'
    BY <1>5 DEF ReportLost, ReaderMoves, IInv, TypeOK, Unasked, Reported, OneLink, Reads
  <2>6. WritesFind'
    BY <1>5 DEF ReportLost, ReaderMoves, IInv, TypeOK, Unasked, Held, WritesFind
  <2>7. StopCloses'
    BY <1>5 DEF ReportLost, ReaderMoves, Threads, Unasked, IInv, StopCloses, Reads
  <2>. QED
    BY <2>1, <2>2, <2>3, <2>4, <2>5, <2>6, <2>7 DEF IInv
<1>. QED
  BY <1>1, <1>2, <1>3, <1>4, <1>5 DEF Reader

LEMMA SpecIInv == Spec => []IInv
<1>1. IInv /\ UNCHANGED vars => IInv'
  BY DEF IInv, TypeOK, Unasked, Reported, Held, Reachable, WritesFind, OneLink, StopCloses,
         Reads, vars, fields, calls
<1>2. IInv /\ [Next]_vars => IInv'
  BY <1>1, UserKeepsIInv, ConnectorKeepsIInv, ReaderKeepsIInv DEF Next
<1>. QED
  BY <1>2, InitIInv, PTL DEF Spec

(* Every field keeps its type, and connected runs for one attempt at a time *)
(* and never during stop or connect.                                        *)
THEOREM ConnectionTypes == Spec => []TypeOK
BY SpecIInv, PTL DEF IInv

(* Two attempts never bring bytes from open sockets at the same time.       *)
THEOREM LinksAreExclusive == Spec => []OneLink
BY SpecIInv, PTL DEF IInv

(* Unless an attempt was overtaken, stop closes the sockets of all threads. *)
THEOREM StopReachesAll == Spec => []StopCloses
BY SpecIInv, PTL DEF IInv

(* CONNECTED without a thread has one of two causes.                        *)
THEOREM WritersFindThread == Spec => []WriteFindsThread
<1>1. IInv => WriteFindsThread
  BY DEF IInv, WritesFind, WriteFindsThread, NoAttempt, User
<1>. QED
  BY <1>1, SpecIInv, PTL

(* What is told when: a step of its own away from the end of each thread.   *)
Telling ==
  \A a \in Attempts :
    /\ connector[a] = "setting" => "connected" \in told[a]
    /\ connector[a] = "done" => told[a] \intersect {"connected", "failed"} # {}
    /\ reader[a] = "done" => "lost" \in told[a]

LEMMA TellingStep == IInv /\ Telling /\ [Next]_vars => Telling'
<1>. SUFFICES ASSUME IInv, Telling, [Next]_vars PROVE Telling'
  OBVIOUS
<1>. USE DEF Telling, fields, calls
<1>. Threads /\ Scalars
  BY TypeParts DEF IInv
<1>1. CASE Stop \/ ConnectReturns \/ ConnectThrows
  BY <1>1 DEF Stop, ConnectReturns, ConnectThrows
<1>2. CASE Connect
  BY <1>2 DEF Connect, Threads
<1>3. ASSUME NEW a \in Attempts, Connector(a) PROVE Telling'
  BY <1>3 DEF Threads, Connector, ConnectorMoves, SocketConnects, SocketFails, AfterSocketFails,
              Enter, EnterThrows, ReportConnected, SetConnected, ConnectionFailed, ReportFailed
<1>4. ASSUME NEW a \in Attempts, Reader(a) PROVE Telling'
  BY <1>4 DEF Threads, Reader, ReaderMoves, Read, Deliver, ReadFails, ConnectionLost, AfterLoss,
              ReportLost
<1>5. CASE UNCHANGED vars
  BY <1>5 DEF vars
<1>. QED
  BY <1>1, <1>2, <1>3, <1>4, <1>5 DEF Next

(* No attempt ends in silence, however it was cancelled, overtaken or cut:  *)
(* when its ConnectThread has ended it was reported connected or failed,    *)
(* never both, and when its ConnectedThread has ended it was reported lost. *)
EndedAreReported ==
  \A a \in Attempts :
    /\ connector[a] = "done" => told[a] \intersect {"connected", "failed"} # {}
    /\ ~({"connected", "failed"} \subseteq told[a])
    /\ reader[a] = "done" => "lost" \in told[a]

(* What AttemptsSettle and CutLinksAreReported need beside fairness.        *)
THEOREM NoSilentEnd == Spec => []EndedAreReported
<1>1. Init => Telling
  BY DEF Init, Telling
<1>2. IInv /\ Telling => EndedAreReported
  BY DEF IInv, Reported, Telling, EndedAreReported
<1>. QED
  BY <1>1, <1>2, TellingStep, SpecIInv, PTL DEF Spec

-----------------------------------------------------------------------------
(* The refinement.  Links and bar are what the mapping gives the abstract   *)
(* variables.                                                               *)
Links == {a \in Attempts : reader[a] # "new"}

bar == <<asked, Links, Carrier, told>>

(* The thread of a carrying link. *)
Carries(a) == connectedThread = a /\ socket[a] = "open" /\ Reads(a)

LEMMA CarrierIs ==
  /\ \A a \in Attempts : Carries(a) => Carrier = a
  /\ (\A a \in Attempts : ~Carries(a)) => Carrier = NoAttempt
BY DEF Carrier, Carries

LEMMA CarrierIsNext ==
  /\ \A a \in Attempts : Carries(a)' => Carrier' = a
  /\ (\A a \in Attempts : ~Carries(a)') => Carrier' = NoAttempt
BY DEF Carrier, Carries

(* A step after which the same link carries bytes, or none does.            *)
LEMMA CarrierStays ==
  ASSUME \A a \in Attempts : Carries(a)' => Carries(a)
  PROVE  Carrier' \in {Carrier, NoAttempt}
<1>1. CASE \E a \in Attempts : Carries(a)'
  BY <1>1, CarrierIs, CarrierIsNext
<1>2. CASE ~ \E a \in Attempts : Carries(a)'
  BY <1>2, CarrierIsNext
<1>. QED
  BY <1>1, <1>2

(* Stuttering, or the link is cut. *)
LEMMA CutOrStutter ==
  ASSUME UNCHANGED <<asked, told, Links>>, Carrier' \in {Carrier, NoAttempt}
  PROVE  [Protocol!ProtocolNext]_bar
BY DEF Protocol!ProtocolNext, Protocol!Cut, Protocol!NoAttempt, NoAttempt, bar, Links

LEMMA UserRefines ==
  ASSUME IInv, Stop \/ Connect \/ ConnectReturns \/ ConnectThrows
  PROVE  [Protocol!ProtocolNext]_bar
<1>. USE AttemptsAssumption DEF Attempts, NoAttempt, User, fields, calls
<1>1. CASE Stop \/ ConnectThrows
  <2>1. \A a \in Attempts : ~Carries(a)'
    BY <1>1 DEF Stop, ConnectThrows, Carries
  <2>2. UNCHANGED <<asked, told, Links>>
    BY <1>1 DEF Stop, ConnectThrows, Links
  <2>. QED
    BY <2>1, <2>2, CarrierIsNext, CutOrStutter
<1>2. CASE ConnectReturns
  <2>1. \A a \in Attempts : Carries(a)' => Carries(a)
    BY <1>2 DEF ConnectReturns, Carries, Reads
  <2>2. UNCHANGED <<asked, told, Links>>
    BY <1>2 DEF ConnectReturns, Links
  <2>. QED
    BY <2>1, <2>2, CarrierStays, CutOrStutter
<1>3. CASE Connect
  <2>1. \A a \in Attempts : ~Carries(a)'
    BY <1>3 DEF Connect, Carries
  <2>2. asked < MaxAttempts /\ asked' = asked + 1 /\ UNCHANGED <<told, Links>>
    BY <1>3 DEF Connect, Links
  <2>3. Protocol!Ask
    BY <2>1, <2>2, CarrierIsNext DEF Protocol!Ask, Protocol!NoAttempt, Links
  <2>. QED
    BY <2>3 DEF Protocol!ProtocolNext
<1>. QED
  BY <1>1, <1>2, <1>3

LEMMA ConnectorRefines ==
  ASSUME IInv, NEW a \in Attempts, Connector(a)
  PROVE  [Protocol!ProtocolNext]_bar
<1>. USE AttemptsAssumption DEF Attempts, NoAttempt, User, fields, calls
<1>0. /\ Threads /\ Unasked /\ Reported
      /\ \A b \in Attempts : connector[b] # "new" => b <= asked
  BY TypeParts DEF IInv, Unasked, Scalars
<1>1. CASE SocketConnects(a) \/ SocketFails(a) \/ ConnectionFailed(a) \/ SetConnected(a)
  <2>1. \A b \in Attempts : Carries(b)' => Carries(b)
    BY <1>1 DEF SocketConnects, SocketFails, ConnectionFailed, SetConnected, Carries, Reads
  <2>2. UNCHANGED <<asked, told, Links>>
    BY <1>1 DEF SocketConnects, SocketFails, ConnectionFailed, SetConnected, Links
  <2>. QED
    BY <2>1, <2>2, CarrierStays, CutOrStutter
<1>2. CASE Enter(a)
  <2>1. \A b \in Attempts : b # a => ~Carries(b)'
    BY <1>2 DEF Enter, Carries
  <2>2. Carrier' \in {a, NoAttempt}
    BY <2>1, CarrierIsNext
  <2>3. Links' = Links \union {a} /\ a \notin Links /\ told[a] = {}
    BY <1>0, <1>2 DEF Enter, ConnectorMoves, Threads, Reported, Links
  <2>4. a <= asked /\ UNCHANGED <<asked, told>>
    BY <1>0, <1>2 DEF Enter, ConnectorMoves
  <2>5. Protocol!Establish(a)
    BY <2>2, <2>3, <2>4 DEF Protocol!Establish, Protocol!NoAttempt, Links
  <2>. QED
    BY <2>5 DEF Protocol!ProtocolNext, Protocol!Attempts
<1>3. CASE EnterThrows(a)
  <2>1. \A b \in Attempts : ~Carries(b)'
    BY <1>3 DEF EnterThrows, Carries
  <2>2. UNCHANGED <<asked, told, Links>>
    BY <1>3 DEF EnterThrows, Links
  <2>. QED
    BY <2>1, <2>2, CarrierIsNext, CutOrStutter
<1>4. CASE ReportConnected(a)
  <2>1. /\ \A b \in Attempts : Carries(b)' <=> Carries(b)
        /\ UNCHANGED <<asked, Links>>
    BY <1>4 DEF ReportConnected, Carries, Reads, Links
  <2>2. UNCHANGED Carrier
    BY <1>4 DEF ReportConnected, Carrier, Reads
  <2>3. /\ a <= asked /\ "connected" \notin told[a] /\ a \in Links
        /\ told' = [told EXCEPT ![a] = @ \union {"connected"}]
    BY <1>0, <1>4 DEF ReportConnected, ConnectorMoves, Reported, Links
  <2>4. Protocol!Tell(a, "connected")
    BY <2>1, <2>2, <2>3 DEF Protocol!Tell, Links
  <2>. QED
    BY <2>4 DEF Protocol!ProtocolNext, Protocol!Attempts
<1>5. CASE ReportFailed(a)
  <2>1. reader[a] = "new" /\ told[a] = {} /\ a <= asked
    BY <1>0, <1>5 DEF ReportFailed, ConnectorMoves, Reported
  <2>2. \A b \in Attempts : (socket'[b] = "open" /\ Reads(b) <=> socket[b] = "open" /\ Reads(b))
    BY <2>1, <1>0, <1>5 DEF ReportFailed, Close, Threads, Reads
  <2>3. UNCHANGED <<asked, Links, connectedThread, reader>>
    BY <1>5 DEF ReportFailed, Links
  <2>4. UNCHANGED Carrier
    BY <2>2, <2>3 DEF Carrier, Reads
  <2>5. "failed" \notin told[a] /\ a \notin Links
        /\ told' = [told EXCEPT ![a] = @ \union {"failed"}]
    BY <2>1, <1>5 DEF ReportFailed, Links
  <2>6. Protocol!Tell(a, "failed")
    BY <2>1, <2>3, <2>4, <2>5 DEF Protocol!Tell, Links
  <2>. QED
    BY <2>6 DEF Protocol!ProtocolNext, Protocol!Attempts
<1>. QED
  BY <1>1, <1>2, <1>3, <1>4, <1>5 DEF Connector

LEMMA ReaderRefines ==
  ASSUME IInv, NEW a \in Attempts, Reader(a)
  PROVE  [Protocol!ProtocolNext]_bar
<1>. USE AttemptsAssumption DEF Attempts, NoAttempt, User, fields, calls
<1>0. /\ Threads /\ Unasked /\ Reported
      /\ \A b \in Attempts : connector[b] # "new" => b <= asked
  BY TypeParts DEF IInv, Unasked, Scalars
<1>1. CASE Read(a) \/ Deliver(a) \/ ReadFails(a) \/ ConnectionLost(a)
  <2>1. \A b \in Attempts : Carries(b)' => Carries(b)
    BY <1>0, <1>1 DEF Read, Deliver, ReadFails, ConnectionLost, AfterLoss, ReaderMoves,
                      Threads, Carries, Reads
  <2>2. UNCHANGED <<asked, told>>
    BY <1>1 DEF Read, Deliver, ReadFails, ConnectionLost, ReaderMoves
  <2>3. UNCHANGED Links
    BY <1>0, <1>1 DEF Read, Deliver, ReadFails, ConnectionLost, AfterLoss, ReaderMoves,
                      Threads, Links
  <2>. QED
    BY <2>1, <2>2, <2>3, CarrierStays, CutOrStutter
<1>2. CASE ReportLost(a)
  <2>1. UNCHANGED Carrier
    <3>1. \A b \in Attempts : Reads(b)' <=> Reads(b)
      BY <1>0, <1>2 DEF ReportLost, ReaderMoves, Threads, Reads
    <3>. QED
      BY <3>1, <1>2 DEF ReportLost, ReaderMoves, Carrier
  <2>2. Links' = Links /\ a \in Links /\ "lost" \notin told[a] /\ a <= asked
    BY <1>0, <1>2 DEF ReportLost, ReaderMoves, Threads, Reported, Links
  <2>3. told' = [told EXCEPT ![a] = @ \union {"lost"}] /\ UNCHANGED asked
    BY <1>2 DEF ReportLost, ReaderMoves
  <2>4. Protocol!Tell(a, "lost")
    BY <2>1, <2>2, <2>3 DEF Protocol!Tell, Links
  <2>. QED
    BY <2>4 DEF Protocol!ProtocolNext, Protocol!Attempts
<1>. QED
  BY <1>1, <1>2 DEF Reader

(* Whatever the user, the devices and the threads do, the receiver sees     *)
(* what SppProtocol promises.                                               *)
THEOREM ConnectionImplementsProtocol == Spec => ImplementsProtocol
<1>1. Init => Protocol!ProtocolInit
  <2>. SUFFICES ASSUME Init PROVE Protocol!ProtocolInit
    OBVIOUS
  <2>1. Links = {} /\ Carrier = NoAttempt
    BY AttemptsAssumption, CarrierIs DEF Init, Links, Carries, Reads, Attempts
  <2>. QED
    BY <2>1 DEF Init, Protocol!ProtocolInit, Protocol!NoAttempt, NoAttempt, Links,
                Protocol!Attempts, Attempts
<1>2. IInv /\ [Next]_vars => [Protocol!ProtocolNext]_bar
  <2>. SUFFICES ASSUME IInv, [Next]_vars PROVE [Protocol!ProtocolNext]_bar
    OBVIOUS
  <2>1. CASE UNCHANGED vars
    BY <2>1 DEF vars, fields, calls, bar, Links, Carrier, Reads
  <2>2. CASE Next
    BY <2>2, UserRefines, ConnectorRefines, ReaderRefines DEF Next
  <2>. QED
    BY <2>1, <2>2
<1>3. Spec => Protocol!ProtocolInit /\ [][Protocol!ProtocolNext]_bar
  BY <1>1, <1>2, SpecIInv, PTL DEF Spec
<1>. QED
  BY <1>3, PTL DEF ImplementsProtocol, Protocol!ProtocolSpec, bar, Links
=============================================================================
