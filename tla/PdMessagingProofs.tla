------------------------- MODULE PdMessagingProofs -------------------------
(***************************************************************************)
(* Safety of Pd's messages, for any number of instances and of posted      *)
(* runnables.  An operation of the main thread is a sequence of steps of   *)
(* which the first ones are taken away: the invariant says what the form   *)
(* of the operations promises of the steps that are left.                  *)
(***************************************************************************)
EXTENDS PdMessaging, SequenceTheorems, TLAPS

(* The steps that connect an instance to Pd come first. *)
Early == {"setReceiver", "lock", "add"}

EarlyFirst(p) ==
  \A j, k \in DOMAIN p : j < k /\ p[k].op \in Early => p[j].op \in Early

NamesSymbols(p) ==
  \A k \in DOMAIN p : p[k].op \in {"lock", "add", "subscribe"} => p[k].symbol \in Symbols

StopsJoin(p) ==
  \A k \in DOMAIN p : p[k].op = "stop" => k + 1 \in DOMAIN p /\ p[k + 1].op = "join"

OpensOnce(p) ==
  \A j, k \in DOMAIN p : p[j].op = "openPatch" /\ p[k].op = "openPatch" => j = k

Program(p) ==
  p \in Seq(Steps) /\ EarlyFirst(p) /\ NamesSymbols(p) /\ StopsJoin(p) /\ OpensOnce(p)

IsLeft(op) == \E step \in Range(todo) : step.op = op

Connecting == \E step \in Range(todo) : step.op \in Early

-----------------------------------------------------------------------------
(* The inductive invariant. *)
Numbers ==
  /\ connected \in 0 .. MaxInstances /\ receiver \in 0 .. connected
  /\ patches \in 0 .. connected /\ posted \in 0 .. MaxPosted

Tables == bound \subseteq Symbols /\ listeners \in [Instances -> SUBSET Symbols]

Thread ==
  /\ thread \in {"none", "waiting", "looping", "entering", "processing", "sending"}
  /\ symbol \in Symbols \union {"none"} /\ interrupted \in BOOLEAN

Process == foreground \in BOOLEAN /\ ended \in BOOLEAN

(* Each instance opens one patch. *)
PatchesLeft == IsLeft("openPatch") => patches < connected

(* Nothing runs before there is an instance, ... *)
Unconnected == connected = 0 => todo = <<>> /\ thread = "none" /\ posted = 0

(* ... and no audio before the first one is connected to Pd. *)
SilentFirst == connected = 1 /\ Connecting => thread = "none"

(* The receiver is in front, or will be, or has been released. *)
Fronted == connected > 0 => receiver \in {connected, None} \/ IsLeft("setReceiver")

(* The instance in front has its listeners, or will add them. *)
Listening ==
  \A s \in {"tempo", "testbang"} :
    connected > 0 =>
      s \in listeners[connected] \/ On("add", s) \in Range(todo)

(* process does not lose its receiver, and its message can be posted. *)
Sending == thread = "sending" => symbol \in Symbols /\ receiver # None /\ posted < MaxPosted

IInv ==
  /\ Numbers /\ Tables /\ Thread /\ Process /\ Program(todo)
  /\ PatchesLeft /\ Unconnected /\ SilentFirst /\ Fronted /\ Listening /\ Sending

-----------------------------------------------------------------------------
(* What remains of a program is one. *)
LEMMA TailIsProgram ==
  ASSUME NEW p, Program(p), p # <<>>
  PROVE  /\ Program(Tail(p))
         /\ Len(Tail(p)) = Len(p) - 1
         /\ \A k \in 1 .. Len(p) - 1 : Tail(p)[k] = p[k + 1]
<1>1. /\ p \in Seq(Steps) /\ Len(p) \in Nat \ {0} /\ DOMAIN p = 1 .. Len(p)
      /\ Tail(p) \in Seq(Steps) /\ Len(Tail(p)) = Len(p) - 1
      /\ DOMAIN Tail(p) = 1 .. Len(p) - 1
      /\ \A k \in 1 .. Len(p) - 1 : Tail(p)[k] = p[k + 1]
  BY DEF Program
<1>2. EarlyFirst(Tail(p))
  BY <1>1 DEF Program, EarlyFirst
<1>3. NamesSymbols(Tail(p))
  BY <1>1 DEF Program, NamesSymbols
<1>4. StopsJoin(Tail(p))
  BY <1>1 DEF Program, StopsJoin
<1>5. OpensOnce(Tail(p))
  BY <1>1 DEF Program, OpensOnce
<1>. QED
  BY <1>1, <1>2, <1>3, <1>4, <1>5 DEF Program

(* Two programs in sequence are one unless an early step would come late or *)
(* a second patch be opened.                                                *)
LEMMA ConcatIsProgram ==
  ASSUME NEW p, NEW q, Program(p), Program(q),
         \/ \A step \in Range(p) : step.op \in Early
         \/ \A step \in Range(q) : step.op \notin Early,
         \/ \A step \in Range(p) : step.op # "openPatch"
         \/ \A step \in Range(q) : step.op # "openPatch"
  PROVE  Program(p \o q) /\ Range(p \o q) = Range(p) \union Range(q)
<1>1. /\ p \in Seq(Steps) /\ q \in Seq(Steps) /\ p \o q \in Seq(Steps)
      /\ Len(p) \in Nat /\ Len(q) \in Nat
      /\ DOMAIN p = 1 .. Len(p) /\ DOMAIN q = 1 .. Len(q)
      /\ DOMAIN (p \o q) = 1 .. Len(p) + Len(q)
  BY DEF Program
<1>2. \A k \in 1 .. Len(p) + Len(q) :
        (p \o q)[k] = IF k <= Len(p) THEN p[k] ELSE q[k - Len(p)]
  BY <1>1
<1>3. EarlyFirst(p \o q)
  BY <1>1, <1>2 DEF Program, EarlyFirst, Range
<1>4. NamesSymbols(p \o q)
  BY <1>1, <1>2 DEF Program, NamesSymbols
<1>5. ASSUME NEW k \in 1 .. Len(p) + Len(q), (p \o q)[k].op = "stop"
      PROVE  k + 1 \in 1 .. Len(p) + Len(q) /\ (p \o q)[k + 1].op = "join"
  <2>1. CASE k <= Len(p)
    <3>1. k \in DOMAIN p /\ p[k].op = "stop"
      BY <1>1, <1>2, <1>5, <2>1
    <3>2. k + 1 \in DOMAIN p /\ p[k + 1].op = "join"
      BY <3>1 DEF Program, StopsJoin
    <3>. QED
      BY <1>1, <1>2, <3>2
  <2>2. CASE k > Len(p)
    <3>1. k - Len(p) \in DOMAIN q /\ q[k - Len(p)].op = "stop"
      BY <1>1, <1>2, <1>5, <2>2
    <3>2. k - Len(p) + 1 \in DOMAIN q /\ q[k - Len(p) + 1].op = "join"
      BY <3>1 DEF Program, StopsJoin
    <3>3. k + 1 \in 1 .. Len(p) + Len(q) /\ k + 1 - Len(p) = k - Len(p) + 1
      BY <1>1, <3>2
    <3>. QED
      BY <1>2, <2>2, <3>2, <3>3
  <2>. QED
    BY <1>1, <2>1, <2>2
<1>6. OpensOnce(p \o q)
  BY <1>1, <1>2 DEF Program, OpensOnce, Range
<1>. QED
  BY <1>1, <1>3, <1>4, <1>5, <1>6, RangeConcatenation DEF Program, StopsJoin

(* The parts of the operations. *)
LEMMA AddListenerIsProgram ==
  ASSUME NEW s \in Symbols
  PROVE  /\ Program(AddListener(s))
         /\ Range(AddListener(s)) = {On("lock", s), On("add", s)}
<1>. USE DEF AddListener, On, Steps, Range
<1>1. AddListener(s) \in Seq(Steps) /\ DOMAIN AddListener(s) = 1 .. 2
  OBVIOUS
<1>. QED
  BY <1>1 DEF Program, EarlyFirst, NamesSymbols, StopsJoin, OpensOnce, Early

LEMMA StartAudioIsProgram ==
  /\ Program(StartAudio)
  /\ Range(StartAudio) =
       {Do("stopForeground"), Do("stop"), Do("join"), Do("open"), Do("startForeground"),
        Do("compute"), Do("start")}
<1>. USE DEF StartAudio, Do, Steps, Range
<1>1. StartAudio \in Seq(Steps) /\ DOMAIN StartAudio = 1 .. 7
  OBVIOUS
<1>. QED
  BY <1>1 DEF Program, EarlyFirst, NamesSymbols, StopsJoin, OpensOnce, Early

LEMMA InitPdIsProgram ==
  /\ Program(InitPd)
  /\ Do("setReceiver") \in Range(InitPd)
  /\ On("add", "tempo") \in Range(InitPd) /\ On("add", "testbang") \in Range(InitPd)
<1>. DEFINE first == <<Do("setReceiver")>>
            opens == <<On("subscribe", "android"), Do("openPatch")>>
<1>. USE DEF Do, On, Steps, Symbols, Early
<1>1. Program(first) /\ Range(first) = {Do("setReceiver")}
  BY DEF Program, EarlyFirst, NamesSymbols, StopsJoin, OpensOnce, Range
<1>2. Program(opens) /\ Range(opens) = {On("subscribe", "android"), Do("openPatch")}
  BY DEF Program, EarlyFirst, NamesSymbols, StopsJoin, OpensOnce, Range
<1>. HIDE DEF first, opens
<1>3. /\ Program(first \o AddListener("tempo"))
      /\ Range(first \o AddListener("tempo")) =
           {Do("setReceiver"), On("lock", "tempo"), On("add", "tempo")}
  BY <1>1, AddListenerIsProgram, ConcatIsProgram
<1>4. /\ Program(first \o AddListener("tempo") \o AddListener("testbang"))
      /\ Range(first \o AddListener("tempo") \o AddListener("testbang")) =
           {Do("setReceiver"), On("lock", "tempo"), On("add", "tempo"),
            On("lock", "testbang"), On("add", "testbang")}
  BY <1>3, AddListenerIsProgram, ConcatIsProgram
<1>5. /\ Program(first \o AddListener("tempo") \o AddListener("testbang") \o opens)
      /\ Range(first \o AddListener("tempo") \o AddListener("testbang") \o opens) =
           {Do("setReceiver"), On("lock", "tempo"), On("add", "tempo"),
            On("lock", "testbang"), On("add", "testbang"),
            On("subscribe", "android"), Do("openPatch")}
  BY <1>2, <1>4, ConcatIsProgram
<1>. QED
  BY <1>5, StartAudioIsProgram, ConcatIsProgram DEF InitPd, first, opens

LEMMA EmptyIsProgram == Program(<<>>) /\ Range(<<>>) = {}
BY EmptySeq DEF Program, EarlyFirst, NamesSymbols, StopsJoin, OpensOnce, Range

LEMMA SendFloatIsProgram ==
  /\ Program(<<Do("sendFloat")>>)
  /\ Range(<<Do("sendFloat")>>) = {Do("sendFloat")}
BY DEF Do, Steps, Early, Program, EarlyFirst, NamesSymbols, StopsJoin, OpensOnce, Range

(* The operations of a connected instance connect and open nothing more. *)
LEMMA OperationIsProgram ==
  ASSUME NEW o \in DOMAIN Operations
  PROVE  /\ Program(Operations[o])
         /\ \A step \in Range(Operations[o]) : step.op \notin Early \union {"openPatch"}
<1>. USE DEF Do, Steps, Early
<1>1. CASE o = "getTempo"
  BY <1>1, SendFloatIsProgram, StartAudioIsProgram, ConcatIsProgram DEF Operations
<1>2. CASE o = "stop"
  <2>1. Operations[o] = <<Do("stop"), Do("join")>>
    BY <1>2 DEF Operations
  <2>. QED
    BY <2>1 DEF Program, EarlyFirst, NamesSymbols, StopsJoin, OpensOnce, Range
<1>3. CASE o = "destroy"
  <2>1. Operations[o] = <<Do("release"), Do("exit")>>
    BY <1>3 DEF Operations
  <2>. QED
    BY <2>1 DEF Program, EarlyFirst, NamesSymbols, StopsJoin, OpensOnce, Range
<1>. QED
  BY <1>1, <1>2, <1>3 DEF Operations

-----------------------------------------------------------------------------
(* A step is taken: what is left of the operation. *)
LEMMA HeadIsFirst ==
  ASSUME NEW p, Program(p), p # <<>>
  PROVE  /\ Head(p) \in Steps /\ Range(p) = {Head(p)} \union Range(Tail(p))
         /\ Head(p).op \notin Early => \A step \in Range(p) : step.op \notin Early
         /\ Head(p).op = "openPatch" => \A step \in Range(Tail(p)) : step.op # "openPatch"
         /\ Head(p).op = "stop" => Tail(p) # <<>>
         /\ Head(p).op \in {"lock", "add", "subscribe"} => Head(p).symbol \in Symbols
<1>1. /\ p \in Seq(Steps) /\ Len(p) \in Nat \ {0} /\ DOMAIN p = 1 .. Len(p)
      /\ Tail(p) \in Seq(Steps) /\ DOMAIN Tail(p) = 1 .. Len(p) - 1
      /\ \A k \in 1 .. Len(p) - 1 : Tail(p)[k] = p[k + 1]
      /\ Head(p) = p[1]
  BY TailIsProgram DEF Program
<1>2. Range(p) = {Head(p)} \union Range(Tail(p))
  <2>1. ASSUME NEW k \in DOMAIN p
        PROVE  p[k] \in {Head(p)} \union Range(Tail(p))
    <3>1. CASE k = 1
      BY <1>1, <3>1
    <3>2. CASE k # 1
      <4>1. k - 1 \in DOMAIN Tail(p) /\ Tail(p)[k - 1] = p[k]
        BY <1>1, <3>2
      <4>. QED
        BY <4>1 DEF Range
    <3>. QED
      BY <3>1, <3>2
  <2>2. ASSUME NEW k \in DOMAIN Tail(p)
        PROVE  Tail(p)[k] \in Range(p)
    <3>1. k + 1 \in DOMAIN p /\ Tail(p)[k] = p[k + 1]
      BY <1>1
    <3>. QED
      BY <3>1 DEF Range
  <2>3. Head(p) \in Range(p)
    BY <1>1 DEF Range
  <2>. QED
    BY <2>1, <2>2, <2>3 DEF Range
<1>3. Head(p).op \notin Early => \A step \in Range(p) : step.op \notin Early
  BY <1>1 DEF Program, EarlyFirst, Range
<1>4. ASSUME Head(p).op = "openPatch", NEW k \in DOMAIN Tail(p)
      PROVE  Tail(p)[k].op # "openPatch"
  BY <1>1, <1>4 DEF Program, OpensOnce
<1>5. ASSUME Head(p).op = "stop" PROVE Tail(p) # <<>>
  <2>1. 1 \in DOMAIN p /\ p[1].op = "stop"
    BY <1>1, <1>5
  <2>2. 1 + 1 \in DOMAIN p
    BY <2>1 DEF Program, StopsJoin
  <2>3. Len(Tail(p)) = Len(p) - 1
    BY TailIsProgram
  <2>4. Len(Tail(p)) # 0
    BY <1>1, <2>2, <2>3
  <2>. QED
    BY <2>4, EmptySeq
<1>6. Head(p).op \in {"lock", "add", "subscribe"} => Head(p).symbol \in Symbols
  BY <1>1 DEF Program, NamesSymbols
<1>7. Head(p).op = "openPatch" => \A step \in Range(Tail(p)) : step.op # "openPatch"
  BY <1>4 DEF Range
<1>8. Head(p) \in Steps
  BY <1>1
<1>. QED
  BY <1>2, <1>3, <1>5, <1>6, <1>7, <1>8

LEMMA StepTaken ==
  ASSUME IInv, NEW op, At(op), todo' = Tail(todo)
  PROVE  /\ Program(todo') /\ connected > 0
         /\ IsLeft("openPatch")' => IsLeft("openPatch") /\ op # "openPatch"
         /\ IsLeft("setReceiver") => IsLeft("setReceiver")' \/ op = "setReceiver"
         /\ op = "openPatch" => IsLeft("openPatch")
         /\ Connecting' => Connecting
         /\ op \notin Early => ~Connecting
         /\ \A s : On("add", s) \in Range(todo) =>
              \/ On("add", s) \in Range(todo')
              \/ op = "add" /\ s = Head(todo).symbol
<1>1. todo # <<>> /\ Program(todo) /\ Head(todo).op = op
  BY DEF IInv, At
<1>2. Program(todo')
  BY <1>1, TailIsProgram
<1>3. /\ Range(todo) = {Head(todo)} \union Range(todo')
      /\ op \notin Early => \A step \in Range(todo) : step.op \notin Early
      /\ op = "openPatch" => \A step \in Range(todo') : step.op # "openPatch"
  BY <1>1, HeadIsFirst
<1>4. connected > 0
  BY <1>1 DEF IInv, Numbers, Unconnected
<1>. QED
  BY <1>1, <1>2, <1>3, <1>4 DEF IsLeft, Connecting, On

-----------------------------------------------------------------------------
LEMMA InitIInv == Init => IInv
<1>. SUFFICES ASSUME Init PROVE IInv
  OBVIOUS
<1>1. todo = <<>> /\ DOMAIN todo = {} /\ todo \in Seq(Steps)
  BY DEF Init
<1>2. Program(todo)
  BY <1>1 DEF Program, EarlyFirst, NamesSymbols, StopsJoin, OpensOnce
<1>3. Numbers
  BY PdMessagingAssumption DEF Init, Numbers, None
<1>4. Tables
  BY DEF Init, Tables
<1>5. Thread /\ Process
  BY DEF Init, Thread, Process
<1>. QED
  BY <1>1, <1>2, <1>3, <1>4, <1>5
  DEF Init, IInv, PatchesLeft, Unconnected, SilentFirst, Fronted, Listening, Sending, IsLeft,
      Connecting, Range, None

(* An operation begins. *)
LEMMA BeginningKeepsIInv ==
  ASSUME IInv, Connect \/ Begin \/ RunPosted PROVE IInv'
<1>. USE PdMessagingAssumption DEF Instances, None, Symbols
<1>1. CASE Connect
  <2>1. Program(todo') /\ Do("setReceiver") \in Range(todo')
        /\ \A s \in {"tempo", "testbang"} : On("add", s) \in Range(todo')
    BY <1>1, InitPdIsProgram DEF Connect
  <2>2. connected < MaxInstances /\ connected' = connected + 1
    BY <1>1 DEF Connect
  <2>3. UNCHANGED <<receiver, bound, patches, listeners, posted, thread, symbol, interrupted,
                    foreground, ended>>
    BY <1>1 DEF Connect, bases, audio
  <2>4. Numbers' /\ Tables' /\ Thread' /\ Process'
    BY <2>2, <2>3 DEF IInv, Numbers, Tables, Thread, Process
  <2>5. PatchesLeft' /\ Unconnected' /\ Fronted' /\ Listening' /\ Sending'
    BY <2>1, <2>2, <2>3
    DEF IInv, Numbers, PatchesLeft, Unconnected, Fronted, Listening, Sending, IsLeft, Do
  <2>6. SilentFirst'
    BY <2>2, <2>3 DEF IInv, Numbers, Unconnected, SilentFirst
  <2>. QED
    BY <2>1, <2>4, <2>5, <2>6 DEF IInv
<1>2. ASSUME UNCHANGED <<connected, receiver, bound, patches, listeners, thread, symbol,
                         interrupted, foreground, ended>>,
             todo = <<>>, connected > 0, posted' \in 0 .. posted, Program(todo'),
             \A step \in Range(todo') : step.op \notin Early \union {"openPatch"}
      PROVE  IInv'
  <2>1. Numbers' /\ Tables' /\ Thread' /\ Process'
    BY <1>2 DEF IInv, Numbers, Tables, Thread, Process
  <2>2. Range(todo) = {}
    BY <1>2 DEF Range
  <2>3. PatchesLeft' /\ Unconnected' /\ SilentFirst'
    BY <1>2 DEF PatchesLeft, Unconnected, SilentFirst, IsLeft, Connecting
  <2>4. Fronted' /\ Listening' /\ Sending'
    BY <1>2, <2>2 DEF IInv, Numbers, Fronted, Listening, Sending, IsLeft
  <2>. QED
    BY <1>2, <2>1, <2>3, <2>4 DEF IInv
<1>3. CASE Begin
  BY <1>2, <1>3, OperationIsProgram DEF Begin, Idle, IInv, Numbers, bases, audio
<1>4. CASE RunPosted
  <2>1. connected > 0
    BY <1>4 DEF RunPosted, IInv, Numbers, Unconnected
  <2>2. Program(todo') /\ \A step \in Range(todo') : step.op \notin Early \union {"openPatch"}
    BY <1>4, SendFloatIsProgram DEF RunPosted, Do, Early
  <2>3. posted' \in 0 .. posted
    BY <1>4 DEF RunPosted, IInv, Numbers
  <2>4. todo = <<>> /\ UNCHANGED <<connected, receiver, bound, patches, listeners, thread,
                                   symbol, interrupted, foreground, ended>>
    BY <1>4 DEF RunPosted, Idle, bases, audio
  <2>. QED
    BY <1>2, <2>1, <2>2, <2>3, <2>4
<1>. QED
  BY <1>1, <1>3, <1>4

(* A step that connects nothing leaves what is connected. *)
LEMMA StepKeepsConnected ==
  ASSUME IInv, NEW op, At(op), Goes, op \notin {"setReceiver", "add"},
         receiver' \in {receiver, None}, UNCHANGED listeners
  PROVE  /\ Program(todo') /\ connected > 0 /\ UNCHANGED <<connected, posted>>
         /\ Unconnected' /\ Fronted' /\ Listening'
         /\ op # "openPatch" /\ UNCHANGED patches => PatchesLeft'
         /\ UNCHANGED thread => SilentFirst'
         /\ op \notin Early => ~Connecting'
<1>1. todo' = Tail(todo) /\ UNCHANGED <<connected, posted>>
  BY DEF Goes
<1>. QED
  BY <1>1, StepTaken
  DEF IInv, Numbers, Unconnected, Fronted, Listening, PatchesLeft, SilentFirst

(* A step that changes only flags. *)
LEMMA QuietStepKeepsIInv ==
  ASSUME IInv, NEW op, At(op), Goes, op \notin {"setReceiver", "add", "openPatch"},
         UNCHANGED <<receiver, bound, patches, listeners, thread, symbol>>,
         interrupted' \in BOOLEAN, foreground' \in BOOLEAN, ended' \in BOOLEAN
  PROVE  IInv'
<1>1. /\ Program(todo') /\ UNCHANGED <<connected, posted>>
      /\ Unconnected' /\ Fronted' /\ Listening' /\ PatchesLeft' /\ SilentFirst'
  BY StepKeepsConnected
<1>2. Numbers' /\ Tables' /\ Sending'
  BY <1>1 DEF IInv, Numbers, Tables, Sending
<1>3. Thread' /\ Process'
  BY DEF IInv, Thread, Process
<1>. QED
  BY <1>1, <1>2, <1>3 DEF IInv

(* Once the instance is connected, the rest of an operation may be dropped. *)
LEMMA DropKeepsIInv ==
  ASSUME IInv, ~Connecting, todo # <<>>, Program(todo'),
         \A step \in Range(todo') :
           step \in Range(todo) \/ step.op \notin Early \union {"openPatch"},
         UNCHANGED <<connected, receiver, bound, patches, listeners, posted, thread, symbol,
                     interrupted, foreground, ended>>
  PROVE  IInv'
<1>1. Numbers' /\ Tables' /\ Thread' /\ Process' /\ Sending'
  BY DEF IInv, Numbers, Tables, Thread, Process, Sending
<1>2. PatchesLeft' /\ Unconnected' /\ SilentFirst'
  BY DEF IInv, Numbers, PatchesLeft, Unconnected, SilentFirst, IsLeft, Connecting
<1>3. Fronted' /\ Listening'
  BY DEF IInv, Fronted, Listening, Connecting, IsLeft, Early, On
<1>. QED
  BY <1>1, <1>2, <1>3 DEF IInv

(* The steps of the main thread. *)
LEMMA MainKeepsIInv == ASSUME IInv, Main PROVE IInv'
<1>. USE PdMessagingAssumption DEF Instances, None
<1>0. /\ interrupted \in BOOLEAN /\ foreground \in BOOLEAN /\ ended \in BOOLEAN
  BY DEF IInv, Thread, Process
<1>1. CASE SetReceiver
  <2>1. /\ At("setReceiver") /\ todo' = Tail(todo) /\ receiver' = connected
        /\ UNCHANGED <<connected, bound, patches, listeners, posted, thread, symbol,
                       interrupted, foreground, ended>>
        /\ thread # "sending"
    BY <1>1 DEF SetReceiver, InPdBase, Goes, audio, PdBaseFree
  <2>2. Numbers' /\ Tables' /\ Thread' /\ Process'
    BY <2>1 DEF IInv, Numbers, Tables, Thread, Process
  <2>3. Program(todo') /\ PatchesLeft' /\ Unconnected' /\ SilentFirst' /\ Listening'
    BY <2>1, StepTaken DEF IInv, Numbers, PatchesLeft, Unconnected, SilentFirst, Listening
  <2>4. Fronted' /\ Sending'
    BY <2>1 DEF Fronted, Sending
  <2>. QED
    BY <2>2, <2>3, <2>4 DEF IInv
<1>2. CASE Subscribe
  <2>1. /\ At("subscribe") /\ Goes /\ bound' = bound \union {Head(todo).symbol}
        /\ UNCHANGED <<receiver, patches, listeners, thread, symbol, interrupted, foreground,
                       ended>>
    BY <1>2 DEF Subscribe, InPdBase, audio
  <2>2. Head(todo).symbol \in Symbols
    BY <2>1, HeadIsFirst DEF IInv, At
  <2>3. /\ Program(todo') /\ UNCHANGED <<connected, posted>>
        /\ Unconnected' /\ Fronted' /\ Listening' /\ PatchesLeft' /\ SilentFirst'
    BY <2>1, StepKeepsConnected
  <2>4. Numbers' /\ Tables' /\ Thread' /\ Process' /\ Sending'
    BY <2>1, <2>2, <2>3 DEF IInv, Numbers, Tables, Thread, Process, Sending
  <2>. QED
    BY <2>3, <2>4 DEF IInv
<1>3. CASE OpenPatch
  <2>1. CASE InPdBase("openPatch") /\ patches' = patches + 1 /\ UNCHANGED <<receiver, bound>>
    <3>1. /\ At("openPatch") /\ Goes
          /\ UNCHANGED <<listeners, thread, symbol, interrupted, foreground, ended>>
      BY <2>1 DEF InPdBase, audio
    <3>2. /\ Program(todo') /\ UNCHANGED <<connected, posted>>
          /\ Unconnected' /\ Fronted' /\ Listening' /\ SilentFirst'
      BY <2>1, <3>1, StepKeepsConnected
    <3>3. patches < connected /\ ~IsLeft("openPatch")'
      BY <3>1, StepTaken DEF Goes, IInv, PatchesLeft
    <3>4. Numbers' /\ Tables' /\ Thread' /\ Process' /\ Sending' /\ PatchesLeft'
      BY <2>1, <3>1, <3>2, <3>3
      DEF IInv, Numbers, Tables, Thread, Process, Sending, PatchesLeft
    <3>. QED
      BY <3>2, <3>4 DEF IInv
  <2>2. CASE /\ At("openPatch") /\ todo' = Operations.destroy
             /\ UNCHANGED <<connected, bases, listeners, posted, audio, foreground, ended>>
    <3>1. /\ Program(todo')
          /\ \A step \in Range(todo') : step.op \notin Early \union {"openPatch"}
      <4>1. "destroy" \in DOMAIN Operations /\ todo' = Operations["destroy"]
        BY <2>2 DEF Operations
      <4>. QED
        BY <4>1, OperationIsProgram
    <3>2. todo # <<>> /\ Head(todo).op = "openPatch"
      BY <2>2 DEF At
    <3>3. ~Connecting
      BY <3>2, HeadIsFirst DEF IInv, Connecting, Early
    <3>4. UNCHANGED <<connected, receiver, bound, patches, listeners, posted, thread, symbol,
                      interrupted, foreground, ended>>
      BY <2>2 DEF bases, audio
    <3>. QED
      BY <3>1, <3>2, <3>3, <3>4, DropKeepsIInv
  <2>. QED
    BY <1>3, <2>1, <2>2 DEF OpenPatch
<1>4. CASE CallPd
  <2>1. PICK op \in {"open", "compute", "sendFloat"} : InPdBase(op) /\ UNCHANGED bases
    BY <1>4 DEF CallPd
  <2>2. /\ At(op) /\ Goes
        /\ UNCHANGED <<receiver, bound, patches, listeners, thread, symbol, interrupted,
                       foreground, ended>>
    BY <2>1 DEF InPdBase, audio, bases
  <2>3. interrupted' \in BOOLEAN /\ foreground' \in BOOLEAN /\ ended' \in BOOLEAN
    BY <1>0, <2>2
  <2>. QED
    BY <2>2, <2>3, QuietStepKeepsIInv
<1>5. CASE OpenFails
  <2>1. ~Connecting
    BY <1>5, HeadIsFirst DEF OpenFails, IInv, At, Early, Connecting
  <2>2. /\ Program(todo')
        /\ \A step \in Range(todo') : step.op \notin Early \union {"openPatch"}
    BY <1>5, SendFloatIsProgram, EmptyIsProgram DEF OpenFails, Do, Early
  <2>3. todo # <<>> /\ UNCHANGED <<connected, receiver, bound, patches, listeners, posted,
                                   thread, symbol, interrupted, foreground, ended>>
    BY <1>5 DEF OpenFails, At, bases, audio
  <2>. QED
    BY <2>1, <2>2, <2>3, DropKeepsIInv
<1>6. CASE Release
  <2>1. /\ At("release") /\ Goes /\ receiver' = None /\ bound' = {} /\ patches' = 0
        /\ UNCHANGED <<listeners, thread, symbol, interrupted, foreground, ended>>
        /\ thread # "sending"
    BY <1>6 DEF Release, InPdBase, PdBaseFree, audio
  <2>2. /\ Program(todo') /\ UNCHANGED <<connected, posted>> /\ connected > 0
        /\ Unconnected' /\ Fronted' /\ Listening' /\ SilentFirst'
    BY <2>1, StepKeepsConnected
  <2>3. Numbers' /\ Tables' /\ Thread' /\ Process' /\ Sending' /\ PatchesLeft'
    BY <2>1, <2>2 DEF IInv, Numbers, Tables, Thread, Process, Sending, PatchesLeft
  <2>. QED
    BY <2>2, <2>3 DEF IInv
<1>7. ASSUME NEW op \in {"lock", "startForeground", "stopForeground", "join", "exit"},
             At(op), Goes, UNCHANGED <<bases, listeners, audio>>,
             foreground' \in BOOLEAN, ended' \in BOOLEAN
      PROVE  IInv'
  <2>1. UNCHANGED <<receiver, bound, patches, listeners, thread, symbol, interrupted>>
    BY <1>7 DEF bases, audio
  <2>2. interrupted' \in BOOLEAN
    BY <1>0, <2>1
  <2>. QED
    BY <1>7, <2>1, <2>2, QuietStepKeepsIInv
<1>8. CASE Add
  <2>1. /\ At("add") /\ todo' = Tail(todo)
        /\ UNCHANGED <<connected, posted, receiver, patches, thread, symbol, interrupted,
                       foreground, ended>>
        /\ bound' \in {bound, bound \union {Head(todo).symbol}}
        /\ listeners' = [listeners EXCEPT ![connected] = @ \union {Head(todo).symbol}]
    BY <1>8 DEF Add, Goes, audio, WithListener
  <2>2. Head(todo).symbol \in Symbols
    BY <2>1, HeadIsFirst DEF IInv, At
  <2>3. Numbers' /\ Tables' /\ Thread' /\ Process' /\ Sending'
    BY <2>1, <2>2 DEF IInv, Numbers, Tables, Thread, Process, Sending
  <2>4. Program(todo') /\ PatchesLeft' /\ Unconnected' /\ SilentFirst' /\ Fronted'
    BY <2>1, StepTaken DEF IInv, Numbers, PatchesLeft, Unconnected, SilentFirst, Fronted
  <2>5. connected \in Instances /\ listeners'[connected] = listeners[connected] \union {Head(todo).symbol}
    BY <2>1, StepTaken DEF IInv, Numbers, Tables
  <2>6. Listening'
    BY <2>1, <2>5, StepTaken DEF IInv, Listening
  <2>. QED
    BY <2>3, <2>4, <2>6 DEF IInv
<1>9. CASE Lock \/ Foreground \/ Join \/ Exit
  <2>1. PICK op \in {"lock", "startForeground", "stopForeground", "join", "exit"} :
          At(op) /\ Goes
    BY <1>9 DEF Lock, Foreground, Join, Exit
  <2>2. /\ UNCHANGED <<bases, listeners, audio>>
        /\ foreground' \in {foreground, TRUE, FALSE} /\ ended' \in {ended, TRUE}
    BY <1>9 DEF Lock, Foreground, Join, Exit
  <2>3. foreground' \in BOOLEAN /\ ended' \in BOOLEAN
    BY <1>0, <2>2
  <2>. QED
    BY <1>7, <2>1, <2>2, <2>3
<1>10. CASE Stop
  <2>1. /\ At("stop") /\ todo # <<>> /\ Head(todo).op = "stop" /\ Program(todo)
        /\ UNCHANGED <<connected, receiver, bound, patches, listeners, posted, thread, symbol,
                       foreground, ended>>
    BY <1>10 DEF Stop, At, IInv, bases
  <2>2. CASE thread = "none"
    <3>1. todo' = Tail(Tail(todo)) /\ UNCHANGED interrupted
      BY <1>10, <2>2 DEF Stop
    <3>2. /\ Program(Tail(todo)) /\ Tail(todo) # <<>> /\ Range(Tail(todo)) \subseteq Range(todo)
          /\ ~Connecting
      BY <2>1, TailIsProgram, HeadIsFirst DEF Connecting, Early
    <3>3. Program(todo') /\ Range(todo') \subseteq Range(todo)
      BY <3>1, <3>2, TailIsProgram, HeadIsFirst
    <3>. QED
      BY <2>1, <3>1, <3>2, <3>3, DropKeepsIInv
  <2>3. CASE thread # "none"
    <3>1. Goes /\ interrupted' = TRUE
      BY <1>10, <2>3 DEF Stop, Goes
    <3>2. interrupted' \in BOOLEAN /\ foreground' \in BOOLEAN /\ ended' \in BOOLEAN
      BY <1>0, <2>1, <3>1
    <3>. QED
      BY <2>1, <3>1, <3>2, QuietStepKeepsIInv
  <2>. QED
    BY <2>2, <2>3
<1>11. CASE StartThread
  <2>1. /\ At("start") /\ Goes /\ thread' = "waiting" /\ symbol' = "none"
        /\ UNCHANGED <<receiver, bound, patches, listeners, foreground, ended>>
    BY <1>11 DEF StartThread, bases
  <2>2. interrupted' = FALSE
    BY <1>11 DEF StartThread
  <2>3. /\ Program(todo') /\ UNCHANGED <<connected, posted>> /\ connected > 0
        /\ Unconnected' /\ Fronted' /\ Listening' /\ PatchesLeft' /\ ~Connecting'
    BY <2>1, StepKeepsConnected DEF Early
  <2>4. Numbers' /\ Tables' /\ Sending' /\ SilentFirst'
    BY <2>1, <2>3 DEF IInv, Numbers, Tables, Sending, SilentFirst
  <2>5. Thread'
    BY <2>1, <2>2 DEF Thread
  <2>6. Process'
    BY <2>1 DEF IInv, Process
  <2>. QED
    BY <2>3, <2>4, <2>5, <2>6 DEF IInv
<1>. QED
  BY <1>1, <1>2, <1>3, <1>4, <1>5, <1>6, <1>8, <1>9, <1>10, <1>11 DEF Main, Calls

(* The steps of the audio thread. *)
LEMMA AudioKeepsIInv == ASSUME IInv, Audio PROVE IInv'
<1>. USE PdMessagingAssumption DEF None
<1>1. /\ thread # "none"
      /\ UNCHANGED <<connected, receiver, bound, patches, listeners, todo, interrupted,
                     foreground, ended>>
  BY DEF Audio, Take, Test, Enter, Send, Receive, Leave, Moves, bases
<1>2. thread' \in {"none", "looping", "entering", "processing", "sending"}
  BY DEF Audio, Take, Test, Enter, Send, Receive, Leave, Moves
<1>3. thread' = "sending" => symbol' \in Symbols /\ receiver # None /\ posted' < MaxPosted
  BY DEF Audio, Take, Test, Enter, Send, Receive, Leave, Moves
<1>4. symbol' \in {symbol, "none"} \union Symbols
  BY DEF Audio, Take, Test, Enter, Send, Receive, Leave
<1>5. posted' \in 0 .. MaxPosted
  <2>1. posted' = posted \/ (posted < MaxPosted /\ posted' = posted + 1)
    BY DEF Audio, Take, Test, Enter, Send, Receive, Leave, Moves, IInv, Sending
  <2>. QED
    BY <2>1 DEF IInv, Numbers
<1>6. connected > 0 /\ ~(connected = 1 /\ Connecting)
  BY <1>1 DEF IInv, Numbers, Unconnected, SilentFirst
<1>7. Numbers' /\ Tables' /\ Process'
  BY <1>1, <1>5 DEF IInv, Numbers, Tables, Process
<1>8. Thread'
  BY <1>1, <1>2, <1>4 DEF IInv, Thread
<1>9. Program(todo') /\ PatchesLeft' /\ Unconnected' /\ SilentFirst' /\ Fronted' /\ Listening'
  BY <1>1, <1>6
  DEF IInv, PatchesLeft, Unconnected, SilentFirst, Fronted, Listening, IsLeft, Connecting
<1>10. Sending'
  BY <1>1, <1>3 DEF Sending
<1>. QED
  BY <1>7, <1>8, <1>9, <1>10 DEF IInv

LEMMA SpecIInv == Spec => []IInv
<1>1. ASSUME IInv, [Next]_vars PROVE IInv'
  <2>1. CASE Next
    BY <1>1, <2>1, BeginningKeepsIInv, MainKeepsIInv, AudioKeepsIInv DEF Next
  <2>2. CASE UNCHANGED vars
    BY <1>1, <2>2
    DEF vars, bases, audio, IInv, Numbers, Tables, Thread, Process, PatchesLeft, Unconnected,
        SilentFirst, Fronted, Listening, Sending, IsLeft, Connecting
  <2>. QED
    BY <1>1, <2>1, <2>2
<1>. QED
  BY <1>1, InitIInv, PTL DEF Spec

-----------------------------------------------------------------------------
(* Every field holds a value of its type. *)
THEOREM MessagingTypes == Spec => []TypeOK
<1>1. IInv => TypeOK
  <2>. SUFFICES ASSUME IInv PROVE TypeOK
    OBVIOUS
  <2>1. todo \in Seq(Steps)
    BY DEF IInv, Program
  <2>2. interrupted \in BOOLEAN /\ foreground \in BOOLEAN /\ ended \in BOOLEAN
    BY DEF IInv, Thread, Process
  <2>. QED
    BY <2>1, <2>2 DEF IInv, Numbers, Tables, Thread, TypeOK
<1>. QED
  BY <1>1, SpecIInv, PTL

(* The main thread and the audio thread block each other, each with its     *)
(* monitor and waiting for that of the other, only when Pd is initialized   *)
(* again over running audio: never with a single instance of the activity.  *)
THEOREM DeadlockOnlyOnRestart == Spec => []DeadlockNeedsRestart
<1>1. IInv => DeadlockNeedsRestart
  <2>. SUFFICES ASSUME IInv, Deadlocked, ~(connected > 1) PROVE FALSE
    BY DEF DeadlockNeedsRestart
  <2>1. todo # <<>> /\ Head(todo).op = "add" /\ thread = "sending"
    BY DEF Deadlocked, Locked, At
  <2>2. connected = 1
    BY <2>1 DEF IInv, Numbers, Unconnected
  <2>3. Connecting
    BY <2>1, HeadIsFirst DEF IInv, Connecting, Early
  <2>. QED
    BY <2>1, <2>2, <2>3 DEF IInv, SilentFirst
<1>. QED
  BY <1>1, SpecIInv, PTL

(* What Pd sends to a symbol with a listener is received by the instance in *)
(* front, which has that listener; it can go elsewhere only between the     *)
(* first step and the last listener of an initialization over running       *)
(* audio.                                                                   *)
THEOREM MessagesReachFront == Spec => MessagesArrive
<1>. DEFINE Arrives ==
       thread = "sending" /\ thread' # "sending" /\ symbol # "android" =>
         \/ receiver = connected /\ symbol \in listeners[receiver]
         \/ connected > 1 /\ Initializing
<1>1. ASSUME IInv, [Next]_vars PROVE [Arrives]_vars
  <2>. SUFFICES ASSUME thread = "sending", symbol # "android"
                PROVE  \/ receiver = connected /\ symbol \in listeners[receiver]
                       \/ connected > 1 /\ Initializing
    OBVIOUS
  <2>1. symbol \in {"tempo", "testbang"} /\ receiver # None /\ connected > 0
    BY <1>1 DEF IInv, Sending, Numbers, Unconnected, Symbols
  <2>2. \/ receiver = connected /\ symbol \in listeners[connected]
        \/ \E step \in Range(todo) : step.op \in {"setReceiver", "add"}
    BY <1>1, <2>1 DEF IInv, Fronted, Listening, IsLeft, On
  <2>3. CASE \E step \in Range(todo) : step.op \in {"setReceiver", "add"}
    <3>1. Initializing
      BY <2>3 DEF Initializing, Range
    <3>2. connected # 1
      BY <1>1, <2>3 DEF IInv, SilentFirst, Connecting, Early
    <3>. QED
      BY <1>1, <2>1, <3>1, <3>2 DEF IInv, Numbers
  <2>. QED
    BY <2>2, <2>3
<1>. QED
  BY <1>1, SpecIInv, PTL DEF Spec, MessagesArrive
-----------------------------------------------------------------------------
(* In an operation that has not begun, each join follows its stop. *)
JoinsStopped(p) ==
  \A k \in DOMAIN p : p[k].op = "join" => k > 1 /\ p[k - 1].op = "stop"

(* In what is left of one, the first step may be a join. *)
JoinsStoppedLeft(p) ==
  \A k \in DOMAIN p : k > 1 /\ p[k].op = "join" => p[k - 1].op = "stop"

(* The audio thread that stopAudio waits for has been interrupted; the flag *)
(* stays set until the thread has ended.                                    *)
JoinedIsTold == At("join") => thread = "none" \/ interrupted

Waiting == JoinsStoppedLeft(todo) /\ JoinedIsTold

LEMMA ConcatJoinsStopped ==
  ASSUME NEW p, NEW q, p \in Seq(Steps), q \in Seq(Steps), JoinsStopped(p), JoinsStopped(q)
  PROVE  p \o q \in Seq(Steps) /\ JoinsStopped(p \o q)
<1>1. /\ Len(p) \in Nat /\ Len(q) \in Nat /\ p \o q \in Seq(Steps)
      /\ DOMAIN p = 1 .. Len(p) /\ DOMAIN q = 1 .. Len(q)
      /\ DOMAIN (p \o q) = 1 .. Len(p) + Len(q)
  OBVIOUS
<1>2. \A k \in 1 .. Len(p) + Len(q) :
        (p \o q)[k] = IF k <= Len(p) THEN p[k] ELSE q[k - Len(p)]
  BY <1>1
<1>3. ASSUME NEW k \in 1 .. Len(p) + Len(q), (p \o q)[k].op = "join"
      PROVE  k > 1 /\ (p \o q)[k - 1].op = "stop"
  <2>1. CASE k <= Len(p)
    <3>1. k \in DOMAIN p /\ p[k].op = "join"
      BY <1>1, <1>2, <1>3, <2>1
    <3>2. k > 1 /\ p[k - 1].op = "stop"
      BY <3>1 DEF JoinsStopped
    <3>3. k - 1 \in 1 .. Len(p) + Len(q) /\ k - 1 <= Len(p)
      BY <1>1, <2>1, <3>2
    <3>. QED
      BY <1>2, <3>2, <3>3
  <2>2. CASE k > Len(p)
    <3>1. k - Len(p) \in DOMAIN q /\ q[k - Len(p)].op = "join"
      BY <1>1, <1>2, <1>3, <2>2
    <3>2. k - Len(p) > 1 /\ q[k - Len(p) - 1].op = "stop"
      BY <3>1 DEF JoinsStopped
    <3>3. k - 1 \in 1 .. Len(p) + Len(q) /\ k - 1 > Len(p) /\ k - 1 - Len(p) = k - Len(p) - 1
      BY <1>1, <3>2
    <3>. QED
      BY <1>1, <1>2, <3>2, <3>3
  <2>. QED
    BY <1>1, <2>1, <2>2
<1>. QED
  BY <1>1, <1>3 DEF JoinsStopped

LEMMA OperationsJoinStopped ==
  /\ JoinsStopped(InitPd) /\ \A o \in DOMAIN Operations : JoinsStopped(Operations[o])
  /\ JoinsStopped(<<>>) /\ JoinsStopped(<<Do("sendFloat")>>)
<1>. USE DEF Do, On, Steps, Symbols
<1>1. StartAudio \in Seq(Steps) /\ JoinsStopped(StartAudio)
  BY DEF StartAudio, JoinsStopped
<1>2. \A s \in Symbols : AddListener(s) \in Seq(Steps) /\ JoinsStopped(AddListener(s))
  BY DEF AddListener, JoinsStopped
<1>3. /\ <<Do("setReceiver")>> \in Seq(Steps) /\ JoinsStopped(<<Do("setReceiver")>>)
      /\ <<Do("sendFloat")>> \in Seq(Steps) /\ JoinsStopped(<<Do("sendFloat")>>)
      /\ <<On("subscribe", "android"), Do("openPatch")>> \in Seq(Steps)
      /\ JoinsStopped(<<On("subscribe", "android"), Do("openPatch")>>)
      /\ JoinsStopped(<<>>)
  BY DEF JoinsStopped
<1>4. JoinsStopped(<<Do("stop"), Do("join")>>) /\ JoinsStopped(<<Do("release"), Do("exit")>>)
  BY DEF JoinsStopped
<1>5. "tempo" \in Symbols /\ "testbang" \in Symbols
  OBVIOUS
<1>6. JoinsStopped(InitPd)
  <2>. HIDE DEF Do, On, Steps, Symbols
  <2>1. LET p == <<Do("setReceiver")>> \o AddListener("tempo")
        IN  p \in Seq(Steps) /\ JoinsStopped(p)
    BY <1>2, <1>3, <1>5, ConcatJoinsStopped
  <2>2. LET p == <<Do("setReceiver")>> \o AddListener("tempo") \o AddListener("testbang")
        IN  p \in Seq(Steps) /\ JoinsStopped(p)
    BY <1>2, <1>5, <2>1, ConcatJoinsStopped
  <2>3. LET p == <<Do("setReceiver")>> \o AddListener("tempo") \o AddListener("testbang")
                   \o <<On("subscribe", "android"), Do("openPatch")>>
        IN  p \in Seq(Steps) /\ JoinsStopped(p)
    BY <1>3, <2>2, ConcatJoinsStopped
  <2>. QED
    BY <1>1, <2>3, ConcatJoinsStopped DEF InitPd
<1>7. JoinsStopped(StartAudio \o <<Do("sendFloat")>>)
  <2>. HIDE DEF Do, Steps
  <2>. QED
    BY <1>1, <1>3, ConcatJoinsStopped
<1>8. /\ DOMAIN Operations = {"getTempo", "stop", "destroy"}
      /\ Operations["getTempo"] = StartAudio \o <<Do("sendFloat")>>
      /\ Operations["stop"] = <<Do("stop"), Do("join")>>
      /\ Operations["destroy"] = <<Do("release"), Do("exit")>>
  BY DEF Operations
<1>. HIDE DEF Do, On, Steps, Symbols
<1>. QED
  BY <1>3, <1>4, <1>6, <1>7, <1>8

(* An operation that is beginning, or is cut short, is not at a join. *)
LEMMA BeginningWaits ==
  ASSUME JoinsStopped(todo'), todo' \in Seq(Steps) PROVE Waiting'
<1>1. todo' # <<>> => 1 \in DOMAIN todo' /\ Head(todo') = todo'[1]
  OBVIOUS
<1>2. ASSUME At("join")' PROVE FALSE
  <2>1. 1 \in DOMAIN todo' /\ todo'[1].op = "join"
    BY <1>1, <1>2 DEF At
  <2>2. \A k \in DOMAIN todo' : todo'[k].op = "join" => k > 1
    BY DEF JoinsStopped
  <2>. QED
    BY <2>1, <2>2
<1>3. JoinsStoppedLeft(todo')
  BY DEF JoinsStopped, JoinsStoppedLeft
<1>. QED
  BY <1>2, <1>3 DEF Waiting, JoinedIsTold

(* After a step of the main thread a join is next only if it was a stop. *)
LEMMA StepWaits ==
  ASSUME IInv, Waiting, NEW op, At(op), todo' = Tail(todo),
         op = "stop" => thread' = "none" \/ interrupted'
  PROVE  Waiting'
<1>1. /\ todo \in Seq(Steps) /\ Len(todo) \in Nat \ {0} /\ DOMAIN todo = 1 .. Len(todo)
      /\ Tail(todo) \in Seq(Steps) /\ DOMAIN Tail(todo) = 1 .. Len(todo) - 1
      /\ \A k \in 1 .. Len(todo) - 1 : Tail(todo)[k] = todo[k + 1]
      /\ Head(todo) = todo[1] /\ todo[1].op = op
  BY DEF IInv, Program, At
<1>2. JoinsStoppedLeft(todo')
  <2>. SUFFICES ASSUME NEW k \in 1 .. Len(todo) - 1, k > 1, todo[k + 1].op = "join"
                PROVE  todo[k].op = "stop"
    BY <1>1 DEF JoinsStoppedLeft
  <2>1. k + 1 \in DOMAIN todo /\ k + 1 > 1 /\ (k + 1) - 1 = k
    BY <1>1
  <2>. QED
    BY <2>1 DEF Waiting, JoinsStoppedLeft
<1>3. At("join")' => op = "stop"
  <2>. SUFFICES ASSUME At("join")' PROVE op = "stop"
    OBVIOUS
  <2>1. Tail(todo) # <<>> /\ Head(Tail(todo)).op = "join"
    BY DEF At
  <2>2. 1 \in DOMAIN Tail(todo) /\ Head(Tail(todo)) = Tail(todo)[1]
    BY <1>1, <2>1
  <2>3. 2 \in DOMAIN todo /\ todo[2].op = "join"
    BY <1>1, <2>1, <2>2
  <2>4. \A k \in DOMAIN todo : k = 2 /\ todo[k].op = "join" => todo[k - 1].op = "stop"
    BY DEF Waiting, JoinsStoppedLeft
  <2>5. todo[1].op = "stop"
    BY <2>3, <2>4, 2 - 1 = 1
  <2>. QED
    BY <1>1, <2>5
<1>. QED
  BY <1>2, <1>3 DEF Waiting, JoinedIsTold

LEMMA NextWaits == IInv /\ IInv' /\ Waiting /\ [Next]_vars => Waiting'
<1>. SUFFICES ASSUME IInv, IInv', Waiting, [Next]_vars PROVE Waiting'
  OBVIOUS
<1>0. todo' \in Seq(Steps)
  BY DEF IInv, Program
<1>1. ASSUME UNCHANGED <<todo, interrupted, ended>>, thread = "none" => thread' = "none"
      PROVE  Waiting'
  BY <1>1 DEF Waiting, JoinedIsTold, At
<1>2. CASE Connect \/ Begin \/ RunPosted
  BY <1>0, <1>2, OperationsJoinStopped, BeginningWaits DEF Connect, Begin, RunPosted
<1>3. CASE Main
  <2>1. CASE OpenFails
    BY <1>0, <2>1, OperationsJoinStopped, BeginningWaits DEF OpenFails
  <2>2. CASE OpenPatch /\ todo' = Operations.destroy
    BY <1>0, <2>2, OperationsJoinStopped, BeginningWaits DEF Operations
  <2>3. CASE Stop /\ thread = "none"
    <3>1. /\ thread' = "none" /\ interrupted' = interrupted /\ ended' = ended
          /\ todo' = Tail(Tail(todo)) /\ todo # <<>> /\ Head(todo).op = "stop" /\ Program(todo)
      BY <2>3 DEF Stop, At, IInv
    <3>2. Program(Tail(todo)) /\ Tail(todo) # <<>>
      BY <3>1, TailIsProgram, HeadIsFirst
    <3>3. /\ todo \in Seq(Steps) /\ DOMAIN todo = 1 .. Len(todo) /\ Len(todo) \in Nat
          /\ DOMAIN todo' = 1 .. Len(todo) - 2
          /\ \A k \in 1 .. Len(todo) - 2 : todo'[k] = todo[k + 2]
      BY <3>1, <3>2, TailIsProgram DEF Program
    <3>4. ASSUME NEW k \in 1 .. Len(todo) - 2, k > 1, todo[k + 2].op = "join"
          PROVE  todo[k - 1 + 2].op = "stop"
      <4>1. k + 2 \in DOMAIN todo /\ k + 2 > 1 /\ (k + 2) - 1 = k - 1 + 2
        BY <3>3
      <4>2. todo[(k + 2) - 1].op = "stop"
        BY <3>4, <4>1 DEF Waiting, JoinsStoppedLeft
      <4>. QED
        BY <4>1, <4>2
    <3>5. JoinsStoppedLeft(todo')
      BY <3>3, <3>4 DEF JoinsStoppedLeft
    <3>. QED
      BY <3>1, <3>5 DEF Waiting, JoinedIsTold
  <2>4. CASE Stop /\ thread # "none"
    BY <2>4, StepWaits DEF Stop
  <2>5. ASSUME NEW op, At(op), Goes, op # "stop" PROVE Waiting'
    BY <2>5, StepWaits DEF Goes
  <2>6. CASE SetReceiver \/ Subscribe \/ CallPd \/ Release
    BY <2>5, <2>6 DEF SetReceiver, Subscribe, CallPd, Release, InPdBase
  <2>7. CASE Lock \/ Add \/ Foreground \/ Join \/ StartThread \/ Exit
    BY <2>5, <2>7 DEF Lock, Add, Foreground, Join, StartThread, Exit
  <2>8. CASE InPdBase("openPatch")
    BY <2>5, <2>8 DEF InPdBase
  <2>. QED
    BY <1>3, <2>1, <2>2, <2>3, <2>4, <2>6, <2>7, <2>8 DEF Main, Calls, OpenPatch
<1>4. CASE Audio
  BY <1>1, <1>4 DEF Audio, Take, Test, Enter, Send, Receive, Leave, Moves
<1>5. CASE UNCHANGED vars
  BY <1>1, <1>5 DEF vars, audio
<1>. QED
  BY <1>2, <1>3, <1>4, <1>5 DEF Next

LEMMA SpecWaits == Spec => [](IInv /\ Waiting)
<1>1. Init => Waiting
  BY DEF Init, Waiting, JoinsStoppedLeft, JoinedIsTold, At
<1>. QED
  BY <1>1, NextWaits, SpecIInv, PTL DEF Spec

(* stopAudio never waits for an audio thread that was not told to end, also *)
(* when the audio it stops is another instance's.                           *)
THEOREM JoinedThreadIsTold == Spec => []JoinedIsTold
<1>1. Waiting => JoinedIsTold
  BY DEF Waiting
<1>. QED
  BY <1>1, SpecWaits, PTL

(* While it is waited for, the audio thread finishes the call of process it *)
(* is in, or about to make, and makes no other.                             *)
JoinedCallsNoMore == [][At("join") /\ thread' = "entering" => thread = "entering"]_vars

(* What stopAudio waits for is one call of PdBase.process at most.          *)
THEOREM JoinWaitsOneCall == Spec => JoinedCallsNoMore
<1>1. ASSUME IInv /\ Waiting, [Next]_vars
      PROVE  [At("join") /\ thread' = "entering" => thread = "entering"]_vars
  <2>. SUFFICES ASSUME At("join"), thread' = "entering", thread # "entering" PROVE FALSE
    OBVIOUS
  <2>1. ~Idle /\ Head(todo).op = "join"
    BY DEF At, Idle
  <2>2. CASE Audio
    BY <1>1, <2>2 DEF Waiting, JoinedIsTold, Audio, Take, Test, GoesOn, Enter, Send, Receive,
                      Leave, Moves
  <2>3. CASE Main
    BY <2>3 DEF Main, Calls, SetReceiver, Subscribe, OpenPatch, CallPd, OpenFails, Release,
                InPdBase, Lock, Add, Foreground, Stop, Join, StartThread, Exit, audio
  <2>. QED
    BY <1>1, <2>1, <2>2, <2>3 DEF Next, Connect, Begin, RunPosted, vars, audio
<1>. QED
  BY <1>1, SpecWaits, PTL DEF Spec, JoinedCallsNoMore
=============================================================================
