---------------------------- MODULE PdMessaging ----------------------------
(***************************************************************************)
(* Pd's messages between the audio thread and the instances of an          *)
(* activity.  Every method of PdBase is synchronized on the class and      *)
(* every method of a PdDispatcher on the dispatcher: PdBase.process calls  *)
(* receiveList of the receiver with the first monitor held, addListener    *)
(* calls PdBase.subscribe with the second.                                 *)
(*                                                                         *)
(* An instance is numbered when it is connected to the service and has a   *)
(* dispatcher of its own.  PdService shows a notification that starts      *)
(* another instance over the first; the first one is not destroyed, and    *)
(* destroying either ends the process.  How the devices are stopped is the *)
(* subject of AudioPipeline.                                               *)
(***************************************************************************)
EXTENDS Integers, Sequences, Functions

CONSTANTS
  MaxInstances,  \* bound: instances of the activity
  MaxPosted      \* bound: runnables waiting for the main thread

ASSUME PdMessagingAssumption == MaxInstances \in Nat /\ MaxPosted \in Nat

Instances == 1 .. MaxInstances
Symbols   == {"tempo", "testbang", "android"}
None      == 0

VARIABLES
  connected,    \* instances connected so far, the last one is in front
  receiver,     \* PdBase: the instance whose dispatcher is called, or None
  bound,        \* PdBase.bindings
  patches,      \* PdBase.patches: how many
  listeners,    \* PdDispatcher.listeners, per instance
  todo,         \* main thread: steps left of its operation
  posted,       \* runnables posted by myListener
  thread,       \* audio thread: position
  symbol,       \* audio thread: symbol of the message it sends
  interrupted,  \* audio thread
  foreground,   \* PdService: hasForeground
  ended         \* System.exit

bases == <<receiver, bound, patches>>
audio == <<thread, symbol, interrupted>>
vars  == <<connected, bases, listeners, todo, posted, audio, foreground, ended>>

Init ==
  /\ connected = 0 /\ receiver = None /\ bound = {} /\ patches = 0
  /\ listeners = [i \in Instances |-> {}]
  /\ todo = <<>> /\ posted = 0
  /\ thread = "none" /\ symbol = "none" /\ interrupted = FALSE
  /\ foreground = FALSE /\ ended = FALSE

-----------------------------------------------------------------------------
(* The operations of the main thread. *)
Do(op)    == [op |-> op, symbol |-> "none"]
On(op, s) == [op |-> op, symbol |-> s]

StartAudio ==
  <<Do("stopForeground"), Do("stop"), Do("join"), Do("open"), Do("startForeground"),
    Do("compute"), Do("start")>>

AddListener(s) == <<On("lock", s), On("add", s)>>

(* Fault: the second listener is added when audio is running. *)
InitPdLate ==
  <<Do("setReceiver")>> \o AddListener("tempo") \o <<On("subscribe", "android"), Do("openPatch")>>
    \o StartAudio \o AddListener("testbang")

InitPd ==
  <<Do("setReceiver")>> \o AddListener("tempo") \o AddListener("testbang")
    \o <<On("subscribe", "android"), Do("openPatch")>> \o StartAudio

(* Fault: GetTempo initializes Pd again. *)
OperationsAgain == [getTempo |-> InitPd \o <<Do("sendFloat")>>,
                    stop     |-> <<Do("stop"), Do("join")>>,
                    destroy  |-> <<Do("release"), Do("exit")>>]

Operations == [getTempo |-> StartAudio \o <<Do("sendFloat")>>,
               stop     |-> <<Do("stop"), Do("join")>>,
               destroy  |-> <<Do("release"), Do("exit")>>]

Idle == todo = <<>> /\ ~ended

(* onServiceConnected. Another instance comes from the notification. *)
Connect ==
  /\ Idle /\ connected < MaxInstances
  /\ connected = 0 \/ foreground
  /\ connected' = connected + 1 /\ todo' = InitPd
  /\ UNCHANGED <<bases, listeners, posted, audio, foreground, ended>>

(* The buttons, onDestroy. *)
Begin ==
  /\ Idle /\ connected > 0
  /\ \E o \in DOMAIN Operations : todo' = Operations[o]
  /\ UNCHANGED <<connected, bases, listeners, posted, audio, foreground, ended>>

RunPosted ==
  /\ Idle /\ posted > 0
  /\ posted' = posted - 1 /\ todo' = <<Do("sendFloat")>>
  /\ UNCHANGED <<connected, bases, listeners, audio, foreground, ended>>

At(op) == todo # <<>> /\ ~ended /\ Head(todo).op = op

Goes == todo' = Tail(todo) /\ UNCHANGED <<connected, posted>>

(* The audio thread is inside PdBase.process. *)
PdBaseFree == thread \notin {"processing", "sending"}

(* Main holds the monitor of instance i's dispatcher. *)
Locked(i) == At("add") /\ i = connected

InPdBase(op) ==
  At(op) /\ PdBaseFree /\ Goes /\ UNCHANGED <<listeners, audio, foreground, ended>>

SetReceiver == InPdBase("setReceiver") /\ receiver' = connected /\ UNCHANGED <<bound, patches>>

Subscribe ==
  /\ InPdBase("subscribe")
  /\ bound' = bound \union {Head(todo).symbol} /\ UNCHANGED <<receiver, patches>>

(* extractResource and openPatch may fail: finish. *)
OpenPatch ==
  \/ InPdBase("openPatch") /\ patches' = patches + 1 /\ UNCHANGED <<receiver, bound>>
  \/ /\ At("openPatch") /\ todo' = Operations.destroy
     /\ UNCHANGED <<connected, bases, listeners, posted, audio, foreground, ended>>

(* openAudio, computeAudio, sendFloat. *)
CallPd ==
  \E op \in {"open", "compute", "sendFloat"} : InPdBase(op) /\ UNCHANGED bases

(* initAudio throws, on its parameters or on a device: startAudio has       *)
(* ended, its caller goes on.                                               *)
OpenFails ==
  /\ At("open") \/ (At("stop") /\ Do("open") \in Range(todo))
  /\ todo' = IF Do("sendFloat") \in Range(todo) THEN <<Do("sendFloat")>> ELSE <<>>
  /\ UNCHANGED <<connected, bases, listeners, posted, audio, foreground, ended>>

Release ==
  /\ InPdBase("release")
  /\ receiver' = None /\ bound' = {} /\ patches' = 0

Calls == SetReceiver \/ Subscribe \/ OpenPatch \/ CallPd \/ OpenFails \/ Release

-----------------------------------------------------------------------------
(* PdDispatcher.addListener: the dispatcher's monitor is taken, ... *)
Lock ==
  /\ At("lock") /\ Goes
  /\ UNCHANGED <<bases, listeners, audio, foreground, ended>>

(* Fault: only the first listener of a symbol in the process is stored. *)
WithListenerOnce(i, s) == listeners[i] \union ({s} \ bound)

WithListener(i, s) == listeners[i] \union {s}

(* ... and the first listener of a symbol subscribes to it. *)
Add ==
  /\ At("add") /\ Goes
  /\ LET s == Head(todo).symbol
     IN  /\ s \notin listeners[connected] => PdBaseFree
         /\ bound' = IF s \in listeners[connected] THEN bound ELSE bound \union {s}
         /\ listeners' = [listeners EXCEPT ![connected] = WithListener(connected, s)]
  /\ UNCHANGED <<receiver, patches, audio, foreground, ended>>

Foreground ==
  /\ \/ At("startForeground") /\ foreground' = TRUE
     \/ At("stopForeground") /\ foreground' = FALSE
  /\ Goes /\ UNCHANGED <<bases, listeners, audio, ended>>

(* PdAudio.stopAudio, which bypasses the service, ... *)
Stop ==
  /\ At("stop")
  /\ IF thread = "none" THEN todo' = Tail(Tail(todo)) /\ UNCHANGED interrupted
     ELSE todo' = Tail(todo) /\ interrupted' = TRUE
  /\ UNCHANGED <<connected, bases, listeners, posted, thread, symbol, foreground, ended>>

(* ... and waits for the end of the audio thread. *)
Join ==
  /\ At("join") /\ thread = "none" /\ Goes
  /\ UNCHANGED <<bases, listeners, audio, foreground, ended>>

StartThread ==
  /\ At("start") /\ Goes
  /\ thread' = "waiting" /\ symbol' = "none" /\ interrupted' = FALSE
  /\ UNCHANGED <<bases, listeners, foreground, ended>>

Exit ==
  /\ At("exit") /\ ended' = TRUE /\ Goes
  /\ UNCHANGED <<bases, listeners, audio, foreground>>

Main == Calls \/ Lock \/ Add \/ Foreground \/ Stop \/ Join \/ StartThread \/ Exit

-----------------------------------------------------------------------------
(* The audio thread. *)
Moves(from, to) ==
  /\ ~ended /\ thread = from /\ thread' = to
  /\ UNCHANGED <<connected, bases, listeners, todo, interrupted, foreground, ended>>

(* take, which an interrupt ends. *)
Take ==
  /\ Moves("waiting", IF interrupted THEN "none" ELSE "looping")
  /\ UNCHANGED <<posted, symbol>>

(* Fault: the interrupt is not tested. *)
GoesOnAlways == TRUE

GoesOn == ~interrupted

Test == Moves("looping", IF GoesOn THEN "entering" ELSE "none") /\ UNCHANGED <<posted, symbol>>

Enter == Moves("entering", "processing") /\ UNCHANGED <<posted, symbol>>

(* A patch sends a message to a symbol that is bound. *)
Send(s) ==
  /\ Moves("processing", "sending")
  /\ patches > 0 /\ receiver # None /\ s \in bound /\ posted < MaxPosted
  /\ symbol' = s /\ UNCHANGED posted

(* receiveList of the receiver's dispatcher. *)
Receive ==
  /\ ~Locked(receiver)
  /\ Moves("sending", "processing") /\ symbol' = "none"
  /\ posted' = IF symbol = "tempo" /\ symbol \in listeners[receiver] THEN posted + 1 ELSE posted

(* The end of process, or of the thread when it has failed. *)
Leave ==
  /\ Moves("processing", "looping") \/ Moves("processing", "none")
  /\ UNCHANGED <<posted, symbol>>

Audio == Take \/ Test \/ Enter \/ (\E s \in Symbols : Send(s)) \/ Receive \/ Leave

Next == Connect \/ Begin \/ RunPosted \/ Main \/ Audio

Spec == Init /\ [][Next]_vars

(* Both threads run, a call of process sends finitely many messages, and    *)
(* the main thread gets PdBase's monitor at last: the audio thread waits    *)
(* for its device between two calls.                                        *)
FairSpec ==
  /\ Spec
  /\ SF_vars(Main)
  /\ WF_vars(Take \/ Test \/ Enter) /\ WF_vars(Receive) /\ SF_vars(Leave)

-----------------------------------------------------------------------------
Steps == [op : {"setReceiver", "lock", "add", "subscribe", "openPatch", "stopForeground", "stop",
                "join", "open", "startForeground", "compute", "start", "sendFloat", "release",
                "exit"},
          symbol : Symbols \union {"none"}]

(* Every field holds a value of its type; no receiver and no patch is of an *)
(* instance that is not connected, and every step is one of an operation.   *)
TypeOK ==
  /\ connected \in 0 .. MaxInstances /\ receiver \in 0 .. connected
  /\ bound \subseteq Symbols /\ patches \in 0 .. connected
  /\ listeners \in [Instances -> SUBSET Symbols]
  /\ todo \in Seq(Steps) /\ posted \in 0 .. MaxPosted
  /\ thread \in {"none", "waiting", "looping", "entering", "processing", "sending"}
  /\ symbol \in Symbols \union {"none"}
  /\ interrupted \in BOOLEAN /\ foreground \in BOOLEAN /\ ended \in BOOLEAN

(* Main holds the monitor of the receiver's dispatcher and waits for that   *)
(* of PdBase, the audio thread the other way round.                         *)
Deadlocked == Locked(receiver) /\ thread = "sending"

(* The two threads block each other only when another instance initializes  *)
(* Pd over running audio.                                                   *)
DeadlockNeedsRestart == Deadlocked => connected > 1

Initializing == \E k \in DOMAIN todo : todo[k].op \in {"setReceiver", "add"}

(* A message to a symbol with a listener reaches the instance in front and  *)
(* its listener; only while another instance initializes Pd may it go to    *)
(* the one behind or be lost.                                               *)
MessagesArrive ==
  [][thread = "sending" /\ thread' # "sending" /\ symbol # "android" =>
       \/ receiver = connected /\ symbol \in listeners[receiver]
       \/ connected > 1 /\ Initializing]_vars

(* Every operation of the main thread comes to its end, whatever the audio  *)
(* thread does, unless the two are deadlocked.                              *)
OperationsEnd == todo # <<>> ~> (todo = <<>> \/ Deadlocked)

-----------------------------------------------------------------------------
(* What a comment of PdBase says and the code does not do: "Java-side sync  *)
(* conveys the same benefits without the risk of deadlocks".                *)
NoDeadlock == ~Deadlocked
=============================================================================
