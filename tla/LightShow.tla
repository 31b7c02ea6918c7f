----------------------------- MODULE LightShow -----------------------------
(***************************************************************************)
(* An activity of Discoteque that lights the bulbs to the tempo:           *)
(* BeatDetectionActivity, or AtmosphereActivity when corrects is FALSE.    *)
(* Three kinds of threads share its fields.  The audio thread runs the     *)
(* detector (DetectorProtocol) and posts a runnable for each list it       *)
(* sends.  The UI thread runs these runnables and the buttons' handlers,   *)
(* one after the other.  Each runnable starts one more Task, a thread that *)
(* lights the bulbs and sleeps for a beat until checkstop is set.          *)
(*                                                                         *)
(* The Hue SDK is reduced to whether a bridge is selected, AudioPipeline   *)
(* to whether the audio runs; the views and the scene an AtmosphereActivity*)
(* plays are left out.                                                     *)
(***************************************************************************)
EXTENDS DetectorProtocol, Sequences, FiniteSets

CONSTANT
  Tasks       \* bound: tasks alive, or still to be started from posted lists

ASSUME LightShowAssumption == IsFiniteSet(Tasks)

VARIABLES
  corrects,   \* the activity's: tempo goes through statisticalCorr; never changes
  audio,      \* PdAudio runs, so that the detector may send a list
  bound,      \* pdService # null, and with it the patch is open
  bridge,     \* getSelectedBridge() # null
  app,        \* "running", "crashed" by an uncaught exception, or "exited"
  queue,      \* tempos of the runnables posted to the UI thread
  ui,         \* where the UI thread stands inside a handler, or "free"
  tempo,      \* in sixtieths of a bpm; -60 from a StartSong list
  checkstop,
  task,       \* per task: "none", "check", "read" or "sleep"
  timewait,   \* per task, in milliseconds
  heardSong   \* history: a StartSong list has been sent

vars == <<phase, sent, corrects, audio, bound, bridge, app, queue, ui, tempo, checkstop,
          task, timewait, heardSong>>

Init ==
  /\ ProtocolInit /\ corrects \in BOOLEAN
  /\ audio = FALSE /\ bound = FALSE /\ bridge \in BOOLEAN /\ app = "running"
  /\ queue = <<>> /\ ui = "free"
  /\ tempo = 0 /\ checkstop = 1
  /\ task = [t \in Tasks |-> "none"] /\ timewait = [t \in Tasks |-> 0]
  /\ heardSong = FALSE

(* The process ends, and every thread with it. *)
Ends(how) ==
  /\ app' = how
  /\ task' = [t \in Tasks |-> "none"] /\ queue' = <<>> /\ audio' = FALSE
  /\ ui' = "free"
  /\ UNCHANGED <<pvars, corrects, bridge, bound, tempo, checkstop, timewait, heardSong>>

-----------------------------------------------------------------------------
(* The audio thread: receiveList posts a runnable with the list. *)

Pending == ui \in {"correct", "restart", "spawn"}

Room ==
  Len(queue) + Cardinality({t \in Tasks : task[t] # "none"})
    + (IF Pending THEN 1 ELSE 0) < Cardinality(Tasks)

(* Fault: the runnable takes the style for the tempo. *)
ListTempoStyle(list) == list[2]

ListTempo(list) == list[1]

receiveList ==
  /\ app = "running" /\ audio /\ Room
  /\ SendReport \/ SendStartSong
  /\ queue' = Append(queue, ListTempo(sent'))
  /\ heardSong' = (heardSong \/ sent' = StartSong)
  /\ UNCHANGED <<corrects, bridge, audio, bound, app, ui, tempo, checkstop, task, timewait>>

-----------------------------------------------------------------------------
(* The UI thread. *)

UIMoves(from, to) == app = "running" /\ ui = from /\ ui' = to

(* onServiceConnected and initPd.  Here and in GetTempo startAudio may fail: *)
(* the toast that says so leaves the audio stopped, or as it was.            *)
ServiceConnected ==
  /\ ~bound /\ UIMoves("free", "free")
  /\ bound' = TRUE
  /\ audio' \in BOOLEAN
  /\ UNCHANGED <<pvars, corrects, bridge, app, queue, tempo, checkstop, task, timewait, heardSong>>

(* GetTempo: startAudio, sendFloat("startAudio", 1), checkstop = 0. *)
GetTempo ==
  /\ bound /\ UIMoves("free", "detect")
  /\ audio' \in BOOLEAN
  /\ UNCHANGED <<pvars, corrects, bridge, bound, app, queue, tempo, checkstop, task, timewait, heardSong>>

(* pdService is null. *)
GetTempoUnbound ==
  /\ app = "running" /\ ui = "free" /\ ~bound
  /\ Ends("crashed")

Detect ==
  /\ UIMoves("detect", "go")
  /\ Restart
  /\ UNCHANGED <<corrects, bridge, audio, bound, app, queue, tempo, checkstop, task, timewait, heardSong>>

Go ==
  /\ UIMoves("go", "free")
  /\ checkstop' = 0
  /\ UNCHANGED <<pvars, corrects, bridge, audio, bound, app, queue, tempo, task, timewait, heardSong>>

(* Stop: checkstop = 1, then PdAudio.stopAudio. *)
Stop ==
  /\ UIMoves("free", "silence")
  /\ checkstop' = 1
  /\ UNCHANGED <<pvars, corrects, bridge, audio, bound, app, queue, tempo, task, timewait, heardSong>>

Silence ==
  /\ UIMoves("silence", "free")
  /\ audio' = FALSE
  /\ UNCHANGED <<pvars, corrects, bridge, bound, app, queue, tempo, checkstop, task, timewait, heardSong>>

(* The runnable of receiveList: tempo = the list's first element, ... *)
SetTempo ==
  /\ queue # <<>>
  /\ UIMoves("free", IF corrects THEN "correct" ELSE "restart")
  /\ tempo' = 60 * Head(queue)
  /\ queue' = Tail(queue)
  /\ UNCHANGED <<pvars, corrects, bridge, audio, bound, app, checkstop, task, timewait, heardSong>>

(* Fault: the terms of the two ranges swapped. *)
statisticalCorrSwapped(x) ==
  LET v == x \div 60 IN
  IF v < 110 THEN v * v ELSE IF v > 160 THEN v * (120 - v) ELSE x

(* statisticalCorr: 11/6 is an integer division, so that corrTermLow is     *)
(* v + v * (1 - v/60) and corrTermHigh is v - v * (1 - v/60).               *)
statisticalCorr(x) ==
  LET v == x \div 60 IN
  IF v < 110 THEN v * (120 - v) ELSE IF v > 160 THEN v * v ELSE x

(* ... tempo = statisticalCorr(tempo), ... *)
Correct ==
  /\ UIMoves("correct", "restart")
  /\ tempo' = statisticalCorr(tempo)
  /\ UNCHANGED <<pvars, corrects, bridge, audio, bound, app, queue, checkstop, task, timewait, heardSong>>

(* Fault: the runnable does not ask for a new detection. *)
NewDetectionForgotten == UNCHANGED pvars

(* sendFloat("startAudio", 0): the patch sends newDetection on any float.   *)
NewDetection == Restart

(* ... sendFloat("startAudio", 0), ... *)
RestartDetection ==
  /\ UIMoves("restart", "spawn")
  /\ NewDetection
  /\ UNCHANGED <<corrects, bridge, audio, bound, app, queue, tempo, checkstop, task, timewait, heardSong>>

(* ... new Thread(new Task()).start(). *)
Spawn ==
  /\ UIMoves("spawn", "free")
  /\ \E t \in Tasks : task[t] = "none" /\ task' = [task EXCEPT ![t] = "check"]
  /\ UNCHANGED <<pvars, corrects, bridge, audio, bound, app, queue, tempo, checkstop, timewait, heardSong>>

(* onDestroy disconnects the bridge, if there is one; whether the SDK then  *)
(* still has it selected is open.  The tasks run on until System.exit(0).   *)
Destroy ==
  /\ UIMoves("free", "exit")
  /\ bridge' \in {bridge, FALSE}
  /\ UNCHANGED <<pvars, corrects, audio, bound, app, queue, tempo, checkstop, task, timewait, heardSong>>

Exit ==
  /\ app = "running" /\ ui = "exit"
  /\ Ends("exited")

(* SeekBarActivity disconnects the bridge when it is destroyed, without an  *)
(* exit, and PHHomeActivity selects one in a callback of the SDK: to this   *)
(* activity it may happen at any time.                                      *)
BridgeChanges ==
  /\ app = "running"
  /\ bridge' = ~bridge
  /\ UNCHANGED <<pvars, corrects, audio, bound, app, queue, ui, tempo, checkstop, task, timewait, heardSong>>

Handles == \/ Detect \/ Go \/ Silence \/ Exit
           \/ SetTempo \/ Correct \/ RestartDetection \/ Spawn

UI == Handles \/ ServiceConnected \/ GetTempo \/ GetTempoUnbound \/ Stop \/ Destroy

-----------------------------------------------------------------------------
(* Task.run. *)

(* Fault: the loop goes on whatever checkstop says. *)
GoesOnAlways == TRUE

GoesOn == checkstop = 0

Check(t) ==
  /\ task[t] = "check"
  /\ task' = [task EXCEPT ![t] = IF GoesOn THEN "read" ELSE "none"]
  /\ UNCHANGED <<pvars, corrects, bridge, audio, bound, app, queue, ui, tempo, checkstop, timewait,
                 heardSong>>

(* Math.round(60000 / tempo); division by zero rounds to Integer.MAX_VALUE. *)
Timewait(x) ==
  CASE x > 0 -> (7200000 + x) \div (2 * x)
    [] x = 0 -> 2147483647
    [] x < 0 -> -((7200000 - x) \div (2 * (-x)))

(* The bulbs get their next colour, from the selected bridge. *)
Light(t) ==
  /\ task[t] = "read" /\ bridge
  /\ timewait' = [timewait EXCEPT ![t] = Timewait(tempo)]
  /\ task' = [task EXCEPT ![t] = "sleep"]
  /\ UNCHANGED <<pvars, corrects, bridge, audio, bound, app, queue, ui, tempo, checkstop, heardSong>>

(* No bridge is selected: run dereferences null. *)
LightNoBridge(t) ==
  /\ task[t] = "read" /\ ~bridge
  /\ Ends("crashed")

Sleep(t) ==
  /\ task[t] = "sleep" /\ timewait[t] >= 0
  /\ task' = [task EXCEPT ![t] = "check"]
  /\ UNCHANGED <<pvars, corrects, bridge, audio, bound, app, queue, ui, tempo, checkstop, timewait,
                 heardSong>>

(* Thread.sleep of a negative time throws IllegalArgumentException. *)
SleepNegative(t) ==
  /\ task[t] = "sleep" /\ timewait[t] < 0
  /\ Ends("crashed")

Task(t) == Check(t) \/ Light(t) \/ LightNoBridge(t) \/ Sleep(t) \/ SleepNegative(t)

Next == receiveList \/ UI \/ BridgeChanges \/ \E t \in Tasks : Task(t)

Spec == Init /\ [][Next]_vars

(* The UI thread finishes a handler it has begun, and its queue is first    *)
(* come, first served: clicks do not keep a posted runnable waiting for     *)
(* ever, hence strong fairness.  Tasks run and wake up.  Nothing is assumed *)
(* of the user, of the service, of the bridge or of the music.              *)
Fairness ==
  /\ WF_vars(ui # "free" /\ Handles)
  /\ SF_vars(SetTempo)
  /\ \A t \in Tasks : WF_vars(Task(t))

FairSpec == Spec /\ Fairness

-----------------------------------------------------------------------------
(* Every field holds a value of its type. *)
TypeOK ==
  /\ ProtocolTypeOK
  /\ corrects \in BOOLEAN /\ audio \in BOOLEAN /\ bound \in BOOLEAN
  /\ bridge \in BOOLEAN /\ heardSong \in BOOLEAN
  /\ app \in {"running", "crashed", "exited"}
  /\ queue \in Seq(Tempos \union {-1})
  /\ ui \in {"free", "detect", "go", "silence", "correct", "restart", "spawn",
             "exit"}
  /\ tempo \in Int /\ checkstop \in {0, 1}
  /\ task \in [Tasks -> {"none", "check", "read", "sleep"}]
  /\ timewait \in [Tasks -> Int]

(* Once the detector has sent a list it detects nothing until newDetection. *)
(* The runnable that will ask for it is never lost: it is queued or has not *)
(* come to sendFloat yet, or GetTempo is about to ask.  This holds however  *)
(* the audio thread, the buttons and the runnables interleave, and also     *)
(* when the song starts before the runnable of the report has run.          *)
NoLostRestart ==
  app = "running" /\ phase # "listening" /\ sent # NotSent =>
    queue # <<>> \/ ui \in {"correct", "restart", "detect"}

(* The application crashes only when GetTempo is pressed before the service *)
(* is bound, when no bridge is selected as a task wants to light the bulbs, *)
(* or after a StartSong list: no reported tempo, corrected or not and read  *)
(* at whatever moment, makes a task sleep for a negative time.              *)
CrashHasCause == app = "crashed" => ~bound \/ ~bridge \/ heardSong

(* Detection resumes after every list as long as the application lives.     *)
DetectionResumes ==
  phase # "listening" /\ sent # NotSent ~> phase = "listening" \/ app # "running"

(* After a Stop that is not followed by GetTempo all tasks end, those still *)
(* to be started by posted runnables too.                                   *)
StoppedTasksEnd ==
  <>[](checkstop = 1 /\ ~audio) => <>[](\A t \in Tasks : task[t] = "none")

-----------------------------------------------------------------------------
(* What comments of the source say and the code does not do.                *)

(* "if(Float.valueOf(args[0].toString()) == -1.0) { //play song": the list  *)
(* -1 -1 starts the song, its first element is not a tempo.                 *)
TempoIsReported == tempo >= 0
=============================================================================
