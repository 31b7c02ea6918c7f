--------------------------- MODULE AudioPipeline ---------------------------
(***************************************************************************)
(* The audio threads of PdCore: PdAudio owns at most one AudioWrapper, an  *)
(* AudioWrapper runs the audio thread (render, PdBase.process) and, in its *)
(* AudioRecordWrapper, the input thread (microphone).  The input thread    *)
(* fills one of its two buffers and hands it over through a                *)
(* SynchronousQueue: put returns once a take or poll has received it.      *)
(*                                                                         *)
(* The methods of PdAudio exclude each other (synchronized static), so one *)
(* control thread runs them: the activities' startAudio, that is initAudio *)
(* with restart followed by startAudio, and stopAudio.  Joins are steps of *)
(* their own, the threads run meanwhile.  Every wrapper has a microphone.  *)
(* PdBase.process is external: it may return an error at any call.         *)
(***************************************************************************)
EXTENDS Integers

CONSTANT MaxWrappers    \* bound: AudioWrapper constructor calls

ASSUME PipelineAssumption == MaxWrappers \in Nat \ {0}

Wrappers  == 1 .. MaxWrappers
NoWrapper == 0
NoBuffer  == -1

VARIABLES
  op, pc,         \* control thread: the operation and its next step
  made,           \* constructor calls so far; wrappers are numbered by them
  audioWrapper,   \* PdAudio.audioWrapper
  rec, track,     \* per wrapper: "none", "idle", "active" or "released"
  inputThread, inPc, inInterrupted, filling,      \* AudioRecordWrapper
  audioThread, auPc, auInterrupted, inBuf         \* AudioWrapper

control  == <<op, pc, made, audioWrapper>>
devices  == <<rec, track>>
inputs   == <<inputThread, inPc, inInterrupted, filling>>
renders  == <<audioThread, auPc, auInterrupted, inBuf>>
vars     == <<control, devices, inputs, renders>>

(* Thread positions. "new": not started; "done": terminated. *)
InLive == {"test", "read", "put", "swap"}
AuLive == {"take", "test", "process", "write", "poll"}

Init ==
  /\ op = "stop" /\ pc = "idle" /\ made = 0 /\ audioWrapper = NoWrapper
  /\ rec = [w \in Wrappers |-> "none"] /\ track = [w \in Wrappers |-> "none"]
  /\ inputThread = [w \in Wrappers |-> FALSE]
  /\ inPc = [w \in Wrappers |-> "new"]
  /\ inInterrupted = [w \in Wrappers |-> FALSE]
  /\ filling = [w \in Wrappers |-> 0]
  /\ audioThread = [w \in Wrappers |-> FALSE]
  /\ auPc = [w \in Wrappers |-> "new"]
  /\ auInterrupted = [w \in Wrappers |-> FALSE]
  /\ inBuf = [w \in Wrappers |-> NoBuffer]

(* AudioWrapper.isRunning, of the wrapper PdAudio holds. *)
IsRunning ==
  audioWrapper # NoWrapper /\ audioThread[audioWrapper] /\ auPc[audioWrapper] # "done"

-----------------------------------------------------------------------------
(* The control thread. *)

(* After stopAudio, initAudio goes on to the new wrapper. *)
AfterStop(o) == IF o = "start" THEN "open" ELSE "idle"

(* Fault: initAudio does not stop the audio that runs. *)
FirstStepNoRestart(o) ==
  IF o = "stop" /\ IsRunning THEN "stopInput" ELSE AfterStop(o)

(* stopAudio has nothing to do unless the audio thread runs. *)
FirstStep(o) == IF IsRunning THEN "stopInput" ELSE AfterStop(o)

(* PdAudio.stopAudio, or initAudio with parameters that pass the check. *)
Begin(o) ==
  /\ pc = "idle"
  /\ o = "start" => made < MaxWrappers
  /\ op' = o
  /\ pc' = FirstStep(o)
  /\ UNCHANGED <<made, audioWrapper, devices, inputs, renders>>

(* Fault: stop does not interrupt the thread. *)
InterruptDropped(flags, w) == flags

(* Thread.interrupt, seen at the next test of the flag or blocking call. *)
Interrupt(flags, w) == [flags EXCEPT ![w] = TRUE]

(* Fault: join gives up before the thread has ended. *)
JoinsEarly(position) == TRUE

(* Thread.join.  The catch of InterruptedException is not modelled: nothing *)
(* interrupts the thread that calls PdAudio.                                *)
Joins(position) == position = "done"

(* AudioRecordWrapper.stop, first half. *)
StopInput ==
  /\ pc = "stopInput"
  /\ IF inputThread[audioWrapper]
       THEN /\ inInterrupted' = Interrupt(inInterrupted, audioWrapper)
            /\ pc' = "joinInput"
       ELSE pc' = "stopAudio" /\ UNCHANGED inInterrupted
  /\ UNCHANGED <<op, made, audioWrapper, devices, inputThread, inPc, filling, renders>>

JoinInput ==
  /\ pc = "joinInput" /\ Joins(inPc[audioWrapper])
  /\ inputThread' = [inputThread EXCEPT ![audioWrapper] = FALSE]
  /\ rec' = [rec EXCEPT ![audioWrapper] = "idle"]
  /\ pc' = "stopAudio"
  /\ UNCHANGED <<op, made, audioWrapper, track, inPc, inInterrupted, filling, renders>>

(* The rest of AudioWrapper.stop; its thread field is set, see IsRunning. *)
StopAudio ==
  /\ pc = "stopAudio"
  /\ auInterrupted' = Interrupt(auInterrupted, audioWrapper)
  /\ pc' = "joinAudio"
  /\ UNCHANGED <<op, made, audioWrapper, devices, inputs, audioThread, auPc, inBuf>>

JoinAudio ==
  /\ pc = "joinAudio" /\ Joins(auPc[audioWrapper])
  /\ audioThread' = [audioThread EXCEPT ![audioWrapper] = FALSE]
  /\ track' = [track EXCEPT ![audioWrapper] = "idle"]
  /\ pc' = "release"
  /\ UNCHANGED <<op, made, audioWrapper, rec, inputs, auPc, auInterrupted, inBuf>>

(* AudioWrapper.release after its stop, then PdAudio forgets the wrapper. *)
Release ==
  /\ pc = "release"
  /\ track' = [track EXCEPT ![audioWrapper] = "released"]
  /\ rec' = [rec EXCEPT ![audioWrapper] = "released"]
  /\ audioWrapper' = NoWrapper
  /\ pc' = AfterStop(op)
  /\ UNCHANGED <<op, made, inputs, renders>>

(* new AudioWrapper: fails on the recorder, or on the track once there is a *)
(* recorder, which nothing releases; then startAudio is not reached.        *)
OpenFails ==
  /\ pc = "open"
  /\ made' = made + 1
  /\ rec' \in {rec, [rec EXCEPT ![made + 1] = "idle"]}
  /\ pc' = "idle"
  /\ UNCHANGED <<op, audioWrapper, track, inputs, renders>>

Open ==
  /\ pc = "open"
  /\ made' = made + 1
  /\ rec' = [rec EXCEPT ![made + 1] = "idle"]
  /\ track' = [track EXCEPT ![made + 1] = "idle"]
  /\ audioWrapper' = made + 1
  /\ pc' = "startInput"
  /\ UNCHANGED <<op, inputs, renders>>

(* AudioWrapper.start. *)
StartInput ==
  /\ pc = "startInput"
  /\ rec' = [rec EXCEPT ![audioWrapper] = "active"]
  /\ inputThread' = [inputThread EXCEPT ![audioWrapper] = TRUE]
  /\ inPc' = [inPc EXCEPT ![audioWrapper] = "test"]
  /\ pc' = "startAudio"
  /\ UNCHANGED <<op, made, audioWrapper, track, inInterrupted, filling, renders>>

StartAudio ==
  /\ pc = "startAudio"
  /\ track' = [track EXCEPT ![audioWrapper] = "active"]
  /\ audioThread' = [audioThread EXCEPT ![audioWrapper] = TRUE]
  /\ auPc' = [auPc EXCEPT ![audioWrapper] = "take"]
  /\ pc' = "idle"
  /\ UNCHANGED <<op, made, audioWrapper, rec, inputs, auInterrupted, inBuf>>

Control == \/ \E o \in {"start", "stop"} : Begin(o)
           \/ StopInput \/ JoinInput \/ StopAudio \/ JoinAudio \/ Release
           \/ Open \/ OpenFails \/ StartInput \/ StartAudio

-----------------------------------------------------------------------------
(* The input thread. *)

(* A test of the interrupt flag clears it; an interrupted put ends with the *)
(* flag cleared as well.                                                    *)
InputEnds(w) ==
  /\ inPc[w] \in {"test", "read", "put"} /\ inInterrupted[w]
  /\ inPc' = [inPc EXCEPT ![w] = "done"]
  /\ inInterrupted' = [inInterrupted EXCEPT ![w] = FALSE]
  /\ UNCHANGED <<control, devices, inputThread, filling, renders>>

InputMoves(w, from, to) ==
  /\ inPc[w] = from
  /\ inPc' = [inPc EXCEPT ![w] = to]
  /\ UNCHANGED <<control, devices, inputThread, inInterrupted, renders>>

Test(w) == ~inInterrupted[w] /\ InputMoves(w, "test", "read") /\ UNCHANGED filling

(* The inner loop completes the buffer, interrupted or not. *)
Read(w) == InputMoves(w, "read", "put") /\ UNCHANGED filling

(* Fault: the buffers are not exchanged after the put. *)
OtherBufferKept(b) == b

(* Fault: a fresh buffer after every put. *)
OtherBufferNew(b) == b + 1

OtherBuffer(b) == 1 - b

Swap(w) ==
  /\ InputMoves(w, "swap", "test")
  /\ filling' = [filling EXCEPT ![w] = OtherBuffer(@)]

Input(w) == InputEnds(w) \/ Test(w) \/ Read(w) \/ Swap(w)

-----------------------------------------------------------------------------
(* The audio thread. *)

RenderMoves(w, from, to) ==
  /\ auPc[w] = from
  /\ auPc' = [auPc EXCEPT ![w] = to]
  /\ UNCHANGED <<control, devices, inputThread, inInterrupted, filling,
                 audioThread>>

(* The SynchronousQueue passes the buffer of the waiting put. *)
Transfer(w) ==
  /\ inPc[w] = "put"
  /\ inPc' = [inPc EXCEPT ![w] = "swap"]
  /\ inBuf' = [inBuf EXCEPT ![w] = filling[w]]
  /\ UNCHANGED auInterrupted

Take(w) == RenderMoves(w, "take", "test") /\ Transfer(w)

Poll(w) ==
  /\ RenderMoves(w, "poll", "test")
  /\ Transfer(w) \/ UNCHANGED <<inPc, inBuf, auInterrupted>>

RenderEnds(w) ==
  /\ auPc[w] \in {"take", "test"} /\ auInterrupted[w]
  /\ auPc' = [auPc EXCEPT ![w] = "done"]
  /\ auInterrupted' = [auInterrupted EXCEPT ![w] = FALSE]
  /\ UNCHANGED <<control, devices, inputs, audioThread, inBuf>>

Enter(w) == /\ ~auInterrupted[w] /\ RenderMoves(w, "test", "process")
            /\ UNCHANGED <<inPc, inBuf, auInterrupted>>

Process(w) == /\ \/ RenderMoves(w, "process", "write")
                 \/ RenderMoves(w, "process", "done")
              /\ UNCHANGED <<inPc, inBuf, auInterrupted>>

Write(w) == /\ RenderMoves(w, "write", "poll")
            /\ UNCHANGED <<inPc, inBuf, auInterrupted>>

Render(w) == RenderEnds(w) \/ Take(w) \/ Enter(w) \/ Process(w) \/ Write(w) \/ Poll(w)

Next == Control \/ \E w \in Wrappers : Input(w) \/ Render(w)

Spec == Init /\ [][Next]_vars

(* Threads run, and a started operation is carried on; starting one is the  *)
(* user's choice.  Nothing is assumed of the microphone: rec.read is native *)
(* code that an interrupt does not wake, and it may never return.  The      *)
(* audio thread's PdBase.process and AudioTrack.write do return.            *)
Fairness ==
  /\ WF_vars(pc # "idle" /\ Control)
  /\ \A w \in Wrappers :
       WF_vars(inPc[w] # "read" /\ Input(w)) /\ WF_vars(Render(w))

FairSpec == Spec /\ Fairness

-----------------------------------------------------------------------------
(* Every field holds a value of its type; an input thread has two buffers.  *)
TypeOK ==
  /\ op \in {"start", "stop"}
  /\ pc \in {"idle", "stopInput", "joinInput", "stopAudio", "joinAudio",
             "release", "open", "startInput", "startAudio"}
  /\ made \in 0 .. MaxWrappers /\ audioWrapper \in 0 .. MaxWrappers
  /\ rec \in [Wrappers -> {"none", "idle", "active", "released"}]
  /\ track \in [Wrappers -> {"none", "idle", "active", "released"}]
  /\ inputThread \in [Wrappers -> BOOLEAN]
  /\ inPc \in [Wrappers -> InLive \union {"new", "done"}]
  /\ inInterrupted \in [Wrappers -> BOOLEAN]
  /\ filling \in [Wrappers -> {0, 1}]
  /\ audioThread \in [Wrappers -> BOOLEAN]
  /\ auPc \in [Wrappers -> AuLive \union {"new", "done"}]
  /\ auInterrupted \in [Wrappers -> BOOLEAN]
  /\ inBuf \in [Wrappers -> {NoBuffer, 0, 1}]

(* The two buffers behind the SynchronousQueue are enough: the microphone   *)
(* never writes into the buffer that PdBase.process reads, although no lock *)
(* covers either.                                                           *)
NoBufferSharing ==
  \A w \in Wrappers :
    auPc[w] = "process" /\ inPc[w] = "read" => inBuf[w] # filling[w]

(* AudioRecord and AudioTrack are stopped and released only after the       *)
(* thread that uses them has ended, whatever restarts happen in between.    *)
ThreadsBeforeRelease ==
  \A w \in Wrappers :
    /\ inPc[w] \in InLive => rec[w] = "active"
    /\ auPc[w] \in AuLive => track[w] = "active"

(* At most one audio thread calls PdBase.process, that of the wrapper which *)
(* PdAudio holds: a restart joins the old one before it makes the new.      *)
OneAudioThread ==
  \A w \in Wrappers : auPc[w] \in AuLive => w = audioWrapper /\ audioThread[w]

(* After stopAudio a thread is left only for a wrapper whose audio thread   *)
(* has ended by itself, on an error of PdBase.process: stop ends both       *)
(* threads of the wrapper it finds, and every restart did so before.        *)
StopLeavesOnlyFailed ==
  pc = "idle" /\ op = "stop" =>
    \A w \in Wrappers :
      inPc[w] \in InLive \/ auPc[w] \in AuLive => audioThread[w] /\ auPc[w] = "done"

(* initAudio, startAudio and stopAudio return, although they wait for both  *)
(* threads, which may be blocked on each other in put or take, and hold     *)
(* PdAudio's lock meanwhile.  The one exception is a join that waits for    *)
(* ever for an input thread inside AudioRecord.read.                        *)
JoinsReader == pc = "joinInput" /\ inPc[audioWrapper] = "read"
OperationsReturn ==
  []<>(~JoinsReader) => ((pc # "idle") ~> (pc = "idle"))

-----------------------------------------------------------------------------
(* What a comment of the source says and the code does not do.              *)

(* "Stop audio wrapper": after stopAudio neither thread of any wrapper is   *)
(* left.                                                                    *)
StoppedIsQuiet ==
  pc = "idle" /\ op = "stop" =>
    \A w \in Wrappers : inPc[w] \notin InLive /\ auPc[w] \notin AuLive
=============================================================================
