------------------------- MODULE AudioPipelineProofs -------------------------
(***************************************************************************)
(* Safety of the audio threads, for any number of restarts.  The inductive *)
(* invariant says, position by position of the control thread, which       *)
(* threads it has already seen the end of: that is what makes it safe to   *)
(* release their devices and to make the next wrapper.                     *)
(***************************************************************************)
EXTENDS AudioPipeline, TLAPS

(* Wrappers not made yet are untouched. *)
Unmade ==
  \A w \in Wrappers : w > made =>
    /\ inPc[w] = "new" /\ auPc[w] = "new"
    /\ ~inputThread[w] /\ ~audioThread[w]

(* A live thread is recorded in the field of its wrapper. *)
Recorded ==
  \A w \in Wrappers : inPc[w] \in InLive => inputThread[w]

(* What the control thread knows at each of its steps. *)
Known ==
  /\ audioWrapper <= made
  /\ pc \in {"stopInput", "joinInput", "stopAudio", "joinAudio", "release",
             "startInput", "startAudio"} => audioWrapper # NoWrapper
  /\ pc \in {"open", "startInput", "startAudio"} => op = "start"
  /\ op = "start" /\ pc \in {"stopInput", "joinInput", "stopAudio", "joinAudio",
                            "release", "open"} => made < MaxWrappers
  /\ pc = "open" /\ audioWrapper # NoWrapper => auPc[audioWrapper] \notin AuLive
  /\ pc \in {"stopAudio", "joinAudio", "release"} => inPc[audioWrapper] \notin InLive
  /\ pc = "release" => auPc[audioWrapper] = "done"
  /\ pc \in {"startInput", "startAudio"} => auPc[audioWrapper] = "new"
  /\ pc = "startInput" => inPc[audioWrapper] = "new"

(* The buffers: after the handover, and until the exchange, both threads    *)
(* hold the same one; at any other time they hold different ones.           *)
Buffers ==
  \A w \in Wrappers : inPc[w] = "swap" <=> inBuf[w] = filling[w]

IInv == /\ TypeOK /\ Unmade /\ Recorded /\ Known /\ Buffers
        /\ ThreadsBeforeRelease /\ OneAudioThread

LEMMA InitIInv == Init => IInv
BY PipelineAssumption
DEF Init, IInv, TypeOK, Unmade, Recorded, Known, Buffers, ThreadsBeforeRelease,
    OneAudioThread, Wrappers, NoWrapper, NoBuffer, InLive, AuLive

-----------------------------------------------------------------------------
(* The control thread.  Only the devices and threads of the wrapper PdAudio *)
(* holds change, and of the one just made.                                  *)
LEMMA ControlKeepsIInv == IInv /\ Control => IInv'
<1>. SUFFICES ASSUME IInv, Control PROVE IInv'
  OBVIOUS
<1>. USE PipelineAssumption
     DEF Wrappers, NoWrapper, NoBuffer, InLive, AuLive, control, devices, inputs, renders
<1>1. ASSUME NEW o \in {"start", "stop"}, Begin(o) PROVE IInv'
  <2>1. TypeOK'
    BY <1>1 DEF IInv, TypeOK, Known, Begin, FirstStep, AfterStop, IsRunning
  <2>2. Unmade' /\ Recorded' /\ Buffers'
    BY <1>1 DEF IInv, TypeOK, Known, Unmade, Recorded, Buffers, Begin, FirstStep, AfterStop, IsRunning
  <2>3. Known'
    BY <1>1 DEF IInv, TypeOK, Known, Unmade, Recorded, OneAudioThread, Begin, FirstStep, AfterStop, IsRunning
  <2>4. ThreadsBeforeRelease' /\ OneAudioThread'
    BY <1>1 DEF IInv, TypeOK, Known, Unmade, ThreadsBeforeRelease, OneAudioThread,
               Begin, FirstStep, AfterStop, IsRunning
  <2>. QED
    BY <2>1, <2>2, <2>3, <2>4 DEF IInv
<1>2. ASSUME StopInput PROVE IInv'
  <2>1. TypeOK'
    BY <1>2 DEF IInv, TypeOK, Known, StopInput, Interrupt
  <2>2. Unmade' /\ Recorded' /\ Buffers'
    BY <1>2 DEF IInv, TypeOK, Known, Unmade, Recorded, Buffers, StopInput, Interrupt
  <2>3. Known'
    BY <1>2 DEF IInv, TypeOK, Known, Unmade, Recorded, OneAudioThread, StopInput, Interrupt
  <2>4. ThreadsBeforeRelease' /\ OneAudioThread'
    BY <1>2 DEF IInv, TypeOK, Known, Unmade, ThreadsBeforeRelease, OneAudioThread,
               StopInput, Interrupt
  <2>. QED
    BY <2>1, <2>2, <2>3, <2>4 DEF IInv
<1>3. ASSUME JoinInput PROVE IInv'
  <2>1. TypeOK'
    BY <1>3 DEF IInv, TypeOK, Known, JoinInput, Joins
  <2>2. Unmade' /\ Recorded' /\ Buffers'
    BY <1>3 DEF IInv, TypeOK, Known, Unmade, Recorded, Buffers, JoinInput, Joins
  <2>3. Known'
    BY <1>3 DEF IInv, TypeOK, Known, Unmade, Recorded, OneAudioThread, JoinInput, Joins
  <2>4. ThreadsBeforeRelease' /\ OneAudioThread'
    BY <1>3 DEF IInv, TypeOK, Known, Unmade, ThreadsBeforeRelease, OneAudioThread,
               JoinInput, Joins
  <2>. QED
    BY <2>1, <2>2, <2>3, <2>4 DEF IInv
<1>4. ASSUME StopAudio PROVE IInv'
  <2>1. TypeOK'
    BY <1>4 DEF IInv, TypeOK, Known, StopAudio, Interrupt
  <2>2. Unmade' /\ Recorded' /\ Buffers'
    BY <1>4 DEF IInv, TypeOK, Known, Unmade, Recorded, Buffers, StopAudio, Interrupt
  <2>3. Known'
    BY <1>4 DEF IInv, TypeOK, Known, Unmade, Recorded, OneAudioThread, StopAudio, Interrupt
  <2>4. ThreadsBeforeRelease' /\ OneAudioThread'
    BY <1>4 DEF IInv, TypeOK, Known, Unmade, ThreadsBeforeRelease, OneAudioThread,
               StopAudio, Interrupt
  <2>. QED
    BY <2>1, <2>2, <2>3, <2>4 DEF IInv
<1>5. ASSUME JoinAudio PROVE IInv'
  <2>1. TypeOK'
    BY <1>5 DEF IInv, TypeOK, Known, JoinAudio, Joins
  <2>2. Unmade' /\ Recorded' /\ Buffers'
    BY <1>5 DEF IInv, TypeOK, Known, Unmade, Recorded, Buffers, JoinAudio, Joins
  <2>3. Known'
    BY <1>5 DEF IInv, TypeOK, Known, Unmade, Recorded, OneAudioThread, JoinAudio, Joins
  <2>4. ThreadsBeforeRelease' /\ OneAudioThread'
    BY <1>5 DEF IInv, TypeOK, Known, Unmade, ThreadsBeforeRelease, OneAudioThread,
               JoinAudio, Joins
  <2>. QED
    BY <2>1, <2>2, <2>3, <2>4 DEF IInv
<1>6. ASSUME Release PROVE IInv'
  <2>1. TypeOK'
    BY <1>6 DEF IInv, TypeOK, Known, Release, AfterStop
  <2>2. Unmade' /\ Recorded' /\ Buffers'
    BY <1>6 DEF IInv, TypeOK, Known, Unmade, Recorded, Buffers, Release, AfterStop
  <2>3. Known'
    BY <1>6 DEF IInv, TypeOK, Known, Unmade, Recorded, OneAudioThread, Release, AfterStop
  <2>4. ThreadsBeforeRelease' /\ OneAudioThread'
    BY <1>6 DEF IInv, TypeOK, Known, Unmade, ThreadsBeforeRelease, OneAudioThread,
               Release, AfterStop
  <2>. QED
    BY <2>1, <2>2, <2>3, <2>4 DEF IInv
<1>7. ASSUME Open PROVE IInv'
  <2>1. TypeOK'
    BY <1>7 DEF IInv, TypeOK, Known, Open
  <2>2. Unmade' /\ Recorded' /\ Buffers'
    BY <1>7 DEF IInv, TypeOK, Known, Unmade, Recorded, Buffers, Open
  <2>3. Known'
    BY <1>7 DEF IInv, TypeOK, Known, Unmade, Recorded, OneAudioThread, Open
  <2>4. ThreadsBeforeRelease' /\ OneAudioThread'
    BY <1>7 DEF IInv, TypeOK, Known, Unmade, ThreadsBeforeRelease, OneAudioThread,
               Open
  <2>. QED
    BY <2>1, <2>2, <2>3, <2>4 DEF IInv
<1>8. ASSUME OpenFails PROVE IInv'
  <2>1. TypeOK'
    BY <1>8 DEF IInv, TypeOK, Known, OpenFails
  <2>2. Unmade' /\ Recorded' /\ Buffers'
    BY <1>8 DEF IInv, TypeOK, Known, Unmade, Recorded, Buffers, OpenFails
  <2>3. Known'
    BY <1>8 DEF IInv, TypeOK, Known, Unmade, Recorded, OneAudioThread, OpenFails
  <2>4. ThreadsBeforeRelease' /\ OneAudioThread'
    BY <1>8 DEF IInv, TypeOK, Known, Unmade, ThreadsBeforeRelease, OneAudioThread,
               OpenFails
  <2>. QED
    BY <2>1, <2>2, <2>3, <2>4 DEF IInv
<1>9. ASSUME StartInput PROVE IInv'
  <2>1. TypeOK'
    BY <1>9 DEF IInv, TypeOK, Known, StartInput
  <2>2. Unmade' /\ Recorded' /\ Buffers'
    BY <1>9 DEF IInv, TypeOK, Known, Unmade, Recorded, Buffers, StartInput
  <2>3. Known'
    BY <1>9 DEF IInv, TypeOK, Known, Unmade, Recorded, OneAudioThread, StartInput
  <2>4. ThreadsBeforeRelease' /\ OneAudioThread'
    BY <1>9 DEF IInv, TypeOK, Known, Unmade, ThreadsBeforeRelease, OneAudioThread,
               StartInput
  <2>. QED
    BY <2>1, <2>2, <2>3, <2>4 DEF IInv
<1>10. ASSUME StartAudio PROVE IInv'
  <2>1. TypeOK'
    BY <1>10 DEF IInv, TypeOK, Known, StartAudio
  <2>2. Unmade' /\ Recorded' /\ Buffers'
    BY <1>10 DEF IInv, TypeOK, Known, Unmade, Recorded, Buffers, StartAudio
  <2>3. Known'
    BY <1>10 DEF IInv, TypeOK, Known, Unmade, Recorded, OneAudioThread, StartAudio
  <2>4. ThreadsBeforeRelease' /\ OneAudioThread'
    BY <1>10 DEF IInv, TypeOK, Known, Unmade, ThreadsBeforeRelease, OneAudioThread,
               StartAudio
  <2>. QED
    BY <2>1, <2>2, <2>3, <2>4 DEF IInv
<1>. QED
  BY <1>1, <1>2, <1>3, <1>4, <1>5, <1>6, <1>7, <1>8, <1>9, <1>10 DEF Control

-----------------------------------------------------------------------------
(* The two threads of a wrapper. *)
LEMMA InputKeepsIInv == ASSUME IInv, NEW w \in Wrappers, Input(w) PROVE IInv'
<1>. USE DEF IInv, TypeOK, Unmade, Recorded, Known, Buffers, ThreadsBeforeRelease,
             OneAudioThread, NoWrapper, NoBuffer, InLive, AuLive,
             control, devices, inputs, renders, InputMoves
<1>1. CASE InputEnds(w)
  BY <1>1 DEF InputEnds
<1>2. CASE Test(w)
  BY <1>2 DEF Test
<1>3. CASE Read(w)
  BY <1>3 DEF Read
<1>4. CASE Swap(w)
  BY <1>4 DEF Swap, OtherBuffer
<1>. QED
  BY <1>1, <1>2, <1>3, <1>4 DEF Input

LEMMA RenderKeepsIInv == ASSUME IInv, NEW w \in Wrappers, Render(w) PROVE IInv'
<1>. USE DEF IInv, TypeOK, Unmade, Recorded, Known, Buffers, ThreadsBeforeRelease,
             OneAudioThread, NoWrapper, NoBuffer, InLive, AuLive,
             control, devices, inputs, renders, RenderMoves
<1>1. CASE RenderEnds(w)
  BY <1>1 DEF RenderEnds
<1>2. CASE Take(w)
  BY <1>2 DEF Take, Transfer
<1>3. CASE Enter(w)
  BY <1>3 DEF Enter
<1>4. CASE Process(w)
  BY <1>4 DEF Process
<1>5. CASE Write(w)
  BY <1>5 DEF Write
<1>6. CASE Poll(w)
  BY <1>6 DEF Poll, Transfer
<1>. QED
  BY <1>1, <1>2, <1>3, <1>4, <1>5, <1>6 DEF Render

LEMMA SpecIInv == Spec => []IInv
<1>1. IInv /\ UNCHANGED vars => IInv'
  BY DEF IInv, TypeOK, Unmade, Recorded, Known, Buffers, ThreadsBeforeRelease,
         OneAudioThread, vars, control, devices, inputs, renders
<1>2. IInv /\ [Next]_vars => IInv'
  BY <1>1, ControlKeepsIInv, InputKeepsIInv, RenderKeepsIInv DEF Next
<1>. QED
  BY <1>2, InitIInv, PTL DEF Spec

(* Every field keeps its type, through any number of restarts.              *)
THEOREM PipelineTypes == Spec => []TypeOK
BY SpecIInv, PTL DEF IInv

(* The microphone never writes into the buffer that process reads.          *)
THEOREM BuffersAreDisjoint == Spec => []NoBufferSharing
<1>1. IInv => NoBufferSharing
  BY DEF IInv, Buffers, NoBufferSharing
<1>. QED
  BY <1>1, SpecIInv, PTL

(* No device is released under a live thread.                               *)
THEOREM RestartIsSafe == Spec => []ThreadsBeforeRelease
BY SpecIInv, PTL DEF IInv

(* One audio thread at most is live, across every restart.                  *)
THEOREM OneThreadProcesses == Spec => []OneAudioThread
BY SpecIInv, PTL DEF IInv

-----------------------------------------------------------------------------
(* Outside of initAudio's own steps the audio thread of the wrapper PdAudio *)
(* holds has been started, so that it is live or isRunning is FALSE because *)
(* it has ended; every other input thread was left behind by such an end.   *)
Abandoned(w) == audioThread[w] /\ auPc[w] = "done"

Attended ==
  /\ \A w \in Wrappers : inPc[w] \in InLive => w = audioWrapper \/ Abandoned(w)
  /\ audioWrapper # NoWrapper /\ pc \in {"idle", "stopInput", "joinInput", "stopAudio", "joinAudio"}
       => audioThread[audioWrapper] /\ auPc[audioWrapper] # "new"
  /\ pc = "open" /\ audioWrapper # NoWrapper => Abandoned(audioWrapper)
  /\ pc = "idle" /\ op = "stop" /\ audioWrapper # NoWrapper => Abandoned(audioWrapper)

LEMMA InitAttended == Init => Attended
BY DEF Init, Attended, Abandoned, Wrappers, InLive, AuLive, NoWrapper

LEMMA ControlKeepsAttended == IInv /\ Attended /\ Control => Attended'
<1>. SUFFICES ASSUME IInv, Attended, Control PROVE Attended'
  OBVIOUS
<1>. USE DEF Abandoned, Wrappers, NoWrapper, InLive, AuLive, control, devices, inputs, renders
<1>1. ASSUME NEW o \in {"start", "stop"}, Begin(o) PROVE Attended'
  BY <1>1 DEF Attended, IInv, TypeOK, Known, Unmade, OneAudioThread, Begin, FirstStep, AfterStop, IsRunning
<1>2. ASSUME StopInput PROVE Attended'
  BY <1>2 DEF Attended, IInv, TypeOK, Known, Unmade, OneAudioThread, StopInput, Interrupt
<1>3. ASSUME JoinInput PROVE Attended'
  BY <1>3 DEF Attended, IInv, TypeOK, Known, Unmade, OneAudioThread, JoinInput, Joins
<1>4. ASSUME StopAudio PROVE Attended'
  BY <1>4 DEF Attended, IInv, TypeOK, Known, Unmade, OneAudioThread, StopAudio, Interrupt
<1>5. ASSUME JoinAudio PROVE Attended'
  BY <1>5 DEF Attended, IInv, TypeOK, Known, Unmade, OneAudioThread, JoinAudio, Joins
<1>6. ASSUME Release PROVE Attended'
  BY <1>6 DEF Attended, IInv, TypeOK, Known, Unmade, OneAudioThread, Release, AfterStop
<1>7. ASSUME Open PROVE Attended'
  BY <1>7 DEF Attended, IInv, TypeOK, Known, Unmade, OneAudioThread, Open
<1>8. ASSUME OpenFails PROVE Attended'
  BY <1>8 DEF Attended, IInv, TypeOK, Known, Unmade, OneAudioThread, OpenFails
<1>9. ASSUME StartInput PROVE Attended'
  BY <1>9 DEF Attended, IInv, TypeOK, Known, Unmade, OneAudioThread, StartInput
<1>10. ASSUME StartAudio PROVE Attended'
  BY <1>10 DEF Attended, IInv, TypeOK, Known, Unmade, OneAudioThread, StartAudio
<1>. QED
  BY <1>1, <1>2, <1>3, <1>4, <1>5, <1>6, <1>7, <1>8, <1>9, <1>10 DEF Control

LEMMA InputKeepsAttended ==
  ASSUME IInv, Attended, NEW w \in Wrappers, Input(w) PROVE Attended'
BY DEF Attended, Abandoned, IInv, TypeOK, InLive, control, devices, renders, Input, InputMoves,
       InputEnds, Test, Read, Swap

LEMMA RenderKeepsAttended ==
  ASSUME IInv, Attended, NEW w \in Wrappers, Render(w)
  PROVE  Attended'
<1>. USE DEF Attended, Abandoned, IInv, TypeOK, InLive, AuLive, NoWrapper, OneAudioThread,
             control, devices, inputs, renders, RenderMoves
<1>1. CASE RenderEnds(w)
  BY <1>1 DEF RenderEnds
<1>2. CASE Take(w) \/ Poll(w)
  BY <1>2 DEF Take, Poll, Transfer
<1>3. CASE Enter(w) \/ Process(w) \/ Write(w)
  BY <1>3 DEF Enter, Process, Write
<1>. QED
  BY <1>1, <1>2, <1>3 DEF Render

(* stopAudio leaves no thread but those abandoned by a failed process.      *)
THEOREM StopIsComplete == Spec => []StopLeavesOnlyFailed
<1>1. Attended /\ UNCHANGED vars => Attended'
  BY DEF Attended, Abandoned, vars, control, devices, inputs, renders
<1>2. IInv /\ Attended /\ [Next]_vars => Attended'
  BY <1>1, ControlKeepsAttended, InputKeepsAttended, RenderKeepsAttended DEF Next
<1>3. IInv /\ Attended => StopLeavesOnlyFailed
  BY DEF IInv, Attended, Abandoned, StopLeavesOnlyFailed, OneAudioThread, Wrappers, NoWrapper, AuLive
<1>. QED
  BY <1>2, <1>3, SpecIInv, InitAttended, PTL DEF Spec
-----------------------------------------------------------------------------
(* A thread that stopAudio waits for has been interrupted.  Neither thread  *)
(* loses the interrupt before it has ended, in whatever position it was     *)
(* reached: that is why no join waits for a thread nobody told to end.      *)
JoinedIsTold ==
  /\ pc = "joinInput" => inInterrupted[audioWrapper] \/ inPc[audioWrapper] = "done"
  /\ pc = "joinAudio" => auInterrupted[audioWrapper] \/ auPc[audioWrapper] = "done"

LEMMA JoinedIsToldStep == IInv /\ JoinedIsTold /\ [Next]_vars => JoinedIsTold'
<1>. SUFFICES ASSUME IInv, JoinedIsTold, [Next]_vars PROVE JoinedIsTold'
  OBVIOUS
<1>. USE DEF JoinedIsTold, control, devices, inputs, renders
<1>1. pc \in {"stopInput", "stopAudio", "joinInput", "joinAudio"} => audioWrapper \in Wrappers
  BY DEF IInv, TypeOK, Known, Wrappers, NoWrapper
<1>2. CASE StopInput \/ StopAudio
  BY <1>1, <1>2 DEF StopInput, StopAudio, Interrupt, IInv, TypeOK
<1>3. ASSUME NEW o \in {"start", "stop"}, Begin(o) PROVE JoinedIsTold'
  BY <1>3 DEF Begin, FirstStep, AfterStop
<1>4. CASE JoinInput \/ JoinAudio \/ Release \/ Open \/ OpenFails \/ StartInput \/ StartAudio
  BY <1>4 DEF JoinInput, JoinAudio, Release, AfterStop, Open, OpenFails, StartInput, StartAudio
<1>5. ASSUME NEW w \in Wrappers, Input(w) PROVE JoinedIsTold'
  BY <1>1, <1>5 DEF IInv, TypeOK, Input, InputEnds, InputMoves, Test, Read, Swap
<1>6. ASSUME NEW w \in Wrappers, Render(w) PROVE JoinedIsTold'
  BY <1>1, <1>6 DEF IInv, TypeOK, Render, RenderMoves, RenderEnds, Take, Enter, Process,
                    Write, Poll, Transfer
<1>7. CASE UNCHANGED vars
  BY <1>7 DEF vars
<1>. QED
  BY <1>2, <1>3, <1>4, <1>5, <1>6, <1>7 DEF Next, Control

LEMMA SpecJoinedIsTold == Spec => []JoinedIsTold
<1>1. Init => JoinedIsTold
  BY DEF Init, JoinedIsTold
<1>. QED
  BY <1>1, JoinedIsToldStep, SpecIInv, PTL DEF Spec

(* No join waits for a thread that has not been interrupted.                *)
THEOREM JoinedThreadsAreTold == Spec => []JoinedIsTold
BY SpecJoinedIsTold

(* How far an interrupted thread may be from its end, in steps. *)
InputAhead(position) ==
  CASE position = "read" -> 4 [] position = "put" -> 3 [] position = "swap" -> 2
    [] position = "test" -> 1 [] OTHER -> 0

AudioAhead(position) ==
  CASE position = "process" -> 4 [] position = "write" -> 3
    [] position \in {"poll", "take"} -> 2 [] position = "test" -> 1 [] OTHER -> 0

(* Each step that a thread takes while it is joined, by itself or with the  *)
(* other one through the SynchronousQueue, brings it nearer to its end.     *)
JoinedHeadsForEnd ==
  [][\A w \in Wrappers : w = audioWrapper =>
       /\ pc = "joinInput" /\ inPc'[w] # inPc[w] => InputAhead(inPc'[w]) < InputAhead(inPc[w])
       /\ pc = "joinAudio" /\ auPc'[w] # auPc[w] => AudioAhead(auPc'[w]) < AudioAhead(auPc[w])]_vars

(* No join waits for a thread that goes round its loop: after at most four  *)
(* steps of its own the thread has ended.                                   *)
THEOREM JoinedThreadsEnd == Spec => JoinedHeadsForEnd
<1>. DEFINE Nearer ==
       \A w \in Wrappers : w = audioWrapper =>
         /\ pc = "joinInput" /\ inPc'[w] # inPc[w] => InputAhead(inPc'[w]) < InputAhead(inPc[w])
         /\ pc = "joinAudio" /\ auPc'[w] # auPc[w] => AudioAhead(auPc'[w]) < AudioAhead(auPc[w])
<1>1. ASSUME IInv, JoinedIsTold, [Next]_vars PROVE [Nearer]_vars
  <2>. SUFFICES ASSUME NEW w \in Wrappers, w = audioWrapper, pc \in {"joinInput", "joinAudio"}
       PROVE
         /\ pc = "joinInput" /\ inPc'[w] # inPc[w] => InputAhead(inPc'[w]) < InputAhead(inPc[w])
         /\ pc = "joinAudio" /\ auPc'[w] # auPc[w] => AudioAhead(auPc'[w]) < AudioAhead(auPc[w])
    OBVIOUS
  <2>. USE <1>1 DEF control, devices, inputs, renders
  <2>1. CASE Control \/ UNCHANGED vars
    <3>1. UNCHANGED <<inPc, auPc>>
      BY <2>1 DEF Control, Begin, StopInput, JoinInput, StopAudio, JoinAudio, Release, Open,
                  OpenFails, StartInput, StartAudio, vars
    <3>. QED
      BY <3>1
  <2>2. ASSUME NEW v \in Wrappers, Input(v)
        PROVE  /\ UNCHANGED auPc
               /\ pc = "joinInput" /\ inPc'[w] # inPc[w] =>
                    \/ inPc[w] \in {"test", "read", "put"} /\ inPc'[w] = "done"
                    \/ inPc[w] = "read" /\ inPc'[w] = "put"
                    \/ inPc[w] = "swap" /\ inPc'[w] = "test"
    BY <2>2 DEF IInv, TypeOK, JoinedIsTold, Input, InputEnds, InputMoves, Test, Read, Swap
  <2>3. ASSUME NEW v \in Wrappers, Render(v)
        PROVE  /\ inPc'[w] # inPc[w] => inPc[w] = "put" /\ inPc'[w] = "swap"
               /\ pc = "joinAudio" /\ auPc'[w] # auPc[w] =>
                    \/ auPc[w] \in {"take", "test", "process"} /\ auPc'[w] = "done"
                    \/ auPc[w] \in {"take", "poll"} /\ auPc'[w] = "test"
                    \/ auPc[w] = "process" /\ auPc'[w] = "write"
                    \/ auPc[w] = "write" /\ auPc'[w] = "poll"
    BY <2>3 DEF IInv, TypeOK, JoinedIsTold, Render, RenderMoves, RenderEnds, Take, Enter,
                Process, Write, Poll, Transfer
  <2>. QED
    BY <2>1, <2>2, <2>3 DEF Next, InputAhead, AudioAhead
<1>. QED
  BY <1>1, SpecIInv, SpecJoinedIsTold, PTL DEF Spec, JoinedHeadsForEnd
=============================================================================
