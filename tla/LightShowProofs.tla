--------------------------- MODULE LightShowProofs ---------------------------
(***************************************************************************)
(* Safety of an activity for any set of tempos and any number of tasks.    *)
(***************************************************************************)
EXTENDS LightShow, SequenceTheorems, FiniteSetTheorems, TLAPS

(* Rounded division of naturals. *)
LEMMA QuotientIsNatural ==
  ASSUME NEW a \in Nat, NEW d \in Nat \ {0} PROVE a \div d \in Nat
OBVIOUS

LEMMA TimewaitType == ASSUME NEW x \in Int PROVE Timewait(x) \in Int
<1>1. CASE x > 0
  BY <1>1, QuotientIsNatural, 7200000 + x \in Nat, 2 * x \in Nat \ {0} DEF Timewait
<1>2. CASE x = 0
  BY <1>2 DEF Timewait
<1>3. CASE x < 0
  BY <1>3, QuotientIsNatural, 7200000 - x \in Nat, 2 * (-x) \in Nat \ {0}
  DEF Timewait
<1>. QED
  BY <1>1, <1>2, <1>3

(* A task that read a tempo which is not negative sleeps for a time which   *)
(* is not negative.                                                         *)
LEMMA TimewaitNotNegative == ASSUME NEW x \in Nat PROVE Timewait(x) \in Nat
<1>1. CASE x > 0
  BY <1>1, QuotientIsNatural, 7200000 + x \in Nat, 2 * x \in Nat \ {0} DEF Timewait
<1>2. CASE x = 0
  BY <1>2 DEF Timewait
<1>. QED
  BY <1>1, <1>2

LEMMA CorrType == ASSUME NEW x \in Int PROVE statisticalCorr(x) \in Int
<1>. DEFINE v == x \div 60
<1>1. v \in Int
  OBVIOUS
<1>. HIDE DEF v
<1>2. v * (120 - v) \in Int /\ v * v \in Int
  BY <1>1
<1>. QED
  BY <1>2 DEF statisticalCorr, v

(* statisticalCorr keeps a reported tempo positive: corrTermLow is only     *)
(* applied far below 120, where it changes sign.                            *)
LEMMA CorrNotNegative == ASSUME NEW v \in Nat \ {0} PROVE statisticalCorr(60 * v) \in Nat
<1>1. (60 * v) \div 60 = v
  OBVIOUS
<1>2. CASE v < 110
  <2>1. 120 - v \in Nat
    BY <1>2
  <2>2. v * (120 - v) \in Nat
    BY <2>1
  <2>. QED
    BY <1>1, <1>2, <2>2 DEF statisticalCorr
<1>3. CASE v >= 110
  BY <1>1, <1>3, v * v \in Nat DEF statisticalCorr
<1>. QED
  BY <1>2, <1>3

-----------------------------------------------------------------------------
(* Until a StartSong list is sent, everything on the way from a report to a *)
(* sleeping task is positive, at each of the steps the threads interleave.  *)
Positive ==
  ~heardSong =>
    /\ queue \in Seq(Tempos)
    /\ tempo \in Nat
    /\ ui = "correct" => \E v \in Tempos : tempo = 60 * v
    /\ \A t \in Tasks : timewait[t] \in Nat

IInv == TypeOK /\ NoLostRestart /\ Positive /\ CrashHasCause

LEMMA InitIInv == Init => IInv
<1>. SUFFICES ASSUME Init PROVE IInv
  OBVIOUS
<1>1. queue \in Seq(Tempos \union {-1}) /\ queue \in Seq(Tempos)
  BY EmptySeq DEF Init
<1>2. sent = NotSent /\ phase = "ignoring"
  BY DEF Init, ProtocolInit
<1>3. ProtocolTypeOK
  BY <1>2 DEF ProtocolTypeOK
<1>4. /\ task \in [Tasks -> {"none", "check", "read", "sleep"}]
      /\ timewait \in [Tasks -> Int] /\ \A t \in Tasks : timewait[t] \in Nat
  BY DEF Init
<1>5. /\ corrects \in BOOLEAN /\ audio \in BOOLEAN /\ bound \in BOOLEAN
      /\ bridge \in BOOLEAN /\ heardSong \in BOOLEAN
  BY DEF Init
<1>6. app = "running" /\ ui = "free" /\ tempo = 0 /\ checkstop = 1
  BY DEF Init
<1>7. TypeOK
  BY <1>1, <1>3, <1>4, <1>5, <1>6 DEF TypeOK
<1>. QED
  BY <1>1, <1>2, <1>4, <1>6, <1>7 DEF IInv, NoLostRestart, Positive, CrashHasCause

(* The end of the process, whatever ends it. *)
LEMMA EndsKeepsIInv ==
  ASSUME IInv, NEW how \in {"crashed", "exited"}, Ends(how),
         how = "crashed" => ~bound \/ ~bridge \/ heardSong
  PROVE  IInv'
<1>1. queue' \in Seq(Tempos \union {-1}) /\ queue' \in Seq(Tempos)
  BY EmptySeq DEF Ends
<1>2. TypeOK'
  BY <1>1 DEF Ends, IInv, TypeOK, ProtocolTypeOK, pvars
<1>3. Positive'
  BY <1>1 DEF Ends, IInv, Positive
<1>. QED
  BY <1>2, <1>3 DEF Ends, IInv, NoLostRestart, CrashHasCause

LEMMA ReceiveKeepsIInv == IInv /\ receiveList => IInv'
<1>. SUFFICES ASSUME IInv, receiveList PROVE IInv'
  OBVIOUS
<1>. USE TemposAssumption
<1>1. \/ SendReport /\ sent' \in Report /\ sent'[1] \in Tempos /\ sent' # StartSong
      \/ SendStartSong /\ sent' = StartSong /\ sent'[1] = -1
  BY DEF receiveList, SendReport, SendStartSong, Report, StartSong
<1>2. queue' \in Seq(Tempos \union {-1}) /\ queue' # <<>>
  BY <1>1, AppendProperties DEF IInv, TypeOK, receiveList, ListTempo
<1>3. TypeOK'
  BY <1>1, <1>2 DEF IInv, TypeOK, ProtocolTypeOK, receiveList, SendReport, SendStartSong
<1>4. ~heardSong' => queue' \in Seq(Tempos)
  BY <1>1, AppendProperties DEF IInv, Positive, receiveList, ListTempo
<1>5. Positive'
  BY <1>4 DEF IInv, Positive, receiveList
<1>. QED
  BY <1>2, <1>3, <1>5 DEF IInv, NoLostRestart, CrashHasCause, receiveList

-----------------------------------------------------------------------------
LEMMA UIKeepsIInv == IInv /\ UI => IInv'
<1>. SUFFICES ASSUME IInv, UI PROVE IInv'
  OBVIOUS
<1>. USE DEF UIMoves, pvars
<1>1. CASE ServiceConnected \/ GetTempo \/ Go \/ Stop \/ Silence \/ Destroy
  <2>1. TypeOK'
    BY <1>1 DEF ServiceConnected, GetTempo, Go, Stop, Silence, Destroy, IInv, TypeOK,
                ProtocolTypeOK
  <2>2. NoLostRestart' /\ Positive' /\ CrashHasCause'
    BY <1>1 DEF ServiceConnected, GetTempo, Go, Stop, Silence, Destroy,
                IInv, NoLostRestart, Positive, CrashHasCause
  <2>. QED
    BY <2>1, <2>2 DEF IInv
<1>2. CASE GetTempoUnbound
  BY <1>2, EndsKeepsIInv DEF GetTempoUnbound
<1>3. CASE Exit
  BY <1>3, EndsKeepsIInv DEF Exit
<1>4. CASE Detect \/ RestartDetection
  <2>1. TypeOK'
    BY <1>4 DEF Detect, RestartDetection, NewDetection, Restart, IInv, TypeOK, ProtocolTypeOK
  <2>2. NoLostRestart' /\ Positive' /\ CrashHasCause'
    BY <1>4 DEF Detect, RestartDetection, NewDetection, Restart,
                IInv, NoLostRestart, Positive, CrashHasCause
  <2>. QED
    BY <2>1, <2>2 DEF IInv
<1>5. CASE SetTempo
  <2>1. Head(queue) \in Tempos \union {-1} /\ queue' \in Seq(Tempos \union {-1})
    BY <1>5, HeadTailProperties DEF SetTempo, IInv, TypeOK
  <2>2. ~heardSong => Head(queue) \in Tempos /\ queue' \in Seq(Tempos)
    BY <1>5, HeadTailProperties DEF SetTempo, IInv, Positive
  <2>3. TypeOK'
    BY <1>5, <2>1, TemposAssumption DEF SetTempo, IInv, TypeOK, ProtocolTypeOK
  <2>4. ~heardSong => tempo' \in Nat /\ \E v \in Tempos : tempo' = 60 * v
    <3>1. tempo' = 60 * Head(queue)
      BY <1>5 DEF SetTempo
    <3>2. ~heardSong => \E v \in Tempos : tempo' = 60 * v
      BY <2>2, <3>1, Zenon
    <3>. QED
      BY <3>2, TemposAssumption
  <2>5. Positive'
    BY <1>5, <2>2, <2>4 DEF SetTempo, IInv, Positive
  <2>. QED
    BY <1>5, <2>3, <2>5 DEF SetTempo, IInv, NoLostRestart, CrashHasCause
<1>6. CASE Correct
  <2>1. tempo' \in Int
    BY <1>6, CorrType DEF Correct, IInv, TypeOK
  <2>2. ~heardSong => tempo' \in Nat
    BY <1>6, CorrNotNegative, TemposAssumption DEF Correct, IInv, Positive
  <2>. QED
    BY <1>6, <2>1, <2>2 DEF Correct, IInv, TypeOK, ProtocolTypeOK, NoLostRestart,
                            Positive, CrashHasCause
<1>7. CASE Spawn
  BY <1>7 DEF Spawn, IInv, TypeOK, ProtocolTypeOK, NoLostRestart, Positive,
              CrashHasCause
<1>. QED
  BY <1>1, <1>2, <1>3, <1>4, <1>5, <1>6, <1>7 DEF UI, Handles

LEMMA TaskKeepsIInv == ASSUME IInv, NEW t \in Tasks, Task(t) PROVE IInv'
<1>. USE DEF pvars
<1>1. CASE Check(t) \/ Sleep(t)
  BY <1>1 DEF Check, Sleep, IInv, TypeOK, ProtocolTypeOK, NoLostRestart, Positive,
              CrashHasCause
<1>2. CASE Light(t)
  <2>1. Timewait(tempo) \in Int /\ (~heardSong => Timewait(tempo) \in Nat)
    BY TimewaitType, TimewaitNotNegative DEF IInv, TypeOK, Positive
  <2>. QED
    BY <1>2, <2>1 DEF Light, IInv, TypeOK, ProtocolTypeOK, NoLostRestart, Positive,
                      CrashHasCause
<1>3. CASE LightNoBridge(t)
  BY <1>3, EndsKeepsIInv DEF LightNoBridge
<1>4. CASE SleepNegative(t)
  <2>1. heardSong
    BY <1>4 DEF SleepNegative, IInv, TypeOK, Positive
  <2>. QED
    BY <1>4, <2>1, EndsKeepsIInv DEF SleepNegative
<1>. QED
  BY <1>1, <1>2, <1>3, <1>4 DEF Task

LEMMA BridgeKeepsIInv == IInv /\ BridgeChanges => IInv'
BY DEF BridgeChanges, pvars, IInv, TypeOK, ProtocolTypeOK, NoLostRestart, Positive, CrashHasCause

LEMMA SpecIInv == Spec => []IInv
<1>1. IInv /\ UNCHANGED vars => IInv'
  BY DEF IInv, TypeOK, ProtocolTypeOK, NoLostRestart, Positive, CrashHasCause, vars
<1>2. IInv /\ [Next]_vars => IInv'
  BY <1>1, ReceiveKeepsIInv, UIKeepsIInv, TaskKeepsIInv, BridgeKeepsIInv DEF Next
<1>. QED
  BY <1>2, InitIInv, PTL DEF Spec

(* Every field keeps its type. *)
THEOREM ShowTypes == Spec => []TypeOK
BY SpecIInv, PTL DEF IInv

(* The runnable that restarts the detection is never lost.                  *)
THEOREM RestartIsNeverLost == Spec => []NoLostRestart
BY SpecIInv, PTL DEF IInv

(* Once the service is bound and as long as a bridge is selected, the       *)
(* application does not crash without a StartSong list: no task ever sleeps *)
(* for a negative time.                                                     *)
THEOREM OnlyStartSongCrashes == Spec => []CrashHasCause
BY SpecIInv, PTL DEF IInv
-----------------------------------------------------------------------------
(* The show leaves the detector alone but for restarting it, whatever its   *)
(* threads do and however the process ends.                                 *)
LEMMA StepKeepsProtocol == [Next]_vars => [ProtocolNext]_pvars
<1>. SUFFICES ASSUME [Next]_vars PROVE ProtocolNext \/ UNCHANGED pvars
  OBVIOUS
<1>. USE DEF pvars, ProtocolNext
<1>1. CASE receiveList
  BY <1>1 DEF receiveList
<1>2. CASE Detect \/ RestartDetection
  BY <1>2 DEF Detect, RestartDetection, NewDetection
<1>3. CASE \/ ServiceConnected \/ GetTempo \/ Go \/ Stop \/ Silence \/ SetTempo \/ Correct \/ Spawn
           \/ Destroy \/ BridgeChanges
  BY <1>3 DEF ServiceConnected, GetTempo, Go, Stop, Silence, SetTempo, Correct, Spawn, Destroy,
              BridgeChanges
<1>4. CASE GetTempoUnbound \/ Exit
  BY <1>4 DEF GetTempoUnbound, Exit, Ends
<1>5. ASSUME NEW t \in Tasks, Task(t) PROVE UNCHANGED pvars
  BY <1>5 DEF Task, Check, Light, LightNoBridge, Sleep, SleepNegative, Ends
<1>6. CASE UNCHANGED vars
  BY <1>6 DEF vars
<1>. QED
  BY <1>1, <1>2, <1>3, <1>4, <1>5, <1>6 DEF Next, UI, Handles

(* What the show assumes of the external is DetectorProtocol, all of it and *)
(* no more: composed with the audio thread, the buttons and the tasks, the  *)
(* detector still takes only the steps BeatDetector implements.             *)
THEOREM ShowUsesProtocol == Spec => ProtocolSpec
<1>1. Init => ProtocolInit
  BY DEF Init
<1>. QED
  BY <1>1, StepKeepsProtocol, PTL DEF Spec, ProtocolSpec
-----------------------------------------------------------------------------
(* The work on its way to the bulbs: lists posted, a runnable under way and *)
(* tasks alive.                                                             *)
Alive == {t \in Tasks : task[t] # "none"}

Load == Len(queue) + Cardinality(Alive) + (IF Pending THEN 1 ELSE 0)

LEMMA AliveIsFinite == IsFiniteSet(Alive) /\ Cardinality(Alive) \in Nat
<1>1. Alive \subseteq Tasks
  BY DEF Alive
<1>. QED
  BY <1>1, LightShowAssumption, FS_Subset, FS_CardinalityType

LEMMA AliveIsFiniteNext == Cardinality(Alive') \in Nat
<1>1. Alive' \subseteq Tasks
  BY DEF Alive
<1>. QED
  BY <1>1, LightShowAssumption, FS_Subset, FS_CardinalityType

(* Only a list adds work, and only where there is room for its task.        *)
LEMMA LoadStep ==
  ASSUME IInv, IInv', [Next]_vars
  PROVE  /\ Load \in Nat /\ Load' \in Nat
         /\ \/ Load' <= Load
            \/ audio /\ Load < Cardinality(Tasks) /\ Load' = Load + 1
<1>0. /\ Len(queue) \in Nat /\ Len(queue') \in Nat /\ task \in [Tasks -> {"none", "check", "read", "sleep"}]
  BY LenProperties DEF IInv, TypeOK
<1>1. Load \in Nat /\ Load' \in Nat
  BY <1>0, AliveIsFinite, AliveIsFiniteNext DEF Load
<1>2. ASSUME UNCHANGED queue, Alive' \subseteq Alive, Pending' => Pending
      PROVE  Load' <= Load
  <2>1. Cardinality(Alive') <= Cardinality(Alive)
    BY <1>2, AliveIsFinite, FS_Subset
  <2>. QED
    BY <1>0, <1>2, <2>1, AliveIsFinite, AliveIsFiniteNext DEF Load
<1>3. ASSUME UNCHANGED task PROVE Alive' = Alive
  BY <1>3 DEF Alive
<1>4. CASE receiveList
  <2>1. Len(queue') = Len(queue) + 1
    BY <1>4, AppendProperties, TemposAssumption
    DEF receiveList, SendReport, SendStartSong, Report, StartSong, ListTempo, IInv, TypeOK
  <2>2. Alive' = Alive /\ Pending' = Pending /\ audio /\ Load < Cardinality(Tasks)
    BY <1>3, <1>4 DEF receiveList, Pending, Room, Load, Alive
  <2>. QED
    BY <1>0, <1>1, <2>1, <2>2, AliveIsFinite DEF Load
<1>5. CASE SetTempo
  <2>1. Len(queue') = Len(queue) - 1
    BY <1>5, HeadTailProperties DEF SetTempo, IInv, TypeOK
  <2>2. Alive' = Alive /\ ~Pending /\ Pending'
    BY <1>3, <1>5 DEF SetTempo, UIMoves, Pending
  <2>. QED
    BY <1>0, <1>1, <2>1, <2>2, AliveIsFinite DEF Load
<1>6. CASE Spawn
  <2>1. PICK t \in Tasks : task[t] = "none" /\ task' = [task EXCEPT ![t] = "check"]
    BY <1>6 DEF Spawn
  <2>2. t \notin Alive /\ Alive' = Alive \union {t}
    BY <1>0, <2>1 DEF Alive
  <2>3. Cardinality(Alive') = Cardinality(Alive) + 1
    BY <2>2, AliveIsFinite, FS_AddElement
  <2>4. Pending /\ ~Pending' /\ UNCHANGED queue
    BY <1>6 DEF Spawn, UIMoves, Pending
  <2>. QED
    BY <1>0, <1>1, <2>3, <2>4, AliveIsFinite DEF Load
<1>7. CASE \/ ServiceConnected \/ GetTempo \/ Detect \/ Go \/ Stop \/ Silence \/ Correct
           \/ RestartDetection \/ Destroy \/ BridgeChanges
  <2>1. UNCHANGED <<queue, task>> /\ (Pending' => Pending)
    BY <1>7 DEF ServiceConnected, GetTempo, Detect, Go, Stop, Silence, Correct,
                RestartDetection, Destroy, BridgeChanges, UIMoves, Pending
  <2>. QED
    BY <1>1, <1>2, <1>3, <2>1
<1>8. ASSUME NEW how, Ends(how) PROVE Load' <= Load
  <2>1. Alive' = {} /\ queue' = <<>> /\ ~Pending'
    BY <1>8 DEF Ends, Alive, Pending
  <2>2. Load' = 0
    BY <2>1, FS_EmptySet DEF Load
  <2>. QED
    BY <1>1, <2>2
<1>9. ASSUME NEW t \in Tasks, Check(t) \/ Light(t) \/ Sleep(t) PROVE Load' <= Load
  <2>1. UNCHANGED <<queue, ui>> /\ Alive' \subseteq Alive
    BY <1>0, <1>9 DEF Check, Light, Sleep, Alive
  <2>. QED
    BY <1>2, <2>1 DEF Pending
<1>10. CASE UNCHANGED vars
  BY <1>1, <1>2, <1>3, <1>10 DEF vars, Pending
<1>. QED
  BY <1>1, <1>4, <1>5, <1>6, <1>7, <1>8, <1>9, <1>10
  DEF Next, UI, Handles, GetTempoUnbound, Exit, Task, LightNoBridge, SleepNegative

(* There is always a task for the runnable under way: the bound on tasks    *)
(* holds back the lists, never the UI thread in the middle of a handler.    *)
SpawnFindsTask == ui = "spawn" => \E t \in Tasks : task[t] = "none"

THEOREM SpawnsAreServed == Spec => []SpawnFindsTask
<1>. DEFINE Fits == Load <= Cardinality(Tasks)
<1>. Cardinality(Tasks) \in Nat
  BY LightShowAssumption, FS_CardinalityType
<1>1. ASSUME Init PROVE Fits
  <2>1. Alive = {} /\ queue = <<>> /\ ~Pending
    BY <1>1 DEF Init, Alive, Pending
  <2>. QED
    BY <2>1, FS_EmptySet DEF Load
<1>2. ASSUME IInv, IInv', Fits, [Next]_vars PROVE Fits'
  BY <1>2, LoadStep
<1>3. ASSUME IInv, Fits PROVE SpawnFindsTask
  <2>. SUFFICES ASSUME ui = "spawn", \A t \in Tasks : task[t] # "none" PROVE FALSE
    BY DEF SpawnFindsTask
  <2>1. Alive = Tasks /\ Pending
    BY DEF Alive, Pending
  <2>2. Len(queue) \in Nat
    BY <1>3, LenProperties DEF IInv, TypeOK
  <2>. QED
    BY <1>3, <2>1, <2>2 DEF Load
<1>. QED
  BY <1>1, <1>2, <1>3, SpecIInv, PTL DEF Spec

(* While the audio is stopped, nothing adds to the work there is: what Stop *)
(* leaves behind are the lists already posted, a task for each, and no more.*)
WorkDrains == [][~audio => Load' <= Load]_vars

THEOREM SilenceAddsNothing == Spec => WorkDrains
<1>1. ASSUME IInv, IInv', [Next]_vars PROVE [~audio => Load' <= Load]_vars
  BY <1>1, LoadStep
<1>. QED
  BY <1>1, SpecIInv, PTL DEF Spec, WorkDrains
=============================================================================
