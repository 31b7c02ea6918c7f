---------------------------- MODULE BeatDetector ----------------------------
(***************************************************************************)
(* The pdbeatdetection external (Discoteque/jni/pdbeatdetection.c): a      *)
(* state machine fed one float per detected onset.  Two estimators run on  *)
(* the same onsets: clustering of the last inter-onset intervals, and an   *)
(* autocorrelation over a short window of onsets.  A tempo is reported     *)
(* when they agree up to an octave.                                        *)
(*                                                                         *)
(* The signal processing is a choice: qtClustering finds no consistent     *)
(* clusters or some tempo of ClusterTempos; combBank yields some element   *)
(* of AutoResults.  Every counter, index, guard and reset is the code's.   *)
(* Times are in milliseconds and relative: sinceLast and sinceStart are    *)
(* the age of lastTime and of timeStart at the last onset; both are kept   *)
(* in a t_float, so that each is off by what its rounding loses.           *)
(***************************************************************************)
EXTENDS Integers, Sequences, FiniteSets

CONSTANTS
  IntervalsSize,      \* slots of onsetIntervals and of intensity (11)
  OnsetTimesSize,     \* what onsetTimesSize is made to hold (11)
  TemposSize,         \* slots of autoCorrTempos and of autoCorrStyles (3)
  OiSaveSize,         \* slots of oiSave (6)
  TdOnsetsSize,       \* slots of tdOnsets, one per millisecond (1500)
  ScratchSize,        \* words of the four arrays before onsetTimesSize (3200)
  Ulp,                \* spacing of the t_float milliseconds the clock shows
  MissLimit,          \* consecutive clustering failures tolerated (6)
  OnsetCap,           \* bound: onsetCountC saturates here
  Gaps,               \* milliseconds between two onsets
  Volumes,            \* intensities of an onset
  ClusterTempos,      \* tempos qtClustering can settle on, in bpm
  AutoResults         \* <<tempoA, styleA>> combBank can settle on

ASSUME DetectorAssumption ==
  /\ IntervalsSize \in Nat \ {0} /\ OnsetTimesSize \in Nat \ {0, 1, 2}
  /\ TemposSize \in Nat \ {0} /\ OiSaveSize \in Nat \ {0}
  /\ TdOnsetsSize \in Nat \ {0, 1} /\ Ulp \in Nat \ {0}
  /\ 2 * Ulp < TdOnsetsSize
  /\ ScratchSize \in Nat
  /\ MissLimit \in Nat /\ OnsetCap \in Nat
  /\ Gaps \subseteq Nat /\ Volumes \subseteq Nat
  /\ ClusterTempos \subseteq Nat \ {0}
  /\ AutoResults \subseteq (Nat \ {0}) \X {0, 1}

Threshold == 80    \* an onset closer than this to the last is not an interval
Tolerance == 8     \* bpm, compareClusterToAuto
NoTempo   == -1    \* lastTempo before the first setTempo of a detection
NotSent   == <<0, 0>>
StartSong == <<-1, -1>>

Slots   == 0 .. TemposSize - 1
OiSlots == 0 .. OiSaveSize - 1

VARIABLES
  start,              \* -1 ignore, 0 first onset, 1 window open, 2 reported
  sinceLast, sinceStart,
  onsetCountA,        \* onsets in the autocorrelation window
  lastOffset,         \* latest onset of the window, ms after timeStart
  onsetTimesSize, tdOnsetsSize,
  onsetCountC, clusterMissFires, qtReturn, lastTempo,
  autoCorrTempos, autoCorrStyles, autoCorrTemposI, autoCorrTemposSize,
  oiSave, oiSaveCount, oiSaveAvg,
  sent,               \* last list sent on x_outlist; tempo in quarter bpm
  (* History: not in the code. *)
  reports,            \* tempo lists sent since newDetection
  fits,               \* setTempo calls since newDetection, at most 2
  overran,            \* some newDetection cleared past onsetTimesSize
  log,                \* results of the last TemposSize autoCorrAnalyze
  analyses            \* autoCorrAnalyze since newDetection, at most TemposSize

clusterVars == <<onsetCountC, clusterMissFires, qtReturn, lastTempo>>
autoVars    == <<autoCorrTempos, autoCorrStyles, autoCorrTemposI,
                 autoCorrTemposSize>>
oiVars      == <<oiSave, oiSaveCount, oiSaveAvg>>
windowVars  == <<sinceLast, sinceStart, onsetCountA, lastOffset>>
sizes       == <<onsetTimesSize, tdOnsetsSize, overran>>
history     == <<reports, fits, log, analyses>>
vars == <<start, windowVars, clusterVars, autoVars, oiVars, sizes, sent, history>>

Abs(n)  == IF n < 0 THEN -n ELSE n
Capped(n, cap) == IF n > cap THEN cap ELSE n

(* pdbeatdetection_new; pd_new hands out zeroed memory. *)
Init ==
  /\ start = -1
  /\ sinceLast = 0 /\ sinceStart = 0 /\ onsetCountA = 0 /\ lastOffset = 0
  /\ onsetCountC = 0 /\ clusterMissFires = 0 /\ qtReturn = 1
  /\ lastTempo = NoTempo
  /\ autoCorrTempos = [i \in Slots |-> 0] /\ autoCorrStyles = [i \in Slots |-> 0]
  /\ autoCorrTemposI = 0 /\ autoCorrTemposSize = TemposSize
  /\ oiSave = [i \in OiSlots |-> 0] /\ oiSaveCount = 0 /\ oiSaveAvg = 0
  /\ onsetTimesSize = OnsetTimesSize /\ tdOnsetsSize = TdOnsetsSize
  /\ overran = FALSE
  /\ sent = NotSent
  /\ reports = 0 /\ fits = 0 /\ log = <<>> /\ analyses = 0

-----------------------------------------------------------------------------
(* newDetection.  The loop that clears onsetIntervals runs to onsetCountC,  *)
(* which nothing bounds: past IntervalsSize it writes the fields that       *)
(* follow in the struct, in words of four bytes.  The build either writes   *)
(* through or clips the loop to the array.  The two sizes it can reach are  *)
(* written by nothing else: once zero they stay so.  OnsetCap also stands   *)
(* for the end of the struct, past which the loop would write the heap.     *)
MissFiresAt == 2 * IntervalsSize       \* after onsetIntervals and intensity
TemposAt    == MissFiresAt + 3         \* clusterMissFires, onsetTime, onsetCountA
StylesAt    == TemposAt + TemposSize
SizeAt      == StylesAt + TemposSize + 1    \* autoCorrTemposI in between
TimesSizeAt == SizeAt + 1 + ScratchSize     \* after onsetTimes .. tdOnsets

ClearExtents == {onsetCountC, Capped(onsetCountC, IntervalsSize)}

NewDetection ==
  /\ start' = 0
  /\ onsetCountA' = 0 /\ autoCorrTemposI' = 0 /\ oiSaveCount' = 0
  /\ onsetCountC' = 0 /\ lastTempo' = NoTempo
  /\ \E extent \in ClearExtents :
       LET kept(at, old) == IF at < extent THEN 0 ELSE old IN
       /\ clusterMissFires' = kept(MissFiresAt, clusterMissFires)
       /\ autoCorrTempos' = [i \in Slots |-> kept(TemposAt + i, autoCorrTempos[i])]
       /\ autoCorrStyles' = [i \in Slots |-> kept(StylesAt + i, autoCorrStyles[i])]
       /\ autoCorrTemposSize' = kept(SizeAt, autoCorrTemposSize)
       /\ onsetTimesSize' = kept(TimesSizeAt, onsetTimesSize)
       /\ tdOnsetsSize' = kept(TimesSizeAt + 1, tdOnsetsSize)
  /\ overran' = (overran \/ onsetCountC > TimesSizeAt)
  /\ reports' = 0 /\ fits' = 0 /\ analyses' = 0
  /\ UNCHANGED <<sinceLast, sinceStart, lastOffset, qtReturn, oiSave, oiSaveAvg,
                 sent, log>>

-----------------------------------------------------------------------------
(* compareClusterToAuto: differences to the lower octave (0), unison (1)    *)
(* and upper octave (2) of each stored tempo, in half bpm.                  *)
Candidates == (0 .. autoCorrTemposSize - 1) \X {0, 1, 2}

Difference(c, p) ==
  LET a == autoCorrTempos[p[1]] IN
  Abs(2 * c - (CASE p[2] = 0 -> a [] p[2] = 1 -> 2 * a [] p[2] = 2 -> 4 * a))

Before(p, q) == p[1] < q[1] \/ (p[1] = q[1] /\ p[2] <= q[2])

(* The scan keeps the first of the smallest differences. *)
Resolves(c, p) ==
  /\ Difference(c, p) < 2 * Tolerance
  /\ \A q \in Candidates : \/ Difference(c, p) < Difference(c, q)
                           \/ Difference(c, p) = Difference(c, q) /\ Before(p, q)

(* Fault: the lower octave averaged without doubling the cluster tempo. *)
TempoBothNoOctave(c, p) == 2 * c + 2 * autoCorrTempos[p[1]]

(* tempoBoth, in quarter bpm. *)
TempoBoth(c, p) ==
  LET a == autoCorrTempos[p[1]] IN
  CASE p[2] = 1 -> 2 * c + 2 * a
    [] p[2] = 0 -> IF a > 75 THEN 4 * c + 2 * a ELSE 2 * c + a
    [] p[2] = 2 -> IF c < 150 THEN 2 * c + 4 * a ELSE c + 2 * a

(* outletSendData: the majority of the stored styles. *)
StyleOut ==
  LET swung == {i \in 0 .. autoCorrTemposSize - 1 : autoCorrStyles[i] = 1} IN
  IF 2 * Cardinality(swung) < autoCorrTemposSize THEN 0 ELSE 1

(* Fault: the upper bounds of setTempo's tolerance dropped. *)
ConsistentUnbounded(c) == 20 * c >= 9 * lastTempo

(* setTempo compares only two fits in a row, equal up to 10 % and an octave. *)
Consistent(c) == \/ 10 * c \in 9 * lastTempo .. 11 * lastTempo
                 \/ 20 * c \in 9 * lastTempo .. 11 * lastTempo
                 \/ 10 * c \in 18 * lastTempo .. 22 * lastTempo

(* compareClusterToAuto on a match, st being start between the two stages   *)
(* of the handler.  The loop that averages oiSave adds oiSave[oiSaveCount]  *)
(* OiSaveSize times: the average is that one element.                       *)
ReportTempo(c, st) ==
  /\ st = 2
  /\ oiSaveAvg' = oiSave'[oiSaveCount']
  /\ \E p \in Candidates : Resolves(c, p) /\ sent' = <<TempoBoth(c, p), StyleOut>>
  /\ reports' = reports + 1

NoReport(st) == st = 1 /\ UNCHANGED <<oiSaveAvg, sent, reports>>

(* qtClustering finds clusters that fit tempo c: setTempo. *)
ClusterFits(c, st) ==
  /\ lastTempo' = c /\ fits' = Capped(fits + 1, 2)
  /\ clusterMissFires' = 0 /\ qtReturn' = 1
  /\ IF Consistent(c) /\ \E p \in Candidates : Resolves(c, p)
       THEN ReportTempo(c, st)
       ELSE NoReport(st)

(* qtClustering fails; the count saturates once past the limit. *)
ClusterFails(st) ==
  /\ clusterMissFires' = Capped(clusterMissFires + 1, MissLimit + 1)
  /\ qtReturn' = IF clusterMissFires' > MissLimit THEN 0 ELSE 1
  /\ NoReport(st)
  /\ UNCHANGED <<lastTempo, fits>>

(* lastTime keeps the seconds of the clock in a t_float.  Its spacing is at *)
(* most 1/512 of that of the milliseconds, so rounding loses less than Ulp. *)
SecondsErrors == 1 - Ulp .. Ulp - 1

ClusterStage(g, st) ==
  LET interval == sinceLast + g IN
  \/ /\ interval <= Threshold
     /\ sinceLast' = interval
     /\ NoReport(st)
     /\ UNCHANGED <<clusterVars, fits>>
  \/ /\ interval > Threshold
     /\ sinceLast' \in SecondsErrors
     /\ onsetCountC' = Capped(onsetCountC + 1, OnsetCap)
     /\ \/ /\ onsetCountC < IntervalsSize - 1
           /\ NoReport(st)
           /\ UNCHANGED <<clusterMissFires, qtReturn, lastTempo, fits>>
        \/ /\ onsetCountC >= IntervalsSize - 1
           /\ ClusterFails(st) \/ \E c \in ClusterTempos : ClusterFits(c, st)

-----------------------------------------------------------------------------
(* Fault: the wrap-around test of the ring without its "- 1". *)
NextSlotLate(i) == IF i < autoCorrTemposSize THEN i + 1 ELSE 0

(* Fault: the wrap-around test of the ring one slot early. *)
NextSlotEarly(i) == IF i < autoCorrTemposSize - 2 THEN i + 1 ELSE 0

NextSlot(i) == IF i < autoCorrTemposSize - 1 THEN i + 1 ELSE 0

(* Fault: the window reopened without looking at start. *)
StartAfterAnalysisAlways(st) == 0

(* A tempo reported earlier in the same handler keeps the window closed. *)
StartAfterAnalysis(st) == IF st = 1 THEN 0 ELSE st

(* autoCorrAnalyze: file the result, reopen the window unless the tempo has *)
(* been reported in between.                                                *)
AutoCorrAnalyze(st) ==
  /\ \E r \in AutoResults :
       /\ autoCorrTempos' = [autoCorrTempos EXCEPT ![autoCorrTemposI] = r[1]]
       /\ autoCorrStyles' = [autoCorrStyles EXCEPT ![autoCorrTemposI] = r[2]]
       /\ log' = IF Len(log) < TemposSize THEN Append(log, r)
                                          ELSE Append(Tail(log), r)
  /\ autoCorrTemposI' = NextSlot(autoCorrTemposI)
  /\ start' = StartAfterAnalysis(st)
  /\ onsetCountA' = 0
  /\ analyses' = Capped(analyses + 1, TemposSize)
  /\ UNCHANGED autoCorrTemposSize

(* A millisecond count e held in a t_float. *)
Rounded(e) == {t \in e - Ulp .. e + Ulp : 2 * (t - e) \in -Ulp .. Ulp}

(* timeStart is rounded twice: the seconds of onsetTime, which loses less   *)
(* than Ulp as for lastTime, then the milliseconds, which loses Ulp / 2.    *)
StartErrors == {d \in -2 * Ulp .. 2 * Ulp : 2 * d \in 1 - 3 * Ulp .. 3 * Ulp - 1}

(* Fault: the window ends where the array does. *)
TimeIsUpLate(elapsed) == elapsed > tdOnsetsSize

TimeIsUp(elapsed) == elapsed >= tdOnsetsSize - 1

(* Fault: the count compared with the size of the window itself. *)
WindowIsFullLate(count) == count >= onsetTimesSize

WindowIsFull(count) == count >= onsetTimesSize - 1

(* The window closes on time, before the onset is stored, or on count, after. *)
AutoCorrStage(g, st) ==
  LET elapsed == sinceStart + g IN
  /\ sinceStart' = elapsed
  /\ IF TimeIsUp(elapsed)
       THEN UNCHANGED lastOffset /\ AutoCorrAnalyze(st)
       ELSE /\ lastOffset' \in Rounded(elapsed)
            /\ IF WindowIsFull(onsetCountA + 1)
                 THEN AutoCorrAnalyze(st)
                 ELSE /\ onsetCountA' = onsetCountA + 1
                      /\ start' = st
                      /\ UNCHANGED <<autoVars, log, analyses>>

(* pdbeatdetection_float, by the value of start.  With start = -1, and with *)
(* start = 2 and an onset no louder than oiSaveAvg, it changes nothing.     *)
FirstOnset ==
  /\ start = 0 /\ start' = 1
  /\ sinceLast' \in SecondsErrors /\ sinceStart' \in StartErrors
  /\ lastOffset' = 0
  /\ onsetCountA' = onsetCountA + 1
  /\ UNCHANGED <<clusterVars, autoVars, oiVars, sizes, sent, history>>

WindowOnset(g, v) ==
  /\ start = 1
  /\ oiSave' = [oiSave EXCEPT ![oiSaveCount] = v]
  /\ oiSaveCount' = IF oiSaveCount < OiSaveSize - 1 THEN oiSaveCount + 1 ELSE 0
  /\ \E st \in {1, 2} :
       /\ ClusterStage(g, st)
       /\ IF onsetCountA < onsetTimesSize - 1
            THEN AutoCorrStage(g, st)
            ELSE start' = st /\ UNCHANGED <<sinceStart, onsetCountA, lastOffset,
                                            autoVars, log, analyses>>
  /\ UNCHANGED sizes

SongOnset(v) ==
  /\ start = 2 /\ v > oiSaveAvg
  /\ start' = -1
  /\ sent' = StartSong
  /\ UNCHANGED <<windowVars, clusterVars, autoVars, oiVars, sizes, history>>

Onset(g, v) == FirstOnset \/ WindowOnset(g, v) \/ SongOnset(v)

Next == NewDetection \/ \E g \in Gaps, v \in Volumes : Onset(g, v)

Spec == Init /\ [][Next]_vars

(* Onsets are the environment's: they keep coming while music plays. *)
MusicPlays == WF_vars(\E g \in Gaps, v \in Volumes : Onset(g, v))
PlayingSpec == Spec /\ MusicPlays

-----------------------------------------------------------------------------
(* Every field holds a value of its C type in the range the code relies on. *)
TypeOK ==
  /\ start \in -1 .. 2
  /\ sinceLast \in Int /\ sinceStart \in Int
  /\ onsetCountA \in Nat /\ lastOffset \in Int
  /\ onsetTimesSize \in {0, OnsetTimesSize} /\ tdOnsetsSize \in {0, TdOnsetsSize}
  /\ overran \in BOOLEAN
  /\ onsetCountC \in 0 .. OnsetCap
  /\ clusterMissFires \in 0 .. MissLimit + 1 /\ qtReturn \in {0, 1}
  /\ lastTempo \in ClusterTempos \union {NoTempo}
  /\ autoCorrTempos \in [Slots -> Nat]
  /\ autoCorrStyles \in [Slots -> {0, 1}]
  /\ autoCorrTemposI \in Slots
  /\ autoCorrTemposSize \in {0, TemposSize}
  /\ oiSave \in [OiSlots -> Nat] /\ oiSaveCount \in OiSlots /\ oiSaveAvg \in Nat
  /\ sent \in ((Nat \ {0}) \X {0, 1}) \union {NotSent, StartSong}
  /\ reports \in Nat /\ fits \in 0 .. 2
  /\ log \in Seq(AutoResults) /\ Len(log) <= TemposSize
  /\ analyses \in 0 .. TemposSize

(* The autocorrelation window is empty until its first onset, and between   *)
(* two onsets it has room for one more: pdbeatdetection_float never finds   *)
(* it full, the case in which it would wait forever with start = 1.  The    *)
(* exception is a newDetection after so many intervals that its loop has    *)
(* cleared onsetTimesSize: no window has room from then on.                 *)
WindowHasRoom ==
  /\ onsetTimesSize = OnsetTimesSize \/ overran
  /\ start = 0 => onsetCountA = 0
  /\ onsetTimesSize = OnsetTimesSize =>
       /\ start = 1 => onsetCountA \in 1 .. OnsetTimesSize - 2
       /\ onsetCountA <= OnsetTimesSize - 2

(* onsetsToTimeDomain indexes tdOnsets by the age of each stored onset.  On *)
(* a millisecond clock exact to 2 ms the index does not pass the end of the *)
(* array, where onsetTimesSize follows.  An onset right after the first one *)
(* may fall before the array, as the window's start is rounded once more,   *)
(* but by less than two steps of the clock: in the last words of            *)
(* autoCorrelation, which is computed anew before it is read.               *)
OffsetInBounds ==
  /\ lastOffset > -2 * Ulp
  /\ Ulp <= 2 => lastOffset < TdOnsetsSize

(* The slot written i analyses ago. *)
SlotBack(i) == IF i <= autoCorrTemposI THEN autoCorrTemposI - i
                                       ELSE autoCorrTemposI - i + TemposSize

(* Until newDetection rewinds it, the ring behind autoCorrTemposI holds the *)
(* latest results of autoCorrAnalyze, newest first going backwards.         *)
RingHoldsLatest ==
  autoCorrTemposSize = TemposSize =>
    \A i \in 1 .. analyses :
      <<autoCorrTempos[SlotBack(i)], autoCorrStyles[SlotBack(i)]>>
        = log[Len(log) + 1 - i]

(* One detection reports at most one tempo, and after its report it only    *)
(* waits for the start of the song: an analysis that ends in the handler    *)
(* that reported does not reopen the window.                                *)
OneReport ==
  /\ reports <= 1
  /\ reports = 1 => start \in {2, -1}
  /\ start = 2 => reports = 1

(* A tempo is reported on the second of two fits of the same detection at   *)
(* the earliest: lastTempo never carries over from the detection before.    *)
ReportNeedsTwoFits == start = 2 => fits = 2

(* The reported tempo is within compareClusterToAuto's 8 bpm of an octave   *)
(* of the tempo clustering found, whichever octaves were averaged.          *)
ReportAgrees ==
  start = 2 =>
    \E octave \in {2, 4, 8} : Abs(sent[1] - octave * lastTempo) < 4 * Tolerance

(* Every analysis window closes while onsets keep coming, whatever their    *)
(* spacing, unless a newDetection has cleared onsetTimesSize before.        *)
WindowCloses == (start = 1) ~> (start # 1 \/ onsetTimesSize = 0)

(* The detector implements DetectorProtocol.                                *)
Phase == CASE start = -1 -> "ignoring" [] start = 2 -> "reported"
           [] OTHER -> "listening"
Protocol == INSTANCE DetectorProtocol WITH phase <- Phase, Tempos <- Nat \ {0}
ImplementsProtocol == Protocol!ProtocolSpec

-----------------------------------------------------------------------------
(* What a comment of the source says and the code does not do.              *)

(* "compare tempo C to autoCorrTempos[1:3]": the comparison always covers   *)
(* every slot.                                                              *)
ComparesAllTempos == autoCorrTemposSize = TemposSize
=============================================================================
