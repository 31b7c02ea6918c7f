------------------------- MODULE BeatDetectorProofs -------------------------
(***************************************************************************)
(* Proofs about BeatDetector for every size, spacing, tempo and clock      *)
(* resolution that DetectorAssumption admits.                              *)
(*                                                                         *)
(* The handler of a float in an open window runs two stages; one lemma per *)
(* stage says what it leaves behind, and the inductive invariant IInv is   *)
(* preserved action by action from these.                                  *)
(***************************************************************************)
EXTENDS BeatDetector, TLAPS

LEMMA CappedInRange ==
  ASSUME NEW n \in Nat, NEW cap \in Nat
  PROVE  Capped(n, cap) \in 0 .. cap
BY DEF Capped

(* A matched pair of tempos averages to a positive tempo. *)
LEMMA TempoBothPositive ==
  ASSUME TypeOK, NEW c \in ClusterTempos, NEW p \in Candidates
  PROVE  TempoBoth(c, p) \in Nat \ {0}
<1>1. c \in Nat \ {0}
  BY DetectorAssumption
<1>2. p[1] \in Slots /\ p[2] \in {0, 1, 2}
  BY DetectorAssumption DEF Candidates, TypeOK, Slots
<1>3. autoCorrTempos[p[1]] \in Nat
  BY <1>2 DEF TypeOK
<1>. QED
  BY <1>1, <1>2, <1>3 DEF TempoBoth

LEMMA StyleOutType == StyleOut \in {0, 1}
BY DEF StyleOut

(* The strengthening of the invariants that makes them inductive: before    *)
(* its report a detection has reported nothing, a stored lastTempo counts   *)
(* as one fit, tdOnsetsSize is not cleared before onsetTimesSize, and       *)
(* timeStart is never further ahead of the clock than its two roundings.    *)
Unreported == start \in {0, 1} => reports = 0
FitCounted == lastTempo # NoTempo => fits >= 1
LogLongEnough == analyses <= Len(log)
SizesClearInOrder == tdOnsetsSize = TdOnsetsSize \/ onsetTimesSize = 0
StartNotAhead == 2 * sinceStart > -(3 * Ulp)

IInv == /\ TypeOK /\ WindowHasRoom /\ OffsetInBounds
        /\ SizesClearInOrder /\ StartNotAhead
        /\ RingHoldsLatest /\ LogLongEnough
        /\ OneReport /\ Unreported
        /\ ReportNeedsTwoFits /\ FitCounted /\ ReportAgrees

LEMMA InitIInv == Init => IInv
<1>. SUFFICES ASSUME Init PROVE IInv
  OBVIOUS
<1>0. overran \in BOOLEAN
  BY Zenon DEF Init
<1>1. TypeOK
  BY <1>0, DetectorAssumption DEF Init, TypeOK, Slots, OiSlots, NotSent, NoTempo
<1>. QED
  BY <1>1, DetectorAssumption
  DEF Init, IInv, WindowHasRoom, OffsetInBounds, SizesClearInOrder,
      StartNotAhead, RingHoldsLatest, LogLongEnough, OneReport, Unreported, ReportNeedsTwoFits, FitCounted,
      ReportAgrees

-----------------------------------------------------------------------------
(* A tempo in quarter bpm within the tolerance of an octave of one in bpm.  *)
NearOctave(c, tempo) ==
  \E octave \in {2, 4, 8} : Abs(tempo - octave * c) < 4 * Tolerance

(* The smallest difference is below the tolerance, and every branch of the  *)
(* average adds multiples of the two tempos that this difference compares.  *)
LEMMA TempoBothAgrees ==
  ASSUME TypeOK, NEW c \in ClusterTempos, NEW p \in Candidates, Resolves(c, p)
  PROVE  NearOctave(c, TempoBoth(c, p))
<1>1. c \in Nat /\ autoCorrTempos[p[1]] \in Nat /\ p[2] \in {0, 1, 2}
  BY DetectorAssumption DEF Candidates, TypeOK, Slots
<1>2. Difference(c, p) < 2 * Tolerance
  BY DEF Resolves
<1>3. CASE p[2] = 0
  BY <1>1, <1>2, <1>3 DEF Difference, TempoBoth, NearOctave, Abs, Tolerance
<1>4. CASE p[2] = 1
  BY <1>1, <1>2, <1>4 DEF Difference, TempoBoth, NearOctave, Abs, Tolerance
<1>5. CASE p[2] = 2
  BY <1>1, <1>2, <1>5 DEF Difference, TempoBoth, NearOctave, Abs, Tolerance
<1>. QED
  BY <1>1, <1>3, <1>4, <1>5

(* What the clustering stage leaves behind. *)
ClusterPost(st) ==
  /\ sinceLast' \in Int
  /\ onsetCountC' \in 0 .. OnsetCap
  /\ clusterMissFires' \in 0 .. MissLimit + 1 /\ qtReturn' \in {0, 1}
  /\ lastTempo' \in ClusterTempos \union {NoTempo}
  /\ fits' \in 0 .. 2
  /\ lastTempo' # NoTempo => fits' >= 1
  /\ oiSaveAvg' \in Nat
  /\ \/ st = 1 /\ UNCHANGED <<sent, reports>>
     \/ /\ st = 2 /\ reports' = reports + 1 /\ fits' = 2
        /\ sent' \in (Nat \ {0}) \X {0, 1}
        /\ NearOctave(lastTempo', sent'[1])

(* A tempo consistent with lastTempo is not the first fit of a detection. *)
LEMMA ConsistentNeedsFit ==
  ASSUME NEW c \in ClusterTempos, Consistent(c)
  PROVE  lastTempo # NoTempo
<1>1. c \in Nat \ {0}
  BY DetectorAssumption
<1>. QED
  BY <1>1 DEF Consistent, NoTempo

LEMMA ClusterFitsPost ==
  ASSUME TypeOK, FitCounted, NEW c \in ClusterTempos, NEW st \in {1, 2},
         oiSave' \in [OiSlots -> Nat], oiSaveCount' \in OiSlots,
         ClusterFits(c, st)
  PROVE  /\ lastTempo' \in ClusterTempos /\ fits' \in {1, 2}
         /\ clusterMissFires' = 0 /\ qtReturn' = 1
         /\ oiSaveAvg' \in Nat
         /\ \/ st = 1 /\ UNCHANGED <<sent, reports>>
            \/ /\ st = 2 /\ reports' = reports + 1 /\ fits' = 2
               /\ sent' \in (Nat \ {0}) \X {0, 1}
               /\ NearOctave(lastTempo', sent'[1])
<1>1. /\ lastTempo' = c /\ fits' = Capped(fits + 1, 2)
      /\ clusterMissFires' = 0 /\ qtReturn' = 1
  BY DEF ClusterFits
<1>2. fits' \in {1, 2}
  BY <1>1 DEF Capped, TypeOK
<1>3. CASE NoReport(st)
  BY <1>1, <1>2, <1>3 DEF NoReport, TypeOK
<1>4. CASE Consistent(c) /\ ReportTempo(c, st)
  <2>1. fits >= 1
    BY <1>4, ConsistentNeedsFit DEF FitCounted
  <2>2. fits' = 2
    BY <1>1, <2>1 DEF Capped, TypeOK
  <2>3. oiSaveAvg' \in Nat
    BY <1>4 DEF ReportTempo
  <2>4. PICK p \in Candidates : Resolves(c, p) /\ sent' = <<TempoBoth(c, p), StyleOut>>
    BY <1>4 DEF ReportTempo
  <2>5. sent' \in (Nat \ {0}) \X {0, 1}
    BY <2>4, TempoBothPositive, StyleOutType
  <2>6. NearOctave(lastTempo', sent'[1])
    BY <1>1, <2>4, TempoBothAgrees
  <2>. QED
    BY <1>1, <1>4, <2>2, <2>3, <2>5, <2>6 DEF ReportTempo
<1>. QED
  BY <1>3, <1>4 DEF ClusterFits

LEMMA ClusterStagePost ==
  ASSUME TypeOK, FitCounted, NEW g \in Gaps, NEW st \in {1, 2},
         oiSave' \in [OiSlots -> Nat], oiSaveCount' \in OiSlots,
         ClusterStage(g, st)
  PROVE  ClusterPost(st)
<1>. USE DetectorAssumption
<1>0. SecondsErrors \subseteq Int
  BY DEF SecondsErrors
<1>1. CASE /\ sinceLast + g <= Threshold
           /\ sinceLast' = sinceLast + g
           /\ NoReport(st)
           /\ UNCHANGED <<clusterVars, fits>>
  BY <1>1 DEF ClusterPost, NoReport, TypeOK, FitCounted, clusterVars
<1>2. CASE /\ sinceLast' \in Int
           /\ onsetCountC' = Capped(onsetCountC + 1, OnsetCap)
           /\ NoReport(st)
           /\ UNCHANGED <<clusterMissFires, qtReturn, lastTempo, fits>>
  BY <1>2, CappedInRange DEF ClusterPost, NoReport, TypeOK, FitCounted
<1>3. CASE /\ sinceLast' \in Int
           /\ onsetCountC' = Capped(onsetCountC + 1, OnsetCap)
           /\ ClusterFails(st)
  BY <1>3, CappedInRange
  DEF ClusterPost, ClusterFails, NoReport, TypeOK, FitCounted
<1>4. ASSUME sinceLast' \in Int, onsetCountC' = Capped(onsetCountC + 1, OnsetCap),
             NEW c \in ClusterTempos, ClusterFits(c, st)
      PROVE  ClusterPost(st)
  <2>1. /\ lastTempo' \in ClusterTempos /\ fits' \in {1, 2}
        /\ clusterMissFires' = 0 /\ qtReturn' = 1
        /\ oiSaveAvg' \in Nat
        /\ \/ st = 1 /\ UNCHANGED <<sent, reports>>
           \/ /\ st = 2 /\ reports' = reports + 1 /\ fits' = 2
              /\ sent' \in (Nat \ {0}) \X {0, 1}
              /\ NearOctave(lastTempo', sent'[1])
    BY <1>4, ClusterFitsPost
  <2>2. sinceLast' \in Int /\ onsetCountC' \in 0 .. OnsetCap
    BY <1>4, CappedInRange DEF TypeOK
  <2>. QED
    BY <2>1, <2>2 DEF ClusterPost
<1>. QED
  BY <1>0, <1>1, <1>2, <1>3, <1>4 DEF ClusterStage

-----------------------------------------------------------------------------
(* What an analysis leaves behind. *)
RingPost == /\ autoCorrTempos' \in [Slots -> Nat]
            /\ autoCorrStyles' \in [Slots -> {0, 1}]
            /\ autoCorrTemposI' \in Slots
            /\ autoCorrTemposSize' = autoCorrTemposSize
            /\ log' \in Seq(AutoResults) /\ Len(log') <= TemposSize
            /\ analyses' \in 0 .. TemposSize
            /\ LogLongEnough'
            /\ RingHoldsLatest'

(* Advancing the ring by one moves every older slot one step further back. *)
LEMMA RingStep ==
  ASSUME NEW K \in Nat \ {0}, NEW m \in 0 .. K - 1, NEW n,
         n = IF m < K - 1 THEN m + 1 ELSE 0, NEW i \in 2 .. K
  PROVE  LET back(k, j) == IF j <= k THEN k - j ELSE k - j + K IN
         /\ back(n, i) = back(m, i - 1)
         /\ back(n, i) \in 0 .. K - 1 /\ back(n, i) # m
OBVIOUS

LEMMA AnalyzePost ==
  ASSUME TypeOK, RingHoldsLatest, LogLongEnough, NEW st \in {1, 2},
         AutoCorrAnalyze(st)
  PROVE  RingPost
<1>. USE DetectorAssumption
<1>1. PICK r \in AutoResults :
        /\ autoCorrTempos' = [autoCorrTempos EXCEPT ![autoCorrTemposI] = r[1]]
        /\ autoCorrStyles' = [autoCorrStyles EXCEPT ![autoCorrTemposI] = r[2]]
        /\ log' = IF Len(log) < TemposSize THEN Append(log, r)
                                           ELSE Append(Tail(log), r)
  BY DEF AutoCorrAnalyze
<1>2. r[1] \in Nat /\ r[2] \in {0, 1} /\ r = <<r[1], r[2]>>
  OBVIOUS
<1>3. autoCorrTempos' \in [Slots -> Nat] /\ autoCorrStyles' \in [Slots -> {0, 1}]
  BY <1>1, <1>2 DEF TypeOK
<1>4. autoCorrTemposI' \in Slots /\ autoCorrTemposSize' = autoCorrTemposSize
  BY DEF AutoCorrAnalyze, NextSlot, TypeOK, Slots
<1>5. /\ log' \in Seq(AutoResults) /\ Len(log') <= TemposSize
      /\ log'[Len(log')] = r
      /\ Len(log') = IF Len(log) < TemposSize THEN Len(log) + 1 ELSE TemposSize
  BY <1>1 DEF TypeOK
<1>6. /\ analyses' \in 0 .. TemposSize
      /\ analyses' <= analyses + 1
      /\ analyses' <= Len(log')
  BY <1>5, CappedInRange DEF AutoCorrAnalyze, Capped, TypeOK, LogLongEnough
<1>7. ASSUME autoCorrTemposSize' = TemposSize, NEW i \in 1 .. analyses'
      PROVE  <<autoCorrTempos[SlotBack(i)], autoCorrStyles[SlotBack(i)]>>'
               = log'[Len(log') + 1 - i]
  <2>1. CASE i = 1
    <3>1. SlotBack(i)' = autoCorrTemposI
      BY <1>4, <1>7, <2>1 DEF AutoCorrAnalyze, NextSlot, SlotBack, TypeOK, Slots
    <3>. QED
      BY <1>1, <1>2, <1>5, <2>1, <3>1 DEF TypeOK
  <2>2. CASE i > 1
    <3>1. /\ SlotBack(i)' = SlotBack(i - 1)
          /\ SlotBack(i)' \in Slots /\ SlotBack(i)' # autoCorrTemposI
      <4>1. /\ TemposSize \in Nat \ {0} /\ autoCorrTemposI \in 0 .. TemposSize - 1
            /\ autoCorrTemposI' = IF autoCorrTemposI < TemposSize - 1
                                    THEN autoCorrTemposI + 1 ELSE 0
        BY <1>4, <1>7 DEF AutoCorrAnalyze, NextSlot, TypeOK, Slots
      <4>2. i \in 2 .. TemposSize
        BY <1>6, <2>2
      <4>. QED
        BY <4>1, <4>2, RingStep DEF SlotBack, Slots
    <3>2. i - 1 \in 1 .. analyses
      BY <1>6, <2>2 DEF TypeOK
    <3>3. <<autoCorrTempos[SlotBack(i - 1)], autoCorrStyles[SlotBack(i - 1)]>>
            = log[Len(log) + 1 - (i - 1)]
      BY <1>4, <1>7, <3>2 DEF RingHoldsLatest
    <3>4. log'[Len(log') + 1 - i] = log[Len(log) + 1 - (i - 1)]
      <4>1. Len(log) \in Nat /\ log \in Seq(AutoResults) /\ i \in Nat
        BY DEF TypeOK
      <4>2. i <= Len(log) + 1 /\ i <= TemposSize
        BY <1>5, <1>6, <3>2 DEF TypeOK, LogLongEnough
      <4>3. CASE Len(log) < TemposSize
        BY <1>1, <1>5, <2>2, <4>1, <4>2, <4>3
      <4>4. CASE ~(Len(log) < TemposSize)
        <5>1. Len(log) = TemposSize /\ log # <<>>
          BY <4>1, <4>4 DEF TypeOK
        <5>2. /\ Tail(log) \in Seq(AutoResults) /\ Len(Tail(log)) = TemposSize - 1
              /\ \A k \in 1 .. TemposSize - 1 : Tail(log)[k] = log[k + 1]
          BY <4>1, <5>1
        <5>3. log' = Append(Tail(log), r) /\ Len(log') = TemposSize
          BY <1>1, <1>5, <4>4
        <5>4. TemposSize + 1 - i \in 1 .. TemposSize - 1
          BY <2>2, <4>1, <4>2
        <5>. QED
          BY <5>1, <5>2, <5>3, <5>4
      <4>. QED
        BY <4>3, <4>4
    <3>5. /\ autoCorrTempos'[SlotBack(i)'] = autoCorrTempos[SlotBack(i - 1)]
          /\ autoCorrStyles'[SlotBack(i)'] = autoCorrStyles[SlotBack(i - 1)]
      BY <1>1, <3>1 DEF TypeOK
    <3>. QED
      BY <3>1, <3>3, <3>4, <3>5
  <2>. QED
    BY <1>6, <2>1, <2>2
<1>. QED
  BY <1>3, <1>4, <1>5, <1>6, <1>7 DEF RingPost, RingHoldsLatest, LogLongEnough

-----------------------------------------------------------------------------
(* One step per action. *)
LEMMA NewDetectionIInv == ASSUME IInv, NewDetection PROVE IInv'
<1>. USE DetectorAssumption
<1>1. /\ start' = 0 /\ onsetCountA' = 0 /\ autoCorrTemposI' = 0
      /\ oiSaveCount' = 0 /\ onsetCountC' = 0 /\ lastTempo' = NoTempo
      /\ reports' = 0 /\ fits' = 0 /\ analyses' = 0
      /\ UNCHANGED <<sinceLast, sinceStart, lastOffset, qtReturn, oiSave,
                     oiSaveAvg, sent, log>>
  BY DEF NewDetection
<1>2. /\ clusterMissFires' \in {0, clusterMissFires}
      /\ autoCorrTempos' \in [Slots -> Nat]
      /\ autoCorrStyles' \in [Slots -> {0, 1}]
      /\ autoCorrTemposSize' \in {0, TemposSize}
  BY DEF NewDetection, IInv, TypeOK
<1>2a. PICK extent \in ClearExtents :
         /\ onsetTimesSize' = IF TimesSizeAt < extent THEN 0 ELSE onsetTimesSize
         /\ tdOnsetsSize' = IF TimesSizeAt + 1 < extent THEN 0 ELSE tdOnsetsSize
  BY DEF NewDetection
<1>2b. TimesSizeAt \in Nat
  BY DEF TimesSizeAt, SizeAt, StylesAt, TemposAt, MissFiresAt
<1>2c. extent \in Nat /\ extent <= onsetCountC
  BY <1>2a DEF ClearExtents, Capped, IInv, TypeOK
<1>2d. overran' = (overran \/ onsetCountC > TimesSizeAt) /\ overran \in BOOLEAN
  BY DEF NewDetection, IInv, TypeOK
<1>2e. /\ onsetTimesSize' \in {0, OnsetTimesSize} /\ tdOnsetsSize' \in {0, TdOnsetsSize}
       /\ overran' \in BOOLEAN
  BY <1>2a, <1>2d DEF IInv, TypeOK
<1>2f. SizesClearInOrder'
  BY <1>2a, <1>2b, <1>2c DEF IInv, SizesClearInOrder
<1>2g. onsetTimesSize' = OnsetTimesSize \/ overran'
  <2>1. onsetTimesSize' = onsetTimesSize \/ onsetCountC > TimesSizeAt
    BY <1>2a, <1>2b, <1>2c DEF IInv, TypeOK
  <2>2. onsetTimesSize = OnsetTimesSize \/ overran
    BY DEF IInv, WindowHasRoom
  <2>. QED
    BY <1>2d, <2>1, <2>2
<1>3. TypeOK'
  <2>1. 0 \in Slots /\ 0 \in OiSlots /\ 0 \in 0 .. OnsetCap /\ 0 \in 0 .. TemposSize
    BY DEF Slots, OiSlots
  <2>2. clusterMissFires' \in 0 .. MissLimit + 1
    BY <1>2 DEF IInv, TypeOK
  <2>3. TypeOK
    BY DEF IInv
  <2>. QED
    BY <1>1, <1>2, <1>2e, <2>1, <2>2, <2>3 DEF TypeOK
<1>4. RingHoldsLatest' /\ LogLongEnough'
  BY <1>1, <1>3 DEF RingHoldsLatest, LogLongEnough, TypeOK
<1>. QED
  BY <1>1, <1>2f, <1>2g, <1>3, <1>4
  DEF IInv, StartNotAhead, WindowHasRoom, OffsetInBounds, OneReport, Unreported,
      ReportNeedsTwoFits, FitCounted, ReportAgrees

(* The first onset of a window is stored in bounds. *)
LEMMA TwoUlpsAhead == 0 > -2 * Ulp /\ 0 < TdOnsetsSize
<1>1. Ulp \in Nat \ {0} /\ TdOnsetsSize \in Nat \ {0, 1}
  BY DetectorAssumption
<1>. QED
  BY <1>1

(* The two roundings of timeStart lose less than three halves of a step. *)
LEMMA StartWithin ==
  ASSUME NEW d \in StartErrors
  PROVE  d \in Int /\ 2 * d > -(3 * Ulp)
<1>1. Ulp \in Nat
  BY DetectorAssumption
<1>2. d \in Int /\ 2 * d \in 1 - 3 * Ulp .. 3 * Ulp - 1
  BY <1>1 DEF StartErrors
<1>. QED
  BY <1>1, <1>2

LEMMA FirstOnsetIInv == ASSUME IInv, FirstOnset PROVE IInv'
<1>. USE DetectorAssumption
<1>0. /\ sinceLast' \in Int /\ sinceStart' \in Int
      /\ 2 * sinceStart' > -(3 * Ulp)
  <2>1. sinceLast' \in 1 - Ulp .. Ulp - 1 /\ sinceStart' \in StartErrors
    BY DEF FirstOnset, SecondsErrors
  <2>2. sinceStart' \in Int /\ 2 * sinceStart' > -(3 * Ulp)
    BY <2>1, StartWithin
  <2>3. sinceLast' \in Int
    BY <2>1
  <2>. QED
    BY <2>2, <2>3
<1>0a. /\ start' = 1 /\ lastOffset' = 0 /\ onsetCountA' = 1
       /\ UNCHANGED <<overran, onsetTimesSize, tdOnsetsSize>>
  BY DEF FirstOnset, sizes, IInv, WindowHasRoom
<1>0b. OffsetInBounds' /\ StartNotAhead'
  <2>1. Ulp \in Nat \ {0} /\ TdOnsetsSize \in Nat \ {0, 1}
    OBVIOUS
  <2>. QED
    BY <1>0, <1>0a, <2>1, TwoUlpsAhead DEF OffsetInBounds, StartNotAhead
<1>. USE DEF FirstOnset, clusterVars, autoVars, oiVars, sizes, history
<1>1. TypeOK'
  BY <1>0 DEF IInv, TypeOK
<1>2. RingHoldsLatest' /\ LogLongEnough'
  BY DEF IInv, RingHoldsLatest, LogLongEnough, SlotBack
<1>3. WindowHasRoom' /\ OffsetInBounds' /\ SizesClearInOrder' /\ StartNotAhead'
  <2>2. SizesClearInOrder'
    BY <1>0a DEF IInv, SizesClearInOrder
  <2>3. onsetTimesSize' = OnsetTimesSize \/ overran'
    BY <1>0a DEF IInv, WindowHasRoom
  <2>. QED
    BY <1>0a, <1>0b, <2>2, <2>3 DEF WindowHasRoom
<1>. QED
  BY <1>1, <1>2, <1>3
  DEF IInv, TypeOK, OneReport, Unreported, ReportNeedsTwoFits, FitCounted, ReportAgrees

LEMMA SongOnsetIInv ==
  ASSUME IInv, NEW v \in Volumes, SongOnset(v) PROVE IInv'
<1>. USE DetectorAssumption
     DEF SongOnset, windowVars, clusterVars, autoVars, oiVars, sizes, history
<1>1. TypeOK'
  BY DEF IInv, TypeOK
<1>2. RingHoldsLatest' /\ LogLongEnough'
  BY DEF IInv, RingHoldsLatest, LogLongEnough, SlotBack
<1>. QED
  BY <1>1, <1>2
  DEF IInv, TypeOK, WindowHasRoom, OffsetInBounds, SizesClearInOrder, StartNotAhead,
      OneReport, Unreported, ReportNeedsTwoFits, FitCounted, ReportAgrees

(* Rounding to a grid of at most 2 moves a count by at most 1. *)
LEMMA HalfUlp ==
  ASSUME NEW t \in Int, NEW e \in Int, NEW u \in Nat, NEW n \in Nat,
         2 * (t - e) <= u, u <= 2, e < n - 1
  PROVE  t <= n - 1
OBVIOUS

(* Rounding by half a step cannot undo more than two steps of the clock.    *)
LEMMA TwoUlps ==
  ASSUME NEW t \in Int, NEW e \in Int, NEW u \in Nat,
         2 * (t - e) >= -u, 2 * e > -(3 * u)
  PROVE  t > -2 * u
OBVIOUS

(* What the autocorrelation stage leaves behind when the window has room. *)
LEMMA AutoCorrStagePost ==
  ASSUME IInv, start = 1, onsetTimesSize = OnsetTimesSize,
         NEW g \in Gaps, NEW st \in {1, 2}, AutoCorrStage(g, st)
  PROVE  /\ RingPost
         /\ sinceStart' \in Int /\ lastOffset' \in Int
         /\ StartNotAhead' /\ OffsetInBounds'
         /\ \/ onsetCountA' = 0 /\ start' = IF st = 1 THEN 0 ELSE st
            \/ /\ onsetCountA' \in 1 .. OnsetTimesSize - 2
               /\ start' = st
<1>. USE DetectorAssumption
<1>1. /\ TypeOK /\ RingHoldsLatest /\ LogLongEnough /\ OffsetInBounds
      /\ onsetCountA \in 1 .. OnsetTimesSize - 2
      /\ tdOnsetsSize = TdOnsetsSize
  BY DEF IInv, WindowHasRoom, SizesClearInOrder
<1>. DEFINE elapsed == sinceStart + g
<1>2. sinceStart' = elapsed /\ elapsed \in Int
  BY <1>1 DEF AutoCorrStage, TypeOK
<1>2a. StartNotAhead' /\ 2 * elapsed > -(3 * Ulp)
  BY <1>1, <1>2 DEF IInv, StartNotAhead, TypeOK
<1>3. CASE TimeIsUp(elapsed)
  <2>1. AutoCorrAnalyze(st) /\ UNCHANGED lastOffset
    BY <1>3 DEF AutoCorrStage
  <2>2. RingPost
    BY <1>1, <2>1, AnalyzePost
  <2>3. onsetCountA' = 0 /\ start' = IF st = 1 THEN 0 ELSE st
    BY <2>1 DEF AutoCorrAnalyze, StartAfterAnalysis
  <2>. QED
    BY <1>1, <1>2, <1>2a, <2>1, <2>2, <2>3 DEF OffsetInBounds, TypeOK
<1>4. CASE ~TimeIsUp(elapsed)
  <2>1. /\ lastOffset' \in Rounded(elapsed)
        /\ IF WindowIsFull(onsetCountA + 1)
             THEN AutoCorrAnalyze(st)
             ELSE /\ onsetCountA' = onsetCountA + 1
                  /\ start' = st
                  /\ UNCHANGED <<autoVars, log, analyses>>
    BY <1>4 DEF AutoCorrStage
  <2>2. lastOffset' \in Int /\ OffsetInBounds'
    <3>1. lastOffset' \in Int /\ 2 * (lastOffset' - elapsed) \in -Ulp .. Ulp
      BY <1>2, <2>1 DEF Rounded
    <3>2. elapsed < TdOnsetsSize - 1
      BY <1>1, <1>2, <1>4 DEF TimeIsUp
    <3>. HIDE DEF elapsed
    <3>3. 2 * (lastOffset' - elapsed) <= Ulp /\ 2 * (lastOffset' - elapsed) >= -Ulp
      <4>1. 2 * (lastOffset' - elapsed) \in Int
        BY <1>2, <3>1
      <4>. QED
        BY <3>1, <4>1
    <3>4. lastOffset' > -2 * Ulp
      BY <1>2, <1>2a, <3>1, <3>3, TwoUlps
    <3>5. ASSUME Ulp <= 2 PROVE lastOffset' <= TdOnsetsSize - 1
      BY <1>2, <3>1, <3>2, <3>3, <3>5, HalfUlp
    <3>. QED
      BY <3>1, <3>4, <3>5 DEF OffsetInBounds
  <2>3. CASE WindowIsFull(onsetCountA + 1)
    <3>1. AutoCorrAnalyze(st)
      BY <2>1, <2>3
    <3>2. RingPost
      BY <1>1, <3>1, AnalyzePost
    <3>3. onsetCountA' = 0 /\ start' = IF st = 1 THEN 0 ELSE st
      BY <3>1 DEF AutoCorrAnalyze, StartAfterAnalysis
    <3>. QED
      BY <1>2, <1>2a, <2>2, <3>2, <3>3
  <2>4. CASE ~WindowIsFull(onsetCountA + 1)
    <3>1. /\ onsetCountA' = onsetCountA + 1 /\ start' = st
          /\ UNCHANGED <<autoVars, log, analyses>>
      BY <2>1, <2>4
    <3>2. RingPost
      BY <1>1, <3>1
      DEF RingPost, RingHoldsLatest, LogLongEnough, SlotBack, TypeOK, autoVars
    <3>3. onsetCountA' \in 1 .. OnsetTimesSize - 2
      BY <1>1, <2>4, <3>1 DEF WindowIsFull
    <3>. QED
      BY <1>2, <1>2a, <2>2, <3>1, <3>2, <3>3
  <2>. QED
    BY <2>3, <2>4
<1>. QED
  BY <1>3, <1>4

LEMMA WindowOnsetIInv ==
  ASSUME IInv, NEW g \in Gaps, NEW v \in Volumes, WindowOnset(g, v)
  PROVE  IInv'
<1>. USE DetectorAssumption
<1>1. /\ start = 1
      /\ oiSave' = [oiSave EXCEPT ![oiSaveCount] = v]
      /\ oiSaveCount' = IF oiSaveCount < OiSaveSize - 1 THEN oiSaveCount + 1 ELSE 0
  BY DEF WindowOnset
<1>2. oiSave' \in [OiSlots -> Nat] /\ oiSaveCount' \in OiSlots
  BY <1>1 DEF IInv, TypeOK, OiSlots
<1>3. /\ UNCHANGED <<onsetTimesSize, tdOnsetsSize, overran>>
      /\ SizesClearInOrder'
  BY DEF WindowOnset, sizes, IInv, SizesClearInOrder
<1>4. PICK st \in {1, 2} :
        /\ ClusterStage(g, st)
        /\ \/ onsetTimesSize = OnsetTimesSize /\ AutoCorrStage(g, st)
           \/ /\ onsetTimesSize = 0 /\ start' = st
              /\ UNCHANGED <<sinceStart, onsetCountA, lastOffset, autoVars, log, analyses>>
  BY <1>1 DEF WindowOnset, IInv, TypeOK, WindowHasRoom
<1>5. ClusterPost(st)
  BY <1>2, <1>4, ClusterStagePost DEF IInv
<1>6. /\ RingPost
      /\ sinceStart' \in Int /\ lastOffset' \in Int
      /\ StartNotAhead' /\ OffsetInBounds'
      /\ start' \in 0 .. 2 /\ onsetCountA' \in Nat
      /\ IF st = 1 THEN start' \in {0, 1} ELSE start' = 2
      /\ start' = 0 => onsetCountA' = 0
      /\ onsetTimesSize = OnsetTimesSize =>
           /\ start' = 1 => onsetCountA' \in 1 .. OnsetTimesSize - 2
           /\ onsetCountA' <= OnsetTimesSize - 2
  <2>1. CASE onsetTimesSize = OnsetTimesSize /\ AutoCorrStage(g, st)
    BY <1>1, <2>1, AutoCorrStagePost
  <2>2. CASE /\ onsetTimesSize = 0 /\ start' = st
             /\ UNCHANGED <<sinceStart, onsetCountA, lastOffset, autoVars, log, analyses>>
    <3>1. RingPost
      BY <2>2 DEF IInv, RingPost, RingHoldsLatest, LogLongEnough, SlotBack, TypeOK, autoVars
    <3>. QED
      BY <2>2, <3>1 DEF IInv, TypeOK, StartNotAhead, OffsetInBounds
  <2>. QED
    BY <1>4, <2>1, <2>2
<1>7. reports = 0
  BY <1>1 DEF IInv, Unreported
<1>8. TypeOK'
  <2>1. start' \in -1 .. 2 /\ onsetCountA' \in Nat
    BY <1>6
  <2>2. /\ sent' \in ((Nat \ {0}) \X {0, 1}) \union {NotSent, StartSong}
        /\ reports' \in Nat
    <3>1. sent \in ((Nat \ {0}) \X {0, 1}) \union {NotSent, StartSong}
      BY DEF IInv, TypeOK
    <3>2. \/ sent' = sent /\ reports' = reports
          \/ sent' \in (Nat \ {0}) \X {0, 1} /\ reports' = reports + 1
      BY <1>5 DEF ClusterPost
    <3>. QED
      BY <1>7, <3>1, <3>2
  <2>3. /\ sinceLast' \in Int /\ onsetCountC' \in 0 .. OnsetCap
        /\ clusterMissFires' \in 0 .. MissLimit + 1 /\ qtReturn' \in {0, 1}
        /\ lastTempo' \in ClusterTempos \union {NoTempo}
        /\ fits' \in 0 .. 2 /\ oiSaveAvg' \in Nat
    BY <1>5 DEF ClusterPost
  <2>4. autoCorrTemposSize \in {0, TemposSize}
    BY DEF IInv, TypeOK
  <2>. QED
    BY <1>2, <1>3, <1>6, <2>1, <2>2, <2>3, <2>4 DEF IInv, TypeOK, RingPost
<1>9. WindowHasRoom'
  BY <1>3, <1>6 DEF IInv, WindowHasRoom
<1>10. /\ OneReport' /\ Unreported'
       /\ ReportNeedsTwoFits' /\ FitCounted' /\ ReportAgrees'
  BY <1>5, <1>6, <1>7
  DEF ClusterPost, OneReport, Unreported, ReportNeedsTwoFits, FitCounted,
      ReportAgrees, NearOctave
<1>. QED
  BY <1>3, <1>6, <1>8, <1>9, <1>10 DEF IInv, RingPost

LEMMA NextIInv == IInv /\ [Next]_vars => IInv'
<1>. SUFFICES ASSUME IInv, [Next]_vars PROVE IInv'
  OBVIOUS
<1>1. CASE NewDetection
  BY <1>1, NewDetectionIInv
<1>2. ASSUME NEW g \in Gaps, NEW v \in Volumes, Onset(g, v)
      PROVE  IInv'
  BY <1>2, FirstOnsetIInv, WindowOnsetIInv, SongOnsetIInv DEF Onset
<1>3. CASE UNCHANGED vars
  <2>. USE <1>3 DEF vars, windowVars, clusterVars, autoVars, oiVars, sizes, history
  <2>1. TypeOK'
    BY DEF IInv, TypeOK
  <2>2. RingHoldsLatest' /\ LogLongEnough'
    BY DEF IInv, RingHoldsLatest, SlotBack, LogLongEnough
  <2>. QED
    BY <2>1, <2>2
    DEF IInv, WindowHasRoom, OffsetInBounds, SizesClearInOrder, StartNotAhead,
        OneReport, Unreported, ReportNeedsTwoFits, FitCounted, ReportAgrees
<1>. QED
  BY <1>1, <1>2, <1>3 DEF Next

LEMMA SpecIInv == Spec => []IInv
BY InitIInv, NextIInv, PTL DEF Spec

(* Unless a newDetection has cleared onsetTimesSize, the window of onsets   *)
(* never overflows and, once it is open, the next float finds room in it:   *)
(* pdbeatdetection_float cannot get stuck.  A newDetection clears the size  *)
(* only after more intervals than there are words before it in the struct.  *)
THEOREM WindowNeverStuck == Spec => []WindowHasRoom
BY SpecIInv, PTL DEF IInv

(* tdOnsets is never indexed past its end on a clock exact to 2 ms, and     *)
(* before its beginning by less than two steps of the clock, whatever the   *)
(* roundings of the window's start and of its onsets do together.           *)
THEOREM OffsetsStayInBounds == Spec => []OffsetInBounds
BY SpecIInv, PTL DEF IInv

(* The result ring holds the latest analyses of the running detection.      *)
THEOREM RingIsCorrect == Spec => []RingHoldsLatest
BY SpecIInv, PTL DEF IInv

(* A detection reports once and then only waits for the song.              *)
THEOREM ReportsOnce == Spec => []OneReport
BY SpecIInv, PTL DEF IInv

(* No tempo is reported before the second fit of its own detection.         *)
THEOREM ReportsOnTwoFits == Spec => []ReportNeedsTwoFits
BY SpecIInv, PTL DEF IInv

(* The reported tempo is near an octave of the clustered one, for all       *)
(* tempos the two estimators can return.                                    *)
THEOREM ReportsAgree == Spec => []ReportAgrees
BY SpecIInv, PTL DEF IInv

(* Every field keeps its type. *)
THEOREM DetectorTypes == Spec => []TypeOK
BY SpecIInv, PTL DEF IInv

-----------------------------------------------------------------------------
(* Every step of the detector is a step of DetectorProtocol or a stutter.   *)
LEMMA StepSimulates == IInv /\ IInv' /\ [Next]_vars => [Protocol!ProtocolNext]_(Protocol!pvars)
<1>. SUFFICES ASSUME IInv, IInv', [Next]_vars
              PROVE  Protocol!ProtocolNext \/ UNCHANGED Protocol!pvars
  BY DEF Protocol!pvars
<1>. USE DEF Protocol!ProtocolNext, Protocol!pvars, Phase
<1>1. CASE NewDetection
  BY <1>1 DEF NewDetection, Protocol!Restart
<1>2. CASE FirstOnset
  BY <1>2 DEF FirstOnset
<1>3. ASSUME NEW g \in Gaps, NEW v \in Volumes, WindowOnset(g, v)
      PROVE  Protocol!ProtocolNext \/ UNCHANGED Protocol!pvars
  <2>1. start = 1
    BY <1>3 DEF WindowOnset
  <2>2. oiSave' \in [OiSlots -> Nat] /\ oiSaveCount' \in OiSlots
    BY DEF IInv, TypeOK
  <2>3. PICK st \in {1, 2} :
          /\ ClusterStage(g, st)
          /\ \/ onsetTimesSize = OnsetTimesSize /\ AutoCorrStage(g, st)
             \/ onsetTimesSize = 0 /\ start' = st
    <3>1. /\ onsetTimesSize \in {0, OnsetTimesSize} /\ onsetCountA \in Nat
          /\ onsetTimesSize = OnsetTimesSize => onsetCountA < onsetTimesSize - 1
      <4>1. /\ onsetTimesSize \in {0, OnsetTimesSize} /\ onsetCountA \in Nat
            /\ onsetTimesSize = OnsetTimesSize => onsetCountA \in 1 .. OnsetTimesSize - 2
        BY <2>1 DEF IInv, TypeOK, WindowHasRoom
      <4>. QED
        BY <4>1, DetectorAssumption
    <3>. QED
      BY <1>3, <3>1 DEF WindowOnset
  <2>4. /\ \/ st = 1 /\ UNCHANGED sent
           \/ st = 2 /\ sent' \in (Nat \ {0}) \X {0, 1}
    BY <2>2, <2>3, ClusterStagePost DEF ClusterPost, IInv
  <2>5. IF st = 1 THEN start' \in {0, 1} ELSE start' = 2
    BY <2>1, <2>3, AutoCorrStagePost
  <2>. QED
    BY <2>1, <2>4, <2>5 DEF Protocol!SendReport, Protocol!Report
<1>4. ASSUME NEW v \in Volumes, SongOnset(v)
      PROVE  Protocol!SendStartSong
  BY <1>4 DEF SongOnset, StartSong, Protocol!SendStartSong, Protocol!StartSong
<1>5. CASE UNCHANGED vars
  BY <1>5 DEF vars
<1>. QED
  BY <1>1, <1>2, <1>3, <1>4, <1>5 DEF Next, Onset

(* The detector keeps the protocol its listeners rely on.                   *)
THEOREM DetectorImplementsProtocol == Spec => ImplementsProtocol
<1>1. Init => Protocol!ProtocolInit
  BY DEF Init, Protocol!ProtocolInit, Phase, NotSent, Protocol!NotSent
<1>. QED
  BY <1>1, SpecIInv, StepSimulates, PTL
  DEF Spec, ImplementsProtocol, Protocol!ProtocolSpec
-----------------------------------------------------------------------------
(* Every float that finds the window open and leaves it open has put one    *)
(* more onset into it, whatever the two stages made of it, unless           *)
(* onsetTimesSize has been cleared.                                         *)
WindowFills ==
  [][start = 1 /\ start' = 1 =>
       onsetCountA' = onsetCountA + 1 \/ onsetTimesSize = 0]_vars

(* Together with WindowNeverStuck: as long as no newDetection has cleared   *)
(* onsetTimesSize, a window is closed by its onset number                   *)
(* OnsetTimesSize - 1 at the latest, however the onsets are spaced.         *)
THEOREM WindowsFillUp == Spec => WindowFills
<1>. DEFINE Fills == start = 1 /\ start' = 1 =>
                       onsetCountA' = onsetCountA + 1 \/ onsetTimesSize = 0
<1>1. ASSUME IInv, [Next]_vars PROVE [Fills]_vars
  <2>1. CASE NewDetection
    BY <2>1 DEF NewDetection
  <2>2. CASE FirstOnset
    BY <2>2 DEF FirstOnset
  <2>3. ASSUME NEW g \in Gaps, NEW v \in Volumes, WindowOnset(g, v) PROVE Fills
    <3>1. CASE onsetTimesSize = 0
      BY <3>1
    <3>2. CASE onsetTimesSize = OnsetTimesSize
      <4>1. start = 1 /\ onsetCountA < onsetTimesSize - 1
        BY <1>1, <2>3, <3>2, DetectorAssumption DEF WindowOnset, IInv, WindowHasRoom
      <4>2. PICK st \in {1, 2} : AutoCorrStage(g, st)
        BY <2>3, <4>1 DEF WindowOnset
      <4>. QED
        BY <4>2 DEF AutoCorrStage, AutoCorrAnalyze, StartAfterAnalysis
    <3>. QED
      BY <1>1, <3>1, <3>2 DEF IInv, TypeOK
  <2>4. ASSUME NEW v \in Volumes, SongOnset(v) PROVE Fills
    BY <2>4 DEF SongOnset
  <2>. QED
    BY <1>1, <2>1, <2>2, <2>3, <2>4 DEF Next, Onset
<1>. QED
  BY <1>1, SpecIInv, PTL DEF Spec, WindowFills
=============================================================================
