------------------------- MODULE HueSchedulesProofs -------------------------
(***************************************************************************)
(* Safety of the schedules for any number of loaded schedules, whatever    *)
(* their identifiers, of created ones, of editing threads and of edits.    *)
(***************************************************************************)
EXTENDS HueSchedules, FiniteSetTheorems, TLAPS

LEMMA ConstantFacts ==
  /\ Created \subseteq Objects /\ Objects \subseteq Identifiers
  /\ None \notin Identifiers /\ None \notin Objects
BY HueSchedulesAssumption DEF Created, Objects, None

-----------------------------------------------------------------------------
(* The inductive invariant. *)
Tables ==
  /\ schedules \in [Identifiers -> Objects \union {None}]
  /\ id \in [Objects -> Identifiers \union {None}]
  /\ kind \in [Objects -> Kinds]
  /\ edit \in [Editors -> Objects \union {None}]

Positions ==
  /\ at \in [Objects -> {"called", "counted", "stored", "returned"}]
  /\ timer \in [Objects -> {"none", "waits", "calls", "done", "dead"}]
  /\ edits \in 0 .. MaxEdits

Histories ==
  /\ deleted \subseteq Objects /\ contested \subseteq Created
  /\ late \subseteq Objects /\ clashes \subseteq Created

Placed == \A i \in InUse : id[schedules[i]] = i

Stored(o) == at[o] \in {"stored", "returned"}

(* Only a handler's own object is not stored yet, and it is in no place and *)
(* has no timer.                                                            *)
Known ==
  /\ \A i \in InUse : Stored(schedules[i])
  /\ \A e \in Editors : edit[e] # None => Stored(edit[e])
  /\ \A o \in Objects : at[o] = "called" <=> id[o] = None
  /\ \A o \in Objects : at[o] # "returned" => timer[o] = "none"
  /\ \A o \in Objects : o \notin Created => at[o] = "returned"

(* A number that was counted is free as long as it is not contested. *)
CountedIsFree ==
  \A o \in Objects : at[o] = "counted" /\ o \notin contested => schedules[id[o]] = None

IInv == Tables /\ Positions /\ Histories /\ Placed /\ Known /\ TimersMatchTheList /\ CountedIsFree

LEMMA TypeParts == TypeOK <=> Tables /\ Positions /\ Histories /\ Placed
BY DEF TypeOK, Tables, Positions, Histories, Placed

(* The next number is an identifier: the schedules in use are different      *)
(* objects, and the one whose handler counts them is none of them.           *)
LEMMA NextNumberType ==
  ASSUME Tables, Placed, Known, NEW o \in Objects, at[o] = "called"
  PROVE  NextNumber \in Identifiers /\ Cardinality(InUse) \in Nat
<1>. DEFINE n == Loaded + MaxCreates
            f == [i \in InUse |-> schedules[i]]
<1>1. n \in Nat /\ Objects = 1 .. n
  BY HueSchedulesAssumption DEF Objects
<1>2. IsFiniteSet(Objects) /\ Cardinality(Objects) = n
  <2>1. n >= 1
    BY <1>1
  <2>. QED
    BY <1>1, <2>1, FS_Interval
<1>3. IsFiniteSet(Objects \ {o}) /\ Cardinality(Objects \ {o}) = n - 1
  BY <1>2, FS_RemoveElement
<1>4. f \in Injection(InUse, Objects \ {o})
  <2>1. ASSUME NEW i \in InUse PROVE schedules[i] \in Objects \ {o}
    BY <2>1 DEF Tables, Known, Stored, InUse
  <2>2. ASSUME NEW i \in InUse, NEW j \in InUse, schedules[i] = schedules[j] PROVE i = j
    BY <2>2 DEF Placed
  <2>. QED
    BY <2>1, <2>2 DEF Injection, IsInjective
<1>5. IsFiniteSet(InUse) /\ Cardinality(InUse) <= n - 1
  BY <1>3, <1>4, FS_Injection
<1>6. Cardinality(InUse) \in Nat
  BY <1>5, FS_CardinalityType
<1>7. NextNumber \in Objects
  BY <1>1, <1>5, <1>6 DEF NextNumber
<1>. QED
  BY <1>6, <1>7, ConstantFacts

-----------------------------------------------------------------------------
LEMMA InitIInv == Init => IInv
<1>. SUFFICES ASSUME Init PROVE IInv
  OBVIOUS
<1>. USE ConstantFacts
<1>1. Tables
  BY DEF Init, Tables
<1>2. Positions
  BY HueSchedulesAssumption DEF Init, Positions
<1>3. Histories
  BY DEF Init, Histories
<1>4. InUse \subseteq Identifiers /\ \A i \in InUse : schedules[i] \in Objects \ Created /\ id[schedules[i]] = i
  BY DEF Init, InUse
<1>5. Placed
  BY <1>4 DEF Placed
<1>6. Known
  BY <1>4 DEF Init, Known, Stored
<1>7. TimersMatchTheList
  BY <1>4 DEF Init, TimersMatchTheList, ListedIsPending, PendingIsListed
<1>8. CountedIsFree
  BY DEF Init, CountedIsFree
<1>. QED
  BY <1>1, <1>2, <1>3, <1>5, <1>6, <1>7, <1>8 DEF IInv

LEMMA StepIInv == IInv /\ [Next]_vars => IInv'
<1>. SUFFICES ASSUME IInv, [Next]_vars PROVE IInv'
  OBVIOUS
<1>. USE ConstantFacts
<1>1. ASSUME NEW o \in Created, Count(o) PROVE IInv'
  <2>0. NextNumber \in Identifiers /\ NextNumber # None /\ Cardinality(InUse) \in Nat /\ at[o] = "called"
    BY <1>1, NextNumberType DEF IInv, Count, Goes
  <2>00. InUse = 1 .. Cardinality(InUse) => schedules[NextNumber] = None
    BY <2>0 DEF NextNumber, InUse
  <2>01. Reading \subseteq Created
    BY DEF IInv, Reading, Known
  <2>1. Tables'
    BY <1>1, <2>0, <2>00, <2>01 DEF IInv, Count, Goes, history, Tables
  <2>2. Positions'
    BY <1>1, <2>0, <2>00, <2>01, HueSchedulesAssumption DEF IInv, Count, Goes, history, Tables, Positions, Kinds
  <2>3. Histories'
    BY <1>1, <2>0, <2>00, <2>01 DEF IInv, Count, Goes, history, Histories, Tables, Known
  <2>4. Placed'
    BY <1>1, <2>0, <2>00, <2>01 DEF IInv, Count, Goes, history, Tables, Placed, Known, Stored, InUse
  <2>5. Known'
    BY <1>1, <2>0, <2>00, <2>01 DEF IInv, Count, Goes, history, Tables, Positions, Known, Stored, Placed, InUse
  <2>6. ListedIsPending'
    BY <1>1, <2>0, <2>00, <2>01 DEF IInv, Count, Goes, history, Tables, Positions, Placed, Known, Stored,
      TimersMatchTheList, ListedIsPending, MayFail, InUse, Kinds
  <2>7. PendingIsListed'
    BY <1>1, <2>0, <2>00, <2>01 DEF IInv, Count, Goes, history, Tables, Positions, Placed, Known, Stored,
      TimersMatchTheList, PendingIsListed, InUse
  <2>8. CountedIsFree'
    BY <1>1, <2>0, <2>00, <2>01 DEF IInv, Count, Goes, history, Tables, Positions, Known, CountedIsFree
  <2>. QED
    BY <2>1, <2>2, <2>3, <2>4, <2>5, <2>6, <2>7, <2>8 DEF IInv, TimersMatchTheList
<1>2. ASSUME NEW o \in Created, Put(o) PROVE IInv'
  <2>0. o \in Objects /\ id[o] \in Identifiers /\ id[o] # None /\ timer[o] = "none" /\ at[o] = "counted"
    BY <1>2 DEF IInv, Put, Goes, Tables, Known
  <2>1. Tables'
    BY <1>2, <2>0 DEF IInv, Put, Goes, AfterPut, Counted, Reading, history, Tables
  <2>2. Positions'
    BY <1>2, <2>0, HueSchedulesAssumption DEF IInv, Put, Goes, AfterPut, Counted, Reading, history, Tables, Positions, Kinds
  <2>3. Histories'
    BY <1>2, <2>0 DEF IInv, Put, Goes, AfterPut, Counted, Reading, history, Histories, Tables, Known
  <2>4. Placed'
    BY <1>2, <2>0 DEF IInv, Put, Goes, AfterPut, Counted, Reading, history, Tables, Placed, Known, Stored, InUse
  <2>5. Known'
    BY <1>2, <2>0 DEF IInv, Put, Goes, AfterPut, Counted, Reading, history, Tables, Positions, Known, Stored, Placed, InUse
  <2>6. ListedIsPending'
    BY <1>2, <2>0 DEF IInv, Put, Goes, AfterPut, Counted, Reading, history, Tables, Positions, Placed, Known, Stored,
      TimersMatchTheList, ListedIsPending, MayFail, InUse, Kinds
  <2>7. PendingIsListed'
    BY <1>2, <2>0 DEF IInv, Put, Goes, AfterPut, Counted, Reading, history, Tables, Positions, Placed, Known, Stored,
      TimersMatchTheList, PendingIsListed, InUse
  <2>8. CountedIsFree'
    BY <1>2, <2>0 DEF IInv, Put, Goes, AfterPut, Counted, Reading, history, Tables, Positions, Known, CountedIsFree
  <2>. QED
    BY <2>1, <2>2, <2>3, <2>4, <2>5, <2>6, <2>7, <2>8 DEF IInv, TimersMatchTheList
<1>3. ASSUME NEW o \in Created, MakeTimer(o) PROVE IInv'
  <2>0. timer[o] = "none"
    BY <1>3 DEF IInv, MakeTimer, Goes, Known
  <2>1. Tables'
    BY <1>3, <2>0 DEF IInv, MakeTimer, Goes, history, Tables
  <2>2. Positions'
    BY <1>3, <2>0, HueSchedulesAssumption DEF IInv, MakeTimer, Goes, history, Tables, Positions, Kinds
  <2>3. Histories'
    BY <1>3, <2>0 DEF IInv, MakeTimer, Goes, history, Histories, Tables, Known
  <2>4. Placed'
    BY <1>3, <2>0 DEF IInv, MakeTimer, Goes, history, Tables, Placed, Known, Stored, InUse
  <2>5. Known'
    BY <1>3, <2>0 DEF IInv, MakeTimer, Goes, history, Tables, Positions, Known, Stored, Placed, InUse
  <2>6. ListedIsPending'
    BY <1>3, <2>0 DEF IInv, MakeTimer, Goes, history, Tables, Positions, Placed, Known, Stored,
      TimersMatchTheList, ListedIsPending, MayFail, InUse, Kinds
  <2>7. PendingIsListed'
    BY <1>3, <2>0 DEF IInv, MakeTimer, Goes, history, Tables, Positions, Placed, Known, Stored,
      TimersMatchTheList, PendingIsListed, InUse
  <2>8. CountedIsFree'
    BY <1>3, <2>0 DEF IInv, MakeTimer, Goes, history, Tables, Positions, Known, CountedIsFree
  <2>. QED
    BY <2>1, <2>2, <2>3, <2>4, <2>5, <2>6, <2>7, <2>8 DEF IInv, TimersMatchTheList
<1>4. ASSUME NEW o \in Created, TimeIsUp(o) PROVE IInv'
  <2>0. at[o] = "returned" /\ o \in Objects
    BY <1>4 DEF IInv, TimeIsUp, Known
  <2>1. Tables'
    BY <1>4, <2>0 DEF IInv, TimeIsUp, history, Tables
  <2>2. Positions'
    BY <1>4, <2>0, HueSchedulesAssumption DEF IInv, TimeIsUp, history, Tables, Positions, Kinds
  <2>3. Histories'
    BY <1>4, <2>0 DEF IInv, TimeIsUp, history, Histories, Tables, Known
  <2>4. Placed'
    BY <1>4, <2>0 DEF IInv, TimeIsUp, history, Tables, Placed, Known, Stored, InUse
  <2>5. Known'
    BY <1>4, <2>0 DEF IInv, TimeIsUp, history, Tables, Positions, Known, Stored, Placed, InUse
  <2>6. ListedIsPending'
    BY <1>4, <2>0 DEF IInv, TimeIsUp, history, Tables, Positions, Placed, Known, Stored,
      TimersMatchTheList, ListedIsPending, MayFail, InUse, Kinds
  <2>7. PendingIsListed'
    BY <1>4, <2>0 DEF IInv, TimeIsUp, history, Tables, Positions, Placed, Known, Stored,
      TimersMatchTheList, PendingIsListed, InUse
  <2>8. CountedIsFree'
    BY <1>4, <2>0 DEF IInv, TimeIsUp, history, Tables, Positions, Known, CountedIsFree
  <2>. QED
    BY <2>1, <2>2, <2>3, <2>4, <2>5, <2>6, <2>7, <2>8 DEF IInv, TimersMatchTheList
<1>5. ASSUME NEW o \in Created, Complete(o) PROVE IInv'
  <2>0. at[o] = "returned" /\ id[o] \in Identifiers
    BY <1>5 DEF IInv, Complete, Tables, Positions, Known
  <2>1. Tables'
    BY <1>5, <2>0 DEF IInv, Complete, Finish, Remove, history, Tables
  <2>2. Positions'
    BY <1>5, <2>0, HueSchedulesAssumption DEF IInv, Complete, Finish, Remove, history, Tables, Positions, Kinds
  <2>3. Histories'
    BY <1>5, <2>0 DEF IInv, Complete, Finish, Remove, history, Histories, Tables, Known
  <2>4. Placed'
    BY <1>5, <2>0 DEF IInv, Complete, Finish, Remove, history, Tables, Placed, Known, Stored, InUse
  <2>5. Known'
    BY <1>5, <2>0 DEF IInv, Complete, Finish, Remove, history, Tables, Positions, Known, Stored, Placed, InUse
  <2>6. ListedIsPending'
    BY <1>5, <2>0 DEF IInv, Complete, Finish, Remove, history, Tables, Positions, Placed, Known, Stored,
      TimersMatchTheList, ListedIsPending, MayFail, InUse, Kinds
  <2>7. PendingIsListed'
    BY <1>5, <2>0 DEF IInv, Complete, Finish, Remove, history, Tables, Positions, Placed, Known, Stored,
      TimersMatchTheList, PendingIsListed, InUse
  <2>8. CountedIsFree'
    BY <1>5, <2>0 DEF IInv, Complete, Finish, Remove, history, Tables, Positions, Known, CountedIsFree
  <2>. QED
    BY <2>1, <2>2, <2>3, <2>4, <2>5, <2>6, <2>7, <2>8 DEF IInv, TimersMatchTheList
<1>6. ASSUME NEW e \in Editors, NEW i \in Identifiers, Edit(e, i) PROVE IInv'
  <2>1. Tables'
    BY <1>6 DEF IInv, Edit, history, Tables
  <2>2. Positions'
    BY <1>6, HueSchedulesAssumption DEF IInv, Edit, history, Tables, Positions, Kinds
  <2>3. Histories'
    BY <1>6 DEF IInv, Edit, history, Histories, Tables, Known
  <2>4. Placed'
    BY <1>6 DEF IInv, Edit, history, Tables, Placed, Known, Stored, InUse
  <2>5. Known'
    BY <1>6 DEF IInv, Edit, history, Tables, Positions, Known, Stored, Placed, InUse
  <2>6. ListedIsPending'
    BY <1>6 DEF IInv, Edit, history, Tables, Positions, Placed, Known, Stored,
      TimersMatchTheList, ListedIsPending, MayFail, InUse, Kinds
  <2>7. PendingIsListed'
    BY <1>6 DEF IInv, Edit, history, Tables, Positions, Placed, Known, Stored,
      TimersMatchTheList, PendingIsListed, InUse
  <2>8. CountedIsFree'
    BY <1>6 DEF IInv, Edit, history, Tables, Positions, Known, CountedIsFree
  <2>. QED
    BY <2>1, <2>2, <2>3, <2>4, <2>5, <2>6, <2>7, <2>8 DEF IInv, TimersMatchTheList
<1>7. ASSUME NEW e \in Editors, PutEdited(e) PROVE IInv'
  <2>0. edit[e] \in Objects /\ id[edit[e]] \in Identifiers /\ Stored(edit[e])
    <3>1. edit[e] \in Objects /\ edit[e] # None
      BY <1>7 DEF IInv, PutEdited, Tables
    <3>2. Stored(edit[e]) /\ id[edit[e]] # None
      BY <3>1 DEF IInv, Known, Stored
    <3>. QED
      BY <3>1, <3>2 DEF IInv, Tables
  <2>1. Tables'
    BY <1>7, <2>0 DEF IInv, PutEdited, Counted, history, Tables
  <2>2. Positions'
    BY <1>7, <2>0, HueSchedulesAssumption DEF IInv, PutEdited, Counted, history, Tables, Positions, Kinds
  <2>3. Histories'
    BY <1>7, <2>0 DEF IInv, PutEdited, Counted, history, Histories, Tables, Known
  <2>4. Placed'
    BY <1>7, <2>0 DEF IInv, PutEdited, Counted, history, Tables, Placed, Known, Stored, InUse
  <2>5. Known'
    BY <1>7, <2>0 DEF IInv, PutEdited, Counted, history, Tables, Positions, Known, Stored, Placed, InUse
  <2>6. ListedIsPending'
    BY <1>7, <2>0 DEF IInv, PutEdited, Counted, history, Tables, Positions, Placed, Known, Stored,
      TimersMatchTheList, ListedIsPending, MayFail, InUse, Kinds
  <2>7. PendingIsListed'
    BY <1>7, <2>0 DEF IInv, PutEdited, Counted, history, Tables, Positions, Placed, Known, Stored,
      TimersMatchTheList, PendingIsListed, InUse
  <2>8. CountedIsFree'
    BY <1>7, <2>0 DEF IInv, PutEdited, Counted, history, Tables, Positions, Known, CountedIsFree
  <2>. QED
    BY <2>1, <2>2, <2>3, <2>4, <2>5, <2>6, <2>7, <2>8 DEF IInv, TimersMatchTheList
<1>8. ASSUME NEW e \in Editors, EditFails(e) PROVE IInv'
  <2>1. Tables'
    BY <1>8 DEF IInv, EditFails, history, Tables
  <2>2. Positions'
    BY <1>8, HueSchedulesAssumption DEF IInv, EditFails, history, Tables, Positions, Kinds
  <2>3. Histories'
    BY <1>8 DEF IInv, EditFails, history, Histories, Tables, Known
  <2>4. Placed'
    BY <1>8 DEF IInv, EditFails, history, Tables, Placed, Known, Stored, InUse
  <2>5. Known'
    BY <1>8 DEF IInv, EditFails, history, Tables, Positions, Known, Stored, Placed, InUse
  <2>6. ListedIsPending'
    BY <1>8 DEF IInv, EditFails, history, Tables, Positions, Placed, Known, Stored,
      TimersMatchTheList, ListedIsPending, MayFail, InUse, Kinds
  <2>7. PendingIsListed'
    BY <1>8 DEF IInv, EditFails, history, Tables, Positions, Placed, Known, Stored,
      TimersMatchTheList, PendingIsListed, InUse
  <2>8. CountedIsFree'
    BY <1>8 DEF IInv, EditFails, history, Tables, Positions, Known, CountedIsFree
  <2>. QED
    BY <2>1, <2>2, <2>3, <2>4, <2>5, <2>6, <2>7, <2>8 DEF IInv, TimersMatchTheList
<1>9. ASSUME NEW i \in Identifiers, Delete(i) PROVE IInv'
  <2>1. Tables'
    BY <1>9 DEF IInv, Delete, Remove, history, Tables
  <2>2. Positions'
    BY <1>9, HueSchedulesAssumption DEF IInv, Delete, Remove, history, Tables, Positions, Kinds
  <2>3. Histories'
    BY <1>9 DEF IInv, Delete, Remove, history, Histories, Tables, Known
  <2>4. Placed'
    BY <1>9 DEF IInv, Delete, Remove, history, Tables, Placed, Known, Stored, InUse
  <2>5. Known'
    BY <1>9 DEF IInv, Delete, Remove, history, Tables, Positions, Known, Stored, Placed, InUse
  <2>6. ListedIsPending'
    BY <1>9 DEF IInv, Delete, Remove, history, Tables, Positions, Placed, Known, Stored,
      TimersMatchTheList, ListedIsPending, MayFail, InUse, Kinds
  <2>7. PendingIsListed'
    BY <1>9 DEF IInv, Delete, Remove, history, Tables, Positions, Placed, Known, Stored,
      TimersMatchTheList, PendingIsListed, InUse
  <2>8. CountedIsFree'
    BY <1>9 DEF IInv, Delete, Remove, history, Tables, Positions, Known, CountedIsFree
  <2>. QED
    BY <2>1, <2>2, <2>3, <2>4, <2>5, <2>6, <2>7, <2>8 DEF IInv, TimersMatchTheList
<1>10. CASE UseFormat
  <2>1. Tables'
    BY <1>10 DEF IInv, UseFormat, Reading, history, Tables
  <2>2. Positions'
    BY <1>10, HueSchedulesAssumption DEF IInv, UseFormat, Reading, history, Tables, Positions, Kinds
  <2>3. Histories'
    BY <1>10 DEF IInv, UseFormat, Reading, history, Histories, Tables, Known
  <2>4. Placed'
    BY <1>10 DEF IInv, UseFormat, Reading, history, Tables, Placed, Known, Stored, InUse
  <2>5. Known'
    BY <1>10 DEF IInv, UseFormat, Reading, history, Tables, Positions, Known, Stored, Placed, InUse
  <2>6. ListedIsPending'
    BY <1>10 DEF IInv, UseFormat, Reading, history, Tables, Positions, Placed, Known, Stored,
      TimersMatchTheList, ListedIsPending, MayFail, InUse, Kinds
  <2>7. PendingIsListed'
    BY <1>10 DEF IInv, UseFormat, Reading, history, Tables, Positions, Placed, Known, Stored,
      TimersMatchTheList, PendingIsListed, InUse
  <2>8. CountedIsFree'
    BY <1>10 DEF IInv, UseFormat, Reading, history, Tables, Positions, Known, CountedIsFree
  <2>. QED
    BY <2>1, <2>2, <2>3, <2>4, <2>5, <2>6, <2>7, <2>8 DEF IInv, TimersMatchTheList
<1>11. CASE UNCHANGED vars
  BY <1>11 DEF vars, history, IInv, Tables, Positions, Histories, Placed, Known, Stored,
    TimersMatchTheList, ListedIsPending, PendingIsListed, MayFail, InUse, CountedIsFree
<1>. QED
  BY <1>1, <1>2, <1>3, <1>4, <1>5, <1>6, <1>7, <1>8, <1>9, <1>10, <1>11
  DEF Next, Create, ScheduleTask, Editing

LEMMA SpecIInv == Spec => []IInv
<1>. QED
  BY InitIInv, StepIInv, PTL DEF Spec

-----------------------------------------------------------------------------
(* Type correctness: identifiers, positions and timers stay in range, and   *)
(* every object is listed under its own identifier alone.                   *)
THEOREM ScheduleTypes == Spec => []TypeOK
<1>1. IInv => TypeOK
  BY TypeParts DEF IInv
<1>. QED
  BY <1>1, SpecIInv, PTL

(* A schedule that is listed is still to be executed, and one that is still *)
(* to be executed is listed, with the exceptions ListedIsPending and        *)
(* PendingIsListed name: for any number of creates, edits and deletions.    *)
THEOREM TimersBackTheList == Spec => []TimersMatchTheList
<1>1. IInv => TimersMatchTheList
  BY DEF IInv
<1>. QED
  BY <1>1, SpecIInv, PTL

(* size() + 1 is free when the identifiers in use are the first ones and no *)
(* other handler lists a schedule between the count and the put.            *)
THEOREM NewIdentifiersAreFree == Spec => NewIdsAreFree
<1>1. ASSUME IInv, [Next]_vars
      PROVE  [\A o \in Created :
                at[o] = "counted" /\ at'[o] # "counted" =>
                  schedules[id[o]] = None \/ o \in contested]_vars
  <2>1. ASSUME NEW o \in Created, at[o] = "counted"
        PROVE  schedules[id[o]] = None \/ o \in contested
    BY <1>1, <2>1, ConstantFacts DEF IInv, CountedIsFree
  <2>. QED
    BY <2>1
<1>. QED
  BY <1>1, SpecIInv, PTL DEF Spec, NewIdsAreFree
=============================================================================
