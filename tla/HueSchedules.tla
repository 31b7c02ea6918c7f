---------------------------- MODULE HueSchedules ----------------------------
(***************************************************************************)
(* The schedules of the bridge emulator.  createSchedule_3_2,              *)
(* setScheduleAttributes_3_4 and deleteSchedule_3_5 run in the threads of  *)
(* the HTTP server's pool, every ScheduleTask in the thread of a timer of  *)
(* its own, and nothing is synchronized between them.                      *)
(*                                                                         *)
(* Schedules are objects, numbered as they come: the loaded ones, which    *)
(* have no timer, and one for each request to create.  The operations of   *)
(* the HashMap are taken as atomic.  The date format is shared by all      *)
(* threads: a date that one reads while another uses the format may fail.  *)
(* Requests that fail before they put anything, and what an edit sets in   *)
(* the object, change nothing else here.                                   *)
(***************************************************************************)
EXTENDS Integers, FiniteSets

CONSTANTS
  Loaded,      \* schedules of the configuration
  Identifiers, \* the identifiers schedules may have, those of the file too
  MaxCreates,  \* bound: requests to create
  Editors,     \* threads of the pool that edit
  MaxEdits     \* bound: requests to edit

ASSUME HueSchedulesAssumption ==
  /\ Loaded \in Nat /\ MaxCreates \in Nat /\ MaxEdits \in Nat
  /\ 1 .. Loaded + MaxCreates \subseteq Identifiers /\ Identifiers \subseteq Nat \ {0}

None    == 0
Objects == 1 .. Loaded + MaxCreates
Created == Loaded + 1 .. Loaded + MaxCreates

(* What the request leaves out. *)
Kinds == {"full", "noTime", "noCommand"}

VARIABLES
  schedules,  \* identifier -> object, or None
  id,         \* per object: its identifier, None before it has one
  kind,       \* per object
  at,         \* per object: position of the handler that creates it
  timer,      \* per object: its PHScheduleTimer
  edit,       \* per editor: the object it edits, or None
  edits,      \* edits so far
  deleted,    \* history: objects a request has deleted
  contested,  \* history: objects counted, the identifiers in use not being the first
              \* ones, or another handler having listed an object since
  late,       \* history: objects listed because an edit put them back after they had gone
  clashes     \* history: objects whose date was read while another request used the format

history == <<deleted, contested, late, clashes>>
vars == <<schedules, id, kind, at, timer, edit, edits, history>>

(* A file holds any identifiers, such as those a deletion has left. *)
Init ==
  /\ id \in [Objects -> Identifiers \union {None}]
  /\ \A o \in Objects : id[o] = None <=> o \in Created
  /\ \A o, p \in Objects \ Created : id[o] = id[p] => o = p
  /\ schedules \in [Identifiers -> (Objects \ Created) \union {None}]
  /\ \A i \in Identifiers, o \in Objects \ Created : schedules[i] = o <=> id[o] = i
  /\ kind \in [Objects -> Kinds] /\ \A o \in Objects \ Created : kind[o] = "full"
  /\ at = [o \in Objects |-> IF o \in Created THEN "called" ELSE "returned"]
  /\ timer = [o \in Objects |-> "none"]
  /\ edit = [e \in Editors |-> None] /\ edits = 0
  /\ deleted = {} /\ contested = {} /\ late = {} /\ clashes = {}

InUse == {i \in Identifiers : schedules[i] # None}

(* HashMap.remove. *)
Remove(i) ==
  /\ schedules' = [schedules EXCEPT ![i] = None]
  /\ late' = late \ {schedules[i]}

-----------------------------------------------------------------------------
(* createSchedule_3_2. *)
Goes(o, from, to) == at[o] = from /\ at' = [at EXCEPT ![o] = to]

(* Handlers that have counted and not stored, and those at their date. *)
Counted == {o \in Objects : at[o] = "counted"}
Reading == {o \in Objects : at[o] = "stored"}

(* Fault: the number of schedules itself. *)
NextNumberLow == Cardinality(InUse)

(* Fault: the number after the next. *)
NextNumberHigh == Cardinality(InUse) + 2

NextNumber == Cardinality(InUse) + 1

(* ... and isDateValid, which uses the format. *)
Count(o) ==
  /\ Goes(o, "called", "counted")
  /\ id' = [id EXCEPT ![o] = NextNumber]
  /\ contested' = IF InUse = 1 .. Cardinality(InUse) THEN contested ELSE contested \union {o}
  /\ clashes' = clashes \union Reading
  /\ UNCHANGED <<schedules, kind, timer, edit, edits, deleted, late>>

(* Fault: the handler is done once the schedule is stored. *)
AfterPutDone(o) == "returned"

AfterPut(o) == "stored"

Put(o) ==
  /\ Goes(o, "counted", AfterPut(o))
  /\ schedules' = [schedules EXCEPT ![id[o]] = o]
  /\ contested' = (contested \union Counted) \ {o}
  /\ late' = late \ {schedules[id[o]]}
  /\ clashes' = IF (Counted \union Reading) \ {o} = {} THEN clashes ELSE clashes \union {o}
  /\ UNCHANGED <<id, kind, timer, edit, edits, deleted>>

(* stringToDate fails without a time, and it may when another request uses  *)
(* the format meanwhile: the schedule stays without a timer. When it does   *)
(* not fail the time may be a wrong one.                                    *)
MayFail(o) == kind[o] = "noTime" \/ o \in clashes

MakeTimer(o) ==
  /\ Goes(o, "stored", "returned")
  /\ \/ MayFail(o) /\ UNCHANGED timer
     \/ kind[o] # "noTime" /\ timer' = [timer EXCEPT ![o] = "waits"]
  /\ UNCHANGED <<schedules, id, kind, edit, edits, history>>

(* The format in other requests: a create that is refused, the dates of     *)
(* users.                                                                   *)
UseFormat ==
  /\ clashes' = clashes \union Reading
  /\ UNCHANGED <<schedules, id, kind, at, timer, edit, edits, deleted, contested, late>>

Create(o) == Count(o) \/ Put(o) \/ MakeTimer(o)

-----------------------------------------------------------------------------
(* ScheduleTask.run, at its time. Without a command it fails at once. *)
TimeIsUp(o) ==
  /\ timer[o] = "waits"
  /\ timer' = [timer EXCEPT ![o] = IF kind[o] = "noCommand" THEN "dead" ELSE "calls"]
  /\ UNCHANGED <<schedules, id, kind, at, edit, edits, history>>

(* Fault: the schedule stays. *)
FinishKept(o) == UNCHANGED <<schedules, late>>

(* What its identifier refers to by now. *)
Finish(o) == Remove(id[o])

(* doHttpCall, which returns or fails, has come to its end. *)
Complete(o) ==
  /\ timer[o] = "calls" /\ timer' = [timer EXCEPT ![o] = "done"]
  /\ Finish(o)
  /\ UNCHANGED <<id, kind, at, edit, edits, deleted, contested, clashes>>

ScheduleTask(o) == TimeIsUp(o) \/ Complete(o)

-----------------------------------------------------------------------------
(* setScheduleAttributes_3_4: the identifier is tested and the object read, *)
(* in one step here, ...                                                    *)
Edit(e, i) ==
  /\ edits < MaxEdits /\ edits' = edits + 1
  /\ edit[e] = None /\ schedules[i] # None
  /\ edit' = [edit EXCEPT ![e] = schedules[i]]
  /\ UNCHANGED <<schedules, id, kind, at, timer, history>>

(* ... and put again after the response. *)
PutEdited(e) ==
  /\ edit[e] # None
  /\ edit' = [edit EXCEPT ![e] = None]
  /\ LET o == edit[e]
         i == id[o]
     IN  /\ schedules' = [schedules EXCEPT ![i] = o]
         /\ IF schedules[i] = o
            THEN UNCHANGED <<late, contested>>
            ELSE late' = (late \ {schedules[i]}) \union {o} /\ contested' = contested \union Counted
  /\ UNCHANGED <<id, kind, at, timer, edits, deleted, clashes>>

(* A command for a schedule that has gone meanwhile. *)
EditFails(e) ==
  /\ edit[e] # None /\ schedules[id[edit[e]]] = None
  /\ edit' = [edit EXCEPT ![e] = None]
  /\ UNCHANGED <<schedules, id, kind, at, timer, edits, history>>

Editing(e) == (\E i \in Identifiers : Edit(e, i)) \/ PutEdited(e) \/ EditFails(e)

(* deleteSchedule_3_5, which leaves the timer alone. *)
Delete(i) ==
  /\ schedules[i] # None
  /\ Remove(i)
  /\ deleted' = deleted \union {schedules[i]}
  /\ UNCHANGED <<id, kind, at, timer, edit, edits, contested, clashes>>

Next ==
  \/ \E o \in Created : Create(o) \/ ScheduleTask(o)
  \/ \E e \in Editors : Editing(e)
  \/ \E i \in Identifiers : Delete(i)
  \/ UseFormat

Spec == Init /\ [][Next]_vars

(* The threads of the pool run, and so do the timers.  The call a schedule   *)
(* makes ends: the server answers with its headers before it does the work, *)
(* or the call fails.                                                       *)
FairSpec ==
  /\ Spec
  /\ \A o \in Created : WF_vars(Put(o)) /\ WF_vars(MakeTimer(o)) /\ WF_vars(ScheduleTask(o))

-----------------------------------------------------------------------------
(* Every field holds a value of its type, and a schedule is stored under    *)
(* its own identifier.                                                      *)
TypeOK ==
  /\ schedules \in [Identifiers -> Objects \union {None}]
  /\ id \in [Objects -> Identifiers \union {None}]
  /\ kind \in [Objects -> Kinds]
  /\ at \in [Objects -> {"called", "counted", "stored", "returned"}]
  /\ timer \in [Objects -> {"none", "waits", "calls", "done", "dead"}]
  /\ edit \in [Editors -> Objects \union {None}] /\ edits \in 0 .. MaxEdits
  /\ deleted \subseteq Objects /\ contested \subseteq Created
  /\ late \subseteq Objects /\ clashes \subseteq Created
  /\ \A i \in InUse : id[schedules[i]] = i

(* The identifier createSchedule answers with names the schedule it made:   *)
(* a new schedule takes the place of another one only if the identifiers    *)
(* in use were not the first ones when they were counted (a file with a     *)
(* gap, a deletion, a schedule that has run), or if another handler, of a   *)
(* create or of an edit that puts back, has listed a schedule since.        *)
NewIdsAreFree ==
  [][\A o \in Created :
       at[o] = "counted" /\ at'[o] # "counted" =>
         schedules[id[o]] = None \/ o \in contested]_vars

(* A schedule that is listed is still to be executed, unless it was loaded, *)
(* lacks its time or its command, had its date read while another request   *)
(* used the format, or is listed because an edit put it back too late.      *)
ListedIsPending ==
  \A i \in InUse :
    LET o == schedules[i]
    IN  \/ timer[o] \in {"waits", "calls"}
        \/ timer[o] = "none" /\ (at[o] = "stored" \/ o \notin Created \/ MayFail(o))
        \/ timer[o] = "dead" /\ kind[o] = "noCommand"
        \/ o \in late

(* ... and one that is still to be executed is listed, unless it has been   *)
(* deleted or its identifier was given to another one too, which may have   *)
(* replaced it or taken it off the list with the timer it left behind.      *)
PendingIsListed ==
  \A o \in Created :
    at[o] = "stored" \/ timer[o] \in {"waits", "calls"} =>
      \/ schedules[id[o]] = o
      \/ o \in deleted
      \/ \E p \in Objects \ {o} : id[p] = id[o]

TimersMatchTheList == ListedIsPending /\ PendingIsListed

(* "Schedule is deleted after completion": a schedule with a time, which no *)
(* other request's date has met, and a command leaves the list for good,    *)
(* but for the times an edit has put it back too late.                      *)
ScheduleIsDeleted ==
  \A o \in Created :
    (at[o] = "returned" /\ kind[o] = "full" /\ o \notin clashes) ~>
      [](o \in late \/ \A i \in Identifiers : schedules[i] # o)
=============================================================================
