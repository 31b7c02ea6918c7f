----------------------------- MODULE HueLights -----------------------------
(***************************************************************************)
(* The light states of the bridge emulator.  The HTTP server runs every    *)
(* request in a thread of a cached pool and nothing is synchronized:       *)
(* setLightState_1_6 and setGroupState_2_5 write into the PHLightState a   *)
(* light refers to, field by field, and then install it again; a recall    *)
(* installs copies of the states of a scene, and createScene_4_2 saves     *)
(* copies of the lights' states in emulatorScenes.                         *)
(*                                                                         *)
(* States are objects, numbered as they are made.  Their fields are on and *)
(* hue, which stands for those that can only be set while the light is on. *)
(* Requests that name an unknown light, group or scene change nothing and  *)
(* are left out.                                                           *)
(***************************************************************************)
EXTENDS Integers

CONSTANTS
  Lights, Scenes,
  Handlers,      \* threads of the pool
  Hues,          \* values in range
  Bodies,        \* what requests set: functions from fields to values
  MaxRequests,   \* bound: requests in all
  MaxObjects     \* bound: state objects made

Objects == 1 .. MaxObjects
None    == 0
NoList  == [l \in Lights |-> None]
Idle    == [at |-> "idle"]

Content == [on : BOOLEAN, hue : Hues]

ASSUME HueLightsAssumption ==
  /\ MaxRequests \in Nat /\ MaxObjects \in Nat
  /\ \A b \in Bodies :
       DOMAIN b \subseteq {"on", "hue"} /\ ("on" \in DOMAIN b => b["on"] \in BOOLEAN)

VARIABLES
  requests,  \* requests so far
  made,      \* objects so far
  content,   \* per object
  state,     \* PHLight.state: per light, an object
  saved,     \* emulatorScenes: per scene, an object for each of its lights, else None
  job,       \* per handler: position in its request and its local variables
  raced      \* history: handlers about to set hue whose state has been switched off since
             \* they looked at on

heap == <<made, content>>
vars == <<requests, heap, state, saved, job, raced>>

Init ==
  /\ requests = 0
  /\ made \in Objects
  /\ state \in [Lights -> 1 .. made]
  /\ \A k, l \in Lights : state[k] = state[l] => k = l
  /\ \A o \in 1 .. made : \E l \in Lights : state[l] = o
  /\ content \in [Objects -> Content]
  /\ \A o \in Objects : o > made => content[o] = content[made]
  /\ saved = [s \in Scenes |-> NoList]
  /\ job = [h \in Handlers |-> Idle]
  /\ raced = {}

At(h, position) == job[h].at = position

Goes(h, to) == job' = [job EXCEPT ![h] = to]

(* A request arrives. *)
Begins(h, at) ==
  /\ requests < MaxRequests /\ requests' = requests + 1
  /\ At(h, "idle") /\ Goes(h, at)
  /\ UNCHANGED <<heap, state, saved, raced>>

(* The copy constructor: object o. *)
Makes(o, contents) ==
  /\ o = made + 1 /\ made' = o
  /\ content' = [content EXCEPT ![o] = contents]

-----------------------------------------------------------------------------
(* setLightState_1_6 of one light, setGroupState_2_5 of several. *)
Update(h, some, body) == Begins(h, [at |-> "fetch", lights |-> some, body |-> body])

(* The next light: ls is the object it refers to. *)
Fetch(h, l) ==
  /\ At(h, "fetch") /\ l \in job[h].lights
  /\ Goes(h, [at |-> "fields", lights |-> job[h].lights \ {l}, body |-> job[h].body,
              light |-> l, object |-> state[l], fields |-> DOMAIN job[h].body])
  /\ UNCHANGED <<requests, heap, state, saved, raced>>

(* setLightState, which goes through the fields in any order. *)
FieldDone(h, f) == Goes(h, [job[h] EXCEPT !.at = "fields", !.fields = @ \ {f}])

Writing(o) == {k \in Handlers : At(k, "write") /\ job[k].object = o}

SetOn(h) ==
  /\ At(h, "fields") /\ "on" \in job[h].fields /\ FieldDone(h, "on")
  /\ content' = [content EXCEPT ![job[h].object].on = job[h].body["on"]]
  /\ raced' = IF job[h].body["on"] THEN raced \ Writing(job[h].object)
                                   ELSE raced \union Writing(job[h].object)
  /\ UNCHANGED <<requests, made, state, saved>>

InRange(v) == v \in Hues

(* Fault: the state of a light that is off can be set. *)
SettableAlways(h) == InRange(job[h].body["hue"])

(* Fault: the range is not tested. *)
SettableAny(h) == content[job[h].object].on

Settable(h) == content[job[h].object].on /\ InRange(job[h].body["hue"])

(* A light that is off, or a value out of range, is an error of this field. *)
TestHue(h) ==
  /\ At(h, "fields") /\ "hue" \in job[h].fields
  /\ IF Settable(h) THEN Goes(h, [job[h] EXCEPT !.at = "write"]) ELSE FieldDone(h, "hue")
  /\ UNCHANGED <<requests, heap, state, saved, raced>>

SetHue(h) ==
  /\ At(h, "write") /\ FieldDone(h, "hue")
  /\ content' = [content EXCEPT ![job[h].object].hue = job[h].body["hue"]]
  /\ raced' = raced \ {h}
  /\ UNCHANGED <<requests, made, state, saved>>

(* Fault: the state of the first light is installed in all that are left. *)
TargetsRest(h) == {job[h].light} \union job[h].lights

Targets(h) == {job[h].light}

Install(h) ==
  /\ At(h, "fields") /\ job[h].fields = {}
  /\ state' = [l \in Lights |-> IF l \in Targets(h) THEN job[h].object ELSE state[l]]
  /\ IF job[h].lights = {} THEN Goes(h, Idle)
     ELSE Goes(h, [at |-> "fetch", lights |-> job[h].lights, body |-> job[h].body])
  /\ UNCHANGED <<requests, heap, saved, raced>>

Updating(h) ==
  \/ \E some \in SUBSET Lights \ {{}}, body \in Bodies : Update(h, some, body)
  \/ \E l \in Lights : Fetch(h, l)
  \/ SetOn(h) \/ TestHue(h) \/ SetHue(h) \/ Install(h)

-----------------------------------------------------------------------------
(* setGroupState_2_5 with a scene, which recalls it whatever the group. *)
Recall(h, s) ==
  /\ saved[s] # NoList
  /\ Begins(h, [at |-> "recall", list |-> saved[s]])

(* Fault: the scene's own object is installed. *)
RecalledShared(h, l, o) == job[h].list[l]

Recalled(h, l, o) == o

RecallLight(h, l) ==
  /\ At(h, "recall") /\ job[h].list[l] # None
  /\ \E o \in Objects :
       /\ Makes(o, content[job[h].list[l]])
       /\ state' = [state EXCEPT ![l] = Recalled(h, l, o)]
  /\ LET rest == [job[h].list EXCEPT ![l] = None]
     IN  Goes(h, IF rest = NoList THEN Idle ELSE [at |-> "recall", list |-> rest])
  /\ UNCHANGED <<requests, saved, raced>>

(* createScene_4_2. *)
Save(h, s, some) ==
  Begins(h, [at |-> "save", scene |-> s, lights |-> some, list |-> NoList])

(* The copy constructor reads hue, ... *)
CopyHue(h, l) ==
  /\ At(h, "save") /\ l \in job[h].lights
  /\ Goes(h, [at |-> "copy", scene |-> job[h].scene, lights |-> job[h].lights \ {l},
              list |-> job[h].list, light |-> l, object |-> state[l],
              hue |-> content[state[l]].hue])
  /\ UNCHANGED <<requests, heap, state, saved, raced>>

(* Fault: the light's own object is saved. *)
CopiedShared(h, o) == job[h].object

Copied(h, o) == o

(* ... then on. *)
CopyOn(h) ==
  /\ At(h, "copy")
  /\ \E o \in Objects :
       /\ Makes(o, [on |-> content[job[h].object].on, hue |-> job[h].hue])
       /\ Goes(h, [at |-> "save", scene |-> job[h].scene, lights |-> job[h].lights,
                   list |-> [job[h].list EXCEPT ![job[h].light] = Copied(h, o)]])
  /\ UNCHANGED <<requests, state, saved, raced>>

PutScene(h) ==
  /\ At(h, "save") /\ job[h].lights = {}
  /\ saved' = [saved EXCEPT ![job[h].scene] = job[h].list]
  /\ Goes(h, Idle)
  /\ UNCHANGED <<requests, heap, state, raced>>

UsingScenes(h) ==
  \/ \E s \in Scenes : Recall(h, s) \/ \E some \in SUBSET Lights \ {{}} : Save(h, s, some)
  \/ \E l \in Lights : RecallLight(h, l) \/ CopyHue(h, l)
  \/ CopyOn(h) \/ PutScene(h)

Next == \E h \in Handlers : Updating(h) \/ UsingScenes(h)

Spec == Init /\ [][Next]_vars

-----------------------------------------------------------------------------
Lists == [Lights -> Objects \union {None}]

Updates ==
  [at : {"fetch"}, lights : SUBSET Lights, body : Bodies]
  \union [at : {"fields", "write"}, lights : SUBSET Lights, body : Bodies, light : Lights,
          object : Objects, fields : SUBSET {"on", "hue"}]

Savings ==
  [at : {"save"}, scene : Scenes, lights : SUBSET Lights, list : Lists]
  \union [at : {"copy"}, scene : Scenes, lights : SUBSET Lights, list : Lists, light : Lights,
          object : Objects, hue : Hues]

(* Every value is in range, every reference is to a state object, and a     *)
(* handler's job has the form of its position.                              *)
TypeOK ==
  /\ requests \in 0 .. MaxRequests /\ made \in Objects
  /\ content \in [Objects -> Content]
  /\ state \in [Lights -> Objects]
  /\ saved \in [Scenes -> Lists]
  /\ job \in [Handlers -> {Idle} \union Updates \union Savings
                          \union [at : {"recall"}, list : Lists]]
  /\ raced \subseteq Handlers

(* No state belongs to two lights, to a light and a scene or to two places  *)
(* in scenes: setting one light never shows in another.                     *)
Apart ==
  /\ \A k, l \in Lights : state[k] = state[l] => k = l
  /\ \A k, l \in Lights, s \in Scenes :
       /\ saved[s][k] # state[l]
       /\ \A t \in Scenes : saved[s][k] # None /\ saved[s][k] = saved[t][l] => s = t /\ k = l

(* "otherwise they can get modified by other lightUpdate calls": whatever   *)
(* requests overlap, the states of a scene do not change until it is saved  *)
(* again.                                                                   *)
ScenesStay ==
  [][\A s \in Scenes, l \in Lights :
       saved'[s][l] = saved[s][l] /\ saved[s][l] # None =>
         content'[saved[s][l]] = content[saved[s][l]]]_vars

(* An update installs an object that its light no longer refers to: a       *)
(* recall has given the light another one since the update fetched it.      *)
PutsBack(h, l) == Install(h) /\ job[h].light = l /\ job[h].object # state[l]

(* "An attempt to modify the state of a bulb which is off results in a      *)
(* bridge error": the hue of a light, in whatever object it has before and  *)
(* after the step, changes only while it is on.  There are three exceptions:*)
(* another handler may switch the light off between the test and the write, *)
(* a recall gives the light the hue of the scene, and an update undoes a    *)
(* recall by putting its own object back.                                   *)
OffKeepsHue ==
  [][\A l \in Lights :
       content'[state'[l]].hue # content[state[l]].hue =>
         \/ content[state[l]].on
         \/ raced \intersect Writing(state[l]) # {}
         \/ \E h \in Handlers : RecallLight(h, l) \/ PutsBack(h, l)]_vars
=============================================================================
