--------------------------- MODULE HueLightsProofs ---------------------------
(***************************************************************************)
(* The light states of the emulator, for any number of lights, scenes,     *)
(* handlers, requests and objects: a light never shares its state with     *)
(* another one or with a scene.                                            *)
(***************************************************************************)
EXTENDS HueLights, TLAPS

(* Positions in which a handler refers to the state of a light, ... *)
Refers(h) == At(h, "fields") \/ At(h, "write")

(* ... and in which it builds the list of a scene. *)
Builds(h) == At(h, "save") \/ At(h, "copy")

UpdateJobs ==
  [at : {"fields", "write"}, lights : SUBSET Lights, body : Bodies, light : Lights,
   object : Objects, fields : SUBSET {"on", "hue"}]
FetchJobs  == [at : {"fetch"}, lights : SUBSET Lights, body : Bodies]
SaveJobs   == [at : {"save"}, scene : Scenes, lights : SUBSET Lights, list : Lists]
CopyJobs   ==
  [at : {"copy"}, scene : Scenes, lights : SUBSET Lights, list : Lists, light : Lights,
   object : Objects, hue : Hues]
RecallJobs == [at : {"recall"}, list : Lists]
Jobs == {Idle} \union FetchJobs \union UpdateJobs \union SaveJobs \union CopyJobs \union RecallJobs

-----------------------------------------------------------------------------
(* The inductive invariant. *)
Counters == requests \in 0 .. MaxRequests /\ made \in Objects /\ raced \subseteq Handlers

Heap == content \in [Objects -> Content] /\ state \in [Lights -> Objects]
        /\ saved \in [Scenes -> Lists]

JobTypes == job \in [Handlers -> Jobs]

(* A field is written only if the request has it, hue only in range. *)
Requested ==
  \A h \in Handlers :
    /\ Refers(h) => job[h].fields \subseteq DOMAIN job[h].body
    /\ At(h, "write") => job[h].body["hue"] \in Hues

(* No object is used before it is made. *)
Made ==
  /\ \A l \in Lights : state[l] <= made
  /\ \A s \in Scenes, l \in Lights : saved[s][l] <= made
  /\ \A h \in Handlers :
       /\ Refers(h) => job[h].object <= made
       /\ Builds(h) => \A l \in Lights : job[h].list[l] <= made

(* An object a light refers to, or that a handler will install in it, is    *)
(* that light's alone.                                                      *)
Owned ==
  /\ \A k, l \in Lights : state[k] = state[l] => k = l
  /\ \A h \in Handlers, k \in Lights :
       Refers(h) /\ state[k] = job[h].object => k = job[h].light
  /\ \A g, h \in Handlers :
       Refers(g) /\ Refers(h) /\ job[g].object = job[h].object => job[g].light = job[h].light

(* It is in no scene and in no list that will become one. *)
Kept ==
  /\ \A s \in Scenes, k, l \in Lights : saved[s][k] # state[l]
  /\ \A s \in Scenes, l \in Lights, h \in Handlers : Refers(h) => saved[s][l] # job[h].object
  /\ \A h \in Handlers, k, l \in Lights : Builds(h) => job[h].list[k] # state[l]
  /\ \A g, h \in Handlers, l \in Lights : Builds(g) /\ Refers(h) => job[g].list[l] # job[h].object

(* An object has one place in the scenes and those lists. *)
OnePlace ==
  /\ \A s, t \in Scenes, k, l \in Lights :
       saved[s][k] # None /\ saved[s][k] = saved[t][l] => s = t /\ k = l
  /\ \A s \in Scenes, h \in Handlers, k, l \in Lights :
       Builds(h) /\ saved[s][k] # None => saved[s][k] # job[h].list[l]
  /\ \A g, h \in Handlers, k, l \in Lights :
       Builds(g) /\ Builds(h) /\ job[g].list[k] # None /\ job[g].list[k] = job[h].list[l] =>
         g = h /\ k = l

(* A handler about to set hue works on a light that is on, or was raced. *)
Guarded == \A h \in Handlers : At(h, "write") => content[job[h].object].on \/ h \in raced

IInv == Counters /\ Heap /\ JobTypes /\ Requested /\ Made /\ Owned /\ Kept /\ OnePlace /\ Guarded

LEMMA TypeParts == TypeOK <=> Counters /\ Heap /\ JobTypes
<1>1. {Idle} \union Updates \union Savings \union [at : {"recall"}, list : Lists] = Jobs
  BY DEF Jobs, Updates, Savings, FetchJobs, UpdateJobs, SaveJobs, CopyJobs, RecallJobs
<1>. QED
  BY <1>1 DEF TypeOK, Counters, Heap, JobTypes

(* The record a handler has in each position. *)
LEMMA JobForms ==
  ASSUME JobTypes, NEW h \in Handlers
  PROVE  /\ At(h, "fetch") => job[h] \in FetchJobs
         /\ Refers(h) => job[h] \in UpdateJobs
         /\ At(h, "save") => job[h] \in SaveJobs
         /\ At(h, "copy") => job[h] \in CopyJobs
         /\ At(h, "recall") => job[h] \in RecallJobs
BY DEF JobTypes, Jobs, Idle, FetchJobs, UpdateJobs, SaveJobs, CopyJobs, RecallJobs, Refers, At

(* The other handlers keep theirs. *)
LEMMA GoesTypes ==
  ASSUME JobTypes, NEW h \in Handlers, NEW to \in Jobs, Goes(h, to)
  PROVE  /\ JobTypes'
         /\ job'[h] = to
         /\ \A g \in Handlers : g # h => job'[g] = job[g]
BY DEF JobTypes, Goes

LEMMA FieldsType ==
  ASSUME NEW r \in UpdateJobs, NEW f
  PROVE  /\ [r EXCEPT !.at = "fields", !.fields = @ \ {f}] \in UpdateJobs
         /\ [r EXCEPT !.at = "write"] \in UpdateJobs
BY DEF UpdateJobs

(* Every object that is referred to is in range, and made + 1 is not among   *)
(* them.                                                                     *)
LEMMA UsedAreTyped ==
  ASSUME IInv
  PROVE  /\ made \in Nat
         /\ \A l \in Lights : state[l] \in Nat \ {0}
         /\ \A s \in Scenes, l \in Lights : saved[s][l] \in Nat
         /\ \A h \in Handlers : Refers(h) => job[h].object \in Nat \ {0}
         /\ \A h \in Handlers : Builds(h) => \A l \in Lights : job[h].list[l] \in Nat
<1>0. Objects \subseteq Nat \ {0} /\ None \in Nat
  BY DEF Objects, None
<1>1. made \in Nat /\ \A l \in Lights : state[l] \in Nat \ {0}
  BY <1>0 DEF IInv, Counters, Heap
<1>2. \A s \in Scenes, l \in Lights : saved[s][l] \in Nat
  <2>1. ASSUME NEW s \in Scenes, NEW l \in Lights PROVE saved[s][l] \in Nat
    <3>1. saved[s] \in Lists
      BY DEF IInv, Heap
    <3>2. saved[s][l] \in Objects \/ saved[s][l] = None
      BY <3>1 DEF Lists
    <3>. QED
      BY <1>0, <3>2
  <2>. QED
    BY <2>1
<1>3. ASSUME NEW h \in Handlers, Refers(h) PROVE job[h].object \in Nat \ {0}
  BY <1>0, <1>3, JobForms DEF IInv, UpdateJobs
<1>4. ASSUME NEW h \in Handlers, Builds(h), NEW l \in Lights PROVE job[h].list[l] \in Nat
  <2>1. job[h] \in SaveJobs \/ job[h] \in CopyJobs
    BY <1>4, JobForms DEF IInv, Builds
  <2>2. job[h].list \in Lists
    BY <2>1 DEF SaveJobs, CopyJobs
  <2>3. job[h].list[l] \in Objects \/ job[h].list[l] = None
    BY <2>2 DEF Lists
  <2>. QED
    BY <1>0, <2>3
<1>. QED
  BY <1>1, <1>2, <1>3, <1>4

LEMMA NextIsUnused ==
  ASSUME IInv
  PROVE  /\ \A l \in Lights : state[l] # made + 1
         /\ \A s \in Scenes, l \in Lights : saved[s][l] # made + 1
         /\ \A h \in Handlers : Refers(h) => job[h].object # made + 1
         /\ \A h \in Handlers : Builds(h) => \A l \in Lights : job[h].list[l] # made + 1
BY UsedAreTyped DEF IInv, Made

-----------------------------------------------------------------------------
LEMMA InitIInv == Init => IInv
<1>. SUFFICES ASSUME Init PROVE IInv
  OBVIOUS
<1>0. made \in Nat \ {0} /\ None = 0 /\ \A h \in Handlers : job[h].at = "idle"
  BY HueLightsAssumption DEF Init, Objects, None, Idle
<1>1. Counters
  BY HueLightsAssumption DEF Init, Counters
<1>2. Heap
  <2>1. 1 .. made \subseteq Objects
    BY <1>0, HueLightsAssumption DEF Init, Objects
  <2>2. NoList \in Lists
    BY DEF NoList, Lists
  <2>. QED
    BY <2>1, <2>2 DEF Init, Heap
<1>3. JobTypes
  BY DEF Init, JobTypes, Jobs
<1>4. \A h \in Handlers : ~Refers(h) /\ ~Builds(h) /\ ~At(h, "write")
  BY <1>0 DEF Refers, Builds, At
<1>5. Requested /\ Guarded
  BY <1>4 DEF Requested, Guarded
<1>6. \A s \in Scenes, l \in Lights : saved[s][l] = 0
  BY <1>0 DEF Init, NoList
<1>7. \A l \in Lights : state[l] \in 1 .. made
  BY DEF Init
<1>8. Made
  BY <1>0, <1>4, <1>6, <1>7 DEF Made
<1>9. Owned /\ Kept /\ OnePlace
  BY <1>0, <1>4, <1>6, <1>7 DEF Init, Owned, Kept, OnePlace
<1>. QED
  BY <1>1, <1>2, <1>3, <1>5, <1>8, <1>9 DEF IInv

LEMMA ObjectsNat == Objects \subseteq Nat \ {0} /\ None = 0 /\ None \notin Objects
BY HueLightsAssumption DEF Objects, None

LEMMA StepIInv == IInv /\ [Next]_vars => IInv'
<1>. SUFFICES ASSUME IInv, [Next]_vars PROVE IInv'
  OBVIOUS
<1>. USE ObjectsNat
<1>1. ASSUME NEW h \in Handlers, NEW some \in SUBSET Lights \ {{}}, NEW body \in Bodies, Update(h, some, body) PROVE IInv'
  <2>. DEFINE to == [at |-> "fetch", lights |-> some, body |-> body]
  <2>b. to \in Jobs
    BY <1>1 DEF IInv, Heap, FetchJobs, Jobs
  <2>c. Goes(h, to)
    BY <1>1 DEF Update, Begins
  <2>d. JobTypes' /\ job'[h] = to /\ \A g \in Handlers : g # h => job'[g] = job[g]
    BY <2>b, <2>c, GoesTypes DEF IInv
  <2>e. ~Refers(h)' /\ ~Builds(h)' /\ ~At(h, "write")'
    BY <2>d DEF Refers, Builds, At, Idle
  <2>g. \A g \in Handlers : g # h =>
          /\ (Refers(g)' <=> Refers(g)) /\ (Builds(g)' <=> Builds(g))
          /\ (At(g, "write")' <=> At(g, "write"))
    BY <2>d DEF Refers, Builds, At
  <2>h. UNCHANGED <<made, content, state, saved, raced>>
    BY <1>1 DEF Update, Begins, heap
  <2>k. \A g \in Handlers : g # h => job'[g] = job[g]
    BY <2>d
  <2>. HIDE DEF to
  <2>1. Counters'
    BY <1>1, <2>h, HueLightsAssumption DEF IInv, Update, Begins, Counters
  <2>2. Heap'
    BY <2>h DEF IInv, Heap
  <2>3. JobTypes'
    BY <2>d
  <2>4. Requested'
    BY <2>e, <2>g, <2>h, <2>k DEF IInv, Requested
  <2>5. Made'
    BY <2>e, <2>g, <2>h, <2>k DEF IInv, Made, Counters, Heap
  <2>6. Owned'
    BY <2>e, <2>g, <2>h, <2>k DEF IInv, Owned, Heap
  <2>7. Kept'
    BY <2>e, <2>g, <2>h, <2>k DEF IInv, Kept, Heap
  <2>8. OnePlace'
    BY <2>e, <2>g, <2>h, <2>k DEF IInv, OnePlace, Heap
  <2>9. Guarded'
    BY <2>e, <2>g, <2>h, <2>k DEF IInv, Guarded
  <2>. QED
    BY <2>1, <2>2, <2>3, <2>4, <2>5, <2>6, <2>7, <2>8, <2>9 DEF IInv
<1>2. ASSUME NEW h \in Handlers, NEW l \in Lights, Fetch(h, l) PROVE IInv'
  <2>. DEFINE to == [at |-> "fields", lights |-> job[h].lights \ {l}, body |-> job[h].body,
               light |-> l, object |-> state[l], fields |-> DOMAIN job[h].body]
  <2>a. job[h] \in FetchJobs
    BY <1>2, JobForms DEF IInv, Fetch
  <2>b. to \in Jobs
    BY <1>2, <2>a, HueLightsAssumption DEF IInv, Heap, FetchJobs, UpdateJobs, Jobs
  <2>c. Goes(h, to)
    BY <1>2 DEF Fetch
  <2>d. JobTypes' /\ job'[h] = to /\ \A g \in Handlers : g # h => job'[g] = job[g]
    BY <2>b, <2>c, GoesTypes DEF IInv
  <2>e. ~Builds(h)' /\ ~At(h, "write")' /\ job'[h].object = state[l] /\ job'[h].light = l
    BY <2>d DEF Builds, At
  <2>g. \A g \in Handlers : g # h =>
          /\ (Refers(g)' <=> Refers(g)) /\ (Builds(g)' <=> Builds(g))
          /\ (At(g, "write")' <=> At(g, "write"))
    BY <2>d DEF Refers, Builds, At
  <2>h. UNCHANGED <<made, content, state, saved, raced>>
    BY <1>2 DEF Fetch, heap
  <2>k. \A g \in Handlers : g # h => job'[g] = job[g]
    BY <2>d
  <2>m. job'[h].fields = DOMAIN job'[h].body
    BY <2>d
  <2>. HIDE DEF to
  <2>1. Counters'
    BY <1>2, <2>h, HueLightsAssumption DEF IInv, Fetch, Counters
  <2>2. Heap'
    BY <2>h DEF IInv, Heap
  <2>3. JobTypes'
    BY <2>d
  <2>4. Requested'
    BY <2>e, <2>g, <2>k, <2>m DEF IInv, Requested
  <2>5. Made'
    BY <2>e, <2>g, <2>h, <2>k, <2>a, <1>2 DEF IInv, Made, Counters, Heap
  <2>6. Owned'
    BY <2>e, <2>g, <2>h, <2>k, <2>a DEF IInv, Owned, Heap
  <2>7. Kept'
    BY <2>e, <2>g, <2>h, <2>k, <2>a DEF IInv, Kept, Heap
  <2>8. OnePlace'
    BY <2>e, <2>g, <2>h, <2>k, <2>a DEF IInv, OnePlace, Heap
  <2>9. Guarded'
    BY <2>e, <2>g, <2>h, <2>k, <2>a DEF IInv, Guarded
  <2>. QED
    BY <2>1, <2>2, <2>3, <2>4, <2>5, <2>6, <2>7, <2>8, <2>9 DEF IInv
<1>3. ASSUME NEW h \in Handlers, SetOn(h) PROVE IInv'
  <2>. DEFINE to == [job[h] EXCEPT !.at = "fields", !.fields = @ \ {"on"}]
  <2>a. job[h] \in UpdateJobs /\ Refers(h)
    BY <1>3, JobForms DEF IInv, SetOn, FieldDone, Refers
  <2>b. to \in Jobs
    BY <2>a, FieldsType DEF Jobs
  <2>c. Goes(h, to)
    BY <1>3 DEF SetOn, FieldDone
  <2>d. JobTypes' /\ job'[h] = to /\ \A g \in Handlers : g # h => job'[g] = job[g]
    BY <2>b, <2>c, GoesTypes DEF IInv
  <2>e. /\ ~Builds(h)' /\ job'[h].object = job[h].object /\ job'[h].light = job[h].light
        /\ job'[h].body = job[h].body /\ job'[h].fields \subseteq job[h].fields
    BY <2>a, <2>d DEF Builds, At, UpdateJobs
  <2>f. ~At(h, "write")'
    BY <2>a, <2>d DEF At, UpdateJobs
  <2>g. \A g \in Handlers : g # h =>
          /\ (Refers(g)' <=> Refers(g)) /\ (Builds(g)' <=> Builds(g))
          /\ (At(g, "write")' <=> At(g, "write"))
    BY <2>d DEF Refers, Builds, At
  <2>h. UNCHANGED <<made, state, saved>>
    BY <1>3 DEF SetOn, FieldDone, heap
  <2>k. \A g \in Handlers : g # h => job'[g] = job[g]
    BY <2>d
  <2>l. job[h].object \in Objects /\ job[h].light \in Lights /\ job[h].body \in Bodies
    BY <2>a DEF UpdateJobs
  <2>. HIDE DEF to
  <2>1. Counters'
    BY <1>3, <2>h DEF IInv, SetOn, FieldDone, Counters, Writing
  <2>2. Heap'
    <3>1. job[h].body["on"] \in BOOLEAN
      BY <1>3, <2>a, <2>l, HueLightsAssumption DEF IInv, Requested, SetOn, FieldDone
    <3>. QED
      BY <1>3, <2>h, <2>l, <3>1 DEF IInv, Heap, Content, SetOn, FieldDone
  <2>3. JobTypes'
    BY <2>d
  <2>4. Requested'
    BY <2>e, <2>g, <2>h, <2>k, <2>a, <2>f, <2>l DEF IInv, Requested
  <2>5. Made'
    BY <2>e, <2>g, <2>h, <2>k, <2>a, <2>f, <2>l DEF IInv, Made, Counters, Heap
  <2>6. Owned'
    BY <2>e, <2>g, <2>h, <2>k, <2>a, <2>f, <2>l DEF IInv, Owned, Heap
  <2>7. Kept'
    BY <2>e, <2>g, <2>h, <2>k, <2>a, <2>f, <2>l DEF IInv, Kept, Heap
  <2>8. OnePlace'
    BY <2>e, <2>g, <2>h, <2>k, <2>a, <2>f, <2>l DEF IInv, OnePlace, Heap
  <2>9. Guarded'
    <3>. SUFFICES ASSUME NEW g \in Handlers, At(g, "write")'
                  PROVE  content'[job'[g].object].on \/ g \in raced'
      BY DEF Guarded
    <3>1. g # h /\ At(g, "write") /\ job'[g] = job[g]
      BY <2>f, <2>g, <2>k
    <3>2. job[g].object \in Objects
      BY <3>1, JobForms DEF IInv, Refers, UpdateJobs
    <3>3. CASE job[g].object = job[h].object
      <4>1. g \in Writing(job[h].object)
        BY <3>1, <3>3 DEF Writing
      <4>2. content'[job[h].object].on = job[h].body["on"]
        BY <1>3, <2>l DEF SetOn, IInv, Heap, Content
      <4>. QED
        BY <1>3, <3>1, <3>3, <4>1, <4>2 DEF SetOn
    <3>4. CASE job[g].object # job[h].object
      <4>1. g \notin Writing(job[h].object)
        BY <3>4 DEF Writing
      <4>2. content'[job[g].object] = content[job[g].object]
        BY <1>3, <2>l, <3>2, <3>4 DEF SetOn, IInv, Heap
      <4>. QED
        BY <1>3, <3>1, <4>1, <4>2 DEF SetOn, IInv, Guarded
    <3>. QED
      BY <3>3, <3>4
  <2>. QED
    BY <2>1, <2>2, <2>3, <2>4, <2>5, <2>6, <2>7, <2>8, <2>9 DEF IInv
<1>4. ASSUME NEW h \in Handlers, TestHue(h) PROVE IInv'
  <2>. DEFINE to == IF Settable(h) THEN [job[h] EXCEPT !.at = "write"]
               ELSE [job[h] EXCEPT !.at = "fields", !.fields = @ \ {"hue"}]
  <2>a. job[h] \in UpdateJobs /\ Refers(h)
    BY <1>4, JobForms DEF IInv, TestHue, Refers
  <2>b. to \in Jobs
    BY <2>a, FieldsType DEF Jobs
  <2>c. Goes(h, to)
    BY <1>4 DEF TestHue, FieldDone
  <2>d. JobTypes' /\ job'[h] = to /\ \A g \in Handlers : g # h => job'[g] = job[g]
    BY <2>b, <2>c, GoesTypes DEF IInv
  <2>e. /\ ~Builds(h)' /\ job'[h].object = job[h].object /\ job'[h].light = job[h].light
        /\ job'[h].body = job[h].body /\ job'[h].fields \subseteq job[h].fields
    BY <2>a, <2>d DEF Builds, At, UpdateJobs
  <2>g. \A g \in Handlers : g # h =>
          /\ (Refers(g)' <=> Refers(g)) /\ (Builds(g)' <=> Builds(g))
          /\ (At(g, "write")' <=> At(g, "write"))
    BY <2>d DEF Refers, Builds, At
  <2>h. UNCHANGED <<made, content, state, saved, raced>>
    BY <1>4 DEF TestHue, heap
  <2>k. \A g \in Handlers : g # h => job'[g] = job[g]
    BY <2>d
  <2>l. job[h].object \in Objects /\ job[h].light \in Lights /\ job[h].body \in Bodies
    BY <2>a DEF UpdateJobs
  <2>m. Refers(h)'
    BY <2>a, <2>d DEF Refers, At, UpdateJobs
  <2>. HIDE DEF to
  <2>1. Counters'
    BY <1>4, <2>h, HueLightsAssumption DEF IInv, TestHue, Counters
  <2>2. Heap'
    BY <2>h, <2>l DEF IInv, Heap
  <2>3. JobTypes'
    BY <2>d
  <2>4. Requested'
    <3>1. At(h, "write")' => job'[h].body["hue"] \in Hues
      BY <2>a, <2>d, <2>e DEF to, Settable, InRange, At, UpdateJobs
    <3>2. job'[h].fields \subseteq DOMAIN job'[h].body
      BY <2>a, <2>e DEF IInv, Requested
    <3>. QED
      BY <2>g, <2>k, <3>1, <3>2 DEF IInv, Requested
  <2>5. Made'
    BY <2>e, <2>g, <2>h, <2>k, <2>a, <2>l DEF IInv, Made, Counters, Heap
  <2>6. Owned'
    BY <2>e, <2>g, <2>h, <2>k, <2>a, <2>l DEF IInv, Owned, Heap
  <2>7. Kept'
    BY <2>e, <2>g, <2>h, <2>k, <2>a, <2>l DEF IInv, Kept, Heap
  <2>8. OnePlace'
    BY <2>e, <2>g, <2>h, <2>k, <2>a, <2>l DEF IInv, OnePlace, Heap
  <2>9. Guarded'
    <3>1. At(h, "write")' => content[job[h].object].on
      BY <2>a, <2>d DEF to, Settable, At, UpdateJobs
    <3>. QED
      BY <2>e, <2>g, <2>h, <2>k, <3>1 DEF IInv, Guarded
  <2>. QED
    BY <2>1, <2>2, <2>3, <2>4, <2>5, <2>6, <2>7, <2>8, <2>9 DEF IInv
<1>5. ASSUME NEW h \in Handlers, SetHue(h) PROVE IInv'
  <2>. DEFINE to == [job[h] EXCEPT !.at = "fields", !.fields = @ \ {"hue"}]
  <2>a. job[h] \in UpdateJobs /\ Refers(h)
    BY <1>5, JobForms DEF IInv, SetHue, FieldDone, Refers
  <2>b. to \in Jobs
    BY <2>a, FieldsType DEF Jobs
  <2>c. Goes(h, to)
    BY <1>5 DEF SetHue, FieldDone
  <2>d. JobTypes' /\ job'[h] = to /\ \A g \in Handlers : g # h => job'[g] = job[g]
    BY <2>b, <2>c, GoesTypes DEF IInv
  <2>e. /\ ~Builds(h)' /\ job'[h].object = job[h].object /\ job'[h].light = job[h].light
        /\ job'[h].body = job[h].body /\ job'[h].fields \subseteq job[h].fields
    BY <2>a, <2>d DEF Builds, At, UpdateJobs
  <2>f. ~At(h, "write")'
    BY <2>a, <2>d DEF At, UpdateJobs
  <2>g. \A g \in Handlers : g # h =>
          /\ (Refers(g)' <=> Refers(g)) /\ (Builds(g)' <=> Builds(g))
          /\ (At(g, "write")' <=> At(g, "write"))
    BY <2>d DEF Refers, Builds, At
  <2>h. UNCHANGED <<made, state, saved>>
    BY <1>5 DEF SetHue, FieldDone, heap
  <2>k. \A g \in Handlers : g # h => job'[g] = job[g]
    BY <2>d
  <2>l. job[h].object \in Objects /\ job[h].light \in Lights /\ job[h].body \in Bodies
    BY <2>a DEF UpdateJobs
  <2>. HIDE DEF to
  <2>1. Counters'
    BY <1>5, <2>h DEF IInv, SetHue, FieldDone, Counters, Writing
  <2>2. Heap'
    <3>1. job[h].body["hue"] \in Hues
      BY <1>5, <2>a, <2>l, HueLightsAssumption DEF IInv, Requested, SetHue, FieldDone
    <3>. QED
      BY <1>5, <2>h, <2>l, <3>1 DEF IInv, Heap, Content, SetHue, FieldDone
  <2>3. JobTypes'
    BY <2>d
  <2>4. Requested'
    BY <2>e, <2>g, <2>h, <2>k, <2>a, <2>f, <2>l DEF IInv, Requested
  <2>5. Made'
    BY <2>e, <2>g, <2>h, <2>k, <2>a, <2>f, <2>l DEF IInv, Made, Counters, Heap
  <2>6. Owned'
    BY <2>e, <2>g, <2>h, <2>k, <2>a, <2>f, <2>l DEF IInv, Owned, Heap
  <2>7. Kept'
    BY <2>e, <2>g, <2>h, <2>k, <2>a, <2>f, <2>l DEF IInv, Kept, Heap
  <2>8. OnePlace'
    BY <2>e, <2>g, <2>h, <2>k, <2>a, <2>f, <2>l DEF IInv, OnePlace, Heap
  <2>9. Guarded'
    <3>. SUFFICES ASSUME NEW g \in Handlers, At(g, "write")'
                  PROVE  content'[job'[g].object].on \/ g \in raced'
      BY DEF Guarded
    <3>1. g # h /\ At(g, "write") /\ job'[g] = job[g]
      BY <2>f, <2>g, <2>k
    <3>2. job[g].object \in Objects
      BY <3>1, JobForms DEF IInv, Refers, UpdateJobs
    <3>3. content'[job[g].object].on = content[job[g].object].on
      BY <1>5, <2>l, <3>2 DEF SetHue, IInv, Heap, Content
    <3>. QED
      BY <1>5, <3>1, <3>3 DEF SetHue, IInv, Guarded
  <2>. QED
    BY <2>1, <2>2, <2>3, <2>4, <2>5, <2>6, <2>7, <2>8, <2>9 DEF IInv
<1>6. ASSUME NEW h \in Handlers, Install(h) PROVE IInv'
  <2>. DEFINE to == IF job[h].lights = {} THEN Idle
               ELSE [at |-> "fetch", lights |-> job[h].lights, body |-> job[h].body]
  <2>a. job[h] \in UpdateJobs /\ Refers(h)
    BY <1>6, JobForms DEF IInv, Install, Targets, Refers
  <2>b. to \in Jobs
    BY <2>a DEF FetchJobs, UpdateJobs, Jobs
  <2>c. Goes(h, to)
    BY <1>6 DEF Install, Targets
  <2>d. JobTypes' /\ job'[h] = to /\ \A g \in Handlers : g # h => job'[g] = job[g]
    BY <2>b, <2>c, GoesTypes DEF IInv
  <2>e. ~Refers(h)' /\ ~Builds(h)' /\ ~At(h, "write")'
    BY <2>d DEF Refers, Builds, At, Idle
  <2>g. \A g \in Handlers : g # h =>
          /\ (Refers(g)' <=> Refers(g)) /\ (Builds(g)' <=> Builds(g))
          /\ (At(g, "write")' <=> At(g, "write"))
    BY <2>d DEF Refers, Builds, At
  <2>h. /\ UNCHANGED <<made, content, saved, raced>>
        /\ state' = [k \in Lights |-> IF k = job[h].light THEN job[h].object ELSE state[k]]
    BY <1>6 DEF Install, Targets, heap
  <2>k. \A g \in Handlers : g # h => job'[g] = job[g]
    BY <2>d
  <2>l. job[h].object \in Objects /\ job[h].light \in Lights /\ job[h].body \in Bodies
    BY <2>a DEF UpdateJobs
  <2>. HIDE DEF to
  <2>1. Counters'
    BY <1>6, <2>h, HueLightsAssumption DEF IInv, Install, Targets, Counters
  <2>2. Heap'
    BY <2>h, <2>l DEF IInv, Heap
  <2>3. JobTypes'
    BY <2>d
  <2>4. Requested'
    BY <2>e, <2>g, <2>h, <2>k, <2>a, <2>l DEF IInv, Requested
  <2>5. Made'
    BY <2>e, <2>g, <2>h, <2>k, <2>a, <2>l DEF IInv, Made, Counters, Heap
  <2>6. Owned'
    BY <2>e, <2>g, <2>h, <2>k, <2>a, <2>l DEF IInv, Owned, Heap
  <2>7. Kept'
    BY <2>e, <2>g, <2>h, <2>k, <2>a, <2>l DEF IInv, Kept, Heap
  <2>8. OnePlace'
    BY <2>e, <2>g, <2>h, <2>k, <2>a, <2>l DEF IInv, OnePlace, Heap
  <2>9. Guarded'
    BY <2>e, <2>g, <2>h, <2>k, <2>a, <2>l DEF IInv, Guarded
  <2>. QED
    BY <2>1, <2>2, <2>3, <2>4, <2>5, <2>6, <2>7, <2>8, <2>9 DEF IInv
<1>7. ASSUME NEW h \in Handlers, NEW s \in Scenes, Recall(h, s) PROVE IInv'
  <2>. DEFINE to == [at |-> "recall", list |-> saved[s]]
  <2>b. to \in Jobs
    BY <1>7 DEF IInv, Heap, RecallJobs, Jobs
  <2>c. Goes(h, to)
    BY <1>7 DEF Recall, Begins
  <2>d. JobTypes' /\ job'[h] = to /\ \A g \in Handlers : g # h => job'[g] = job[g]
    BY <2>b, <2>c, GoesTypes DEF IInv
  <2>e. ~Refers(h)' /\ ~Builds(h)' /\ ~At(h, "write")'
    BY <2>d DEF Refers, Builds, At, Idle
  <2>g. \A g \in Handlers : g # h =>
          /\ (Refers(g)' <=> Refers(g)) /\ (Builds(g)' <=> Builds(g))
          /\ (At(g, "write")' <=> At(g, "write"))
    BY <2>d DEF Refers, Builds, At
  <2>h. UNCHANGED <<made, content, state, saved, raced>>
    BY <1>7 DEF Recall, Begins, heap
  <2>k. \A g \in Handlers : g # h => job'[g] = job[g]
    BY <2>d
  <2>. HIDE DEF to
  <2>1. Counters'
    BY <1>7, <2>h, HueLightsAssumption DEF IInv, Recall, Begins, Counters
  <2>2. Heap'
    BY <2>h DEF IInv, Heap
  <2>3. JobTypes'
    BY <2>d
  <2>4. Requested'
    BY <2>e, <2>g, <2>h, <2>k DEF IInv, Requested
  <2>5. Made'
    BY <2>e, <2>g, <2>h, <2>k DEF IInv, Made, Counters, Heap
  <2>6. Owned'
    BY <2>e, <2>g, <2>h, <2>k DEF IInv, Owned, Heap
  <2>7. Kept'
    BY <2>e, <2>g, <2>h, <2>k DEF IInv, Kept, Heap
  <2>8. OnePlace'
    BY <2>e, <2>g, <2>h, <2>k DEF IInv, OnePlace, Heap
  <2>9. Guarded'
    BY <2>e, <2>g, <2>h, <2>k DEF IInv, Guarded
  <2>. QED
    BY <2>1, <2>2, <2>3, <2>4, <2>5, <2>6, <2>7, <2>8, <2>9 DEF IInv
<1>8. ASSUME NEW h \in Handlers, NEW l \in Lights, RecallLight(h, l) PROVE IInv'
  <2>. DEFINE to == IF [job[h].list EXCEPT ![l] = None] = NoList THEN Idle
               ELSE [at |-> "recall", list |-> [job[h].list EXCEPT ![l] = None]]
  <2>a. job[h] \in RecallJobs
    BY <1>8, JobForms DEF IInv, RecallLight, Makes, Recalled
  <2>b. to \in Jobs
    BY <2>a DEF RecallJobs, Lists, Jobs
  <2>c. Goes(h, to)
    BY <1>8 DEF RecallLight
  <2>d. JobTypes' /\ job'[h] = to /\ \A g \in Handlers : g # h => job'[g] = job[g]
    BY <2>b, <2>c, GoesTypes DEF IInv
  <2>e. ~Refers(h)' /\ ~Builds(h)' /\ ~At(h, "write")'
    BY <2>d DEF Refers, Builds, At, Idle
  <2>g. \A g \in Handlers : g # h =>
          /\ (Refers(g)' <=> Refers(g)) /\ (Builds(g)' <=> Builds(g))
          /\ (At(g, "write")' <=> At(g, "write"))
    BY <2>d DEF Refers, Builds, At
  <2>h. /\ made' = made + 1 /\ made + 1 \in Objects /\ UNCHANGED <<saved, raced>>
        /\ state' = [state EXCEPT ![l] = made + 1]
        /\ content' = [content EXCEPT ![made + 1] = content[job[h].list[l]]]
    BY <1>8 DEF RecallLight, Makes, Recalled, heap
  <2>k. \A g \in Handlers : g # h => job'[g] = job[g]
    BY <2>d
  <2>l. job[h].list[l] \in Objects
    BY <1>8, <2>a DEF RecallJobs, Lists, RecallLight
  <2>m. \A k \in Lights : state'[k] = IF k = l THEN made + 1 ELSE state[k]
    BY <2>h DEF IInv, Heap
  <2>. HIDE DEF to
  <2>1. Counters'
    BY <1>8, <2>h, HueLightsAssumption DEF IInv, RecallLight, Makes, Recalled, Counters
  <2>2. Heap'
    BY <2>h, <2>l DEF IInv, Heap
  <2>3. JobTypes'
    BY <2>d
  <2>4. Requested'
    BY <2>e, <2>g, <2>h, <2>k, <2>a, <2>l DEF IInv, Requested
  <2>5. Made'
    BY <2>e, <2>g, <2>h, <2>k, <2>m, UsedAreTyped, NextIsUnused DEF IInv, None, Made
  <2>6. Owned'
    BY <2>e, <2>g, <2>h, <2>k, <2>m, UsedAreTyped, NextIsUnused DEF IInv, None, Owned
  <2>7. Kept'
    BY <2>e, <2>g, <2>h, <2>k, <2>m, UsedAreTyped, NextIsUnused DEF IInv, None, Kept
  <2>8. OnePlace'
    BY <2>e, <2>g, <2>h, <2>k, <2>m, UsedAreTyped, NextIsUnused DEF IInv, None, OnePlace
  <2>9. Guarded'
    <3>. SUFFICES ASSUME NEW g \in Handlers, At(g, "write")'
                  PROVE  content'[job'[g].object].on \/ g \in raced'
      BY DEF Guarded
    <3>1. g # h /\ At(g, "write") /\ job'[g] = job[g] /\ Refers(g)
      BY <2>e, <2>g, <2>k DEF Refers
    <3>2. job[g].object \in Objects /\ job[g].object <= made /\ made \in Objects
      BY <3>1, JobForms DEF IInv, UpdateJobs, Made, Counters
    <3>3. content'[job[g].object] = content[job[g].object]
      BY <2>h, <3>2 DEF IInv, Heap
    <3>. QED
      BY <2>h, <3>1, <3>3 DEF IInv, Guarded
  <2>. QED
    BY <2>1, <2>2, <2>3, <2>4, <2>5, <2>6, <2>7, <2>8, <2>9 DEF IInv
<1>9. ASSUME NEW h \in Handlers, NEW s \in Scenes, NEW some \in SUBSET Lights \ {{}}, Save(h, s, some) PROVE IInv'
  <2>. DEFINE to == [at |-> "save", scene |-> s, lights |-> some, list |-> NoList]
  <2>b. to \in Jobs
    BY <1>9 DEF IInv, Heap, SaveJobs, Lists, NoList, Jobs
  <2>c. Goes(h, to)
    BY <1>9 DEF Save, Begins
  <2>d. JobTypes' /\ job'[h] = to /\ \A g \in Handlers : g # h => job'[g] = job[g]
    BY <2>b, <2>c, GoesTypes DEF IInv
  <2>e. ~Refers(h)' /\ ~At(h, "write")' /\ job'[h].list = NoList
    BY <2>d DEF Refers, At
  <2>g. \A g \in Handlers : g # h =>
          /\ (Refers(g)' <=> Refers(g)) /\ (Builds(g)' <=> Builds(g))
          /\ (At(g, "write")' <=> At(g, "write"))
    BY <2>d DEF Refers, Builds, At
  <2>h. UNCHANGED <<made, content, state, saved, raced>>
    BY <1>9 DEF Save, Begins, heap
  <2>k. \A g \in Handlers : g # h => job'[g] = job[g]
    BY <2>d
  <2>m. \A k \in Lights : job'[h].list[k] = None
    BY <2>e DEF NoList
  <2>. HIDE DEF to
  <2>1. Counters'
    BY <1>9, <2>h, HueLightsAssumption DEF IInv, Save, Begins, Counters
  <2>2. Heap'
    BY <2>h DEF IInv, Heap
  <2>3. JobTypes'
    BY <2>d
  <2>4. Requested'
    BY <2>e, <2>g, <2>h, <2>k DEF IInv, Requested, Lists, NoList
  <2>5. Made'
    BY <2>e, <2>g, <2>h, <2>k, <2>m, UsedAreTyped DEF IInv, None, Made
  <2>6. Owned'
    BY <2>e, <2>g, <2>h, <2>k, <2>m, UsedAreTyped DEF IInv, None, Owned
  <2>7. Kept'
    BY <2>e, <2>g, <2>h, <2>k, <2>m, UsedAreTyped DEF IInv, None, Kept
  <2>8. OnePlace'
    BY <2>e, <2>g, <2>h, <2>k, <2>m, UsedAreTyped DEF IInv, None, OnePlace
  <2>9. Guarded'
    BY <2>e, <2>g, <2>h, <2>k DEF IInv, Guarded, Lists, NoList
  <2>. QED
    BY <2>1, <2>2, <2>3, <2>4, <2>5, <2>6, <2>7, <2>8, <2>9 DEF IInv
<1>10. ASSUME NEW h \in Handlers, NEW l \in Lights, CopyHue(h, l) PROVE IInv'
  <2>. DEFINE to == [at |-> "copy", scene |-> job[h].scene, lights |-> job[h].lights \ {l},
               list |-> job[h].list, light |-> l, object |-> state[l], hue |-> content[state[l]].hue]
  <2>a. job[h] \in SaveJobs /\ Builds(h)
    BY <1>10, JobForms DEF IInv, CopyHue, Builds
  <2>b. to \in Jobs
    BY <1>10, <2>a DEF IInv, Heap, Content, SaveJobs, CopyJobs, Jobs
  <2>c. Goes(h, to)
    BY <1>10 DEF CopyHue
  <2>d. JobTypes' /\ job'[h] = to /\ \A g \in Handlers : g # h => job'[g] = job[g]
    BY <2>b, <2>c, GoesTypes DEF IInv
  <2>e. ~Refers(h)' /\ ~At(h, "write")' /\ job'[h].list = job[h].list
    BY <2>d DEF Refers, At
  <2>g. \A g \in Handlers : g # h =>
          /\ (Refers(g)' <=> Refers(g)) /\ (Builds(g)' <=> Builds(g))
          /\ (At(g, "write")' <=> At(g, "write"))
    BY <2>d DEF Refers, Builds, At
  <2>h. UNCHANGED <<made, content, state, saved, raced>>
    BY <1>10 DEF CopyHue, heap
  <2>k. \A g \in Handlers : g # h => job'[g] = job[g]
    BY <2>d
  <2>l. job[h].list \in Lists /\ job[h].scene \in Scenes
    BY <2>a DEF SaveJobs
  <2>m. Builds(h) /\ \A k \in Lights : job'[h].list[k] = job[h].list[k]
    BY <2>a, <2>e
  <2>. HIDE DEF to
  <2>1. Counters'
    BY <1>10, <2>h, HueLightsAssumption DEF IInv, CopyHue, Counters
  <2>2. Heap'
    BY <2>h, <2>l DEF IInv, Heap
  <2>3. JobTypes'
    BY <2>d
  <2>4. Requested'
    BY <2>e, <2>g, <2>h, <2>k, <2>a, <2>l DEF IInv, Requested, Lists, NoList
  <2>5. Made'
    BY <2>e, <2>g, <2>h, <2>k, <2>m, UsedAreTyped DEF IInv, None, Made
  <2>6. Owned'
    BY <2>e, <2>g, <2>h, <2>k, <2>m, UsedAreTyped DEF IInv, None, Owned
  <2>7. Kept'
    BY <2>e, <2>g, <2>h, <2>k, <2>m, UsedAreTyped DEF IInv, None, Kept
  <2>8. OnePlace'
    BY <2>e, <2>g, <2>h, <2>k, <2>m, UsedAreTyped DEF IInv, None, OnePlace
  <2>9. Guarded'
    BY <2>e, <2>g, <2>h, <2>k, <2>a, <2>l DEF IInv, Guarded, Lists, NoList
  <2>. QED
    BY <2>1, <2>2, <2>3, <2>4, <2>5, <2>6, <2>7, <2>8, <2>9 DEF IInv
<1>11. ASSUME NEW h \in Handlers, CopyOn(h) PROVE IInv'
  <2>. DEFINE to == [at |-> "save", scene |-> job[h].scene, lights |-> job[h].lights,
               list |-> [job[h].list EXCEPT ![job[h].light] = made + 1]]
  <2>a. job[h] \in CopyJobs /\ Builds(h)
    BY <1>11, JobForms DEF IInv, CopyOn, Makes, Copied, Builds
  <2>b. to \in Jobs
    BY <1>11, <2>a DEF CopyOn, Makes, Copied, IInv, SaveJobs, CopyJobs, Lists, Jobs
  <2>c. Goes(h, to)
    BY <1>11 DEF CopyOn, Makes, Copied
  <2>d. JobTypes' /\ job'[h] = to /\ \A g \in Handlers : g # h => job'[g] = job[g]
    BY <2>b, <2>c, GoesTypes DEF IInv
  <2>e. ~Refers(h)' /\ ~At(h, "write")' /\ job'[h].list = [job[h].list EXCEPT ![job[h].light] = made + 1]
    BY <2>d DEF Refers, At
  <2>g. \A g \in Handlers : g # h =>
          /\ (Refers(g)' <=> Refers(g)) /\ (Builds(g)' <=> Builds(g))
          /\ (At(g, "write")' <=> At(g, "write"))
    BY <2>d DEF Refers, Builds, At
  <2>h. /\ made' = made + 1 /\ made + 1 \in Objects /\ UNCHANGED <<state, saved, raced>>
        /\ content' = [content EXCEPT ![made + 1] = [on |-> content[job[h].object].on, hue |-> job[h].hue]]
    BY <1>11 DEF CopyOn, Makes, Copied, heap
  <2>k. \A g \in Handlers : g # h => job'[g] = job[g]
    BY <2>d
  <2>l. /\ job[h].list \in Lists /\ job[h].light \in Lights /\ job[h].object \in Objects
        /\ job[h].hue \in Hues
    BY <2>a DEF CopyJobs
  <2>m. /\ Builds(h)
        /\ \A k \in Lights : \/ job'[h].list[k] = job[h].list[k]
                             \/ k = job[h].light /\ job'[h].list[k] = made + 1
    BY <2>a, <2>e, <2>l DEF Lists
  <2>n. made' = made + 1 /\ state' = state /\ saved' = saved
    BY <2>h
  <2>. HIDE DEF to
  <2>1. Counters'
    BY <1>11, <2>h, HueLightsAssumption DEF IInv, CopyOn, Makes, Copied, Counters
  <2>2. Heap'
    <3>1. content[job[h].object] \in Content
      BY <2>l DEF IInv, Heap
    <3>2. [on |-> content[job[h].object].on, hue |-> job[h].hue] \in Content
      BY <2>l, <3>1 DEF Content
    <3>. QED
      BY <2>h, <3>2 DEF IInv, Heap
  <2>3. JobTypes'
    BY <2>d
  <2>4. Requested'
    BY <2>e, <2>g, <2>h, <2>k, <2>a, <2>l DEF IInv, Requested, Lists, NoList
  <2>5. Made'
    <3>1. ASSUME NEW k \in Lights PROVE job'[h].list[k] <= made'
      BY <2>m, <2>n, UsedAreTyped DEF IInv, Made
    <3>2. ASSUME NEW g \in Handlers
          PROVE  /\ Refers(g)' => job'[g].object <= made'
                 /\ Builds(g)' => \A k \in Lights : job'[g].list[k] <= made'
      <4>1. CASE g = h
        BY <2>e, <3>1, <4>1
      <4>2. CASE g # h
        BY <2>g, <2>k, <2>n, <4>2, UsedAreTyped DEF IInv, Made
      <4>. QED
        BY <4>1, <4>2
    <3>3. /\ \A l \in Lights : state[l] <= made + 1
          /\ \A s \in Scenes, l \in Lights : saved[s][l] <= made + 1
      BY UsedAreTyped DEF IInv, Made
    <3>. QED
      BY <2>n, <3>2, <3>3 DEF Made
  <2>6. Owned'
    BY <2>e, <2>g, <2>h, <2>k, <2>m, UsedAreTyped, NextIsUnused DEF IInv, None, Owned
  <2>7. Kept'
    <3>1. ASSUME NEW g \in Handlers, Builds(g)', NEW k \in Lights
          PROVE  /\ \A l \in Lights : job'[g].list[k] # state[l]
                 /\ \A i \in Handlers : Refers(i) => job'[g].list[k] # job[i].object
      <4>1. CASE g = h
        BY <2>m, <4>1, NextIsUnused DEF IInv, Kept
      <4>2. CASE g # h
        BY <2>g, <2>k, <3>1, <4>2 DEF IInv, Kept
      <4>. QED
        BY <4>1, <4>2
    <3>2. \A i \in Handlers : Refers(i)' => Refers(i) /\ job'[i] = job[i]
      BY <2>e, <2>g, <2>k
    <3>. QED
      BY <2>n, <3>1, <3>2 DEF IInv, Kept
  <2>8. OnePlace'
    <3>1. ASSUME NEW k \in Lights, NEW l \in Lights, job'[h].list[k] # None,
                 job'[h].list[k] = job'[h].list[l]
          PROVE  k = l
      BY <2>m, <3>1, NextIsUnused DEF IInv, OnePlace
    <3>2. ASSUME NEW s \in Scenes, NEW k \in Lights, NEW l \in Lights, saved[s][k] # None
          PROVE  saved[s][k] # job'[h].list[l]
      BY <2>m, <3>2, NextIsUnused DEF IInv, OnePlace
    <3>3. ASSUME NEW g \in Handlers, g # h, Builds(g), NEW k \in Lights, NEW l \in Lights,
                 job[g].list[k] # None
          PROVE  job[g].list[k] # job'[h].list[l]
      BY <2>m, <3>3, NextIsUnused DEF IInv, OnePlace
    <3>4. ASSUME NEW g \in Handlers, Builds(g)'
          PROVE  g = h \/ (Builds(g) /\ job'[g] = job[g])
      BY <2>g, <2>k, <3>4
    <3>5. ASSUME NEW s \in Scenes, NEW g \in Handlers, NEW k \in Lights, NEW l \in Lights,
                 Builds(g)', saved[s][k] # None
          PROVE  saved[s][k] # job'[g].list[l]
      BY <3>2, <3>4, <3>5 DEF IInv, OnePlace
    <3>6. ASSUME NEW g \in Handlers, NEW i \in Handlers, NEW k \in Lights, NEW l \in Lights,
                 Builds(g)', Builds(i)', job'[g].list[k] # None,
                 job'[g].list[k] = job'[i].list[l]
          PROVE  g = i /\ k = l
      <4>1. CASE g = h /\ i = h
        BY <3>1, <3>6, <4>1
      <4>2. CASE g = h /\ i # h
        BY <3>3, <3>4, <3>6, <4>2
      <4>3. CASE g # h /\ i = h
        BY <3>3, <3>4, <3>6, <4>3
      <4>4. CASE g # h /\ i # h
        BY <3>4, <3>6, <4>4 DEF IInv, OnePlace
      <4>. QED
        BY <4>1, <4>2, <4>3, <4>4
    <3>. QED
      BY <2>n, <3>5, <3>6 DEF IInv, OnePlace
  <2>9. Guarded'
    <3>. SUFFICES ASSUME NEW g \in Handlers, At(g, "write")'
                  PROVE  content'[job'[g].object].on \/ g \in raced'
      BY DEF Guarded
    <3>1. g # h /\ At(g, "write") /\ job'[g] = job[g] /\ Refers(g)
      BY <2>e, <2>g, <2>k DEF Refers
    <3>2. job[g].object \in Objects /\ job[g].object <= made /\ made \in Objects
      BY <3>1, JobForms DEF IInv, UpdateJobs, Made, Counters
    <3>3. content'[job[g].object] = content[job[g].object]
      BY <2>h, <3>2 DEF IInv, Heap
    <3>. QED
      BY <2>h, <3>1, <3>3 DEF IInv, Guarded
  <2>. QED
    BY <2>1, <2>2, <2>3, <2>4, <2>5, <2>6, <2>7, <2>8, <2>9 DEF IInv
<1>12. ASSUME NEW h \in Handlers, PutScene(h) PROVE IInv'
  <2>. DEFINE to == Idle
  <2>a. job[h] \in SaveJobs /\ Builds(h)
    BY <1>12, JobForms DEF IInv, PutScene, Builds
  <2>b. to \in Jobs
    BY DEF Jobs
  <2>c. Goes(h, to)
    BY <1>12 DEF PutScene
  <2>d. JobTypes' /\ job'[h] = to /\ \A g \in Handlers : g # h => job'[g] = job[g]
    BY <2>b, <2>c, GoesTypes DEF IInv
  <2>e. ~Refers(h)' /\ ~Builds(h)' /\ ~At(h, "write")'
    BY <2>d DEF Refers, Builds, At, Idle
  <2>g. \A g \in Handlers : g # h =>
          /\ (Refers(g)' <=> Refers(g)) /\ (Builds(g)' <=> Builds(g))
          /\ (At(g, "write")' <=> At(g, "write"))
    BY <2>d DEF Refers, Builds, At
  <2>h. /\ UNCHANGED <<made, content, state, raced>>
        /\ saved' = [saved EXCEPT ![job[h].scene] = job[h].list]
    BY <1>12 DEF PutScene, heap
  <2>k. \A g \in Handlers : g # h => job'[g] = job[g]
    BY <2>d
  <2>l. job[h].list \in Lists /\ job[h].scene \in Scenes
    BY <2>a DEF SaveJobs
  <2>m. \A s \in Scenes, k \in Lights :
          saved'[s][k] = IF s = job[h].scene THEN job[h].list[k] ELSE saved[s][k]
    BY <2>h, <2>l DEF IInv, Heap
  <2>. HIDE DEF to
  <2>1. Counters'
    BY <1>12, <2>h, HueLightsAssumption DEF IInv, PutScene, Counters
  <2>2. Heap'
    BY <2>h, <2>l DEF IInv, Heap
  <2>3. JobTypes'
    BY <2>d
  <2>4. Requested'
    BY <2>e, <2>g, <2>h, <2>k, <2>a, <2>l DEF IInv, Requested, Lists, NoList
  <2>5. Made'
    BY <2>a, <2>e, <2>g, <2>h, <2>k, <2>m, UsedAreTyped DEF IInv, None, Made
  <2>6. Owned'
    BY <2>a, <2>e, <2>g, <2>h, <2>k, <2>m, UsedAreTyped DEF IInv, None, Owned
  <2>7. Kept'
    BY <2>a, <2>e, <2>g, <2>h, <2>k, <2>m, UsedAreTyped DEF IInv, None, Kept
  <2>8. OnePlace'
    BY <2>a, <2>e, <2>g, <2>h, <2>k, <2>m, UsedAreTyped DEF IInv, None, OnePlace
  <2>9. Guarded'
    BY <2>e, <2>g, <2>h, <2>k, <2>a, <2>l DEF IInv, Guarded, Lists, NoList
  <2>. QED
    BY <2>1, <2>2, <2>3, <2>4, <2>5, <2>6, <2>7, <2>8, <2>9 DEF IInv
<1>13. CASE UNCHANGED vars
  BY <1>13 DEF vars, heap, IInv, Counters, Heap, JobTypes, Requested, Made, Owned, Kept,
    OnePlace, Guarded, Refers, Builds, At
<1>. QED
  BY <1>1, <1>2, <1>3, <1>4, <1>5, <1>6, <1>7, <1>8, <1>9, <1>10, <1>11, <1>12, <1>13
  DEF Next, Updating, UsingScenes

LEMMA SpecIInv == Spec => []IInv
<1>. QED
  BY InitIInv, StepIInv, PTL DEF Spec

(* What a step does to the content of an object in use: only SetOn and      *)
(* SetHue write into one, and both into that of their own handler.          *)
LEMMA ContentSteps ==
  ASSUME IInv, [Next]_vars, NEW o \in Objects, o <= made, content'[o] # content[o]
  PROVE  \E h \in Handlers : /\ Refers(h) /\ job[h].object = o
                             /\ SetOn(h) \/ SetHue(h)
<1>. USE ObjectsNat
<1>1. made \in Nat /\ o # made + 1
  BY UsedAreTyped
<1>2. ASSUME NEW h \in Handlers, SetOn(h) \/ SetHue(h)
      PROVE  Refers(h) /\ job[h].object = o
  BY <1>2, content'[o] # content[o] DEF SetOn, SetHue, Refers, At, IInv, Heap
<1>3. ASSUME NEW h \in Handlers, CopyOn(h) \/ \E l \in Lights : RecallLight(h, l) PROVE FALSE
  <2>1. PICK p \in Objects : \E c : Makes(p, c)
    BY <1>3 DEF CopyOn, RecallLight
  <2>2. PICK c : Makes(p, c)
    BY <2>1
  <2>3. content' = [content EXCEPT ![made + 1] = c] /\ content \in [Objects -> Content]
    BY <2>2 DEF Makes, IInv, Heap
  <2>. QED
    BY <1>1, <2>3
<1>4. CASE UNCHANGED content
  BY <1>4
<1>5. ASSUME NEW h \in Handlers, Updating(h)
      PROVE  SetOn(h) \/ SetHue(h) \/ UNCHANGED content
  BY <1>5 DEF Updating, Update, Begins, Fetch, TestHue, Install, heap
<1>6. ASSUME NEW h \in Handlers, UsingScenes(h)
      PROVE  (CopyOn(h) \/ \E l \in Lights : RecallLight(h, l)) \/ UNCHANGED content
  BY <1>6 DEF UsingScenes, Recall, Save, Begins, CopyHue, PutScene, heap
<1>7. CASE UNCHANGED vars
  BY <1>7 DEF vars, heap
<1>. QED
  BY <1>2, <1>3, <1>4, <1>5, <1>6, <1>7 DEF Next

-----------------------------------------------------------------------------
(* Type correctness: only values in range are set, and every reference is   *)
(* to a state object.                                                       *)
THEOREM LightTypes == Spec => []TypeOK
<1>1. IInv => TypeOK
  BY TypeParts DEF IInv
<1>. QED
  BY <1>1, SpecIInv, PTL

(* However many updates, recalls and saves overlap, no two lights, no light *)
(* and scene and no two places in scenes share a state object.              *)
THEOREM StatesAreApart == Spec => []Apart
<1>1. IInv => Apart
  BY DEF IInv, Owned, Kept, OnePlace, Apart
<1>. QED
  BY <1>1, SpecIInv, PTL

(* No request changes the states of a scene, except one that saves it again. *)
THEOREM ScenesAreStable == Spec => ScenesStay
<1>1. ASSUME IInv, [Next]_vars
      PROVE  [\A s \in Scenes, l \in Lights :
                saved'[s][l] = saved[s][l] /\ saved[s][l] # None =>
                  content'[saved[s][l]] = content[saved[s][l]]]_vars
  <2>1. ASSUME NEW s \in Scenes, NEW l \in Lights, saved[s][l] # None
        PROVE  content'[saved[s][l]] = content[saved[s][l]]
    <3>1. saved[s][l] \in Objects /\ saved[s][l] <= made
      <4>1. saved[s] \in Lists
        BY <1>1 DEF IInv, Heap
      <4>. QED
        BY <1>1, <2>1, <4>1 DEF IInv, Lists, Made
    <3>2. \A h \in Handlers : Refers(h) => job[h].object # saved[s][l]
      BY <1>1 DEF IInv, Kept
    <3>. QED
      BY <1>1, <3>1, <3>2, ContentSteps
  <2>. QED
    BY <2>1
<1>. QED
  BY <1>1, SpecIInv, PTL DEF Spec, ScenesStay

(* A light gets another object only by a recall of it, or by an update that *)
(* installs the one it fetched.                                             *)
LEMMA StateSteps ==
  ASSUME IInv, [Next]_vars, NEW l \in Lights, state'[l] # state[l]
  PROVE  \E h \in Handlers : RecallLight(h, l) \/ PutsBack(h, l)
<1>1. state \in [Lights -> Objects]
  BY DEF IInv, Heap
<1>2. CASE UNCHANGED vars
  BY <1>2 DEF vars
<1>3. ASSUME NEW h \in Handlers, Updating(h) PROVE PutsBack(h, l)
  <2>1. Install(h)
    BY <1>3 DEF Updating, Update, Begins, Fetch, SetOn, TestHue, SetHue
  <2>2. l \in Targets(h) /\ state'[l] = job[h].object
    BY <2>1 DEF Install
  <2>. QED
    BY <2>1, <2>2 DEF Targets, PutsBack
<1>4. ASSUME NEW h \in Handlers, UsingScenes(h) PROVE RecallLight(h, l)
  <2>1. PICK k \in Lights : RecallLight(h, k)
    BY <1>4 DEF UsingScenes, Recall, Save, Begins, CopyHue, CopyOn, PutScene
  <2>2. k = l
    BY <1>1, <2>1 DEF RecallLight
  <2>. QED
    BY <2>1, <2>2
<1>. QED
  BY <1>2, <1>3, <1>4 DEF Next

(* The hue of a light that is off changes only when another handler has     *)
(* switched it off between the test and the write, when a recall gives it   *)
(* the hue of a scene, or when an update puts back the object that a recall *)
(* has replaced.                                                            *)
THEOREM OffLightsKeepHue == Spec => OffKeepsHue
<1>1. ASSUME IInv, [Next]_vars
      PROVE  [\A l \in Lights :
                content'[state'[l]].hue # content[state[l]].hue =>
                  \/ content[state[l]].on
                  \/ raced \intersect Writing(state[l]) # {}
                  \/ \E h \in Handlers : RecallLight(h, l) \/ PutsBack(h, l)]_vars
  <2>1. ASSUME NEW l \in Lights, state'[l] = state[l],
               content'[state[l]].hue # content[state[l]].hue
        PROVE  content[state[l]].on \/ raced \intersect Writing(state[l]) # {}
    <3>1. state[l] \in Objects /\ state[l] <= made
      BY <1>1 DEF IInv, Heap, Made
    <3>2. PICK h \in Handlers : /\ Refers(h) /\ job[h].object = state[l]
                                /\ SetOn(h) \/ SetHue(h)
      BY <1>1, <2>1, <3>1, ContentSteps
    <3>3. ~SetOn(h)
      <4>1. content[state[l]] \in Content
        BY <1>1, <3>1 DEF IInv, Heap
      <4>. QED
        BY <1>1, <2>1, <3>1, <3>2, <4>1 DEF SetOn, IInv, Heap, Content
    <3>4. At(h, "write") /\ h \in Writing(state[l])
      BY <3>2, <3>3 DEF SetHue, Writing
    <3>. QED
      BY <1>1, <3>2, <3>4 DEF IInv, Guarded
  <2>2. ASSUME NEW l \in Lights, state'[l] # state[l]
        PROVE  \E h \in Handlers : RecallLight(h, l) \/ PutsBack(h, l)
    BY <1>1, <2>2, StateSteps
  <2>. QED
    BY <2>1, <2>2
<1>. QED
  BY <1>1, SpecIInv, PTL DEF Spec, OffKeepsHue
=============================================================================
