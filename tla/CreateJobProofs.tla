--------------------------- MODULE CreateJobProofs ---------------------------
(***************************************************************************)
(* Proofs about the dialog that creates a job, for any profiles, projects, *)
(* plans and files, and any number of changes.                             *)
(***************************************************************************)
EXTENDS CreateJob, FiniteSetTheorems, TLAPS

-----------------------------------------------------------------------------
(* The form between a change and the effects it sets off: whatever is out  *)
(* of line is marked as changed, for an effect that will put it right.     *)

ProjectFits ==
  form.project_id # None /\ form.profile_id # ProfileOf[form.project_id]
    => "profile_id" \in dirty

ProfileFits ==
  form.job_type = "video" /\ form.profile_id \in imageOnly
    => dirty \cap {"job_type", "profile_id", "profiles"} # {}

TypeFits ==
  plan \cap {"image", "video"} # {} /\ form.job_type \notin plan
    => dirty \cap {"job_type", "plan"} # {}

OptionsFit ==
  "plan" \notin dirty =>
    /\ form.quality = "quality" => "qualityHigh" \in plan
    /\ form.resolution = "720p" => "p720" \in plan
    /\ form.duration = 10 => "s10" \in plan

FormInv == ProjectFits /\ ProfileFits /\ TypeFits /\ OptionsFit

\* A drop has room for what it has uploaded and what it still will.
RoomForDrops ==
  \A d \in Drops : drop[d].cur # None =>
    Cardinality(drop[d].acc) + Cardinality(drop[d].todo) + 1 <= MAX_REFS

MadeInv == ProjectOfProfile /\ VideoProfileMakesVideo /\ DefaultsWithinPlan

DialogInv == TypeOK /\ FormInv /\ RoomForDrops /\ RefsBounded /\ MadeInv

-----------------------------------------------------------------------------
(* What one pass of the effects makes of the form.                         *)

Passed == optionsOfPlan(form, typeOfPlan(form, flowIsVideo(form,
            dropImageOnly(form, resetProject(form, form)))))

Retyped ==
  IF dirty \cap {"job_type", "plan"} # {} /\ form.job_type = "image"
     /\ "image" \notin plan /\ "video" \in plan THEN "video"
  ELSE IF dirty \cap {"job_type", "plan"} # {} /\ form.job_type = "video"
     /\ "video" \notin plan /\ "image" \in plan THEN "image"
  ELSE IF "provider" \in dirty /\ form.provider = "flow" THEN "video"
  ELSE form.job_type

Repicked ==
  IF dirty \cap {"job_type", "profile_id", "profiles"} # {}
     /\ form.job_type = "video" /\ form.profile_id \in imageOnly
  THEN None ELSE form.profile_id

Reproject == IF "profile_id" \in dirty THEN None ELSE form.project_id

LEMMA PassedForm ==
  ASSUME TypeOK
  PROVE  Passed = [provider |-> form.provider, job_type |-> Retyped,
                   profile_id |-> Repicked, project_id |-> Reproject,
                   quality |-> IF "plan" \in dirty /\ "qualityHigh" \notin plan
                               THEN "speed" ELSE form.quality,
                   resolution |-> IF "plan" \in dirty /\ "p720" \notin plan
                                  THEN "480p" ELSE form.resolution,
                   duration |-> IF "plan" \in dirty /\ "s10" \notin plan
                                THEN 6 ELSE form.duration,
                   mode |-> form.mode]
<1>0. form \in Form
  BY DEF TypeOK
<1>1. resetProject(form, form) = [form EXCEPT !.project_id = Reproject]
  BY <1>0 DEF resetProject, Reproject, Form
<1> DEFINE e == [form EXCEPT !.project_id = Reproject]
           g == [e EXCEPT !.profile_id = Repicked]
           h == [g EXCEPT !.job_type = Retyped]
<1>a. e = [provider |-> form.provider, job_type |-> form.job_type,
           profile_id |-> form.profile_id, project_id |-> Reproject,
           quality |-> form.quality, resolution |-> form.resolution,
           duration |-> form.duration, mode |-> form.mode]
  BY <1>0 DEF Form
<1>2. dropImageOnly(form, e) = g
  <2> HIDE DEF e
  <2> QED  BY <1>0, <1>a DEF dropImageOnly, Repicked, Form
<1>b. g = [provider |-> form.provider, job_type |-> form.job_type,
           profile_id |-> Repicked, project_id |-> Reproject,
           quality |-> form.quality, resolution |-> form.resolution,
           duration |-> form.duration, mode |-> form.mode]
  <2> HIDE DEF e
  <2> QED  BY <1>a
<1>3. typeOfPlan(form, flowIsVideo(form, g)) = h
  <2> HIDE DEF g
  <2> QED  BY <1>b, <1>0 DEF typeOfPlan, flowIsVideo, Retyped, Form
<1>4. h = [provider |-> form.provider, job_type |-> Retyped,
           profile_id |-> Repicked, project_id |-> Reproject,
           quality |-> form.quality, resolution |-> form.resolution,
           duration |-> form.duration, mode |-> form.mode]
  <2> HIDE DEF g
  <2> QED  BY <1>b
<1>5. Passed = optionsOfPlan(form, h)
  BY <1>1, <1>2, <1>3 DEF Passed
<1> HIDE DEF e, g, h
<1> QED
  BY <1>4, <1>5 DEF optionsOfPlan

-----------------------------------------------------------------------------
LEMMA DialogInit == Init => DialogInv
<1> SUFFICES ASSUME Init PROVE DialogInv
  OBVIOUS
<1>1. TypeOK
  <2>1. form \in Form
    BY DEF Init, Form
  <2>2. drop \in [Drops -> [pc : {"idle", "on", "done"}, todo : SUBSET Files,
                           acc : SUBSET Files, cur : Files \cup {None}]]
    BY DEF Init, IdleDrop
  <2>3. /\ dirty \subseteq Fields \cup {"plan", "profiles"}
        /\ plan \in Plans /\ imageOnly \subseteq Profiles /\ refs \subseteq Files
        /\ mine \subseteq Drops /\ last \in Drops \cup {None} /\ uploadPending \in BOOLEAN
        /\ posting \in BOOLEAN /\ made = None
    BY DEF Init
  <2>4. events \in 0..MaxEvents
    BY CreateJobAssumption DEF Init
  <2> QED
    BY <2>1, <2>2, <2>3, <2>4 DEF TypeOK
<1>2. FormInv
  BY DEF Init, FormInv, ProjectFits, ProfileFits, TypeFits, OptionsFit, Fields
<1>3. RoomForDrops
  BY DEF Init, RoomForDrops, IdleDrop
<1>4. RefsBounded
  BY FS_EmptySet, CreateJobAssumption DEF Init, RefsBounded
<1>5. MadeInv
  BY DEF Init, MadeInv, ProjectOfProfile, VideoProfileMakesVideo, DefaultsWithinPlan
<1> QED
  BY <1>1, <1>2, <1>3, <1>4, <1>5 DEF DialogInv

\* The picker is none of the form's business, and the other way round.
LEMMA PickerApart ==
  ASSUME DialogInv, UNCHANGED <<refs, drop>>
  PROVE  RoomForDrops' /\ RefsBounded'
BY DEF DialogInv, RoomForDrops, RefsBounded

LEMMA FormApart ==
  ASSUME DialogInv, UNCHANGED fields
  PROVE  FormInv' /\ MadeInv'
BY DEF DialogInv, fields, FormInv, ProjectFits, ProfileFits, TypeFits, OptionsFit,
       MadeInv, ProjectOfProfile, VideoProfileMakesVideo, DefaultsWithinPlan

LEMMA MadeStays ==
  ASSUME DialogInv, UNCHANGED made
  PROVE  MadeInv'
BY DEF DialogInv, MadeInv, ProjectOfProfile, VideoProfileMakesVideo, DefaultsWithinPlan

\* Rendering another form keeps the types of what the picker holds.
LEMMA RenderKeepsPicker ==
  ASSUME TypeOK, NEW f, render(f)
  PROVE  mine' \subseteq Drops /\ last' \in Drops \cup {None} /\ uploadPending' \in BOOLEAN
BY DEF TypeOK, render

LEMMA EffectsStep ==
  ASSUME DialogInv, effects
  PROVE  DialogInv'
<1>0. TypeOK /\ FormInv /\ form \in Form
  BY DEF DialogInv, TypeOK
<1>1. /\ form' = Passed /\ render(Passed)
      /\ dirty' = {x \in Fields : Passed[x] # form[x]}
      /\ UNCHANGED <<plan, imageOnly, refs, drop, posting, made, events>>
  BY DEF effects, render, Passed
<1>2. /\ form'.provider = form.provider /\ form'.job_type = Retyped
      /\ form'.profile_id = Repicked /\ form'.project_id = Reproject
      /\ form'.quality = IF "plan" \in dirty /\ "qualityHigh" \notin plan
                         THEN "speed" ELSE form.quality
      /\ form'.resolution = IF "plan" \in dirty /\ "p720" \notin plan
                            THEN "480p" ELSE form.resolution
      /\ form'.duration = IF "plan" \in dirty /\ "s10" \notin plan
                          THEN 6 ELSE form.duration
  BY <1>0, <1>1, PassedForm
<1>3. /\ Retyped \in {"image", "video"} /\ Repicked \in Profiles \cup {None}
      /\ Reproject \in Projects \cup {None}
  BY <1>0 DEF Retyped, Repicked, Reproject, Form
<1>4. form' \in Form
  <2>1. Passed \in Form
    BY <1>0, <1>3, PassedForm DEF Form
  <2> QED
    BY <2>1, <1>1
<1>5. TypeOK'
  BY <1>0, <1>1, <1>4, RenderKeepsPicker DEF TypeOK
<1>6. /\ Retyped # form.job_type => "job_type" \in dirty'
      /\ Repicked # form.profile_id => "profile_id" \in dirty'
  <2>1. /\ Passed["job_type"] = Retyped /\ Passed["profile_id"] = Repicked
    BY <1>1, <1>2
  <2> QED
    BY <2>1, <1>1 DEF Fields
<1>7. ProjectFits'
  BY <1>0, <1>2, <1>6 DEF FormInv, ProjectFits, Reproject
<1>8. ProfileFits'
  BY <1>0, <1>1, <1>2, <1>6, CreateJobAssumption
     DEF FormInv, ProfileFits, Repicked, TypeOK
<1>9. TypeFits'
  BY <1>0, <1>1, <1>2, <1>6 DEF FormInv, TypeFits, Retyped, Form
<1>10. OptionsFit'
  BY <1>0, <1>1, <1>2 DEF FormInv, OptionsFit
<1> QED
  BY <1>1, <1>5, <1>7, <1>8, <1>9, <1>10, PickerApart, MadeStays DEF DialogInv, FormInv

\* A change of one field, as the user may make it.
LEMMA SetStep ==
  ASSUME DialogInv, NEW x \in Fields, NEW v, Set(x, v), [form EXCEPT ![x] = v] \in Form,
         x = "project_id" /\ v # None => ProfileOf[v] = form.profile_id,
         x = "quality" /\ v = "quality" => "qualityHigh" \in plan,
         x = "resolution" /\ v = "720p" => "p720" \in plan,
         x = "duration" /\ v = 10 => "s10" \in plan
  PROVE  DialogInv'
<1>0. TypeOK /\ FormInv /\ form \in Form
  BY DEF DialogInv, TypeOK
<1>1. /\ form' = [form EXCEPT ![x] = v] /\ render([form EXCEPT ![x] = v])
      /\ dirty' = {x} /\ dirty = {}
      /\ events < MaxEvents /\ events' = events + 1
      /\ UNCHANGED <<plan, imageOnly, refs, drop, posting, made>>
  BY DEF Set, render, Event
<1>2. TypeOK'
  BY <1>0, <1>1, RenderKeepsPicker, CreateJobAssumption DEF TypeOK
<1>3. /\ form'.profile_id = IF x = "profile_id" THEN v ELSE form.profile_id
      /\ form'.project_id = IF x = "project_id" THEN v ELSE form.project_id
      /\ form'.job_type = IF x = "job_type" THEN v ELSE form.job_type
      /\ form'.quality = IF x = "quality" THEN v ELSE form.quality
      /\ form'.resolution = IF x = "resolution" THEN v ELSE form.resolution
      /\ form'.duration = IF x = "duration" THEN v ELSE form.duration
  BY <1>0, <1>1 DEF Form
<1>4. ProjectFits'
  BY <1>0, <1>1, <1>3 DEF FormInv, ProjectFits
<1>5. ProfileFits'
  <2>1. CASE x \in {"job_type", "profile_id"}
    BY <2>1, <1>1 DEF ProfileFits
  <2>2. CASE x \notin {"job_type", "profile_id"}
    <3>1. UNCHANGED <<imageOnly>> /\ form'.job_type = form.job_type
          /\ form'.profile_id = form.profile_id
      BY <2>2, <1>1, <1>3
    <3> QED
      BY <3>1, <1>0, <1>1 DEF FormInv, ProfileFits
  <2> QED
    BY <2>1, <2>2
<1>6. TypeFits'
  <2>1. CASE x = "job_type"
    BY <2>1, <1>1 DEF TypeFits
  <2>2. CASE x # "job_type"
    <3>1. UNCHANGED <<plan>> /\ form'.job_type = form.job_type
      BY <2>2, <1>1, <1>3
    <3> QED
      BY <3>1, <1>0, <1>1 DEF FormInv, TypeFits
  <2> QED
    BY <2>1, <2>2
<1>7. OptionsFit'
  BY <1>0, <1>1, <1>3 DEF FormInv, OptionsFit
<1> QED
  BY <1>1, <1>2, <1>4, <1>5, <1>6, <1>7, PickerApart, MadeStays DEF DialogInv, FormInv

LEMMA EditStep ==
  ASSUME DialogInv, Edit
  PROVE  DialogInv'
<1>0. TypeOK /\ form \in Form
  BY DEF DialogInv, TypeOK
<1>1. ASSUME NEW p \in {"grok", "flow"}, setProvider(p) PROVE DialogInv'
  <2>1. [form EXCEPT !["provider"] = p] \in Form
    BY <1>0 DEF Form
  <2> QED
    BY <1>1, <2>1, SetStep DEF setProvider, Fields
<1>2. ASSUME NEW t \in {"image", "video"}, setType(t) PROVE DialogInv'
  <2>1. [form EXCEPT !["job_type"] = t] \in Form
    BY <1>0 DEF Form
  <2> QED
    BY <1>2, <2>1, SetStep DEF setType, Fields
<1>3. ASSUME NEW p \in Profiles \cup {None}, pickProfile(p) PROVE DialogInv'
  <2>1. [form EXCEPT !["profile_id"] = p] \in Form
    BY <1>0 DEF Form
  <2> QED
    BY <1>3, <2>1, SetStep DEF pickProfile, Fields
<1>4. ASSUME NEW p \in Projects \cup {None}, pickProject(p) PROVE DialogInv'
  <2>1. [form EXCEPT !["project_id"] = p] \in Form
    BY <1>0 DEF Form
  <2> QED
    BY <1>4, <2>1, SetStep DEF pickProject, Fields
<1>5. ASSUME setOption PROVE DialogInv'
  <2>1. ASSUME NEW v \in {"speed", "quality"}, v = "quality" => "qualityHigh" \in plan,
               Set("quality", v)
        PROVE  DialogInv'
    <3>1. [form EXCEPT !["quality"] = v] \in Form
      BY <1>0 DEF Form
    <3> QED
      BY <2>1, <3>1, SetStep DEF Fields
  <2>2. ASSUME NEW v \in {"480p", "720p"}, v = "720p" => "p720" \in plan,
               Set("resolution", v)
        PROVE  DialogInv'
    <3>1. [form EXCEPT !["resolution"] = v] \in Form
      BY <1>0 DEF Form
    <3> QED
      BY <2>2, <3>1, SetStep DEF Fields
  <2>3. ASSUME NEW v \in {6, 10}, v = 10 => "s10" \in plan, Set("duration", v)
        PROVE  DialogInv'
    <3>1. [form EXCEPT !["duration"] = v] \in Form
      BY <1>0 DEF Form
    <3> QED
      BY <2>3, <3>1, SetStep DEF Fields
  <2>4. ASSUME NEW v \in {"normal"} \cup Modes, Set("mode", v)
        PROVE  DialogInv'
    <3>1. [form EXCEPT !["mode"] = v] \in Form
      BY <1>0 DEF Form
    <3> QED
      BY <2>4, <3>1, SetStep DEF Fields
  <2> QED
    BY <1>5, <2>1, <2>2, <2>3, <2>4 DEF setOption
<1> QED
  BY <1>1, <1>2, <1>3, <1>4, <1>5 DEF Edit

LEMMA AroundStep ==
  ASSUME DialogInv,
         \/ \E p \in Plans : planChanges(p)
         \/ \E S \in SUBSET Profiles : profilesFetched(S)
  PROVE  DialogInv'
<1>0. TypeOK /\ FormInv
  BY DEF DialogInv
<1>1. UNCHANGED <<form, refs, drop, mine, last, uploadPending, posting, made>>
  BY DEF planChanges, profilesFetched
<1>2. TypeOK'
  BY <1>0, CreateJobAssumption DEF TypeOK, planChanges, profilesFetched, Event
<1>3. FormInv'
  BY <1>0, <1>1 DEF FormInv, ProjectFits, ProfileFits, TypeFits, OptionsFit,
                    planChanges, profilesFetched
<1> QED
  BY <1>1, <1>2, <1>3, PickerApart, MadeStays DEF DialogInv

-----------------------------------------------------------------------------
(* The picker.                                                             *)

LEMMA FilesAreFinite ==
  ASSUME NEW S \in SUBSET Files
  PROVE  IsFiniteSet(S) /\ Cardinality(S) \in Nat
BY CreateJobAssumption, FS_Subset, FS_CardinalityType

LEMMA HandleFilesStep ==
  ASSUME DialogInv, NEW d \in Drops, NEW S \in SUBSET Files, handleFiles(d, S)
  PROVE  DialogInv'
<1>0. TypeOK /\ RoomForDrops /\ RefsBounded
  BY DEF DialogInv
<1>1. PICK f \in S :
        drop' = [drop EXCEPT ![d] = [pc |-> "on", todo |-> S \ {f}, acc |-> refs, cur |-> f]]
  BY DEF handleFiles
<1>2. /\ UNCHANGED refs /\ UNCHANGED fields /\ mine' = mine \cup {d} /\ last' = d
      /\ Cardinality(S) <= MAX_REFS - Cardinality(refs)
      /\ events < MaxEvents /\ events' = events + 1
  BY DEF handleFiles, Event
<1>3. TypeOK'
  <2>1. uploadPending' \in BOOLEAN
    BY <1>0 DEF handleFiles, mirror, TypeOK
  <2> QED
    BY <1>0, <1>1, <1>2, <2>1, CreateJobAssumption DEF TypeOK, fields
<1>4. Cardinality(refs) + Cardinality(S \ {f}) + 1 <= MAX_REFS
  <2>1. Cardinality(S \ {f}) = Cardinality(S) - 1
    BY FilesAreFinite, FS_RemoveElement
  <2>2. Cardinality(S) \in Nat /\ Cardinality(refs) \in Nat
    BY <1>0, FilesAreFinite DEF TypeOK
  <2> QED
    BY <1>2, <2>1, <2>2, CreateJobAssumption
<1>5. RoomForDrops'
  <2> SUFFICES ASSUME NEW e \in Drops, drop'[e].cur # None
               PROVE  Cardinality(drop'[e].acc) + Cardinality(drop'[e].todo) + 1 <= MAX_REFS
    BY DEF RoomForDrops
  <2>1. CASE e = d
    BY <2>1, <1>0, <1>1, <1>4 DEF TypeOK
  <2>2. CASE e # d
    BY <2>2, <1>0, <1>1 DEF TypeOK, RoomForDrops
  <2> QED
    BY <2>1, <2>2
<1> QED
  BY <1>0, <1>2, <1>3, <1>5, FormApart DEF DialogInv, RefsBounded

LEMMA UploadEndsStep ==
  ASSUME DialogInv, NEW d \in Drops, uploadEnds(d)
  PROVE  DialogInv'
<1>0. TypeOK /\ RoomForDrops /\ RefsBounded
  BY DEF DialogInv
<1> DEFINE x == drop[d]
<1>1. /\ x.cur \in Files /\ x.acc \in SUBSET Files /\ x.todo \in SUBSET Files
      /\ UNCHANGED <<mine, events>> /\ UNCHANGED fields /\ uploadPending' \in BOOLEAN
  BY <1>0 DEF TypeOK, uploadEnds, mirror
<1>2. Cardinality(x.acc) + Cardinality(x.todo) + 1 <= MAX_REFS
  BY <1>0 DEF RoomForDrops, uploadEnds
<1>3. PICK acc \in {x.acc, x.acc \cup {x.cur}} :
        /\ refs' = x.acc \cup {x.cur} \/ refs' = refs
        /\ \/ /\ drop' = [drop EXCEPT ![d] = [pc |-> "done", todo |-> {}, acc |-> acc,
                                              cur |-> None]]
              /\ UNCHANGED last
           \/ \E f \in x.todo :
                /\ drop' = [drop EXCEPT ![d] = [pc |-> "on", todo |-> x.todo \ {f},
                                               acc |-> acc, cur |-> f]]
                /\ last' \in {d, last}
  BY <1>0 DEF uploadEnds, shownAfter, TypeOK
<1>4. /\ acc \in SUBSET Files /\ refs' \in SUBSET Files
      /\ Cardinality(x.acc \cup {x.cur}) <= Cardinality(x.acc) + 1
      /\ Cardinality(acc) <= Cardinality(x.acc) + 1
      /\ Cardinality(x.acc) \in Nat /\ Cardinality(acc) \in Nat
      /\ Cardinality(x.todo) \in Nat
  <2>1. /\ acc \in SUBSET Files /\ refs' \in SUBSET Files
    BY <1>0, <1>1, <1>3 DEF TypeOK
  <2>2. IsFiniteSet(x.acc) /\ Cardinality(x.acc) \in Nat
    BY <1>1, FilesAreFinite
  <2>3. Cardinality(x.acc \cup {x.cur}) <= Cardinality(x.acc) + 1
    <3>1. \A S, f : IsFiniteSet(S) => Cardinality(S \cup {f}) =
                     IF f \in S THEN Cardinality(S) ELSE Cardinality(S) + 1
      BY FS_AddElement
    <3> QED
      BY <2>2, <3>1
  <2>4. Cardinality(acc) <= Cardinality(x.acc) + 1
    <3>1. acc = x.acc \/ acc = x.acc \cup {x.cur}
      BY <1>3
    <3>2. Cardinality(x.acc) <= Cardinality(x.acc) + 1
      BY <2>2
    <3> QED
      BY <3>1, <3>2, <2>3, Zenon
  <2>5. Cardinality(acc) \in Nat /\ Cardinality(x.todo) \in Nat
    BY <2>1, <1>1, FilesAreFinite
  <2> QED
    BY <2>1, <2>2, <2>3, <2>4, <2>5
<1>5. TypeOK'
  BY <1>0, <1>1, <1>3, <1>4 DEF TypeOK, fields
<1>6. RefsBounded'
  <2>1. Cardinality(x.acc \cup {x.cur}) <= MAX_REFS
    <3>1. Cardinality(x.acc \cup {x.cur}) \in Nat
      BY <1>1, FilesAreFinite
    <3> QED
      BY <3>1, <1>2, <1>4, CreateJobAssumption
  <2> QED
    BY <2>1, <1>0, <1>3 DEF RefsBounded
<1>7. RoomForDrops'
  <2> SUFFICES ASSUME NEW e \in Drops, drop'[e].cur # None
               PROVE  Cardinality(drop'[e].acc) + Cardinality(drop'[e].todo) + 1 <= MAX_REFS
    BY DEF RoomForDrops
  <2>1. CASE e # d
    BY <2>1, <1>0, <1>3 DEF TypeOK, RoomForDrops
  <2>2. CASE e = d
    <3>1. PICK f \in x.todo :
            drop'[d] = [pc |-> "on", todo |-> x.todo \ {f}, acc |-> acc, cur |-> f]
      <4>1. drop'[d].cur # None /\ d \in DOMAIN drop
        BY <2>2, <1>0 DEF TypeOK
      <4>2. CASE drop' = [drop EXCEPT ![d] = [pc |-> "done", todo |-> {}, acc |-> acc,
                                              cur |-> None]]
        BY <4>1, <4>2
      <4>3. ASSUME NEW f \in x.todo,
                   drop' = [drop EXCEPT ![d] = [pc |-> "on", todo |-> x.todo \ {f},
                                                acc |-> acc, cur |-> f]]
            PROVE  drop'[d] = [pc |-> "on", todo |-> x.todo \ {f}, acc |-> acc, cur |-> f]
        BY <4>1, <4>3
      <4> QED
        BY <4>2, <4>3, <1>3
    <3>2. Cardinality(x.todo \ {f}) = Cardinality(x.todo) - 1
      BY <1>1, FilesAreFinite, FS_RemoveElement
    <3>3. Cardinality(acc) + Cardinality(x.todo \ {f}) + 1 <= MAX_REFS
      BY <3>2, <1>2, <1>4, CreateJobAssumption
    <3> QED
      BY <2>2, <3>1, <3>3
  <2> QED
    BY <2>1, <2>2
<1> QED
  BY <1>1, <1>5, <1>6, <1>7, FormApart DEF DialogInv

LEMMA RemoveAtStep ==
  ASSUME DialogInv, NEW f \in Files, removeAt(f)
  PROVE  DialogInv'
<1>0. TypeOK /\ RoomForDrops /\ RefsBounded
  BY DEF DialogInv
<1>1. TypeOK' /\ RoomForDrops'
  BY <1>0, CreateJobAssumption DEF removeAt, TypeOK, RoomForDrops, fields, Event
<1>2. RefsBounded'
  <2>1. refs \in SUBSET Files /\ refs' \in SUBSET refs
    BY <1>0 DEF TypeOK, removeAt
  <2>2. /\ Cardinality(refs') <= Cardinality(refs)
        /\ Cardinality(refs') \in Nat /\ Cardinality(refs) \in Nat
    BY <2>1, FilesAreFinite, FS_Subset
  <2> QED
    BY <2>2, <1>0, CreateJobAssumption DEF RefsBounded
<1> QED
  BY <1>1, <1>2, FormApart DEF DialogInv, removeAt

-----------------------------------------------------------------------------
LEMMA SubmitStep ==
  ASSUME DialogInv, onSubmit \/ createFails
  PROVE  DialogInv'
<1>0. TypeOK /\ FormInv
  BY DEF DialogInv
<1>1. CASE createFails
  <2>1. UNCHANGED <<form, dirty, plan, imageOnly, refs, drop, mine, last, uploadPending,
                    made, events>>
        /\ posting' = FALSE
    BY <1>1 DEF createFails
  <2>2. TypeOK'
    BY <1>0, <2>1 DEF TypeOK
  <2>3. FormInv'
    BY <1>0, <2>1 DEF FormInv, ProjectFits, ProfileFits, TypeFits, OptionsFit
  <2> QED
    BY <2>1, <2>2, <2>3, PickerApart, MadeStays DEF DialogInv
<1>2. CASE onSubmit
  <2>1. /\ dirty = {} /\ posting' = TRUE
        /\ UNCHANGED <<form, dirty, plan, imageOnly, refs, drop, mine, last, uploadPending, events>>
        /\ made' = [form |-> form, plan |-> plan, imageOnly |-> imageOnly, refs |-> refs,
                    uploading |-> Uploading]
    BY <1>2 DEF onSubmit
  <2>2. Uploading \in SUBSET Files
    BY <1>0 DEF TypeOK, Uploading
  <2>3. TypeOK'
    BY <1>0, <2>1, <2>2 DEF TypeOK
  <2>4. FormInv'
    BY <1>0, <2>1 DEF FormInv, ProjectFits, ProfileFits, TypeFits, OptionsFit
  <2>5. MadeInv'
    BY <1>0, <2>1 DEF MadeInv, ProjectOfProfile, VideoProfileMakesVideo, DefaultsWithinPlan,
                      FormInv, ProjectFits, ProfileFits, TypeFits, OptionsFit
  <2> QED
    BY <2>1, <2>3, <2>4, <2>5, PickerApart DEF DialogInv
<1> QED
  BY <1>1, <1>2

LEMMA DialogStep ==
  ASSUME DialogInv, [Next]_vars
  PROVE  DialogInv'
<1>1. CASE UNCHANGED vars
  BY <1>1 DEF vars, DialogInv, TypeOK, FormInv, ProjectFits, ProfileFits, TypeFits,
              OptionsFit, RoomForDrops, RefsBounded, MadeInv, ProjectOfProfile,
              VideoProfileMakesVideo, DefaultsWithinPlan
<1>2. CASE Pick
  BY <1>2, HandleFilesStep, UploadEndsStep, RemoveAtStep DEF Pick
<1> QED
  BY <1>1, <1>2, EffectsStep, EditStep, AroundStep, SubmitStep DEF Next

LEMMA DialogInvariant == Spec => []DialogInv
BY DialogInit, DialogStep, PTL DEF Spec

-----------------------------------------------------------------------------
\* The variables of the dialog have their types, its references are files.
THEOREM DialogTypes == Spec => []TypeOK
BY DialogInvariant, PTL DEF DialogInv

\* A job's project belongs to its profile: resetProject (an effect of the
\* dialog) runs before the next submit whatever changed the profile.
THEOREM SentProjectOfProfile == Spec => []ProjectOfProfile
BY DialogInvariant, PTL DEF DialogInv, MadeInv

\* No video job is sent with a profile known to make images only.
THEOREM SentVideoProfile == Spec => []VideoProfileMakesVideo
BY DialogInvariant, PTL DEF DialogInv, MadeInv

\* Type, quality, resolution and duration of what is sent are within the plan of
\* the moment of the click: the effect that drops ineligible defaults (optionsOfPlan)
\* and the one that picks the type (typeOfPlan) run before the next submit.
THEOREM SentDefaultsWithinPlan == Spec => []DefaultsWithinPlan
BY DialogInvariant, PTL DEF DialogInv, MadeInv

\* No number of drops at a time shows more than MAX_REFS images.
THEOREM ShownRefsBounded == Spec => []RefsBounded
BY DialogInvariant, PTL DEF DialogInv
=============================================================================
