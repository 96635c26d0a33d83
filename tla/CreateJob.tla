----------------------------- MODULE CreateJob ------------------------------
(***************************************************************************)
(* The dialog that creates a job                                           *)
(* (src/frontend/src/modules/grok/components/CreateJobModal.tsx and its    *)
(* parts).  Its fields constrain one another, and the code keeps them      *)
(* consistent with React effects: after a change has been rendered, every  *)
(* effect that depends on a changed value runs with the values of that     *)
(* render, and what the effects set is rendered in turn.  The user's next  *)
(* click comes after the effects.  Beside the form, reference images are   *)
(* dropped and uploaded one after the other, by one async function per     *)
(* drop; the picker they are dropped on is shown for some fields only.     *)
(*                                                                         *)
(* Bounds: Profiles, Projects, Plans, Drops, Files, MaxEvents changes that *)
(* the user or the server makes.                                           *)
(***************************************************************************)
EXTENDS Naturals, FiniteSets

CONSTANTS Profiles, ProviderOf,   \* browser profiles and their providers
          Projects, ProfileOf,    \* Grok projects and their profiles
          Modes,                  \* presets of a video that a plan must have
          Plans,                  \* what plans allow
          Drops,                  \* drops of files, numbers
          Files, MAX_REFS,
          None, MaxEvents

Features == {"image", "video", "img2img", "img2vid", "qualityHigh", "p720", "s10"} \cup Modes

ASSUME CreateJobAssumption ==
  /\ ProviderOf \in [Profiles -> {"grok", "flow"}]
  /\ ProfileOf \in [Projects -> Profiles]
  /\ Modes \subseteq {"spicy", "fun", "custom"} /\ Plans \subseteq SUBSET Features
  /\ Drops \subseteq Nat /\ IsFiniteSet(Files) /\ MAX_REFS \in Nat \ {0}
  /\ None \notin Profiles \cup Projects \cup Files
  /\ None \notin Drops
  /\ MaxEvents \in Nat

VARIABLES form,       \* the fields
          dirty,      \* what changed since the effects last ran
          plan,       \* the features the auth store holds
          imageOnly,  \* profiles whose loaded row has allows_video = false
          refs,       \* inputImages: the uploaded images shown
          drop,       \* the async function of each drop
          mine,       \* the drops on the picker that is mounted
          last,       \* the one of them that started the last upload
          uploadPending,  \* what the picker told the dialog
          posting,    \* a POST is under way
          made,       \* what the last submit sent, and what held at its click
          events

vars == <<form, dirty, plan, imageOnly, refs, drop, mine, last, uploadPending, posting, made,
          events>>

Fields == {"provider", "job_type", "profile_id", "project_id", "quality", "resolution",
           "duration", "mode"}
Form == [provider : {"grok", "flow"}, job_type : {"image", "video"},
         profile_id : Profiles \cup {None}, project_id : Projects \cup {None},
         quality : {"speed", "quality"}, resolution : {"480p", "720p"}, duration : {6, 10},
         mode : {"normal"} \cup Modes]

TypeOK ==
  /\ form \in Form
  /\ dirty \subseteq Fields \cup {"plan", "profiles"}
  /\ plan \in Plans /\ imageOnly \subseteq Profiles
  /\ refs \subseteq Files
  /\ drop \in [Drops -> [pc : {"idle", "on", "done"}, todo : SUBSET Files,
                         acc : SUBSET Files, cur : Files \cup {None}]]
  /\ mine \subseteq Drops /\ last \in Drops \cup {None} /\ uploadPending \in BOOLEAN
  /\ posting \in BOOLEAN
  /\ made = None \/ made \in [form : Form, plan : Plans, imageOnly : SUBSET Profiles,
                              refs : SUBSET Files, uploading : SUBSET Files]
  /\ events \in 0..MaxEvents

-----------------------------------------------------------------------------
IdleDrop == [pc |-> "idle", todo |-> {}, acc |-> {}, cur |-> None]

\* A blank dialog, or a copy of a job's provider, type and prompt.
Init ==
  /\ form \in [provider : {"grok", "flow"}, job_type : {"image", "video"},
               profile_id : {None}, project_id : {None},
               quality : {"speed"}, resolution : {"720p"}, duration : {6}, mode : {"normal"}]
  /\ dirty = Fields \cup {"plan", "profiles"}
  /\ plan \in Plans /\ imageOnly = {}
  /\ refs = {} /\ drop = [d \in Drops |-> IdleDrop]
  /\ mine = {} /\ last = None /\ uploadPending = FALSE
  /\ posting = FALSE /\ made = None /\ events = 0

Event == events < MaxEvents /\ events' = events + 1

\* The picker is shown for images and for Grok's videos, and usable as far as
\* the plan goes.
pickerShown(f) == f.job_type = "image" \/ f.provider = "grok"
pickerAllowed == (IF form.job_type = "image" THEN "img2img" ELSE "img2vid") \in plan

\* Another form is rendered.  A picker that is taken away follows its uploads
\* no more and leaves the dialog's flag as it is; a new one starts with its own.
render(f) ==
  /\ form' = f
  /\ IF pickerShown(form) = pickerShown(f) THEN UNCHANGED <<mine, last, uploadPending>>
     ELSE /\ mine' = {} /\ last' = None
          /\ uploadPending' = (uploadPending /\ pickerShown(form))

-----------------------------------------------------------------------------
\* The effects.  Each says which changes it depends on, and what it makes of
\* the form g that the earlier ones left, given the rendered form f.

\* Mutant: the project is kept.
resetProjectNever(f, g) == g

\* Another profile: its projects are others.
resetProject(f, g) ==
  IF "profile_id" \in dirty THEN [g EXCEPT !.project_id = None] ELSE g

\* Mutant: a new list of profiles is not looked at.
dropImageOnlyOnce(f, g) ==
  IF dirty \cap {"job_type", "profile_id"} # {}
     /\ f.job_type = "video" /\ f.profile_id \in imageOnly
  THEN [g EXCEPT !.profile_id = None] ELSE g

\* A video job cannot have an image-only profile: back to auto pick.
dropImageOnly(f, g) ==
  IF dirty \cap {"job_type", "profile_id", "profiles"} # {}
     /\ f.job_type = "video" /\ f.profile_id \in imageOnly
  THEN [g EXCEPT !.profile_id = None] ELSE g

\* Mutant: the provider's type is enforced whenever the type changes.
flowIsVideoAlways(f, g) ==
  IF dirty \cap {"provider", "job_type"} # {} /\ f.provider = "flow"
  THEN [g EXCEPT !.job_type = "video"] ELSE g

\* Flow makes videos.
flowIsVideo(f, g) ==
  IF "provider" \in dirty /\ f.provider = "flow" THEN [g EXCEPT !.job_type = "video"] ELSE g

\* The type the plan has, when it has one of the two.
typeOfPlan(f, g) ==
  IF dirty \cap {"job_type", "plan"} = {} THEN g
  ELSE IF f.job_type = "image" /\ "image" \notin plan /\ "video" \in plan
  THEN [g EXCEPT !.job_type = "video"]
  ELSE IF f.job_type = "video" /\ "video" \notin plan /\ "image" \in plan
  THEN [g EXCEPT !.job_type = "image"]
  ELSE g

\* Mutant: the options are checked against the plan of the day they were chosen.
optionsAtMount(f, g) == g

\* Options the plan does not have fall back; the mode of a video is not among
\* them.
optionsOfPlan(f, g) ==
  IF "plan" \notin dirty THEN g
  ELSE [g EXCEPT !.quality = IF "qualityHigh" \in plan THEN @ ELSE "speed",
                 !.resolution = IF "p720" \in plan THEN @ ELSE "480p",
                 !.duration = IF "s10" \in plan THEN @ ELSE 6]

\* One pass, in the order of the code; what it changed is rendered next.
effects ==
  /\ dirty # {}
  /\ LET f == form
         g == optionsOfPlan(f, typeOfPlan(f, flowIsVideo(f,
                dropImageOnly(f, resetProject(f, f)))))
     IN render(g) /\ dirty' = {x \in Fields : g[x] # f[x]}
  /\ UNCHANGED <<plan, imageOnly, refs, drop, posting, made, events>>

-----------------------------------------------------------------------------
\* The fields, once the effects are done.
Set(x, v) ==
  /\ Event /\ dirty = {} /\ form[x] # v
  /\ render([form EXCEPT ![x] = v]) /\ dirty' = {x}
  /\ UNCHANGED <<plan, imageOnly, refs, drop, posting, made>>

setProvider(p) == Set("provider", p)

\* Disabled for Flow; a type the plan lacks cannot be chosen.
setType(t) == form.provider # "flow" /\ t \in plan /\ Set("job_type", t)

\* The profiles offered: of the provider, and for videos those that make them.
profileSelectable(p) == form.job_type = "video" => p \notin imageOnly
pickProfile(p) ==
  /\ p # None => ProviderOf[p] = form.provider /\ profileSelectable(p)
  /\ Set("profile_id", p)

pickProject(p) ==
  /\ form.profile_id # None
  /\ p # None => ProfileOf[p] = form.profile_id
  /\ Set("project_id", p)

\* Image jobs have a quality, video jobs a resolution, a duration and a mode;
\* locked values cannot be chosen.
setOption ==
  \/ /\ form.job_type = "image"
     /\ \E v \in {"speed", "quality"} :
          (v = "quality" => "qualityHigh" \in plan) /\ Set("quality", v)
  \/ /\ form.job_type = "video"
     /\ \/ \E v \in {"480p", "720p"} : (v = "720p" => "p720" \in plan) /\ Set("resolution", v)
        \/ \E v \in {6, 10} : (v = 10 => "s10" \in plan) /\ Set("duration", v)
        \/ \E v \in {"normal"} \cup Modes : (v \in Modes => v \in plan) /\ Set("mode", v)

\* The auth store gets another plan, the list of profiles is fetched again.
planChanges(p) ==
  /\ Event /\ p # plan /\ plan' = p /\ dirty' = dirty \cup {"plan"}
  /\ UNCHANGED <<form, imageOnly, refs, drop, mine, last, uploadPending, posting, made>>

profilesFetched(S) ==
  /\ Event /\ S # imageOnly /\ imageOnly' = S /\ dirty' = dirty \cup {"profiles"}
  /\ UNCHANGED <<form, plan, refs, drop, mine, last, uploadPending, posting, made>>

-----------------------------------------------------------------------------
\* Reference images.  A drop takes as many files as there are free places now
\* and uploads them one by one; what it shows is what it saw plus its own.  It
\* goes on when the picker is gone.
fields == <<form, dirty, plan, imageOnly, posting, made>>

\* uploadInput.isPending, mirrored to the dialog: the observer of the mounted
\* picker follows the upload that was started last.
mirror == uploadPending' = IF pickerShown(form) THEN last' # None /\ drop'[last'].cur # None
                           ELSE uploadPending

handleFiles(d, S) ==
  /\ Event /\ dirty = {} /\ S # {} /\ pickerShown(form) /\ pickerAllowed
  /\ drop[d].pc = "idle" /\ \A e \in Drops : drop[e].pc = "idle" => d <= e
  /\ \A e \in Drops : S \cap (drop[e].todo \cup drop[e].acc \cup {drop[e].cur}) = {}
  /\ Cardinality(S) <= MAX_REFS - Cardinality(refs)
  /\ \E f \in S :
       drop' = [drop EXCEPT ![d] = [pc |-> "on", todo |-> S \ {f}, acc |-> refs, cur |-> f]]
  /\ mine' = mine \cup {d} /\ last' = d /\ mirror
  /\ UNCHANGED refs /\ UNCHANGED fields

\* Mutant: the new image is added to what is shown by now.
shownAfterAdds(d, f) == refs \cup {f}

shownAfter(d, f) == drop[d].acc \cup {f}

\* An upload ends, well or not, and the next one starts.
uploadEnds(d) ==
  /\ drop[d].cur # None
  /\ \E ok \in BOOLEAN :
       LET acc == IF ok THEN drop[d].acc \cup {drop[d].cur} ELSE drop[d].acc
       IN /\ refs' = IF ok THEN shownAfter(d, drop[d].cur) ELSE refs
          /\ \/ /\ drop[d].todo = {} /\ UNCHANGED last
                /\ drop' = [drop EXCEPT ![d] = [pc |-> "done", todo |-> {}, acc |-> acc,
                                                cur |-> None]]
             \/ /\ \E f \in drop[d].todo :
                     drop' = [drop EXCEPT ![d] = [pc |-> "on", todo |-> @.todo \ {f},
                                                  acc |-> acc, cur |-> f]]
                /\ last' = IF d \in mine THEN d ELSE last
  /\ mirror
  /\ UNCHANGED <<mine, events>> /\ UNCHANGED fields

removeAt(f) ==
  /\ Event /\ pickerShown(form) /\ pickerAllowed
  /\ f \in refs /\ refs' = refs \ {f}
  /\ UNCHANGED <<drop, mine, last, uploadPending>> /\ UNCHANGED fields

-----------------------------------------------------------------------------
\* Submit: disabled while a POST or an upload is pending.  A failure leaves the
\* dialog as it was, a success closes it.
Uploading == {drop[d].cur : d \in Drops} \ {None}

onSubmit ==
  /\ dirty = {} /\ ~posting /\ ~uploadPending
  /\ posting' = TRUE
  /\ made' = [form |-> form, plan |-> plan, imageOnly |-> imageOnly, refs |-> refs,
              uploading |-> Uploading]
  /\ UNCHANGED <<form, dirty, plan, imageOnly, refs, drop, mine, last, uploadPending, events>>

createFails ==
  /\ posting /\ posting' = FALSE
  /\ UNCHANGED <<form, dirty, plan, imageOnly, refs, drop, mine, last, uploadPending, made,
                 events>>

Edit == \/ \E p \in {"grok", "flow"} : setProvider(p)
        \/ \E t \in {"image", "video"} : setType(t)
        \/ \E p \in Profiles \cup {None} : pickProfile(p)
        \/ \E p \in Projects \cup {None} : pickProject(p)
        \/ setOption
Pick == \/ \E d \in Drops : uploadEnds(d) \/ \E S \in SUBSET Files : handleFiles(d, S)
        \/ \E f \in Files : removeAt(f)

Next == \/ effects \/ Edit \/ Pick \/ onSubmit \/ createFails
        \/ \E p \in Plans : planChanges(p)
        \/ \E S \in SUBSET Profiles : profilesFetched(S)

Spec == Init /\ [][Next]_vars

\* React runs the effects of what it rendered.
FairSpec == Spec /\ WF_vars(effects)

-----------------------------------------------------------------------------
(* Properties *)

\* A job's project belongs to its profile, however profile, provider and type
\* were changed before ("so a stale project from a previous profile doesn't
\* leak in", CreateJobModal.tsx:92-93).
ProjectOfProfile ==
  made # None /\ made.form.project_id # None =>
    made.form.profile_id = ProfileOf[made.form.project_id]

\* No video job is sent with a profile that the loaded list shows as
\* image-only, also when the list changed after it was picked.
VideoProfileMakesVideo ==
  made # None /\ made.form.job_type = "video" => made.form.profile_id \notin made.imageOnly

\* The type, the quality, the resolution and the duration that are sent are
\* within the plan of the moment, also when the plan changed while the dialog
\* was open ("Drop ineligible defaults so the form doesn't submit a blocked
\* option", CreateJobModal.tsx:120).
DefaultsWithinPlan ==
  made # None =>
    LET f == made.form  has == made.plan
    IN /\ has \cap {"image", "video"} # {} => f.job_type \in has
       /\ f.quality = "quality" => "qualityHigh" \in has
       /\ f.resolution = "720p" => "p720" \in has
       /\ f.duration = 10 => "s10" \in has

\* However many drops upload at a time, never more than MAX_REFS are shown.
RefsBounded == Cardinality(refs) <= MAX_REFS

\* The effects do not chase one another for ever.
EffectsSettle == dirty # {} ~> dirty = {}

\* No job is sent while an upload of this dialog is in flight ("True while ANY
\* reference-image upload is in flight. The Submit button reads this to refuse
\* firing", CreateJobModal.tsx:41-45).
UploadsAwaited == made # None => made.uploading = {}

\* The flag that refuses Submit is down again when no upload is in flight (the
\* same comment).
PendingIsUpload == uploadPending => Uploading # {}

\* Nothing at all is sent that the plan of the moment does not have, the mode of
\* a video and its reference images included ("so the form doesn't submit a
\* blocked option", CreateJobModal.tsx:120).
WithinPlan ==
  made # None =>
    LET f == made.form  has == made.plan
    IN /\ DefaultsWithinPlan
       /\ f.job_type = "video" /\ f.mode \in Modes => f.mode \in has
       /\ made.refs # {} => (IF f.job_type = "image" THEN "img2img" ELSE "img2vid") \in has
=============================================================================
