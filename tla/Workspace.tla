------------------------------ MODULE Workspace ------------------------------
(***************************************************************************)
(* One job panel of the Create Video Pro page                              *)
(* (src/frontend/src/modules/grok/views/cvp-panels): a table of drafts     *)
(* that have not been submitted, the table of the owner's jobs kept by     *)
(* React Query, the batch loop that turns drafts into jobs a chunk at a    *)
(* time, and the buttons that stop, cancel, retry and remove.              *)
(*                                                                         *)
(* A click on Start runs an async function: it checks the quota, then      *)
(* enters the batch loop.  Every click that got past the button is one     *)
(* member of Loops, so two of them may be under way at once.  Requests are *)
(* sent, reach the server and are answered in separate steps.              *)
(*                                                                         *)
(* Bounds: Drafts, Loops, JobIds, MaxText versions of a prompt, MaxEvents  *)
(* clicks and network faults together.                                     *)
(***************************************************************************)
EXTENDS Naturals, FiniteSets

CONSTANTS Drafts,       \* draft ids, numbers: the table shows them in order
          Preset,       \* the rows a sync panel opens with
          Loops,        \* clicks on Start, numbers
          JobIds,       \* ids the server gives, numbers
          Panels,       \* the panels to open, of the five below
          Size,         \* batchSize, when Delay Mode is on
          Batching,     \* batchEnabled
          Quotas,       \* remaining daily quota at mount; Unlimited among them
          Unlimited,
          Images,       \* reference images the user may choose
          None,
          MaxText, MaxEvents

ASSUME WorkspaceAssumption ==
  /\ Drafts \subseteq Nat /\ JobIds \subseteq Nat /\ Loops \subseteq Nat
  /\ Preset \subseteq Drafts
  /\ IsFiniteSet(Drafts) /\ IsFiniteSet(JobIds) /\ IsFiniteSet(Loops)
  /\ Size \in Nat /\ Batching \in BOOLEAN /\ Unlimited \notin Nat
  /\ Quotas \subseteq Nat \cup {Unlimited}
  /\ None \notin Images
  /\ MaxText \in Nat \ {0} /\ MaxEvents \in Nat

VARIABLES panel,    \* the panel that is open
          draft,    \* each row of the drafts table
          ref,      \* the reference image: what is shown, the uploaded id used
          uploads,  \* reference uploads whose answer has not come
          running,  \* the batch hook's React state
          stop,     \* its stopRef, shared by every loop
          loop,     \* each Start click's async function
          last,     \* the loop whose POST was sent last: submit.isPending
          seen,     \* the cached job list, a status or None per job
          fetch,    \* the list request in flight
          halting,  \* jobs a Stop click still has to cancel
          job,      \* the server's jobs
          quota,    \* what the server still grants today
          events,   \* clicks and faults so far
          told      \* history: what a loop had posted when Stop reached it

vars == <<panel, draft, ref, uploads, running, stop, loop, last, seen, fetch, halting,
          job, quota, events, told>>

Lives == {"new", "here", "sent", "dropped"}
Files == {"none", "uploading", "ok", "failed"}
Stages == {"none", "sent", "made", "ok", "error", "denied"}
Statuses == {"active", "success", "failed", "cancelled"}

Texts == 0..MaxText                       \* 0 is a blank prompt

TypeOK ==
  /\ panel \in Panels
  /\ draft \in [Drafts -> [life : Lives, on : BOOLEAN, text : Texts, file : Files]]
  /\ ref \in [shown : Images \cup {None}, id : Images \cup {None}]
  /\ uploads \subseteq Images
  /\ running \in BOOLEAN /\ stop \in BOOLEAN
  /\ loop \in [Loops -> [pc : {"idle", "quota", "chunk", "delay", "done"},
                         blocked : BOOLEAN, walled : BOOLEAN,
                         todo : SUBSET Drafts, chunk : SUBSET Drafts,
                         text : [Drafts -> Texts], ref : Images \cup {None},
                         post : [Drafts -> Stages]]]
  /\ last \in Loops \cup {None}
  /\ seen \in [JobIds -> Statuses \cup {None}]
  /\ fetch \in [busy : BOOLEAN, rows : [JobIds -> Statuses \cup {None}]]
  /\ halting \subseteq JobIds
  /\ job \in [JobIds -> [st : Statuses \cup {"unborn", "gone"}, by : Loops \cup {None},
                         draft : Drafts \cup {None}, text : Texts,
                         ref : Images \cup {None}]]
  /\ quota \in Nat \cup {Unlimited}
  /\ events \in 0..MaxEvents
  /\ told \in [Loops -> [stopped : BOOLEAN, posted : SUBSET Drafts]]

-----------------------------------------------------------------------------
\* The five panels.  A panel opens empty or with a preset list; some take one
\* reference image for all rows, one takes an image per row.  Their tables:
\* when Start is disabled besides a pending POST and no tick, whether Clear
\* also clears the ticks, whether there is a tick for all rows, and the shown
\* statuses that have a cancel and a retry button.
Buttons == [needsDraft |-> FALSE, needsRef |-> FALSE, clearsTicks |-> FALSE,
            tickAll |-> FALSE, cancel |-> {"running"}, retry |-> {"failed"}]

TextToVideoTable == [Buttons EXCEPT !.needsDraft = TRUE, !.tickAll = TRUE]
TextToVideoPanel ==
  [preset |-> FALSE, ref |-> FALSE, perItem |-> FALSE, table |-> TextToVideoTable]

ImageDirectTable == Buttons
ImageDirectPanel ==
  [preset |-> FALSE, ref |-> FALSE, perItem |-> FALSE, table |-> ImageDirectTable]

ImageToVideoTable == [Buttons EXCEPT !.clearsTicks = TRUE, !.tickAll = TRUE]
ImageToVideoPanel ==
  [preset |-> FALSE, ref |-> FALSE, perItem |-> TRUE, table |-> ImageToVideoTable]

CharacterSyncTable == [Buttons EXCEPT !.needsRef = TRUE]
CharacterSyncPanel ==
  [preset |-> TRUE, ref |-> TRUE, perItem |-> FALSE, table |-> CharacterSyncTable]

ImageSyncTable == [Buttons EXCEPT !.needsRef = TRUE]
ImageSyncPanel ==
  [preset |-> TRUE, ref |-> TRUE, perItem |-> FALSE, table |-> ImageSyncTable]

ASSUME PanelsAssumption ==
  Panels \subseteq {TextToVideoPanel, ImageDirectPanel, ImageToVideoPanel,
                    CharacterSyncPanel, ImageSyncPanel}

-----------------------------------------------------------------------------
\* The panel at mount: the sync panels open with preset scenes or poses, all
\* ticked, and the list is being fetched.
NewRow == [life |-> "new", on |-> FALSE, text |-> 0, file |-> "none"]
IdleLoop == [pc |-> "idle", blocked |-> FALSE, walled |-> FALSE,
             todo |-> {}, chunk |-> {}, text |-> [d \in Drafts |-> 0],
             ref |-> None, post |-> [d \in Drafts |-> "none"]]
Unborn == [st |-> "unborn", by |-> None, draft |-> None, text |-> 0, ref |-> None]
Untold == [stopped |-> FALSE, posted |-> {}]

NoRows == [j \in JobIds |-> None]
NoFetch == [busy |-> FALSE, rows |-> NoRows]

Init ==
  /\ panel \in Panels
  /\ draft = [d \in Drafts |-> IF panel.preset /\ d \in Preset
                               THEN [NewRow EXCEPT !.life = "here", !.on = TRUE, !.text = 1]
                               ELSE NewRow]
  /\ ref = [shown |-> None, id |-> None]
  /\ uploads = {} /\ halting = {}
  /\ running = FALSE /\ stop = FALSE
  /\ loop = [l \in Loops |-> IdleLoop]
  /\ last = None
  /\ seen = NoRows
  /\ fetch = [NoFetch EXCEPT !.busy = TRUE]
  /\ job = [j \in JobIds |-> Unborn]
  /\ quota \in Quotas
  /\ events = 0
  /\ told = [l \in Loops |-> Untold]

\* A user's click or a fault of the network: at most MaxEvents of both.
Event == events < MaxEvents /\ events' = events + 1

-----------------------------------------------------------------------------
\* The drafts table.  Rows are named by draftSeq, which only grows: a row
\* never comes back.
Rows(life) == {d \in Drafts : draft[d].life = life}
Ticked == {d \in Rows("here") : draft[d].on}
\* the size of selectedDrafts, where Clear leaves the ticks of removed rows
TickCount == Cardinality({d \in Drafts : draft[d].on})

tableOnly == <<panel, ref, uploads, running, stop, loop, last, seen, fetch, halting,
               job, quota, told>>
freely == UNCHANGED tableOnly /\ UNCHANGED events

\* "Thêm": the next row, blank and ticked.
addDraft ==
  /\ ~panel.perItem
  /\ \E d \in Rows("new") :
       /\ \A e \in Rows("new") : d <= e
       /\ draft' = [draft EXCEPT ![d] = [@ EXCEPT !.life = "here", !.on = TRUE]]
  /\ freely

\* A file of prompts, or in the image panel a drop of files: a row for each,
\* ticked; a dropped file starts to upload.
importDrafts ==
  /\ Rows("new") # {}
  /\ draft' = [d \in Drafts |->
                 IF d \notin Rows("new") THEN draft[d]
                 ELSE [life |-> "here", on |-> TRUE,
                       text |-> IF panel.perItem THEN 0 ELSE 1,
                       file |-> IF panel.perItem THEN "uploading" ELSE "none"]]
  /\ freely

\* addFiles uploads the dropped files one after the other, in row order; an
\* answer for a row that was removed meanwhile changes nothing.
fileUploaded(d) ==
  /\ panel.perItem /\ draft[d].file = "uploading"
  /\ \A e \in Drafts : draft[e].file = "uploading" => d <= e
  /\ \/ draft' = [draft EXCEPT ![d].file = "ok"] /\ UNCHANGED events
     \/ Event /\ draft' = [draft EXCEPT ![d].file = "failed"]
  /\ UNCHANGED <<panel, ref, uploads, running, stop, loop, last, seen, fetch, halting,
                 job, quota, told>>

\* Typing in a row: another text each time.
updateDraft(d) ==
  /\ Event /\ draft[d].life = "here" /\ draft[d].text < MaxText
  /\ draft' = [draft EXCEPT ![d].text = @ + 1]
  /\ UNCHANGED tableOnly

toggleDraft(d) ==
  /\ Event /\ draft[d].life = "here"
  /\ draft' = [draft EXCEPT ![d].on = ~@]
  /\ UNCHANGED tableOnly

\* "Chọn tất cả": all rows, unless as many are ticked as there are rows.
toggleAll ==
  /\ Event /\ panel.table.tickAll
  /\ draft' = [d \in Drafts |->
                 [draft[d] EXCEPT !.on = /\ TickCount # Cardinality(Rows("here"))
                                         /\ d \in Rows("here")]]
  /\ UNCHANGED tableOnly

removeDraft(d) ==
  /\ Event /\ draft[d].life = "here"
  /\ draft' = [draft EXCEPT ![d] = [NewRow EXCEPT !.life = "dropped"]]
  /\ UNCHANGED tableOnly

\* "Clear": every row goes; only the image panel clears the ticks too.
clearDrafts ==
  /\ Event /\ Rows("here") # {}
  /\ draft' = [d \in Drafts |->
                 IF d \notin Rows("here") THEN draft[d]
                 ELSE [NewRow EXCEPT !.life = "dropped",
                         !.on = draft[d].on /\ ~panel.table.clearsTicks]]
  /\ UNCHANGED tableOnly

-----------------------------------------------------------------------------
\* The reference image of the sync panels.  A file can be chosen only while
\* none is shown; the answer of an upload sets the id whatever is shown then.
onRefDrop(i) ==
  /\ panel.ref /\ ref.shown = None /\ i \notin uploads
  /\ ref' = [shown |-> i, id |-> None]
  /\ uploads' = uploads \cup {i}
  /\ UNCHANGED <<panel, draft, running, stop, loop, last, seen, fetch, halting, job,
                 quota, events, told>>

refUploaded(i) ==
  /\ i \in uploads
  /\ uploads' = uploads \ {i}
  /\ \/ ref' = [ref EXCEPT !.id = i] /\ UNCHANGED events
     \/ Event /\ UNCHANGED ref
  /\ UNCHANGED <<panel, draft, running, stop, loop, last, seen, fetch, halting, job,
                 quota, told>>

clearRef ==
  /\ Event /\ ref.shown # None
  /\ ref' = [shown |-> None, id |-> None]
  /\ UNCHANGED <<panel, draft, uploads, running, stop, loop, last, seen, fetch, halting,
                 job, quota, told>>

-----------------------------------------------------------------------------
\* Starting a batch.
Least(S, n) == {d \in S : Cardinality({e \in S : e < d}) < n}

\* submit.isPending: the mutation observer follows the POST sent last.
submitting ==
  /\ last # None
  /\ \E d \in loop[last].chunk :
       /\ \A e \in loop[last].chunk : e <= d
       /\ loop[last].post[d] \in {"sent", "made"}

StartEnabled ==
  /\ ~submitting /\ TickCount > 0
  /\ panel.table.needsRef => ref.id # None
  /\ panel.table.needsDraft => Rows("here") # {}

\* The rows the click takes: ticked, not blank, their file uploaded.
rawQueue == {d \in Ticked : /\ draft[d].text # 0
                            /\ panel.perItem => draft[d].file = "ok"}

\* The click captures the rows, the reference id and the hook's `running` as
\* the last render showed them, then waits for the quota.
startBatch(l) ==
  /\ Event /\ StartEnabled /\ rawQueue # {}
  /\ loop[l].pc = "idle" /\ \A k \in Loops : loop[k].pc = "idle" => l <= k
  /\ loop' = [loop EXCEPT ![l] =
                [@ EXCEPT !.pc = "quota", !.blocked = running, !.todo = rawQueue,
                          !.text = [d \in Drafts |-> draft[d].text],
                          !.ref = ref.id]]
  /\ UNCHANGED <<panel, draft, ref, uploads, running, stop, last, seen, fetch, halting,
                 job, quota, told>>

Over == [IdleLoop EXCEPT !.pc = "done"]

\* Mutant: the next slice starts where this one did.
ChunkOverlap(r) ==
  LET c == IF Batching THEN Least(r.todo, IF Size = 0 THEN 1 ELSE Size) ELSE r.todo
  IN [r EXCEPT !.pc = "chunk", !.chunk = c,
               !.todo = IF r.todo = c THEN {} ELSE @,
               !.post = [d \in Drafts |-> IF d \in c THEN "sent" ELSE r.post[d]]]

\* A chunk is posted in one go: every item's request leaves before any answer.
Chunk(r) ==
  LET c == IF Batching THEN Least(r.todo, IF Size = 0 THEN 1 ELSE Size) ELSE r.todo
  IN [r EXCEPT !.pc = "chunk", !.chunk = c, !.todo = @ \ c,
               !.post = [d \in Drafts |-> IF d \in c THEN "sent" ELSE r.post[d]]]

\* checkQuotaBeforeBatch: an unreachable quota, an unlimited or a sufficient
\* one let the whole queue through; none left or a refused cut abort; else the
\* first rows up to what remains.
Allowed(S) ==
  IF quota = Unlimited \/ quota >= Cardinality(S) THEN {S}
  ELSE {{}} \cup IF quota = 0 THEN {} ELSE {Least(S, quota)}

\* A loop that the hook's guard lets in clears stopRef and posts its first
\* chunk; one whose click saw a batch running returns.
EnterRun(l, S) ==
  IF S = {} \/ loop[l].blocked
  THEN loop' = [loop EXCEPT ![l] = Over] /\ UNCHANGED <<running, stop, last, told>>
  ELSE /\ loop' = [loop EXCEPT ![l] = Chunk([loop[l] EXCEPT !.todo = S])]
       /\ running' = TRUE /\ stop' = FALSE /\ last' = l
       /\ told' = [k \in Loops |-> Untold]

quotaChecked(l) ==
  /\ loop[l].pc = "quota"
  /\ \/ \E S \in Allowed(loop[l].todo) : EnterRun(l, S) /\ UNCHANGED events
     \/ Event /\ EnterRun(l, loop[l].todo)
  /\ UNCHANGED <<panel, draft, ref, uploads, seen, fetch, halting, job, quota>>

-----------------------------------------------------------------------------
\* Mutant: a failed request never settles the chunk.
SettledByAnswers(l) == \A d \in loop[l].chunk : loop[l].post[d] \in {"ok", "denied"}

\* Mutant: the row is dropped whatever became of its request.
onItemErrorDrops(l, d) ==
  /\ loop' = [loop EXCEPT ![l].post[d] = "error"]
  /\ draft' = [draft EXCEPT ![d].life = IF @ = "here" THEN "sent" ELSE @, ![d].on = FALSE]

\* Mutant: stop is a value the click captured, not the shared ref.
StoppedAtClick == FALSE

\* The answers of a chunk.
Settled(l) == \A d \in loop[l].chunk : loop[l].post[d] \in {"ok", "error", "denied"}
Denied(l) == \A d \in loop[l].chunk : loop[l].post[d] = "denied"
Stopped == stop

\* Mutant: the reference that the panel has when the item is posted.
ReferenceNow(l) == ref.id

\* The reference the batch was started with.
Reference(l) == loop[l].ref

\* The outcome of one item: its draft leaves the table, or stays as it is.
onItemSuccess(l, d) ==
  /\ loop' = [loop EXCEPT ![l].post[d] = "ok"]
  /\ draft' = [draft EXCEPT ![d].life = IF @ = "here" THEN "sent" ELSE @, ![d].on = FALSE]
onItemError(l, d) ==
  /\ loop' = [loop EXCEPT ![l].post[d] = "error"]
  /\ UNCHANGED draft

\* The server takes a POST: a job, or a refusal when the day's quota is gone.
\* It may also fail it.
serverPost(l, d) ==
  /\ loop[l].pc = "chunk" /\ loop[l].post[d] = "sent"
  /\ \/ /\ quota # 0
        /\ \E j \in JobIds :
             /\ job[j].st = "unborn" /\ \A k \in JobIds : job[k].st = "unborn" => j <= k
             /\ job' = [job EXCEPT ![j] = [st |-> "active", by |-> l, draft |-> d,
                                           text |-> loop[l].text[d], ref |-> Reference(l)]]
        /\ quota' = IF quota = Unlimited THEN quota ELSE quota - 1
        /\ loop' = [loop EXCEPT ![l].post[d] = "made"]
        /\ UNCHANGED <<draft, events>>
     \/ /\ quota = 0
        /\ loop' = [loop EXCEPT ![l].post[d] = "denied",
                                ![l].walled = \A e \in loop[l].chunk \ {d} :
                                                loop[l].post[e] = "denied"]
        /\ UNCHANGED <<draft, job, quota, events>>
     \/ Event /\ onItemError(l, d) /\ UNCHANGED <<job, quota>>
  /\ UNCHANGED <<panel, ref, uploads, running, stop, last, seen, fetch, halting,
                 told>>

\* The created job's answer: the row joins the cached list, whatever fetch is
\* in flight, and the draft leaves the table.  A lost answer leaves both.
postAnswered(l, d) ==
  /\ loop[l].post[d] = "made"
  /\ \/ /\ \E j \in JobIds : /\ job[j].by = l /\ job[j].draft = d
                             /\ seen' = [seen EXCEPT ![j] = "active"]
        /\ onItemSuccess(l, d) /\ UNCHANGED events
     \/ Event /\ onItemError(l, d) /\ UNCHANGED seen
  /\ UNCHANGED <<panel, ref, uploads, running, stop, last, fetch, halting, job, quota,
                 told>>

\* The `finally` of the loop, which also clears stopRef.
Finish(l) ==
  /\ loop' = [loop EXCEPT ![l] = Over]
  /\ last' = IF last = l THEN None ELSE last
  /\ running' = FALSE /\ stop' = FALSE
  /\ told' = [k \in Loops |-> Untold]

\* All answers of the chunk are in: a chunk wholly refused for quota, or the
\* last one, ends the loop; else it pauses.
chunkSettled(l) ==
  /\ loop[l].pc = "chunk" /\ Settled(l)
  /\ IF Denied(l) \/ loop[l].todo = {} \/ Stopped
     THEN Finish(l)
     ELSE loop' = [loop EXCEPT ![l].pc = "delay"] /\ UNCHANGED <<running, stop, last, told>>
  /\ UNCHANGED <<panel, draft, ref, uploads, seen, fetch, halting, job, quota,
                 events>>

\* The pause is over, or was cut short by stopRef.
delayOver(l) ==
  /\ loop[l].pc = "delay"
  /\ IF Stopped THEN Finish(l)
     ELSE /\ loop' = [loop EXCEPT ![l] = Chunk(loop[l])]
          /\ last' = l
          /\ UNCHANGED <<running, stop, told>>
  /\ UNCHANGED <<panel, draft, ref, uploads, seen, fetch, halting, job, quota, events>>

-----------------------------------------------------------------------------
\* The job list.
Posted(l) == {d \in Drafts : loop[l].post[d] # "none"}
Alive == {j \in JobIds : job[j].st \in Statuses}

\* A list request takes the server's rows of the moment it is sent; its answer
\* comes later.
fetchList(jobs) ==
  fetch' = [busy |-> TRUE, rows |-> [j \in JobIds |-> IF jobs[j].st \in Statuses
                                                     THEN jobs[j].st ELSE None]]

\* Mutant: the poll runs only while every listed job is unfinished.
PollingAll == \A j \in JobIds : seen[j] \in {"active", None}

\* The poll runs only while the cached list holds a job that is not terminal;
\* coming back to the window fetches too.
Polling == \E j \in JobIds : seen[j] = "active"

fetchOnly == <<panel, draft, ref, uploads, running, stop, loop, last, halting, job, quota, told>>

pollJobs ==
  /\ ~fetch.busy /\ Polling /\ fetchList(job)
  /\ UNCHANGED <<seen, events>> /\ UNCHANGED fetchOnly

focusWindow ==
  /\ Event /\ ~fetch.busy /\ fetchList(job)
  /\ UNCHANGED seen /\ UNCHANGED fetchOnly

listAnswered ==
  /\ fetch.busy /\ fetch' = NoFetch
  /\ \/ seen' = fetch.rows /\ UNCHANGED events
     \/ Event /\ UNCHANGED seen
  /\ UNCHANGED fetchOnly

\* invalidateQueries drops the fetch in flight and starts another, here of the
\* jobs the mutation left.
invalidate == fetchList(job')

-----------------------------------------------------------------------------
\* The buttons of the job table and of the toolbar.
rowOnly == <<panel, draft, ref, uploads, running, stop, loop, last, quota, told>>

\* mapStatus: how the table shows a status.
mapStatus(s) == CASE s = "success" -> "success"
                  [] s \in {"failed", "cancelled"} -> "failed"
                  [] s = "active" -> "running"
                  [] OTHER -> "none"

\* POST cancel: the server refuses a job that has ended; the mutation
\* refreshes the list only when it succeeded.
Cancel(j) ==
  IF job[j].st = "active"
  THEN job' = [job EXCEPT ![j].st = "cancelled"] /\ invalidate
  ELSE UNCHANGED <<job, fetch>>

rowCancel(j) ==
  /\ Event /\ mapStatus(seen[j]) \in panel.table.cancel /\ Cancel(j)
  /\ UNCHANGED <<seen, halting>> /\ UNCHANGED rowOnly

\* A cancelled job is shown as failed, so it has the retry button too.
rowRetry(j) ==
  /\ Event /\ mapStatus(seen[j]) \in panel.table.retry
  /\ IF job[j].st \in {"failed", "cancelled"}
     THEN job' = [job EXCEPT ![j].st = "active"] /\ invalidate
     ELSE UNCHANGED <<job, fetch>>
  /\ UNCHANGED <<seen, halting>> /\ UNCHANGED rowOnly

\* DELETE, then the row is filtered out of the cached list; no refetch.
rowRemove(j) ==
  /\ Event /\ seen[j] # None
  /\ IF j \in Alive
     THEN job' = [job EXCEPT ![j].st = "gone"] /\ seen' = [seen EXCEPT ![j] = None]
     ELSE UNCHANGED <<job, seen>>
  /\ UNCHANGED <<fetch, halting>> /\ UNCHANGED rowOnly

\* "Dừng": stopRef is set, and the jobs the table shows as unfinished are
\* cancelled one by one.
stopAll ==
  /\ Event
  /\ stop' = TRUE
  /\ halting' = halting \cup {j \in JobIds : seen[j] = "active"}
  /\ told' = [l \in Loops |-> IF loop[l].pc \in {"chunk", "delay"}
                              THEN [stopped |-> TRUE, posted |-> Posted(l)]
                              ELSE told[l]]
  /\ UNCHANGED <<panel, draft, ref, uploads, running, loop, last, seen, fetch, job, quota>>

\* A failed cancel is swallowed and the next one is tried.
stopCancels(j) ==
  /\ j \in halting /\ halting' = halting \ {j}
  /\ \/ Cancel(j) /\ UNCHANGED events
     \/ Event /\ UNCHANGED <<job, fetch>>
  /\ UNCHANGED seen /\ UNCHANGED rowOnly

-----------------------------------------------------------------------------
\* The rest of the system: a worker ends a job, at any time, also before the
\* answer of the POST that made it; other submitters use quota.
workerEnds(j) ==
  /\ job[j].st = "active"
  /\ \/ job' = [job EXCEPT ![j].st = "success"] /\ UNCHANGED events
     \/ Event /\ job' = [job EXCEPT ![j].st = "failed"]
  /\ UNCHANGED <<seen, fetch, halting>> /\ UNCHANGED rowOnly

othersSubmit ==
  /\ Event
  /\ quota \notin {0, Unlimited} /\ quota' = quota - 1
  /\ UNCHANGED <<panel, draft, ref, uploads, running, stop, loop, last, seen, fetch,
                 halting, job, told>>

Batch(l) == \/ quotaChecked(l) \/ chunkSettled(l) \/ delayOver(l)
            \/ \E d \in Drafts : serverPost(l, d) \/ postAnswered(l, d)
Table == \/ addDraft \/ importDrafts \/ toggleAll \/ clearDrafts \/ clearRef
         \/ \E d \in Drafts : \/ fileUploaded(d) \/ updateDraft(d)
                              \/ toggleDraft(d) \/ removeDraft(d)
         \/ \E i \in Images : onRefDrop(i) \/ refUploaded(i)
List == pollJobs \/ focusWindow \/ listAnswered
RowButtons == \E j \in JobIds : \/ rowCancel(j) \/ rowRetry(j) \/ rowRemove(j)
                           \/ stopCancels(j) \/ workerEnds(j)

Next == \/ Table \/ List \/ RowButtons \/ stopAll \/ othersSubmit
        \/ \E l \in Loops : startBatch(l) \/ Batch(l)

Spec == Init /\ [][Next]_vars

\* Requests are answered or fail, timers fire, the open tab polls.  Users,
\* workers and focus owe nothing.
Fairness == /\ WF_vars(\E l \in Loops : Batch(l))
            /\ WF_vars(pollJobs \/ listAnswered)

FairSpec == Spec /\ Fairness

-----------------------------------------------------------------------------
(* Properties *)

\* A prompt is never lost: a row leaves the table because the user removed it
\* or because a job was made from it (onItemSuccess, not onItemError).
PromptKept ==
  \A d \in Drafts : draft[d].life = "sent" =>
    \E j \in JobIds : job[j].st # "unborn" /\ job[j].draft = d

\* One click never makes two jobs of one row: chunks do not overlap and POST
\* is never repeated, whatever answers are lost.
OneJobPerClick ==
  \A j, k \in JobIds :
    job[j].st # "unborn" /\ job[k].st # "unborn" /\ job[j].by = job[k].by
      /\ job[j].draft = job[k].draft => j = k

\* A loop that Stop found in its run posts no further chunk, until another
\* loop begins or ends and clears stopRef for both.
StopHolds ==
  \A l \in Loops : told[l].stopped => Posted(l) = told[l].posted

\* A loop that met the quota wall (every request of a chunk refused) sends no
\* further request.
WallEndsLoop ==
  \A l \in Loops : loop[l].walled =>
    \A d \in Drafts : loop[l].post[d] \notin {"sent", "made"}

\* A job of a panel with a reference image always carries one, also when the
\* image is taken off the panel while its batch is running.
JobHasReference ==
  panel.ref => \A j \in JobIds : job[j].st # "unborn" => job[j].ref # None

\* Every batch ends: no answer, pause or stop leaves a loop hanging.
BatchesOver == \A l \in Loops : loop[l].pc \in {"idle", "done"}
BatchEnds == ~BatchesOver ~> BatchesOver

\* The poll does not stop early: the table does not for ever show a job as
\* unfinished that has ended, also when it had ended before its POST was
\* answered with the row of its creation (hooks.ts:180-182).
Outdated == \E j \in JobIds : seen[j] = "active" /\ job[j].st # "active"
RowsFollow == Outdated ~> ~Outdated

\* The row of a job stays in the table while the job exists ("the job row now
\* represents it", TextToVideoPanel.tsx:122).  Not so in this code: the answer
\* of a list request sent before the job was made takes the row off again, and
\* the poll may have stopped.
RowStays ==
  [][\A j \in JobIds : seen[j] # None /\ seen'[j] = None => j \notin Alive']_vars
=============================================================================
