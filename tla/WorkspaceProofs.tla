--------------------------- MODULE WorkspaceProofs ---------------------------
(***************************************************************************)
(* Proofs about a job panel, for any rows, clicks on Start, jobs, batch    *)
(* sizes and quotas, and any number of clicks and network faults.          *)
(***************************************************************************)
EXTENDS Workspace, TLAPS

-----------------------------------------------------------------------------
DraftRec == [life : Lives, on : BOOLEAN, text : Texts, file : Files]
LoopRec == [pc : {"idle", "quota", "chunk", "delay", "done"},
            blocked : BOOLEAN, walled : BOOLEAN,
            todo : SUBSET Drafts, chunk : SUBSET Drafts,
            text : [Drafts -> Texts], ref : Images \cup {None},
            post : [Drafts -> Stages]]
JobRec == [st : Statuses \cup {"unborn", "gone"}, by : Loops \cup {None},
           draft : Drafts \cup {None}, text : Texts, ref : Images \cup {None}]

Asked == {"quota", "chunk", "delay"}
Landed == {"made", "ok", "error"}

\* A loop's rows are posted once: what is still to do has not been, and only
\* the chunk under way has requests without an answer.
Fit(r) ==
  /\ r.pc \in {"idle", "quota"} => \A d \in Drafts : r.post[d] = "none"
  /\ \A d \in r.todo : r.post[d] = "none"
  /\ \A d \in Drafts : r.post[d] \in {"sent", "made"} => r.pc = "chunk" /\ d \in r.chunk
  /\ r.walled => r.pc = "chunk" /\ \A d \in r.chunk : r.post[d] = "denied"
  /\ panel.ref /\ r.pc \in Asked => r.ref # None

LoopsFit == \A l \in Loops : Fit(loop[l])

Born(j) == job[j].st # "unborn"

\* A job comes from a row that its loop has posted.
JobsFit ==
  \A j \in JobIds : Born(j) =>
    /\ job[j].by \in Loops /\ job[j].draft \in Drafts
    /\ \/ loop[job[j].by].pc = "done"
       \/ loop[job[j].by].post[job[j].draft] \in Landed
    /\ panel.ref => job[j].ref # None

MadeHasJob ==
  \A l \in Loops, d \in Drafts : loop[l].post[d] = "made" =>
    \E j \in JobIds : Born(j) /\ job[j].draft = d

\* While a loop is marked as stopped, stopRef is set and it is in its run.
StopSeen ==
  \A l \in Loops : told[l].stopped =>
    /\ stop /\ loop[l].pc \in {"chunk", "delay"} /\ Posted(l) = told[l].posted

PanelInv == /\ TypeOK /\ LoopsFit /\ JobsFit /\ MadeHasJob /\ StopSeen
            /\ OneJobPerClick /\ PromptKept

-----------------------------------------------------------------------------
LEMMA Types ==
  ASSUME TypeOK
  PROVE  /\ draft \in [Drafts -> DraftRec] /\ loop \in [Loops -> LoopRec]
         /\ job \in [JobIds -> JobRec]
         /\ told \in [Loops -> [stopped : BOOLEAN, posted : SUBSET Drafts]]
BY DEF TypeOK, DraftRec, LoopRec, JobRec

LEMMA EventType ==
  ASSUME TypeOK, Event
  PROVE  events' \in 0..MaxEvents
BY WorkspaceAssumption DEF TypeOK, Event

LEMMA Blank ==
  /\ NewRow \in DraftRec /\ IdleLoop \in LoopRec /\ Over \in LoopRec
  /\ Unborn \in JobRec /\ Untold \in [stopped : BOOLEAN, posted : SUBSET Drafts]
  /\ Fit(IdleLoop) /\ Fit(Over)
  /\ 0 \in Texts /\ 1 \in Texts
<1>1. 0 \in Texts /\ 1 \in Texts
  BY WorkspaceAssumption DEF Texts
<1>2. NewRow \in DraftRec
  BY <1>1 DEF NewRow, DraftRec, Lives, Files
<1>3. IdleLoop \in LoopRec
  BY <1>1 DEF IdleLoop, LoopRec, Stages
<1>4. Over = [pc |-> "done", blocked |-> FALSE, walled |-> FALSE,
              todo |-> {}, chunk |-> {}, text |-> [d \in Drafts |-> 0],
              ref |-> None, post |-> [d \in Drafts |-> "none"]]
  <2>1. ASSUME NEW r \in LoopRec
        PROVE  [r EXCEPT !.pc = "done"]
               = [pc |-> "done", blocked |-> r.blocked, walled |-> r.walled,
                  todo |-> r.todo, chunk |-> r.chunk, text |-> r.text,
                  ref |-> r.ref, post |-> r.post]
    BY DEF LoopRec
  <2>2. Over = [pc |-> "done", blocked |-> IdleLoop.blocked, walled |-> IdleLoop.walled,
                todo |-> IdleLoop.todo, chunk |-> IdleLoop.chunk, text |-> IdleLoop.text,
                ref |-> IdleLoop.ref, post |-> IdleLoop.post]
    BY <2>1, <1>3 DEF Over
  <2> QED
    BY <2>2 DEF IdleLoop
<1>5. Over \in LoopRec
  BY <1>1, <1>4 DEF LoopRec, Stages
<1>6. Fit(IdleLoop) /\ Fit(Over)
  BY <1>4 DEF IdleLoop, Fit, Asked
<1>7. Unborn \in JobRec
  BY <1>1 DEF Unborn, JobRec
<1>8. Untold \in [stopped : BOOLEAN, posted : SUBSET Drafts]
  BY DEF Untold
<1> QED
  BY <1>1, <1>2, <1>3, <1>5, <1>6, <1>7, <1>8

LEMMA RowChange ==
  ASSUME NEW r \in DraftRec
  PROVE  /\ \A x \in Lives, b \in BOOLEAN :
              /\ [r EXCEPT !.life = x, !.on = b] \in DraftRec
              /\ [r EXCEPT !.life = x, !.on = b].life = x
         /\ \A x \in Lives, b \in BOOLEAN, t \in Texts :
              /\ [r EXCEPT !.life = x, !.on = b, !.text = t] \in DraftRec
              /\ [r EXCEPT !.life = x, !.on = b, !.text = t].life = x
         /\ \A b \in BOOLEAN : /\ [r EXCEPT !.on = b] \in DraftRec
                               /\ [r EXCEPT !.on = b].life = r.life
         /\ \A t \in Texts : /\ [r EXCEPT !.text = t] \in DraftRec
                             /\ [r EXCEPT !.text = t].life = r.life
         /\ \A f \in Files : /\ [r EXCEPT !.file = f] \in DraftRec
                             /\ [r EXCEPT !.file = f].life = r.life
         /\ \A x \in Lives : /\ [r EXCEPT !.life = x] \in DraftRec
                             /\ [r EXCEPT !.life = x].life = x
BY DEF DraftRec

LEMMA PanelInit == Init => PanelInv
<1> SUFFICES ASSUME Init PROVE PanelInv
  OBVIOUS
<1>1. draft \in [Drafts -> DraftRec] /\ \A d \in Drafts : draft[d].life # "sent"
  <2>1. /\ [NewRow EXCEPT !.life = "here", !.on = TRUE, !.text = 1] \in DraftRec
        /\ [NewRow EXCEPT !.life = "here", !.on = TRUE, !.text = 1].life = "here"
    <3>1. NewRow \in DraftRec /\ "here" \in Lives /\ 1 \in Texts /\ TRUE \in BOOLEAN
      BY Blank DEF Lives
    <3>2. \A x \in Lives, b \in BOOLEAN, t \in Texts :
            /\ [NewRow EXCEPT !.life = x, !.on = b, !.text = t] \in DraftRec
            /\ [NewRow EXCEPT !.life = x, !.on = b, !.text = t].life = x
      BY <3>1, RowChange
    <3> QED
      BY <3>1, <3>2, Zenon
  <2>2. NewRow.life = "new"
    BY DEF NewRow
  <2> DEFINE p == [NewRow EXCEPT !.life = "here", !.on = TRUE, !.text = 1]
  <2>3. draft = [d \in Drafts |-> IF panel.preset /\ d \in Preset THEN p ELSE NewRow]
    BY DEF Init
  <2> HIDE DEF p
  <2> QED
    BY <2>1, <2>2, <2>3, Blank DEF p
<1>2. loop \in [Loops -> LoopRec] /\ LoopsFit
  BY Blank DEF Init, LoopsFit
<1>3. job \in [JobIds -> JobRec] /\ \A j \in JobIds : ~Born(j)
  BY Blank DEF Init, Born, Unborn
<1>4. /\ told \in [Loops -> [stopped : BOOLEAN, posted : SUBSET Drafts]]
      /\ \A l \in Loops : ~told[l].stopped
  BY Blank DEF Init, Untold
<1>5. /\ fetch \in [busy : BOOLEAN, rows : [JobIds -> Statuses \cup {None}]]
      /\ seen \in [JobIds -> Statuses \cup {None}]
  BY DEF Init, NoFetch, NoRows
<1>6. /\ panel \in Panels /\ ref \in [shown : Images \cup {None}, id : Images \cup {None}]
      /\ uploads \subseteq Images /\ running \in BOOLEAN /\ stop \in BOOLEAN
      /\ last \in Loops \cup {None} /\ halting \subseteq JobIds
      /\ quota \in Nat \cup {Unlimited} /\ events \in 0..MaxEvents
  <2>1. /\ panel \in Panels /\ ref = [shown |-> None, id |-> None]
        /\ uploads = {} /\ running = FALSE /\ stop = FALSE
        /\ last = None /\ halting = {} /\ quota \in Quotas /\ events = 0
    BY DEF Init
  <2>2. Quotas \subseteq Nat \cup {Unlimited} /\ MaxEvents \in Nat
    BY WorkspaceAssumption
  <2>3. ref \in [shown : Images \cup {None}, id : Images \cup {None}]
    BY <2>1
  <2>4. 0 \in 0..MaxEvents
    BY <2>2
  <2> QED
    BY <2>1, <2>2, <2>3, <2>4
<1>7. TypeOK
  BY <1>1, <1>2, <1>3, <1>4, <1>5, <1>6 DEF TypeOK, DraftRec, LoopRec, JobRec
<1>8. \A l \in Loops, d \in Drafts : loop[l].post[d] = "none"
  BY DEF Init, IdleLoop
<1> QED
  BY <1>1, <1>2, <1>3, <1>4, <1>7, <1>8
     DEF PanelInv, JobsFit, MadeHasJob, StopSeen, OneJobPerClick, PromptKept, Born

-----------------------------------------------------------------------------
(* Steps that leave the loops alone.                                       *)

\* No job changes hands or is unmade, no other row leaves the table.
JobsKept ==
  \A j \in JobIds : /\ job'[j].by = job[j].by /\ job'[j].draft = job[j].draft
                    /\ job'[j].ref = job[j].ref
                    /\ (job'[j].st = "unborn") <=> (job[j].st = "unborn")
RowsKept == \A d \in Drafts : draft'[d].life = "sent" => draft[d].life = "sent"

LEMMA QuietStep ==
  ASSUME PanelInv, TypeOK', UNCHANGED <<panel, loop, told, stop>>, JobsKept, RowsKept
  PROVE  PanelInv'
<1>1. LoopsFit' /\ StopSeen'
  BY DEF PanelInv, LoopsFit, Fit, StopSeen, Posted
<1>2. JobsFit'
  BY DEF PanelInv, JobsFit, Born, JobsKept
<1>3. MadeHasJob'
  BY DEF PanelInv, MadeHasJob, Born, JobsKept
<1>4. OneJobPerClick'
  BY DEF PanelInv, OneJobPerClick, Born, JobsKept
<1>5. PromptKept'
  BY DEF PanelInv, PromptKept, Born, JobsKept, RowsKept
<1> QED
  BY <1>1, <1>2, <1>3, <1>4, <1>5 DEF PanelInv

LEMMA SameJobs ==
  ASSUME UNCHANGED job
  PROVE  JobsKept
BY DEF JobsKept

\* The table: one row becomes another.
LEMMA RowStep ==
  ASSUME PanelInv, NEW d \in Drafts, NEW r \in DraftRec, r.life # "sent" \/ r.life = draft[d].life,
         draft' = [draft EXCEPT ![d] = r],
         UNCHANGED tableOnly, events' \in 0..MaxEvents
  PROVE  PanelInv'
<1>0. TypeOK /\ draft \in [Drafts -> DraftRec]
  BY Types DEF PanelInv
<1>1. draft' \in [Drafts -> DraftRec] /\ RowsKept
  BY <1>0 DEF RowsKept
<1>2. TypeOK'
  BY <1>0, <1>1 DEF TypeOK, tableOnly, DraftRec
<1> QED
  BY <1>1, <1>2, QuietStep, SameJobs DEF tableOnly

LEMMA RowsStep ==
  ASSUME PanelInv, draft' \in [Drafts -> DraftRec], RowsKept,
         UNCHANGED tableOnly, events' \in 0..MaxEvents
  PROVE  PanelInv'
<1>2. TypeOK'
  BY DEF PanelInv, TypeOK, tableOnly, DraftRec
<1> QED
  BY <1>2, QuietStep, SameJobs DEF tableOnly

LEMMA TableStep ==
  ASSUME PanelInv, Table
  PROVE  PanelInv'
<1>0. TypeOK /\ draft \in [Drafts -> DraftRec] /\ events \in 0..MaxEvents
  BY Types DEF PanelInv, TypeOK
<1>1. CASE addDraft
  <2>1. PICK d \in Drafts : draft' = [draft EXCEPT ![d] = [@ EXCEPT !.life = "here", !.on = TRUE]]
    BY <1>1 DEF addDraft, Rows
  <2>2. /\ [draft[d] EXCEPT !.life = "here", !.on = TRUE] \in DraftRec
        /\ [draft[d] EXCEPT !.life = "here", !.on = TRUE].life = "here"
    <3>1. \A x \in Lives, b \in BOOLEAN : /\ [draft[d] EXCEPT !.life = x, !.on = b] \in DraftRec
                                          /\ [draft[d] EXCEPT !.life = x, !.on = b].life = x
      BY <1>0, RowChange
    <3>2. "here" \in Lives /\ TRUE \in BOOLEAN
      BY DEF Lives
    <3> QED
      BY <3>1, <3>2, Zenon
  <2> QED
    BY <1>0, <1>1, <2>1, <2>2, RowStep DEF addDraft, freely
<1>2. CASE importDrafts
  <2>1. /\ draft' \in [Drafts -> DraftRec] /\ RowsKept
    <3> DEFINE r == [life |-> "here", on |-> TRUE, text |-> IF panel.perItem THEN 0 ELSE 1,
                     file |-> IF panel.perItem THEN "uploading" ELSE "none"]
    <3>1. r \in DraftRec /\ r.life = "here"
      BY Blank DEF DraftRec, Lives, Files
    <3>2. draft' = [d \in Drafts |-> IF d \notin Rows("new") THEN draft[d] ELSE r]
      BY <1>2 DEF importDrafts
    <3> HIDE DEF r
    <3> QED
      BY <1>0, <3>1, <3>2 DEF RowsKept
  <2> QED
    BY <1>0, <1>2, <2>1, RowsStep DEF importDrafts, freely
<1>3. ASSUME NEW d \in Drafts, fileUploaded(d) PROVE PanelInv'
  <2>1. PICK f \in {"ok", "failed"} : draft' = [draft EXCEPT ![d].file = f]
    BY <1>3 DEF fileUploaded
  <2>2. /\ [draft[d] EXCEPT !.file = f] \in DraftRec
        /\ [draft[d] EXCEPT !.file = f].life = draft[d].life
    BY <1>0, RowChange DEF Files
  <2>3. UNCHANGED tableOnly /\ events' \in 0..MaxEvents
    BY <1>0, <1>3, EventType DEF fileUploaded, tableOnly
  <2> QED
    BY <2>1, <2>2, <2>3, RowStep
<1>4. ASSUME NEW d \in Drafts, updateDraft(d) PROVE PanelInv'
  <2>1. draft[d].text \in Texts /\ draft[d].text + 1 \in Texts
    BY <1>0, <1>4, WorkspaceAssumption DEF updateDraft, Texts, DraftRec
  <2>2. /\ [draft[d] EXCEPT !.text = draft[d].text + 1] \in DraftRec
        /\ [draft[d] EXCEPT !.text = draft[d].text + 1].life = draft[d].life
    BY <1>0, <2>1, RowChange
  <2>3. draft' = [draft EXCEPT ![d] = [draft[d] EXCEPT !.text = draft[d].text + 1]]
    BY <1>4 DEF updateDraft
  <2> QED
    BY <1>0, <1>4, <2>2, <2>3, RowStep, EventType DEF updateDraft
<1>5. ASSUME NEW d \in Drafts, toggleDraft(d) PROVE PanelInv'
  <2>1. /\ [draft[d] EXCEPT !.on = ~draft[d].on] \in DraftRec
        /\ [draft[d] EXCEPT !.on = ~draft[d].on].life = draft[d].life
    BY <1>0, RowChange
  <2>2. draft' = [draft EXCEPT ![d] = [draft[d] EXCEPT !.on = ~draft[d].on]]
    BY <1>5 DEF toggleDraft
  <2> QED
    BY <1>0, <1>5, <2>1, <2>2, RowStep, EventType DEF toggleDraft
<1>6. CASE toggleAll
  <2>1. \A d \in Drafts, b \in BOOLEAN : /\ [draft[d] EXCEPT !.on = b] \in DraftRec
                                        /\ [draft[d] EXCEPT !.on = b].life = draft[d].life
    BY <1>0, RowChange
  <2> DEFINE on(d) == TickCount # Cardinality(Rows("here")) /\ d \in Rows("here")
  <2>2. draft' = [d \in Drafts |-> [draft[d] EXCEPT !.on = on(d)]]
    BY <1>6 DEF toggleAll
  <2>3. \A d \in Drafts : on(d) \in BOOLEAN
    OBVIOUS
  <2> HIDE DEF on
  <2>4. draft' \in [Drafts -> DraftRec] /\ RowsKept
    BY <2>1, <2>2, <2>3 DEF RowsKept
  <2> QED
    BY <1>0, <1>6, <2>4, RowsStep, EventType DEF toggleAll
<1>7. ASSUME NEW d \in Drafts, removeDraft(d) PROVE PanelInv'
  <2>1. /\ [NewRow EXCEPT !.life = "dropped"] \in DraftRec
        /\ [NewRow EXCEPT !.life = "dropped"].life = "dropped"
    BY Blank, RowChange DEF Lives
  <2> QED
    BY <1>0, <1>7, <2>1, RowStep, EventType DEF removeDraft
<1>8. CASE clearDrafts
  <2> DEFINE on(d) == draft[d].on /\ ~panel.table.clearsTicks
             r(d) == [NewRow EXCEPT !.life = "dropped", !.on = on(d)]
  <2>1. \A d \in Drafts : r(d) \in DraftRec /\ r(d).life = "dropped"
    <3>1. \A x \in Lives, b \in BOOLEAN : /\ [NewRow EXCEPT !.life = x, !.on = b] \in DraftRec
                                          /\ [NewRow EXCEPT !.life = x, !.on = b].life = x
      BY Blank, RowChange
    <3>2. "dropped" \in Lives /\ \A d \in Drafts : on(d) \in BOOLEAN
      BY DEF Lives
    <3> HIDE DEF on
    <3> QED
      BY <3>1, <3>2
  <2>2. draft' = [d \in Drafts |-> IF d \notin Rows("here") THEN draft[d] ELSE r(d)]
    BY <1>8 DEF clearDrafts
  <2> HIDE DEF r
  <2>3. draft' \in [Drafts -> DraftRec] /\ RowsKept
    BY <1>0, <2>1, <2>2 DEF RowsKept
  <2> QED
    BY <1>0, <1>8, <2>3, RowsStep, EventType DEF clearDrafts
<1>9. CASE clearRef \/ \E i \in Images : onRefDrop(i) \/ refUploaded(i)
  <2>1. /\ UNCHANGED <<panel, draft, running, stop, loop, last, seen, fetch, halting, job,
                       quota, told>>
        /\ events' \in 0..MaxEvents
    BY <1>0, <1>9, EventType DEF clearRef, onRefDrop, refUploaded
  <2>2. ref' \in [shown : Images \cup {None}, id : Images \cup {None}] /\ uploads' \subseteq Images
    BY <1>0, <1>9 DEF clearRef, onRefDrop, refUploaded, TypeOK
  <2>3. TypeOK'
    BY <1>0, <2>1, <2>2 DEF TypeOK
  <2> QED
    BY <2>1, <2>3, QuietStep DEF JobsKept, RowsKept
<1> QED
  BY <1>1, <1>2, <1>3, <1>4, <1>5, <1>6, <1>7, <1>8, <1>9 DEF Table

-----------------------------------------------------------------------------
Listing == [busy : BOOLEAN, rows : [JobIds -> Statuses \cup {None}]]

LEMMA FetchListType ==
  ASSUME NEW jobs, fetchList(jobs)
  PROVE  fetch' \in Listing
<1> DEFINE r == [j \in JobIds |-> IF jobs[j].st \in Statuses THEN jobs[j].st ELSE None]
<1>1. r \in [JobIds -> Statuses \cup {None}]
  OBVIOUS
<1>2. fetch' = [busy |-> TRUE, rows |-> r]
  BY DEF fetchList
<1> HIDE DEF r
<1> QED
  BY <1>1, <1>2 DEF Listing

LEMMA ListStep ==
  ASSUME PanelInv, List
  PROVE  PanelInv'
<1>0. TypeOK /\ events \in 0..MaxEvents /\ fetch \in Listing
  BY DEF PanelInv, TypeOK, Listing
<1>1. /\ UNCHANGED <<panel, draft, ref, uploads, running, stop, loop, last, halting, job,
                     quota, told>>
      /\ events' \in 0..MaxEvents
  BY <1>0, EventType DEF List, pollJobs, focusWindow, listAnswered, fetchOnly
<1>2. fetch' \in Listing /\ seen' \in [JobIds -> Statuses \cup {None}]
  <2>1. NoFetch \in Listing
    BY DEF NoFetch, NoRows, Listing
  <2>2. fetch.rows \in [JobIds -> Statuses \cup {None}]
    BY <1>0 DEF Listing
  <2> QED
    BY <1>0, <2>1, <2>2, FetchListType DEF List, pollJobs, focusWindow, listAnswered, TypeOK
<1>3. TypeOK'
  BY <1>0, <1>1, <1>2 DEF TypeOK, Listing
<1> QED
  BY <1>1, <1>3, QuietStep DEF JobsKept, RowsKept

\* A button or a worker: one job gets another status.
LEMMA JobStep ==
  ASSUME PanelInv, NEW j \in JobIds, NEW s \in Statuses \cup {"gone"}, job[j].st # "unborn",
         job' = job \/ job' = [job EXCEPT ![j].st = s],
         fetch' \in Listing, seen' \in [JobIds -> Statuses \cup {None}],
         halting' \subseteq JobIds, events' \in 0..MaxEvents,
         UNCHANGED rowOnly
  PROVE  PanelInv'
<1>0. TypeOK /\ job \in [JobIds -> JobRec]
  BY Types DEF PanelInv
<1>1. ASSUME NEW r \in JobRec
      PROVE  /\ [r EXCEPT !.st = s] \in JobRec /\ [r EXCEPT !.st = s].st = s
             /\ [r EXCEPT !.st = s].by = r.by /\ [r EXCEPT !.st = s].draft = r.draft
             /\ [r EXCEPT !.st = s].ref = r.ref
  BY DEF JobRec
<1>2. job' \in [JobIds -> JobRec] /\ JobsKept
  <2>1. CASE job' = job
    BY <2>1, <1>0 DEF JobsKept
  <2>2. CASE job' = [job EXCEPT ![j].st = s]
    <3>1. job' = [job EXCEPT ![j] = [job[j] EXCEPT !.st = s]]
      BY <2>2
    <3>2. s # "unborn"
      BY DEF Statuses
    <3>3. job[j] \in JobRec
      BY <1>0
    <3> DEFINE r == [job[j] EXCEPT !.st = s]
    <3>4. /\ r \in JobRec /\ r.st = s /\ r.by = job[j].by /\ r.draft = job[j].draft
          /\ r.ref = job[j].ref
      BY <1>1, <3>3
    <3>5. job' = [job EXCEPT ![j] = r]
      BY <3>1
    <3> HIDE DEF r
    <3> QED
      BY <1>0, <3>2, <3>4, <3>5 DEF JobsKept
  <2> QED
    BY <2>1, <2>2
<1>3. TypeOK'
  BY <1>0, <1>2 DEF TypeOK, JobRec, Listing, rowOnly
<1> QED
  BY <1>2, <1>3, QuietStep DEF RowsKept, rowOnly

LEMMA RowButtonsStep ==
  ASSUME PanelInv, RowButtons
  PROVE  PanelInv'
<1>0. /\ TypeOK /\ events \in 0..MaxEvents /\ fetch \in Listing /\ halting \subseteq JobIds
      /\ seen \in [JobIds -> Statuses \cup {None}] /\ job \in [JobIds -> JobRec]
  BY Types DEF PanelInv, TypeOK, Listing
<1>1. \A s \in Statuses : s # "unborn" /\ s # "gone"
  BY DEF Statuses
<1>2. PICK j \in JobIds : \/ rowCancel(j) \/ rowRetry(j) \/ rowRemove(j)
                         \/ stopCancels(j) \/ workerEnds(j)
  BY DEF RowButtons
<1> DEFINE Jobs(s) == job' = job \/ (job' = [job EXCEPT ![j].st = s] /\ job[j].st # "unborn")
<1>3. ASSUME NEW s \in Statuses \cup {"gone"}, Jobs(s), UNCHANGED rowOnly,
             fetch' \in Listing, seen' \in [JobIds -> Statuses \cup {None}],
             halting' \subseteq JobIds, events' \in 0..MaxEvents
      PROVE  PanelInv'
  <2>1. CASE job[j].st # "unborn"
    BY <1>3, <2>1, JobStep
  <2>2. CASE job' = job
    <3>1. TypeOK'
      BY <1>0, <1>3, <2>2 DEF TypeOK, JobRec, Listing, rowOnly
    <3> QED
      BY <1>3, <2>2, <3>1, QuietStep, SameJobs DEF RowsKept, rowOnly
  <2> QED
    BY <1>3, <2>1, <2>2
<1>4. ASSUME Cancel(j) PROVE Jobs("cancelled") /\ fetch' \in Listing
  BY <1>0, <1>4, FetchListType DEF Cancel, invalidate
<1>5. CASE rowCancel(j)
  <2>1. Cancel(j) /\ UNCHANGED <<seen, halting>> /\ UNCHANGED rowOnly /\ Event
    BY <1>5 DEF rowCancel
  <2> HIDE DEF Jobs
  <2> QED
    BY <1>0, <1>3, <1>4, <2>1, EventType DEF Statuses
<1>6. CASE rowRetry(j)
  <2>1. UNCHANGED <<seen, halting>> /\ UNCHANGED rowOnly /\ Event
    BY <1>6 DEF rowRetry
  <2>2. Jobs("active") /\ fetch' \in Listing
    BY <1>0, <1>6, FetchListType DEF rowRetry, invalidate
  <2> HIDE DEF Jobs
  <2> QED
    BY <1>0, <1>3, <2>1, <2>2, EventType DEF Statuses
<1>7. CASE rowRemove(j)
  <2>1. UNCHANGED <<fetch, halting>> /\ UNCHANGED rowOnly /\ Event
    BY <1>7 DEF rowRemove
  <2>2. Jobs("gone") /\ seen' \in [JobIds -> Statuses \cup {None}]
    BY <1>0, <1>1, <1>7 DEF rowRemove, Alive
  <2> HIDE DEF Jobs
  <2> QED
    BY <1>0, <1>3, <2>1, <2>2, EventType
<1>8. CASE stopCancels(j)
  <2>1. UNCHANGED seen /\ UNCHANGED rowOnly /\ halting' \subseteq JobIds /\ events' \in 0..MaxEvents
    BY <1>0, <1>8, EventType DEF stopCancels
  <2>2. Jobs("cancelled") /\ fetch' \in Listing
    BY <1>0, <1>4, <1>8 DEF stopCancels
  <2> HIDE DEF Jobs
  <2> QED
    BY <1>0, <1>3, <2>1, <2>2 DEF Statuses
<1>9. CASE workerEnds(j)
  <2>1. UNCHANGED <<seen, fetch, halting>> /\ UNCHANGED rowOnly /\ events' \in 0..MaxEvents
    BY <1>0, <1>9, EventType DEF workerEnds
  <2>2. Jobs("success") \/ Jobs("failed")
    BY <1>9 DEF workerEnds
  <2> HIDE DEF Jobs
  <2> QED
    BY <1>0, <1>3, <2>1, <2>2 DEF Statuses
<1> QED
  BY <1>2, <1>5, <1>6, <1>7, <1>8, <1>9

LEMMA StopAllStep ==
  ASSUME PanelInv, stopAll
  PROVE  PanelInv'
<1>0. TypeOK /\ told \in [Loops -> [stopped : BOOLEAN, posted : SUBSET Drafts]]
  BY Types DEF PanelInv
<1>1. /\ stop' = TRUE
      /\ UNCHANGED <<panel, draft, ref, uploads, running, loop, last, seen, fetch, job, quota>>
      /\ told' = [l \in Loops |-> IF loop[l].pc \in {"chunk", "delay"}
                                 THEN [stopped |-> TRUE, posted |-> Posted(l)]
                                 ELSE told[l]]
      /\ events' \in 0..MaxEvents /\ halting' \subseteq JobIds
  BY <1>0, EventType DEF stopAll, TypeOK
<1>2. \A l \in Loops : Posted(l) \subseteq Drafts /\ Posted(l)' = Posted(l)
  BY <1>1 DEF Posted
<1>3. told' \in [Loops -> [stopped : BOOLEAN, posted : SUBSET Drafts]]
  BY <1>0, <1>1, <1>2
<1>4. TypeOK'
  BY <1>0, <1>1, <1>3 DEF TypeOK
<1>5. StopSeen'
  BY <1>1, <1>2 DEF PanelInv, StopSeen
<1>6. LoopsFit' /\ JobsFit' /\ MadeHasJob' /\ OneJobPerClick' /\ PromptKept'
  BY <1>1 DEF PanelInv, LoopsFit, Fit, JobsFit, Born, MadeHasJob, OneJobPerClick, PromptKept
<1> QED
  BY <1>4, <1>5, <1>6 DEF PanelInv

LEMMA OthersStep ==
  ASSUME PanelInv, othersSubmit
  PROVE  PanelInv'
<1>0. TypeOK
  BY DEF PanelInv
<1>1. TypeOK'
  <2>1. quota' \in Nat \cup {Unlimited}
    BY <1>0 DEF othersSubmit, TypeOK
  <2>2. events' \in 0..MaxEvents
    BY <1>0, EventType DEF othersSubmit
  <2> QED
    BY <1>0, <2>1, <2>2 DEF othersSubmit, TypeOK
<1> QED
  BY <1>1, QuietStep, SameJobs DEF othersSubmit, RowsKept

-----------------------------------------------------------------------------
(* Steps of a loop.                                                        *)

\* A loop becomes r: what its jobs and answers need to stay true.
LEMMA LoopStep ==
  ASSUME PanelInv, NEW l \in Loops, NEW r \in LoopRec, Fit(r),
         loop' = [loop EXCEPT ![l] = r], UNCHANGED <<panel, job>>,
         \A d \in Drafts : loop[l].post[d] \in Landed => r.pc = "done" \/ r.post[d] \in Landed,
         loop[l].pc = "done" => r.pc = "done",
         \A d \in Drafts : r.post[d] = "made" => loop[l].post[d] = "made"
  PROVE  /\ loop' \in [Loops -> LoopRec] /\ LoopsFit' /\ JobsFit' /\ MadeHasJob'
         /\ OneJobPerClick'
<1>0. TypeOK /\ loop \in [Loops -> LoopRec]
  BY Types DEF PanelInv
<1>1. \A k \in Loops : loop'[k] = IF k = l THEN r ELSE loop[k]
  BY <1>0
<1>2. LoopsFit'
  BY <1>1 DEF PanelInv, LoopsFit, Fit
<1>3. JobsFit'
  BY <1>1 DEF PanelInv, JobsFit, Born
<1>4. MadeHasJob'
  BY <1>1 DEF PanelInv, MadeHasJob, Born
<1>5. OneJobPerClick'
  BY DEF PanelInv, OneJobPerClick
<1> QED
  BY <1>0, <1>2, <1>3, <1>4, <1>5

\* A loop that no Stop has reached changes as it will.
LEMMA UnstoppedStep ==
  ASSUME PanelInv, NEW l \in Loops, NEW r, loop' = [loop EXCEPT ![l] = r],
         UNCHANGED <<told, stop>>, ~told[l].stopped
  PROVE  StopSeen'
<1>0. loop \in [Loops -> LoopRec]
  BY Types DEF PanelInv
<1>1. \A k \in Loops : k # l => loop'[k] = loop[k]
  BY <1>0
<1> QED
  BY <1>1 DEF PanelInv, StopSeen, Posted

\* One that was reached keeps what it has posted.
LEMMA SamePosted ==
  ASSUME PanelInv, NEW l \in Loops, NEW r \in LoopRec, loop' = [loop EXCEPT ![l] = r],
         UNCHANGED <<told, stop>>, r.pc = loop[l].pc,
         \A d \in Drafts : (r.post[d] = "none") <=> (loop[l].post[d] = "none")
  PROVE  StopSeen'
<1>0. loop \in [Loops -> LoopRec]
  BY Types DEF PanelInv
<1>1. \A k \in Loops : loop'[k] = IF k = l THEN r ELSE loop[k]
  BY <1>0
<1>2. \A k \in Loops : Posted(k)' = Posted(k)
  BY <1>1 DEF Posted
<1> QED
  BY <1>1, <1>2 DEF PanelInv, StopSeen

LEMMA AllUntold ==
  ASSUME told' = [k \in Loops |-> Untold]
  PROVE  /\ StopSeen' /\ told' \in [Loops -> [stopped : BOOLEAN, posted : SUBSET Drafts]]
<1>1. Untold \in [stopped : BOOLEAN, posted : SUBSET Drafts] /\ ~Untold.stopped
  BY Blank DEF Untold
<1> QED
  BY <1>1 DEF StopSeen

\* The record of a loop whose button was clicked.
Begun(q, b, x, t, i) ==
  [q EXCEPT !.pc = "quota", !.blocked = b, !.todo = x, !.text = t, !.ref = i]

LEMMA BegunIs ==
  ASSUME NEW q \in LoopRec, NEW b \in BOOLEAN, NEW x \in SUBSET Drafts,
         NEW t \in [Drafts -> Texts], NEW i \in Images \cup {None}
  PROVE  LET n == Begun(q, b, x, t, i)
         IN /\ n \in LoopRec /\ n.pc = "quota" /\ n.todo = x /\ n.ref = i
            /\ n.post = q.post /\ n.chunk = q.chunk /\ n.walled = q.walled
BY DEF Begun, LoopRec

LEMMA StartStep ==
  ASSUME PanelInv, NEW l \in Loops, startBatch(l)
  PROVE  PanelInv'
<1>0. /\ TypeOK /\ loop \in [Loops -> LoopRec] /\ draft \in [Drafts -> DraftRec]
      /\ loop[l].pc = "idle"
  BY Types DEF PanelInv, startBatch
<1> DEFINE text == [d \in Drafts |-> draft[d].text]
           r == Begun(loop[l], running, rawQueue, text, ref.id)
<1>1. /\ loop' = [loop EXCEPT ![l] = r]
      /\ UNCHANGED <<panel, draft, ref, uploads, running, stop, last, seen, fetch, halting,
                     job, quota, told>>
      /\ events' \in 0..MaxEvents
  BY <1>0, EventType DEF startBatch, Begun
<1>2. /\ text \in [Drafts -> Texts] /\ rawQueue \subseteq Drafts
      /\ ref.id \in Images \cup {None} /\ running \in BOOLEAN
  BY <1>0 DEF DraftRec, rawQueue, Ticked, Rows, TypeOK
<1>3. /\ r \in LoopRec /\ r.pc = "quota" /\ r.todo = rawQueue /\ r.ref = ref.id
      /\ r.post = loop[l].post /\ r.chunk = loop[l].chunk /\ r.walled = loop[l].walled
  <2>1. loop[l] \in LoopRec
    BY <1>0
  <2> HIDE DEF text
  <2> QED
    BY <1>2, <2>1, BegunIs
<1>4. panel.ref => ref.id # None
  <2>1. panel.table.needsRef => ref.id # None
    BY DEF startBatch, StartEnabled
  <2>2. panel \in {TextToVideoPanel, ImageDirectPanel, ImageToVideoPanel, CharacterSyncPanel,
                   ImageSyncPanel}
    BY <1>0, PanelsAssumption DEF TypeOK
  <2>3. CharacterSyncTable.needsRef /\ ImageSyncTable.needsRef
    BY DEF CharacterSyncTable, ImageSyncTable, Buttons
  <2>4. panel.ref => panel.table.needsRef
    BY <2>2, <2>3 DEF TextToVideoPanel, ImageDirectPanel, ImageToVideoPanel,
                      CharacterSyncPanel, ImageSyncPanel
  <2> QED
    BY <2>1, <2>4
<1> HIDE DEF text, r
<1>6. Fit(loop[l])
  BY DEF PanelInv, LoopsFit
<1>7. Fit(r)
  BY <1>0, <1>2, <1>3, <1>4, <1>6 DEF Fit, Asked
<1>8. /\ loop' \in [Loops -> LoopRec] /\ LoopsFit' /\ JobsFit' /\ MadeHasJob' /\ OneJobPerClick'
  BY <1>0, <1>1, <1>3, <1>7, LoopStep
<1>9. StopSeen'
  BY <1>0, <1>1, UnstoppedStep DEF PanelInv, StopSeen
<1>10. TypeOK'
  BY <1>0, <1>1, <1>8 DEF TypeOK, LoopRec
<1> QED
  BY <1>1, <1>8, <1>9, <1>10 DEF PanelInv, PromptKept

\* A chunk: its rows had not been posted before.
LEMMA ChunkFits ==
  ASSUME NEW r \in LoopRec, r.pc \in {"quota", "delay"}, ~r.walled, Fit(r)
  PROVE  /\ Chunk(r) \in LoopRec /\ Fit(Chunk(r)) /\ Chunk(r).pc = "chunk"
         /\ \A d \in Drafts : /\ r.post[d] # "none" => Chunk(r).post[d] = r.post[d]
                              /\ Chunk(r).post[d] \in {"sent", r.post[d]}
<1> DEFINE c == IF Batching THEN Least(r.todo, IF Size = 0 THEN 1 ELSE Size) ELSE r.todo
           post == [d \in Drafts |-> IF d \in c THEN "sent" ELSE r.post[d]]
<1>1. c \subseteq r.todo
  BY DEF Least
<1>2. Chunk(r) = [r EXCEPT !.pc = "chunk", !.chunk = c, !.todo = r.todo \ c, !.post = post]
  BY DEF Chunk
<1> HIDE DEF c
<1>3. post \in [Drafts -> Stages]
  BY DEF LoopRec, Stages
<1>4. \A d \in Drafts : post[d] = IF d \in c THEN "sent" ELSE r.post[d]
  OBVIOUS
<1> HIDE DEF post
<1>5. Chunk(r) = [pc |-> "chunk", blocked |-> r.blocked, walled |-> r.walled,
                  todo |-> r.todo \ c, chunk |-> c, text |-> r.text, ref |-> r.ref,
                  post |-> post]
  BY <1>2 DEF LoopRec
<1>6. Chunk(r) \in LoopRec
  BY <1>1, <1>3, <1>5 DEF LoopRec
<1>7. r.todo \subseteq Drafts
  BY DEF LoopRec
<1>8. /\ Chunk(r).pc = "chunk" /\ Chunk(r).todo = r.todo \ c /\ Chunk(r).chunk = c
      /\ Chunk(r).post = post /\ Chunk(r).ref = r.ref /\ Chunk(r).walled = r.walled
  BY <1>5
<1>9. Fit(Chunk(r))
  BY <1>1, <1>4, <1>7, <1>8 DEF Fit, Asked
<1> QED
  BY <1>1, <1>4, <1>6, <1>8, <1>9 DEF Fit

LEMMA OverStep ==
  ASSUME PanelInv, NEW l \in Loops, loop' = [loop EXCEPT ![l] = Over], UNCHANGED <<panel, job>>
  PROVE  /\ loop' \in [Loops -> LoopRec] /\ LoopsFit' /\ JobsFit' /\ MadeHasJob'
         /\ OneJobPerClick'
<1>1. Over.pc = "done" /\ \A d \in Drafts : Over.post[d] = "none"
  BY DEF Over, IdleLoop
<1> QED
  BY <1>1, Blank, LoopStep

LEMMA EnterStep ==
  ASSUME PanelInv, NEW l \in Loops, loop[l].pc = "quota", NEW S \in SUBSET loop[l].todo,
         EnterRun(l, S), events' \in 0..MaxEvents,
         UNCHANGED <<panel, draft, ref, uploads, seen, fetch, halting, job, quota>>
  PROVE  PanelInv'
<1>0. /\ TypeOK /\ loop \in [Loops -> LoopRec] /\ Fit(loop[l])
      /\ told \in [Loops -> [stopped : BOOLEAN, posted : SUBSET Drafts]]
  BY Types DEF PanelInv, LoopsFit
<1>1. CASE loop' = [loop EXCEPT ![l] = Over] /\ UNCHANGED <<running, stop, last, told>>
  <2>1. /\ loop' \in [Loops -> LoopRec] /\ LoopsFit' /\ JobsFit' /\ MadeHasJob' /\ OneJobPerClick'
    BY <1>1, OverStep
  <2>2. StopSeen'
    BY <1>1, UnstoppedStep DEF PanelInv, StopSeen
  <2>3. TypeOK'
    BY <1>0, <1>1, <2>1 DEF TypeOK, LoopRec
  <2> QED
    BY <2>1, <2>2, <2>3 DEF PanelInv, PromptKept
<1>2. CASE /\ loop' = [loop EXCEPT ![l] = Chunk([loop[l] EXCEPT !.todo = S])]
           /\ running' = TRUE /\ stop' = FALSE /\ last' = l
           /\ told' = [k \in Loops |-> Untold]
  <2> DEFINE q == [loop[l] EXCEPT !.todo = S]
             r == Chunk(q)
  <2>1. /\ q \in LoopRec /\ q.pc = "quota" /\ q.post = loop[l].post /\ q.todo = S
        /\ q.walled = loop[l].walled /\ q.ref = loop[l].ref
    <3>1. loop[l] \in LoopRec /\ S \in SUBSET Drafts
      BY <1>0 DEF LoopRec
    <3>2. q \in LoopRec
      BY <3>1 DEF LoopRec
    <3> QED
      BY <3>1, <3>2 DEF LoopRec
  <2> HIDE DEF q
  <2>2. Fit(q) /\ ~q.walled
    BY <1>0, <2>1 DEF Fit
  <2>3. /\ r \in LoopRec /\ Fit(r) /\ r.pc = "chunk"
        /\ \A d \in Drafts : /\ q.post[d] # "none" => r.post[d] = q.post[d]
                             /\ r.post[d] \in {"sent", q.post[d]}
    BY <2>1, <2>2, ChunkFits
  <2>4. loop' = [loop EXCEPT ![l] = r]
    BY <1>2 DEF q
  <2> HIDE DEF r
  <2>5. /\ loop' \in [Loops -> LoopRec] /\ LoopsFit' /\ JobsFit' /\ MadeHasJob' /\ OneJobPerClick'
    BY <2>1, <2>3, <2>4, LoopStep DEF Landed
  <2>6. StopSeen' /\ told' \in [Loops -> [stopped : BOOLEAN, posted : SUBSET Drafts]]
    BY <1>2, AllUntold
  <2>7. TypeOK'
    BY <1>0, <1>2, <2>5, <2>6 DEF TypeOK, LoopRec
  <2> QED
    BY <2>5, <2>6, <2>7 DEF PanelInv, PromptKept
<1> QED
  BY <1>1, <1>2 DEF EnterRun

LEMMA QuotaCheckedStep ==
  ASSUME PanelInv, NEW l \in Loops, quotaChecked(l)
  PROVE  PanelInv'
<1>0. TypeOK /\ events \in 0..MaxEvents
  BY DEF PanelInv, TypeOK
<1>1. \A S \in Allowed(loop[l].todo) : S \in SUBSET loop[l].todo
  BY DEF Allowed, Least
<1>2. PICK S \in SUBSET loop[l].todo : EnterRun(l, S)
  BY <1>1 DEF quotaChecked
<1>3. /\ loop[l].pc = "quota" /\ events' \in 0..MaxEvents
      /\ UNCHANGED <<panel, draft, ref, uploads, seen, fetch, halting, job, quota>>
  BY <1>0, EventType DEF quotaChecked
<1> QED
  BY <1>2, <1>3, EnterStep

LEMMA FinishStep ==
  ASSUME PanelInv, NEW l \in Loops, Finish(l),
         UNCHANGED <<panel, draft, ref, uploads, seen, fetch, halting, job, quota, events>>
  PROVE  PanelInv'
<1>0. TypeOK
  BY DEF PanelInv
<1>1. /\ loop' = [loop EXCEPT ![l] = Over] /\ told' = [k \in Loops |-> Untold]
      /\ running' = FALSE /\ stop' = FALSE /\ last' \in {last, None}
  BY DEF Finish
<1>2. /\ loop' \in [Loops -> LoopRec] /\ LoopsFit' /\ JobsFit' /\ MadeHasJob' /\ OneJobPerClick'
  BY <1>1, OverStep
<1>3. StopSeen' /\ told' \in [Loops -> [stopped : BOOLEAN, posted : SUBSET Drafts]]
  BY <1>1, AllUntold
<1>4. TypeOK'
  BY <1>0, <1>1, <1>2, <1>3 DEF TypeOK, LoopRec
<1> QED
  BY <1>2, <1>3, <1>4 DEF PanelInv, PromptKept

LEMMA ChunkSettledStep ==
  ASSUME PanelInv, NEW l \in Loops, chunkSettled(l)
  PROVE  PanelInv'
<1>0. /\ TypeOK /\ loop \in [Loops -> LoopRec] /\ Fit(loop[l]) /\ loop[l].pc = "chunk"
      /\ \A d \in loop[l].chunk : loop[l].post[d] \in {"ok", "error", "denied"}
      /\ UNCHANGED <<panel, draft, ref, uploads, seen, fetch, halting, job, quota, events>>
  BY Types DEF PanelInv, LoopsFit, chunkSettled, Settled
<1>1. CASE Finish(l)
  BY <1>0, <1>1, FinishStep
<1>2. CASE /\ ~Denied(l) /\ ~stop
           /\ loop' = [loop EXCEPT ![l] = [loop[l] EXCEPT !.pc = "delay"]]
           /\ UNCHANGED <<running, stop, last, told>>
  <2> DEFINE r == [loop[l] EXCEPT !.pc = "delay"]
  <2>1. /\ r \in LoopRec /\ r.pc = "delay" /\ r.post = loop[l].post /\ r.todo = loop[l].todo
        /\ r.walled = loop[l].walled /\ r.ref = loop[l].ref /\ r.chunk = loop[l].chunk
    BY <1>0 DEF LoopRec
  <2>2. loop' = [loop EXCEPT ![l] = r]
    BY <1>2
  <2> HIDE DEF r
  <2>3. Fit(r)
    BY <1>0, <1>2, <2>1 DEF Fit, Denied, Asked
  <2>4. /\ loop' \in [Loops -> LoopRec] /\ LoopsFit' /\ JobsFit' /\ MadeHasJob' /\ OneJobPerClick'
    BY <1>0, <2>1, <2>2, <2>3, LoopStep
  <2>5. StopSeen'
    BY <1>2, <2>2, UnstoppedStep DEF PanelInv, StopSeen
  <2>6. TypeOK'
    BY <1>0, <1>2, <2>4 DEF TypeOK, LoopRec
  <2> QED
    BY <1>0, <2>4, <2>5, <2>6 DEF PanelInv, PromptKept
<1> QED
  BY <1>1, <1>2 DEF chunkSettled, Stopped

LEMMA DelayOverStep ==
  ASSUME PanelInv, NEW l \in Loops, delayOver(l)
  PROVE  PanelInv'
<1>0. /\ TypeOK /\ loop \in [Loops -> LoopRec] /\ Fit(loop[l]) /\ loop[l].pc = "delay"
      /\ UNCHANGED <<panel, draft, ref, uploads, seen, fetch, halting, job, quota, events>>
  BY Types DEF PanelInv, LoopsFit, delayOver
<1>1. CASE Finish(l)
  BY <1>0, <1>1, FinishStep
<1>2. CASE /\ ~stop /\ loop' = [loop EXCEPT ![l] = Chunk(loop[l])] /\ last' = l
           /\ UNCHANGED <<running, stop, told>>
  <2> DEFINE r == Chunk(loop[l])
  <2>1. /\ r \in LoopRec /\ Fit(r) /\ r.pc = "chunk"
        /\ \A d \in Drafts : /\ loop[l].post[d] # "none" => r.post[d] = loop[l].post[d]
                             /\ r.post[d] \in {"sent", loop[l].post[d]}
    <3>1. loop[l] \in LoopRec /\ ~loop[l].walled
      BY <1>0 DEF Fit
    <3> QED
      BY <1>0, <3>1, ChunkFits
  <2>2. loop' = [loop EXCEPT ![l] = r]
    BY <1>2
  <2> HIDE DEF r
  <2>3. /\ loop' \in [Loops -> LoopRec] /\ LoopsFit' /\ JobsFit' /\ MadeHasJob' /\ OneJobPerClick'
    BY <1>0, <2>1, <2>2, LoopStep DEF Landed
  <2>4. StopSeen'
    BY <1>2, <2>2, UnstoppedStep DEF PanelInv, StopSeen
  <2>5. TypeOK'
    BY <1>0, <1>2, <2>3 DEF TypeOK, LoopRec
  <2> QED
    BY <1>0, <2>3, <2>4, <2>5 DEF PanelInv, PromptKept
<1> QED
  BY <1>1, <1>2 DEF delayOver, Stopped

-----------------------------------------------------------------------------
(* The requests of a chunk.                                                *)

\* A request gets an outcome: another stage of the same row.
Answered(r, d, x) == [r EXCEPT !.post[d] = x]
Refused(r, d, w) == [r EXCEPT !.post[d] = "denied", !.walled = w]

LEMMA AnsweredIs ==
  ASSUME NEW r \in LoopRec, NEW d \in Drafts, NEW x \in Stages
  PROVE  LET n == Answered(r, d, x)
         IN /\ n \in LoopRec /\ n.pc = r.pc /\ n.todo = r.todo /\ n.chunk = r.chunk
            /\ n.ref = r.ref /\ n.walled = r.walled /\ n.post = [r.post EXCEPT ![d] = x]
BY DEF Answered, LoopRec

LEMMA RefusedIs ==
  ASSUME NEW r \in LoopRec, NEW d \in Drafts, NEW w \in BOOLEAN
  PROVE  LET n == Refused(r, d, w)
         IN /\ n \in LoopRec /\ n.pc = r.pc /\ n.todo = r.todo /\ n.chunk = r.chunk
            /\ n.ref = r.ref /\ n.walled = w /\ n.post = [r.post EXCEPT ![d] = "denied"]
BY DEF Refused, LoopRec, Stages

\* What such a change keeps, given its new record.
Staged(l, d, x, n) ==
  /\ n \in LoopRec /\ n.pc = loop[l].pc /\ n.todo = loop[l].todo /\ n.chunk = loop[l].chunk
  /\ n.ref = loop[l].ref /\ n.post = [loop[l].post EXCEPT ![d] = x]

LEMMA StagedFits ==
  ASSUME PanelInv, NEW l \in Loops, NEW d \in Drafts, NEW x \in {"made", "ok", "error", "denied"},
         NEW n, Staged(l, d, x, n), loop[l].post[d] \in {"sent", "made"},
         n.walled => \A e \in n.chunk : n.post[e] = "denied"
  PROVE  /\ Fit(n) /\ loop[l].pc = "chunk" /\ n.pc = "chunk"
         /\ \A e \in Drafts : (n.post[e] = "none") <=> (loop[l].post[e] = "none")
         /\ \A e \in Drafts : e # d => n.post[e] = loop[l].post[e]
         /\ n.post[d] = x
<1>1. loop[l] \in LoopRec /\ Fit(loop[l])
  BY Types DEF PanelInv, LoopsFit
<1>2. loop[l].pc = "chunk" /\ d \in loop[l].chunk
  BY <1>1 DEF Fit
<1>3. \A e \in Drafts : n.post[e] = IF e = d THEN x ELSE loop[l].post[e]
  BY <1>1 DEF Staged, LoopRec
<1>4. loop[l].todo \subseteq Drafts /\ n.todo = loop[l].todo
  BY <1>1 DEF LoopRec, Staged
<1>5. n.pc = "chunk" /\ n.chunk = loop[l].chunk /\ n.ref = loop[l].ref
  BY <1>2 DEF Staged
<1>6. Fit(n)
  BY <1>1, <1>2, <1>3, <1>4, <1>5 DEF Fit, Asked
<1> QED
  BY <1>2, <1>3, <1>5, <1>6

\* An outcome without a new job: a refusal, a fault or an answer.
LEMMA OutcomeStep ==
  ASSUME PanelInv, NEW l \in Loops, NEW d \in Drafts, NEW x \in {"ok", "error", "denied"},
         loop[l].post[d] = "sent" \/ (loop[l].post[d] = "made" /\ x # "denied"),
         NEW n, Staged(l, d, x, n), n.walled => \A e \in n.chunk : n.post[e] = "denied",
         loop' = [loop EXCEPT ![l] = n],
         UNCHANGED <<panel, ref, uploads, running, stop, last, fetch, halting, job, quota, told>>,
         seen' \in [JobIds -> Statuses \cup {None}], events' \in 0..MaxEvents,
         draft' \in [Drafts -> DraftRec], PromptKept'
  PROVE  PanelInv'
<1>0. TypeOK
  BY DEF PanelInv
<1>1. /\ Fit(n) /\ loop[l].pc = "chunk" /\ n.pc = "chunk" /\ n \in LoopRec
      /\ \A e \in Drafts : (n.post[e] = "none") <=> (loop[l].post[e] = "none")
      /\ \A e \in Drafts : e # d => n.post[e] = loop[l].post[e]
      /\ n.post[d] = x
  <2>1. x \in {"made", "ok", "error", "denied"} /\ loop[l].post[d] \in {"sent", "made"}
    OBVIOUS
  <2>2. n \in LoopRec
    BY DEF Staged
  <2> QED
    BY <2>1, <2>2, StagedFits
<1>2. /\ \A e \in Drafts : loop[l].post[e] \in Landed => n.post[e] \in Landed
      /\ \A e \in Drafts : n.post[e] = "made" => loop[l].post[e] = "made"
  BY <1>1 DEF Landed
<1>3. /\ loop' \in [Loops -> LoopRec] /\ LoopsFit' /\ JobsFit' /\ MadeHasJob' /\ OneJobPerClick'
  BY <1>1, <1>2, LoopStep
<1>4. StopSeen'
  <2>1. n.pc = loop[l].pc /\ UNCHANGED <<told, stop>>
    BY <1>1
  <2> QED
    BY <1>1, <2>1, SamePosted
<1>5. TypeOK'
  BY <1>0, <1>3 DEF TypeOK, LoopRec, DraftRec
<1> QED
  BY <1>3, <1>4, <1>5 DEF PanelInv

\* A fault: the request's row stays as it is.
LEMMA ErrorStep ==
  ASSUME PanelInv, NEW l \in Loops, NEW d \in Drafts, loop[l].post[d] \in {"sent", "made"},
         Event, onItemError(l, d),
         UNCHANGED <<panel, ref, uploads, running, stop, last, seen, fetch, halting, job, quota,
                     told>>
  PROVE  PanelInv'
<1>0. /\ TypeOK /\ loop \in [Loops -> LoopRec] /\ draft \in [Drafts -> DraftRec] /\ Fit(loop[l])
      /\ seen \in [JobIds -> Statuses \cup {None}]
  BY Types DEF PanelInv, LoopsFit, TypeOK
<1> DEFINE n == Answered(loop[l], d, "error")
<1>1. loop' = [loop EXCEPT ![l] = n] /\ UNCHANGED draft /\ events' \in 0..MaxEvents
  BY <1>0, EventType DEF onItemError, Answered
<1>2. Staged(l, d, "error", n) /\ n.walled = loop[l].walled
  <2>1. loop[l] \in LoopRec /\ "error" \in Stages
    BY <1>0 DEF Stages
  <2> QED
    BY <2>1, AnsweredIs DEF Staged
<1> HIDE DEF n
<1>3. ~n.walled
  BY <1>0, <1>2 DEF Fit
<1>4. PromptKept'
  BY <1>1 DEF PanelInv, PromptKept
<1> QED
  BY <1>0, <1>1, <1>2, <1>3, <1>4, OutcomeStep

LEMMA PostAnsweredStep ==
  ASSUME PanelInv, NEW l \in Loops, NEW d \in Drafts, postAnswered(l, d)
  PROVE  PanelInv'
<1>0. /\ TypeOK /\ loop \in [Loops -> LoopRec] /\ draft \in [Drafts -> DraftRec] /\ Fit(loop[l])
      /\ seen \in [JobIds -> Statuses \cup {None}] /\ loop[l].post[d] = "made"
      /\ events \in 0..MaxEvents
      /\ UNCHANGED <<panel, ref, uploads, running, stop, last, fetch, halting, job, quota, told>>
  BY Types DEF PanelInv, LoopsFit, TypeOK, postAnswered
<1>1. CASE Event /\ onItemError(l, d) /\ UNCHANGED seen
  BY <1>0, <1>1, ErrorStep
<1>2. CASE /\ \E j \in JobIds : seen' = [seen EXCEPT ![j] = "active"]
           /\ onItemSuccess(l, d) /\ UNCHANGED events
  <2> DEFINE n == Answered(loop[l], d, "ok")
             life == IF draft[d].life = "here" THEN "sent" ELSE draft[d].life
             x == [draft[d] EXCEPT !.life = life, !.on = FALSE]
  <2>1. loop' = [loop EXCEPT ![l] = n] /\ draft' = [draft EXCEPT ![d] = x]
    BY <1>0, <1>2 DEF onItemSuccess, Answered
  <2>2. Staged(l, d, "ok", n) /\ n.walled = loop[l].walled
    <3>1. loop[l] \in LoopRec /\ "ok" \in Stages
      BY <1>0 DEF Stages
    <3> QED
      BY <3>1, AnsweredIs DEF Staged
  <2>3. x \in DraftRec
    <3>1. \A y \in Lives, b \in BOOLEAN : [draft[d] EXCEPT !.life = y, !.on = b] \in DraftRec
      BY <1>0, RowChange
    <3>2. life \in Lives /\ FALSE \in BOOLEAN
      BY <1>0 DEF DraftRec, Lives
    <3> HIDE DEF life
    <3> QED
      BY <3>1, <3>2, Zenon
  <2> HIDE DEF n, x
  <2>4. ~n.walled
    BY <1>0, <2>2 DEF Fit
  <2>5. draft' \in [Drafts -> DraftRec] /\ \A e \in Drafts : e # d => draft'[e] = draft[e]
    BY <1>0, <2>1, <2>3
  <2>6. PromptKept'
    <3> SUFFICES ASSUME NEW e \in Drafts, draft'[e].life = "sent"
                 PROVE  \E j \in JobIds : job'[j].st # "unborn" /\ job'[j].draft = e
      BY DEF PromptKept
    <3>1. CASE e = d
      BY <1>0, <3>1 DEF PanelInv, MadeHasJob, Born
    <3>2. CASE e # d
      BY <1>0, <2>5, <3>2 DEF PanelInv, PromptKept
    <3> QED
      BY <3>1, <3>2
  <2>7. seen' \in [JobIds -> Statuses \cup {None}]
    BY <1>0, <1>2 DEF Statuses
  <2> QED
    BY <1>0, <1>2, <2>1, <2>2, <2>4, <2>5, <2>6, <2>7, OutcomeStep
<1> QED
  BY <1>1, <1>2 DEF postAnswered

LEMMA JobMadeStep ==
  ASSUME PanelInv, NEW l \in Loops, NEW d \in Drafts,
         loop[l].pc = "chunk", loop[l].post[d] = "sent",
         NEW j \in JobIds, job[j].st = "unborn", quota # 0,
         job' = [job EXCEPT ![j] = [st |-> "active", by |-> l, draft |-> d,
                                    text |-> loop[l].text[d], ref |-> loop[l].ref]],
         quota' = IF quota = Unlimited THEN quota ELSE quota - 1,
         loop' = [loop EXCEPT ![l].post[d] = "made"],
         UNCHANGED <<draft, events, panel, ref, uploads, running, stop, last, seen, fetch, halting,
                     told>>
  PROVE  PanelInv'
<1>0. /\ TypeOK /\ loop \in [Loops -> LoopRec] /\ job \in [JobIds -> JobRec] /\ Fit(loop[l])
      /\ loop[l] \in LoopRec
  BY Types DEF PanelInv, LoopsFit
<1> DEFINE n == Answered(loop[l], d, "made")
           x == [st |-> "active", by |-> l, draft |-> d, text |-> loop[l].text[d],
                 ref |-> loop[l].ref]
<1>1. loop' = [loop EXCEPT ![l] = n] /\ job' = [job EXCEPT ![j] = x]
  BY <1>0 DEF Answered
<1>2. Staged(l, d, "made", n) /\ n.walled = loop[l].walled
  <2>1. "made" \in Stages
    BY DEF Stages
  <2> QED
    BY <1>0, <2>1, AnsweredIs DEF Staged
<1>3. /\ x \in JobRec /\ x.st = "active" /\ x.by = l /\ x.draft = d /\ x.ref = loop[l].ref
  BY <1>0 DEF JobRec, LoopRec, Statuses
<1> HIDE DEF n, x
<1>4. /\ Fit(n) /\ n.pc = "chunk" /\ n \in LoopRec
      /\ \A e \in Drafts : (n.post[e] = "none") <=> (loop[l].post[e] = "none")
      /\ \A e \in Drafts : e # d => n.post[e] = loop[l].post[e]
      /\ n.post[d] = "made"
  <2>1. ~n.walled
    BY <1>0, <1>2 DEF Fit
  <2>2. n \in LoopRec /\ loop[l].post[d] \in {"sent", "made"}
    BY <1>2 DEF Staged
  <2> QED
    BY <1>2, <2>1, <2>2, StagedFits
<1>5. /\ \A k \in Loops : loop'[k] = IF k = l THEN n ELSE loop[k]
      /\ \A k \in JobIds : job'[k] = IF k = j THEN x ELSE job[k]
      /\ loop' \in [Loops -> LoopRec] /\ job' \in [JobIds -> JobRec]
  BY <1>0, <1>1, <1>3, <1>4
<1>6. LoopsFit'
  BY <1>4, <1>5 DEF PanelInv, LoopsFit, Fit
<1>7. StopSeen'
  <2>1. n.pc = loop[l].pc /\ UNCHANGED <<told, stop>>
    BY <1>4
  <2> QED
    BY <1>1, <1>4, <2>1, SamePosted
<1>8. \A k \in JobIds : Born(k) => ~(job[k].by = l /\ job[k].draft = d)
  BY DEF PanelInv, JobsFit, Landed
<1>9. OneJobPerClick'
  <2> SUFFICES ASSUME NEW k \in JobIds, NEW m \in JobIds,
                      job'[k].st # "unborn", job'[m].st # "unborn",
                      job'[k].by = job'[m].by, job'[k].draft = job'[m].draft
               PROVE  k = m
    BY DEF OneJobPerClick
  <2>1. CASE k = j \/ m = j
    BY <2>1, <1>3, <1>5, <1>8 DEF Born
  <2>2. CASE k # j /\ m # j
    BY <2>2, <1>5 DEF PanelInv, OneJobPerClick
  <2> QED
    BY <2>1, <2>2
<1>10. JobsFit'
  <2> SUFFICES ASSUME NEW k \in JobIds, job'[k].st # "unborn"
               PROVE  /\ job'[k].by \in Loops /\ job'[k].draft \in Drafts
                      /\ \/ loop'[job'[k].by].pc = "done"
                         \/ loop'[job'[k].by].post[job'[k].draft] \in Landed
                      /\ panel'.ref => job'[k].ref # None
    BY DEF JobsFit, Born
  <2>1. CASE k = j
    BY <2>1, <1>0, <1>3, <1>4, <1>5 DEF Fit, Asked, Landed
  <2>2. CASE k # j
    BY <2>2, <1>4, <1>5 DEF PanelInv, JobsFit, Born, Landed
  <2> QED
    BY <2>1, <2>2
<1>11. MadeHasJob'
  <2> SUFFICES ASSUME NEW k \in Loops, NEW e \in Drafts, loop'[k].post[e] = "made"
               PROVE  \E m \in JobIds : job'[m].st # "unborn" /\ job'[m].draft = e
    BY DEF MadeHasJob, Born
  <2>1. CASE k = l /\ e = d
    BY <2>1, <1>3, <1>5
  <2>2. CASE k # l \/ e # d
    BY <2>2, <1>3, <1>4, <1>5 DEF PanelInv, MadeHasJob, Born
  <2> QED
    BY <2>1, <2>2
<1>12. PromptKept'
  BY <1>3, <1>5 DEF PanelInv, PromptKept
<1>13. TypeOK'
  <2>1. quota' \in Nat \cup {Unlimited}
    <3>1. quota \in Nat \cup {Unlimited}
      BY <1>0 DEF TypeOK
    <3>2. quota' = quota \/ (quota \in Nat \ {0} /\ quota' = quota - 1)
      BY <3>1
    <3> QED
      BY <3>1, <3>2
  <2> QED
    BY <1>0, <1>5, <2>1 DEF TypeOK, LoopRec, JobRec
<1> QED
  BY <1>6, <1>7, <1>9, <1>10, <1>11, <1>12, <1>13 DEF PanelInv

LEMMA ServerPostStep ==
  ASSUME PanelInv, NEW l \in Loops, NEW d \in Drafts, serverPost(l, d)
  PROVE  PanelInv'
<1>0. /\ TypeOK /\ loop \in [Loops -> LoopRec] /\ draft \in [Drafts -> DraftRec] /\ Fit(loop[l])
      /\ loop[l].pc = "chunk" /\ loop[l].post[d] = "sent"
      /\ seen \in [JobIds -> Statuses \cup {None}] /\ events \in 0..MaxEvents
      /\ UNCHANGED <<panel, ref, uploads, running, stop, last, seen, fetch, halting, told>>
  BY Types DEF PanelInv, LoopsFit, TypeOK, serverPost
<1>1. CASE /\ quota # 0
           /\ \E j \in JobIds :
                /\ job[j].st = "unborn"
                /\ job' = [job EXCEPT ![j] = [st |-> "active", by |-> l, draft |-> d,
                                              text |-> loop[l].text[d], ref |-> Reference(l)]]
           /\ quota' = IF quota = Unlimited THEN quota ELSE quota - 1
           /\ loop' = [loop EXCEPT ![l].post[d] = "made"]
           /\ UNCHANGED <<draft, events>>
  BY <1>0, <1>1, JobMadeStep DEF Reference
<1>2. CASE /\ loop' = [loop EXCEPT ![l].post[d] = "denied",
                                   ![l].walled = \A e \in loop[l].chunk \ {d} :
                                                   loop[l].post[e] = "denied"]
           /\ UNCHANGED <<draft, job, quota, events>>
  <2> DEFINE w == \A e \in loop[l].chunk \ {d} : loop[l].post[e] = "denied"
             n == Refused(loop[l], d, w)
  <2>1. loop' = [loop EXCEPT ![l] = n]
    BY <1>0, <1>2 DEF Refused
  <2>2. Staged(l, d, "denied", n) /\ n.walled = w
    <3>1. w \in BOOLEAN /\ loop[l] \in LoopRec
      BY <1>0
    <3> HIDE DEF w
    <3> QED
      BY <3>1, RefusedIs DEF Staged
  <2> HIDE DEF n
  <2>3. n.walled => \A e \in n.chunk : n.post[e] = "denied"
    <3>1. loop[l].chunk \subseteq Drafts /\ loop[l].post \in [Drafts -> Stages]
      BY <1>0 DEF LoopRec
    <3>2. n.chunk = loop[l].chunk /\ n.post = [loop[l].post EXCEPT ![d] = "denied"] /\ n.walled = w
      BY <2>2 DEF Staged
    <3>3. \A e \in Drafts : n.post[e] = IF e = d THEN "denied" ELSE loop[l].post[e]
      BY <3>1, <3>2
    <3> QED
      BY <3>1, <3>2, <3>3
  <2>4. PromptKept'
    BY <1>2 DEF PanelInv, PromptKept
  <2> QED
    BY <1>0, <1>2, <2>1, <2>2, <2>3, <2>4, OutcomeStep
<1>3. CASE Event /\ onItemError(l, d) /\ UNCHANGED <<job, quota>>
  BY <1>0, <1>3, ErrorStep
<1> QED
  BY <1>1, <1>2, <1>3 DEF serverPost

-----------------------------------------------------------------------------
LEMMA PanelStep ==
  ASSUME PanelInv, [Next]_vars
  PROVE  PanelInv'
<1>1. CASE UNCHANGED vars
  <2>1. TypeOK'
    BY <1>1 DEF vars, PanelInv, TypeOK
  <2> QED
    BY <1>1, <2>1, QuietStep, SameJobs DEF vars, RowsKept
<1>2. ASSUME NEW l \in Loops, Batch(l) PROVE PanelInv'
  BY <1>2, QuotaCheckedStep, ChunkSettledStep, DelayOverStep, ServerPostStep, PostAnsweredStep
     DEF Batch
<1> QED
  BY <1>1, <1>2, TableStep, ListStep, RowButtonsStep, StopAllStep, OthersStep, StartStep DEF Next

LEMMA PanelInvariant == Spec => []PanelInv
BY PanelInit, PanelStep, PTL DEF Spec

-----------------------------------------------------------------------------
\* The variables of a panel have their types: what the server still grants
\* never falls below zero.
THEOREM PanelTypes == Spec => []TypeOK
BY PanelInvariant, PTL DEF PanelInv

\* A row leaves the drafts table only by the user or for a job.
THEOREM PromptsKept == Spec => []PromptKept
BY PanelInvariant, PTL DEF PanelInv

\* A click makes one job of a row at most, with any chunk size, lost answer
\* or second loop.
THEOREM OneJobOfARow == Spec => []OneJobPerClick
BY PanelInvariant, PTL DEF PanelInv

\* A loop that Stop found in its run posts nothing more.
THEOREM StopIsKept == Spec => []StopHolds
<1>1. PanelInv => StopHolds
  BY DEF PanelInv, StopSeen, StopHolds
<1> QED
  BY <1>1, PanelInvariant, PTL

\* A loop whose chunk was refused for quota as a whole has no request left.
THEOREM WallIsTheEnd == Spec => []WallEndsLoop
<1>1. PanelInv => WallEndsLoop
  BY DEF PanelInv, LoopsFit, Fit, WallEndsLoop
<1> QED
  BY <1>1, PanelInvariant, PTL

\* A panel that needs a reference image never makes a job without one.
THEOREM ReferenceKept == Spec => []JobHasReference
<1>1. PanelInv => JobHasReference
  BY DEF PanelInv, JobsFit, Born, JobHasReference
<1> QED
  BY <1>1, PanelInvariant, PTL
=============================================================================
