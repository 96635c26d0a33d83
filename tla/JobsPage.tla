------------------------------ MODULE JobsPage ------------------------------
(***************************************************************************)
(* The jobs page (src/frontend/src/modules/grok/views/JobsPage.tsx): one   *)
(* page of a filtered list, fetched and polled by React Query under a key  *)
(* that names filter, page and page size, with a bulk selection, buttons   *)
(* behind a confirm dialog, and toasts when a job on the page ends.        *)
(*                                                                         *)
(* The cache keeps what was fetched for each view (a value of the key); a  *)
(* request leaves, takes effect on the server and is answered in separate  *)
(* steps, and the view may change in between.                              *)
(*                                                                         *)
(* Bounds: Jobs, Filters, Sizes, MaxEvents clicks and network faults.      *)
(***************************************************************************)
EXTENDS Naturals, FiniteSets

Statuses == {"queued", "running", "uploading", "success", "failed", "cancelled"}

CONSTANTS Jobs,        \* job ids, numbers: the greatest is the newest
          Filters,     \* the status filter: All or a status
          Sizes,       \* page sizes
          Starts,      \* the jobs when the page is opened
          All, None,
          MaxEvents

ASSUME JobsPageAssumption ==
  /\ Jobs \subseteq Nat /\ IsFiniteSet(Jobs) /\ Jobs # {}
  /\ Sizes \subseteq Nat \ {0} /\ Sizes # {} /\ IsFiniteSet(Sizes)
  /\ Starts \subseteq [Jobs -> Statuses]
  /\ All \in Filters /\ MaxEvents \in Nat /\ None \notin Statuses

VARIABLES job,        \* the server's jobs
          view,       \* the page's filter, page and page size: its query key
          cache,      \* what React Query holds for each view
          fetch,      \* the list request in flight for each view
          selected,   \* ticked rows
          dialog,     \* the pending confirm
          calls,      \* mutations in flight
          drawer,     \* the job of the detail drawer, its polled status
          events,     \* clicks and faults so far
          ticked,     \* history: the view in which each row was ticked
          removed,    \* history: rows whose removal was answered in this view
          announced   \* history: jobs whose success was announced

vars == <<job, view, cache, fetch, selected, dialog, calls, drawer, events,
          ticked, removed, announced>>
page == <<view, cache, fetch, selected, dialog, calls, drawer, ticked, removed, announced>>

Pages == 1..Cardinality(Jobs)
Views == [filter : Filters, size : Sizes, page : Pages]
Acts == {"retry", "cancel", "remove", "all", "bulk"}

NoRows == [j \in Jobs |-> None]
NoData == [rows |-> NoRows, total |-> 0, invalid |-> TRUE]
NoFetch == [busy |-> FALSE, rows |-> NoRows, total |-> 0]
NoDrawer == [id |-> None, st |-> None]

TypeOK ==
  /\ job \in [Jobs -> Statuses \cup {"gone"}]
  /\ view \in Views
  /\ cache \in [Views -> [rows : [Jobs -> Statuses \cup {None}], total : Nat,
                          invalid : BOOLEAN]]
  /\ fetch \in [Views -> [busy : BOOLEAN, rows : [Jobs -> Statuses \cup {None}],
                          total : Nat]]
  /\ selected \subseteq Jobs
  /\ dialog = None \/ dialog \in [act : Acts, ids : SUBSET Jobs]
  /\ calls \subseteq [n : 1..MaxEvents, act : Acts, ids : SUBSET Jobs,
                      left : SUBSET Jobs]
  /\ drawer \in [id : Jobs \cup {None}, st : Statuses \cup {None}]
  /\ events \in 0..MaxEvents
  /\ ticked \in [Jobs -> Views \cup {None}]
  /\ removed \subseteq Jobs /\ announced \subseteq Jobs

-----------------------------------------------------------------------------
\* Which statuses a row's buttons accept.
cancellable == {"queued", "running"}
retryable == {"failed", "cancelled"}
deletable == {"queued", "success", "failed", "cancelled"}

\* GET /jobs with the view's limit, offset and filter: its rows, newest first,
\* and the total that match.
Matches(jobs, v) == {j \in Jobs : /\ jobs[j] # "gone"
                                  /\ v.filter \in {All, jobs[j]}}
Listed(jobs, v) ==
  LET M == Matches(jobs, v)
      before(j) == Cardinality({k \in M : k > j})
  IN [busy |-> TRUE, total |-> Cardinality(M),
      rows |-> [j \in Jobs |-> IF /\ j \in M
                                  /\ before(j) >= (v.page - 1) * v.size
                                  /\ before(j) < v.page * v.size
                               THEN jobs[j] ELSE None]]

\* What the table shows.
rows == cache[view].rows
Shown == {j \in Jobs : rows[j] # None}
deletableOnPage == {j \in Shown : rows[j] \in deletable}
totalPages == LET n == (cache[view].total + view.size - 1) \div view.size
              IN IF n = 0 THEN 1 ELSE n

Init ==
  /\ job \in Starts
  /\ view \in {v \in Views : v.filter = All /\ v.page = 1}
  /\ cache = [v \in Views |-> NoData]
  /\ fetch = [v \in Views |-> IF v = view THEN Listed(job, v) ELSE NoFetch]
  /\ selected = {}
  /\ dialog = None /\ calls = {} /\ drawer = NoDrawer
  /\ events = 0
  /\ ticked = [j \in Jobs |-> None] /\ removed = {} /\ announced = {}

Event == events < MaxEvents /\ events' = events + 1

-----------------------------------------------------------------------------
\* Fetching.

\* The effect on the rows: a toast for each row that ended since the rows shown
\* before (prevStatusesRef), which may be those of another view.
statusToasts(new) ==
  announced' = announced \cup {j \in Jobs : /\ new[j] = "success"
                                            /\ rows[j] \notin {None, "success"}}

\* Mutant: like the job panels, poll only while a row that can be cancelled is
\* listed.
pollIdle ==
  /\ ~fetch[view].busy /\ \E j \in Jobs : rows[j] \in cancellable
  /\ fetch' = [fetch EXCEPT ![view] = Listed(job, view)]
  /\ UNCHANGED <<job, view, cache, selected, dialog, calls, drawer, events,
                 ticked, removed, announced>>

\* The poll: every 1.5 s when a row is active, else every 10 s; never off.
poll ==
  /\ ~fetch[view].busy
  /\ fetch' = [fetch EXCEPT ![view] = Listed(job, view)]
  /\ UNCHANGED <<job, view, cache, selected, dialog, calls, drawer, events,
                 ticked, removed, announced>>

\* A list arrives, also for a view that was left; or the request fails and the
\* old rows stay.
listAnswered(v) ==
  /\ fetch[v].busy
  /\ fetch' = [fetch EXCEPT ![v] = NoFetch]
  /\ \/ /\ cache' = [cache EXCEPT ![v] = [rows |-> fetch[v].rows, total |-> fetch[v].total,
                                          invalid |-> FALSE]]
        /\ IF v = view THEN statusToasts(fetch[v].rows) ELSE UNCHANGED announced
        /\ UNCHANGED events
     \/ Event /\ UNCHANGED <<cache, announced>>
  /\ UNCHANGED <<job, view, selected, dialog, calls, drawer, ticked, removed>>

\* Mutant: a request in flight is left to answer.
invalidateKeeps ==
  /\ cache' = [v \in Views |-> [cache[v] EXCEPT !.invalid = TRUE]]
  /\ fetch' = IF fetch[view].busy THEN fetch
              ELSE [fetch EXCEPT ![view] = Listed(job, view)]

\* invalidateQueries(["jobs"]): every view is marked; the open one drops its
\* request in flight and sends another.
invalidate ==
  /\ cache' = [v \in Views |-> [cache[v] EXCEPT !.invalid = TRUE]]
  /\ fetch' = [fetch EXCEPT ![view] = Listed(job, view)]

-----------------------------------------------------------------------------
\* The view.

\* Mutant: the effect depends on the filter alone.
selectionOfFilter(v) ==
  IF v.filter # view.filter THEN selected' = {} /\ ticked' = [j \in Jobs |-> None]
  ELSE UNCHANGED <<selected, ticked>>

\* The effect on filter, page and page size that drops the selection.
clearSelection(v) == selected' = {} /\ ticked' = [j \in Jobs |-> None]

\* The rows of another view: what is cached, and a request if that is missing,
\* invalid or old (age is not modelled: it may be either) and none is in flight.
show(v) ==
  /\ view' = v
  /\ \/ fetch' = IF fetch[v].busy THEN fetch ELSE [fetch EXCEPT ![v] = Listed(job, v)]
     \/ ~cache[v].invalid /\ UNCHANGED fetch
  /\ statusToasts(cache[v].rows)
  /\ clearSelection(v)
  /\ removed' = {}
  /\ UNCHANGED <<job, cache, dialog, calls, drawer>>

\* A filter or the page size: back to page 1.
setFilter(f, s) ==
  /\ Event /\ <<f, s>> # <<view.filter, view.size>>
  /\ show([filter |-> f, size |-> s, page |-> 1])

\* The pager: first and previous, next and last.
pager(p) == \/ view.page > 1 /\ p \in {1, view.page - 1}
            \/ view.page < totalPages /\ p \in {view.page + 1, totalPages}

setPage(p) ==
  /\ Event /\ p # view.page /\ pager(p)
  /\ show([view EXCEPT !.page = p])

-----------------------------------------------------------------------------
\* The selection.
tickOnly == <<job, view, cache, fetch, dialog, calls, drawer, removed, announced>>

toggleRow(j) ==
  /\ Event /\ j \in deletableOnPage
  /\ selected' = IF j \in selected THEN selected \ {j} ELSE selected \cup {j}
  /\ ticked' = [ticked EXCEPT ![j] = IF j \in selected THEN None ELSE view]
  /\ UNCHANGED tickOnly

\* All rows that may be deleted, or none when all are ticked.
toggleSelectAll ==
  /\ Event /\ deletableOnPage # {}
  /\ selected' = IF deletableOnPage \subseteq selected THEN {} ELSE deletableOnPage
  /\ ticked' = [j \in Jobs |-> IF j \in selected' THEN view ELSE None]
  /\ UNCHANGED tickOnly

-----------------------------------------------------------------------------
\* Buttons, the dialog and the mutations behind it.
Pending(act) == \E c \in calls : c.act = act

\* Mutant: a dialog that is superseded counts as confirmed.
openBoth(act, ids) ==
  /\ dialog' = [act |-> act, ids |-> ids]
  /\ calls' = IF dialog = None THEN calls
              ELSE calls \cup {[n |-> events', act |-> dialog.act, ids |-> dialog.ids, left |-> dialog.ids]}

\* confirm(): one dialog at a time; the one it replaces resolves as cancelled.
open(act, ids) == dialog' = [act |-> act, ids |-> ids] /\ UNCHANGED calls

clickOnly == <<job, view, cache, fetch, selected, drawer, ticked, removed, announced>>

\* What a row's button asks for; retry asks nothing.
clickRow(act, j) ==
  /\ Event /\ j \in Shown
  /\ rows[j] \in (IF act = "cancel" THEN cancellable ELSE deletable)
  /\ open(act, {j}) /\ UNCHANGED clickOnly

clickRetry(j) ==
  /\ Event /\ j \in Shown /\ rows[j] \in retryable
  /\ calls' = calls \cup {[n |-> events', act |-> "retry", ids |-> {j}, left |-> {j}]}
  /\ UNCHANGED dialog /\ UNCHANGED clickOnly

\* The grid's trash can asks nothing either.
gridRemove(j) ==
  /\ Event /\ j \in deletableOnPage
  /\ calls' = calls \cup {[n |-> events', act |-> "remove", ids |-> {j}, left |-> {j}]}
  /\ UNCHANGED dialog /\ UNCHANGED clickOnly

inFlight == {j \in Shown : rows[j] \in cancellable}

clickCancelAll ==
  /\ Event /\ inFlight # {} /\ ~Pending("all")
  /\ open("all", inFlight) /\ UNCHANGED clickOnly

clickBulk ==
  /\ Event /\ selected # {} /\ ~Pending("bulk")
  /\ open("bulk", selected) /\ UNCHANGED clickOnly

\* What is mutated: the ids the click captured; cancel-all takes the rows that
\* are shown when the dialog is answered.
confirmed == IF dialog.act = "all" THEN inFlight ELSE dialog.ids

close(ok) ==
  /\ Event /\ dialog # None /\ dialog' = None
  /\ calls' = IF ok THEN calls \cup {[n |-> events', act |-> dialog.act, ids |-> confirmed, left |-> confirmed]}
              ELSE calls
  /\ UNCHANGED clickOnly

-----------------------------------------------------------------------------
\* The server takes a request for one job; the bulk one is a single request.
Applied(act, j, st) ==
  CASE act = "retry" /\ st \in retryable -> "queued"
    [] act \in {"cancel", "all"} /\ st \in cancellable \cup {"uploading"} -> "cancelled"
    [] act \in {"remove", "bulk"} /\ st \in deletable -> "gone"
    [] OTHER -> st

serverTakes(c) ==
  /\ c.left # {}
  /\ \E S \in IF c.act = "bulk" THEN {c.left} ELSE {{j} : j \in c.left} :
       /\ job' = [j \in Jobs |-> IF j \in S THEN Applied(c.act, j, job[j]) ELSE job[j]]
       /\ calls' = (calls \ {c}) \cup {[c EXCEPT !.left = @ \ S]}
  /\ UNCHANGED <<view, cache, fetch, selected, dialog, drawer, events, ticked,
                 removed, announced>>

\* The answer: onSuccess refreshes every view; bulk delete drops the whole
\* selection.  A lost answer, or a refusal, refreshes nothing.
answered(c) ==
  /\ c.left = {}
  /\ calls' = calls \ {c}
  /\ \/ /\ invalidate
        /\ removed' = removed \cup {j \in c.ids : c.act \in {"remove", "bulk"} /\ job[j] = "gone"}
        /\ IF c.act = "bulk" THEN selected' = {} /\ ticked' = [j \in Jobs |-> None]
           ELSE UNCHANGED <<selected, ticked>>
        /\ UNCHANGED events
     \/ Event /\ UNCHANGED <<cache, fetch, selected, ticked, removed>>
  /\ UNCHANGED <<job, view, dialog, drawer, announced>>

-----------------------------------------------------------------------------
\* The detail drawer: opened on a row, it polls the job until that has ended.
drawerOnly == <<job, view, cache, fetch, selected, dialog, calls, ticked, removed,
                announced>>

openDrawer(j) ==
  /\ Event /\ drawer.id = None /\ j \in Shown
  /\ drawer' = [id |-> j, st |-> None] /\ UNCHANGED drawerOnly

drawerFollows == drawer.st \notin {"success", "failed", "cancelled"}

pollDrawer ==
  /\ drawer.id # None /\ drawerFollows
  /\ job[drawer.id] # "gone"
  /\ drawer' = [drawer EXCEPT !.st = job[drawer.id]]
  /\ UNCHANGED events /\ UNCHANGED drawerOnly

closeDrawer ==
  /\ drawer.id # None /\ drawer' = NoDrawer
  /\ UNCHANGED events /\ UNCHANGED drawerOnly

-----------------------------------------------------------------------------
\* The workers, elsewhere.
workerStep(j) ==
  /\ \/ job[j] = "queued" /\ job' = [job EXCEPT ![j] = "running"] /\ UNCHANGED events
     \/ job[j] = "running" /\ job' = [job EXCEPT ![j] = "uploading"] /\ UNCHANGED events
     \/ job[j] = "uploading" /\ job' = [job EXCEPT ![j] = "success"] /\ UNCHANGED events
     \/ job[j] = "running" /\ Event /\ job' = [job EXCEPT ![j] = "failed"]
  /\ UNCHANGED page

Answers == (\E v \in Views : listAnswered(v)) \/ (\E c \in calls : serverTakes(c) \/ answered(c))
View == (\E f \in Filters, s \in Sizes : setFilter(f, s)) \/ (\E p \in Pages : setPage(p))
Click == \/ \E j \in Jobs : \/ toggleRow(j) \/ clickRetry(j) \/ gridRemove(j) \/ openDrawer(j)
                            \/ \E act \in {"cancel", "remove"} : clickRow(act, j)
         \/ toggleSelectAll \/ clickCancelAll \/ clickBulk \/ closeDrawer
         \/ \E ok \in BOOLEAN : close(ok)

Next == poll \/ pollDrawer \/ Answers \/ View \/ Click \/ \E j \in Jobs : workerStep(j)

Spec == Init /\ [][Next]_vars

\* Requests are answered, timers fire in an open tab; nobody has to click and
\* no job has to end.
Fairness == /\ WF_vars(poll)
            /\ WF_vars(\E v \in Views : v = view /\ listAnswered(v))
FairSpec == Spec /\ Fairness

-----------------------------------------------------------------------------
(* Properties *)

\* Every ticked row was ticked in the view that is open, whatever was filtered,
\* paged, bulk-deleted or answered since (JobsPage.tsx:29-31).
SelectionOfView == \A j \in selected : ticked[j] = view

\* A row whose deletion was answered in this view may still be shown only while
\* its rows are marked invalid: no list asked for before it brings it back.
RemovedStaysGone == removed \cap Shown # {} => cache[view].invalid

\* However the dialogs follow one another, one bulk delete at a time is under
\* way, and one cancel-all.
OneBulk ==
  \A act \in {"bulk", "all"} : Cardinality({c \in calls : c.act = act}) <= 1

\* A job that the page shows as unfinished and that succeeds is announced,
\* unless its row leaves the page: polls are never off and old answers do not
\* hide the end.
Watching(j) == rows[j] \in {"queued", "running", "uploading"} /\ job[j] = "success"
FinishAnnounced ==
  \A j \in Jobs : Watching(j) ~> (j \in announced \/ rows[j] = None)
=============================================================================
