--------------------------- MODULE JobsPageProofs ---------------------------
(***************************************************************************)
(* Proofs about the jobs page, for any jobs, filters and page sizes, and   *)
(* any number of clicks and network faults.                                *)
(***************************************************************************)
EXTENDS JobsPage, FiniteSetTheorems, TLAPS

-----------------------------------------------------------------------------
\* A removed row is gone, and the request under way does not list it.
RemovedIsGone ==
  \A j \in removed : job[j] = "gone" /\ fetch[view].rows[j] = None

\* A dialog about many jobs is open only while no such call is under way.
DialogExcludes ==
  \A act \in {"bulk", "all"} : dialog # None /\ dialog.act = act => ~Pending(act)

CallsUnique ==
  \A c, d \in calls : c.act = d.act /\ c.act \in {"bulk", "all"} => c = d

PageInv == /\ TypeOK /\ SelectionOfView
           /\ RemovedIsGone /\ RemovedStaysGone
           /\ DialogExcludes /\ CallsUnique

Fetched == [busy : BOOLEAN, rows : [Jobs -> Statuses \cup {None}], total : Nat]

-----------------------------------------------------------------------------
LEMMA ListedType ==
  ASSUME NEW jobs \in [Jobs -> Statuses \cup {"gone"}], NEW v \in Views
  PROVE  /\ Listed(jobs, v) \in Fetched
         /\ \A j \in Jobs : jobs[j] = "gone" => Listed(jobs, v).rows[j] = None
<1> DEFINE M == Matches(jobs, v)
<1>1. Cardinality(M) \in Nat
  <2>1. M \subseteq Jobs
    BY DEF Matches
  <2> QED
    BY <2>1, JobsPageAssumption, FS_Subset, FS_CardinalityType
<1>2. \A j \in M : jobs[j] \in Statuses /\ jobs[j] # "gone"
  BY DEF Matches
<1> DEFINE before(j) == Cardinality({k \in M : k > j})
           on(j) == /\ j \in M
                    /\ before(j) >= (v.page - 1) * v.size
                    /\ before(j) < v.page * v.size
           r == [j \in Jobs |-> IF on(j) THEN jobs[j] ELSE None]
<1>3. \A j \in Jobs : on(j) => j \in M
  OBVIOUS
<1>4. Listed(jobs, v) = [busy |-> TRUE, total |-> Cardinality(M), rows |-> r]
  BY DEF Listed
<1> HIDE DEF M, on
<1>5. /\ r \in [Jobs -> Statuses \cup {None}]
      /\ \A j \in Jobs : jobs[j] = "gone" => r[j] = None
  BY <1>2, <1>3
<1> HIDE DEF r
<1> QED
  BY <1>1, <1>4, <1>5 DEF Fetched

LEMMA PageInit == Init => PageInv
<1> SUFFICES ASSUME Init PROVE PageInv
  OBVIOUS
<1>1. view \in Views /\ job \in [Jobs -> Statuses \cup {"gone"}]
  BY JobsPageAssumption DEF Init
<1>2. NoFetch \in Fetched /\ Listed(job, view) \in Fetched
  BY <1>1, ListedType DEF NoFetch, NoRows, Fetched
<1>3. fetch \in [Views -> Fetched]
  BY <1>2 DEF Init
<1>4. cache \in [Views -> [rows : [Jobs -> Statuses \cup {None}], total : Nat,
                          invalid : BOOLEAN]]
  BY DEF Init, NoData, NoRows
<1>5. TypeOK
  BY <1>1, <1>3, <1>4, JobsPageAssumption DEF Init, TypeOK, Fetched, NoDrawer
<1>6. Shown = {}
  BY <1>1 DEF Init, Shown, rows, NoData, NoRows
<1> QED
  BY <1>5, <1>6 DEF Init, PageInv, SelectionOfView, RemovedIsGone, RemovedStaysGone,
                    DialogExcludes, CallsUnique, Pending

-----------------------------------------------------------------------------
(* What a step leaves alone keeps its part of the invariant.               *)

LEMMA ListApart ==
  ASSUME PageInv, UNCHANGED <<job, view, cache, fetch, removed>>
  PROVE  RemovedIsGone' /\ RemovedStaysGone'
BY DEF PageInv, RemovedIsGone, RemovedStaysGone, Shown, rows

LEMMA SelectionApart ==
  ASSUME PageInv, UNCHANGED <<view, selected, ticked>>
  PROVE  SelectionOfView'
BY DEF PageInv, SelectionOfView

LEMMA CallsApart ==
  ASSUME PageInv, UNCHANGED <<dialog, calls>>
  PROVE  DialogExcludes' /\ CallsUnique'
BY DEF PageInv, DialogExcludes, CallsUnique, Pending

\* A request for the open view.
LEMMA RequestStep ==
  ASSUME PageInv, NEW v \in Views, fetch' = [fetch EXCEPT ![v] = Listed(job, v)]
  PROVE  /\ fetch' \in [Views -> Fetched]
         /\ \A j \in Jobs : job[j] = "gone" => fetch'[v].rows[j] = None
         /\ \A w \in Views : w # v => fetch'[w] = fetch[w]
<1>1. job \in [Jobs -> Statuses \cup {"gone"}] /\ fetch \in [Views -> Fetched]
  BY DEF PageInv, TypeOK, Fetched
<1> QED
  BY <1>1, ListedType

LEMMA EventType ==
  ASSUME TypeOK, Event
  PROVE  events' \in 1..MaxEvents /\ events' \in 0..MaxEvents
BY JobsPageAssumption DEF TypeOK, Event

LEMMA PollStep ==
  ASSUME PageInv, poll
  PROVE  PageInv'
<1>0. TypeOK /\ view \in Views
  BY DEF PageInv, TypeOK
<1>1. /\ fetch' = [fetch EXCEPT ![view] = Listed(job, view)]
      /\ UNCHANGED <<job, view, cache, selected, dialog, calls, drawer, events,
                     ticked, removed, announced>>
  BY DEF poll
<1>2. TypeOK'
  BY <1>0, <1>1, RequestStep DEF TypeOK, Fetched
<1>3. RemovedIsGone' /\ RemovedStaysGone'
  BY <1>0, <1>1, RequestStep
     DEF PageInv, RemovedIsGone, RemovedStaysGone, Shown, rows, TypeOK
<1> QED
  BY <1>1, <1>2, <1>3, SelectionApart, CallsApart DEF PageInv

LEMMA ListAnsweredStep ==
  ASSUME PageInv, NEW v \in Views, listAnswered(v)
  PROVE  PageInv'
<1>0. TypeOK /\ view \in Views
  BY DEF PageInv, TypeOK
<1>1. /\ fetch' = [fetch EXCEPT ![v] = NoFetch]
      /\ UNCHANGED <<job, view, selected, dialog, calls, drawer, ticked, removed>>
  BY DEF listAnswered
<1>2. PICK c \in {cache, [cache EXCEPT ![v] = [rows |-> fetch[v].rows,
                                               total |-> fetch[v].total, invalid |-> FALSE]]} :
        cache' = c
  BY DEF listAnswered
<1>3. events' \in 0..MaxEvents /\ announced' \subseteq Jobs
  <2>1. events' \in 0..MaxEvents
    BY <1>0, EventType DEF listAnswered, TypeOK
  <2>2. announced' = announced \/ statusToasts(fetch[v].rows)
    BY DEF listAnswered
  <2> QED
    BY <2>1, <2>2, <1>0 DEF statusToasts, TypeOK
<1>4. NoFetch \in Fetched
  BY DEF NoFetch, NoRows, Fetched
<1>5. cache' \in [Views -> [rows : [Jobs -> Statuses \cup {None}], total : Nat,
                           invalid : BOOLEAN]]
  <2>1. [rows |-> fetch[v].rows, total |-> fetch[v].total, invalid |-> FALSE]
          \in [rows : [Jobs -> Statuses \cup {None}], total : Nat, invalid : BOOLEAN]
    BY <1>0 DEF TypeOK
  <2> QED
    BY <2>1, <1>0, <1>2 DEF TypeOK
<1>6. TypeOK'
  BY <1>0, <1>1, <1>3, <1>4, <1>5 DEF TypeOK, Fetched
<1>7. RemovedIsGone'
  BY <1>0, <1>1 DEF PageInv, RemovedIsGone, TypeOK, NoFetch, NoRows
<1>8. RemovedStaysGone'
  <2>1. CASE cache'[view] = cache[view]
    BY <2>1, <1>1 DEF PageInv, RemovedStaysGone, Shown, rows
  <2>2. CASE cache'[view].rows = fetch[view].rows
    BY <2>2, <1>1 DEF PageInv, RemovedStaysGone, RemovedIsGone, Shown, rows
  <2> QED
    BY <2>1, <2>2, <1>0, <1>2 DEF TypeOK
<1> QED
  BY <1>1, <1>6, <1>7, <1>8, SelectionApart, CallsApart DEF PageInv

LEMMA ShowStep ==
  ASSUME PageInv, NEW v \in Views, Event, show(v)
  PROVE  PageInv'
<1>0. TypeOK
  BY DEF PageInv
<1>1. /\ view' = v /\ selected' = {} /\ ticked' = [j \in Jobs |-> None] /\ removed' = {}
      /\ UNCHANGED <<job, cache, dialog, calls, drawer>>
  BY DEF show, clearSelection
<1>2. announced' \subseteq Jobs /\ events' \in 0..MaxEvents
  <2>1. events' \in 0..MaxEvents
    BY <1>0, EventType
  <2>2. statusToasts(cache[v].rows)
    BY DEF show
  <2> QED
    BY <2>1, <2>2, <1>0 DEF statusToasts, TypeOK
<1>3. fetch' \in [Views -> Fetched]
  <2>1. fetch' = fetch \/ fetch' = [fetch EXCEPT ![v] = Listed(job, v)]
    BY DEF show
  <2> QED
    BY <2>1, <1>0, RequestStep DEF TypeOK, Fetched
<1>4. TypeOK'
  BY <1>0, <1>1, <1>2, <1>3 DEF TypeOK, Fetched
<1>5. SelectionOfView' /\ RemovedIsGone' /\ RemovedStaysGone'
  BY <1>1 DEF SelectionOfView, RemovedIsGone, RemovedStaysGone
<1> QED
  BY <1>1, <1>4, <1>5, CallsApart DEF PageInv

LEMMA ViewStep ==
  ASSUME PageInv, View
  PROVE  PageInv'
<1>0. view \in Views
  BY DEF PageInv, TypeOK
<1>1. ASSUME NEW f \in Filters, NEW s \in Sizes, setFilter(f, s) PROVE PageInv'
  <2>1. 1 \in Pages
    <3>1. IsFiniteSet(Jobs) /\ Jobs # {}
      BY JobsPageAssumption
    <3>2. Cardinality(Jobs) \in Nat /\ Cardinality(Jobs) # 0
      BY <3>1, FS_EmptySet, FS_CardinalityType
    <3> QED
      BY <3>2 DEF Pages
  <2>2. [filter |-> f, size |-> s, page |-> 1] \in Views
    BY <2>1 DEF Views
  <2> QED
    BY <1>1, <2>2, ShowStep DEF setFilter
<1>2. ASSUME NEW p \in Pages, setPage(p) PROVE PageInv'
  <2>1. [view EXCEPT !.page = p] \in Views
    BY <1>0 DEF Views
  <2> QED
    BY <1>2, <2>1, ShowStep DEF setPage
<1> QED
  BY <1>1, <1>2 DEF View

-----------------------------------------------------------------------------
LEMMA TickStep ==
  ASSUME PageInv, (\E j \in Jobs : toggleRow(j)) \/ toggleSelectAll
  PROVE  PageInv'
<1>0. TypeOK /\ view \in Views
  BY DEF PageInv, TypeOK
<1>1. /\ UNCHANGED <<job, view, cache, fetch, dialog, calls, drawer, removed, announced>>
      /\ events' \in 0..MaxEvents
  BY <1>0, JobsPageAssumption DEF toggleRow, toggleSelectAll, tickOnly, Event, TypeOK
<1>2. deletableOnPage \subseteq Jobs
  BY DEF deletableOnPage, Shown
<1>3. /\ selected' \subseteq Jobs /\ ticked' \in [Jobs -> Views \cup {None}]
      /\ SelectionOfView'
  <2>1. ASSUME NEW j \in Jobs, toggleRow(j)
        PROVE  /\ selected' \subseteq Jobs /\ ticked' \in [Jobs -> Views \cup {None}]
               /\ SelectionOfView'
    BY <1>0, <1>1, <2>1 DEF toggleRow, SelectionOfView, PageInv, TypeOK
  <2>2. CASE toggleSelectAll
    BY <1>0, <1>1, <1>2, <2>2 DEF toggleSelectAll, SelectionOfView
  <2> QED
    BY <2>1, <2>2
<1>4. TypeOK'
  BY <1>0, <1>1, <1>3 DEF TypeOK
<1> QED
  BY <1>1, <1>3, <1>4, ListApart, CallsApart DEF PageInv

\* The dialog is put up, replaced or answered, or a call leaves.
LEMMA DialogStep ==
  ASSUME PageInv, Event, UNCHANGED clickOnly,
         \/ /\ \E act \in Acts, ids \in SUBSET Jobs :
                 /\ act \in {"bulk", "all"} => ~Pending(act)
                 /\ dialog' = [act |-> act, ids |-> ids]
            /\ UNCHANGED calls
         \/ /\ \E act \in {"retry", "remove"}, ids \in SUBSET Jobs :
                 calls' = calls \cup {[n |-> events', act |-> act, ids |-> ids, left |-> ids]}
            /\ UNCHANGED dialog
         \/ dialog' = None /\ UNCHANGED calls
         \/ /\ dialog # None /\ dialog' = None
            /\ calls' = calls \cup {[n |-> events', act |-> dialog.act, ids |-> confirmed,
                                     left |-> confirmed]}
  PROVE  PageInv'
<1>0. TypeOK
  BY DEF PageInv
<1>1. /\ UNCHANGED <<job, view, cache, fetch, selected, drawer, ticked, removed, announced>>
      /\ events' \in 1..MaxEvents
  BY <1>0, JobsPageAssumption DEF clickOnly, Event, TypeOK
<1>2. dialog # None => confirmed \in SUBSET Jobs
  BY <1>0 DEF confirmed, inFlight, Shown, TypeOK
<1>3. /\ dialog' = None \/ dialog' \in [act : Acts, ids : SUBSET Jobs]
      /\ calls' \subseteq [n : 1..MaxEvents, act : Acts, ids : SUBSET Jobs, left : SUBSET Jobs]
  BY <1>0, <1>1, <1>2 DEF TypeOK, Acts
<1>4. TypeOK'
  BY <1>0, <1>1, <1>3 DEF TypeOK
<1>5. DialogExcludes' /\ CallsUnique'
  BY <1>0 DEF PageInv, DialogExcludes, CallsUnique, Pending
<1> QED
  BY <1>1, <1>4, <1>5, ListApart, SelectionApart DEF PageInv

LEMMA ClickStep ==
  ASSUME PageInv, Click
  PROVE  PageInv'
<1>0. TypeOK
  BY DEF PageInv
<1>1. CASE \E j \in Jobs : clickRetry(j) \/ gridRemove(j)
  BY <1>1, DialogStep DEF clickRetry, gridRemove
<1>2. CASE \E j \in Jobs, act \in {"cancel", "remove"} : clickRow(act, j)
  <2>1. PICK j \in Jobs, act \in {"cancel", "remove"} :
          Event /\ open(act, {j}) /\ UNCHANGED clickOnly
    BY <1>2 DEF clickRow
  <2> QED
    BY <2>1, DialogStep DEF open, Acts
<1>3. CASE clickCancelAll
  <2>1. inFlight \in SUBSET Jobs
    BY DEF inFlight, Shown
  <2> QED
    BY <1>3, <2>1, DialogStep DEF clickCancelAll, open, Acts
<1>4. CASE clickBulk
  BY <1>0, <1>4, DialogStep DEF clickBulk, open, Acts, TypeOK
<1>5. CASE \E ok \in BOOLEAN : close(ok)
  BY <1>5, DialogStep DEF close
<1>6. CASE closeDrawer \/ \E j \in Jobs : openDrawer(j)
  <2>1. /\ UNCHANGED <<job, view, cache, fetch, selected, dialog, calls, ticked, removed,
                       announced>>
        /\ events' \in 0..MaxEvents
        /\ drawer' \in [id : Jobs \cup {None}, st : Statuses \cup {None}]
    BY <1>0, <1>6, JobsPageAssumption
       DEF closeDrawer, openDrawer, drawerOnly, Event, TypeOK, NoDrawer
  <2>2. TypeOK'
    BY <1>0, <2>1 DEF TypeOK
  <2> QED
    BY <2>1, <2>2, ListApart, SelectionApart, CallsApart DEF PageInv
<1> QED
  BY <1>1, <1>2, <1>3, <1>4, <1>5, <1>6, TickStep DEF Click

-----------------------------------------------------------------------------
LEMMA ServerTakesStep ==
  ASSUME PageInv, NEW c \in calls, serverTakes(c)
  PROVE  PageInv'
<1>0. TypeOK
  BY DEF PageInv
<1>1. PICK S \in SUBSET c.left :
        /\ job' = [j \in Jobs |-> IF j \in S THEN Applied(c.act, j, job[j]) ELSE job[j]]
        /\ calls' = (calls \ {c}) \cup {[c EXCEPT !.left = @ \ S]}
  BY DEF serverTakes
<1>2. UNCHANGED <<view, cache, fetch, selected, dialog, drawer, events, ticked,
                  removed, announced>>
  BY DEF serverTakes
<1>3. \A act, j, st : /\ st \in Statuses \cup {"gone"}
                           => Applied(act, j, st) \in Statuses \cup {"gone"}
                      /\ st = "gone" => Applied(act, j, st) = "gone"
  BY DEF Applied, Statuses, retryable, cancellable, deletable
<1>4. /\ job' \in [Jobs -> Statuses \cup {"gone"}]
      /\ \A j \in Jobs : job[j] = "gone" => job'[j] = "gone"
  BY <1>0, <1>1, <1>3 DEF TypeOK
<1> DEFINE d == [c EXCEPT !.left = @ \ S]
<1>5. /\ d \in [n : 1..MaxEvents, act : Acts, ids : SUBSET Jobs, left : SUBSET Jobs]
      /\ d.act = c.act
  <2>1. c \in [n : 1..MaxEvents, act : Acts, ids : SUBSET Jobs, left : SUBSET Jobs]
    BY <1>0 DEF TypeOK
  <2>2. c.left \ S \in SUBSET Jobs
    BY <2>1
  <2>3. d = [n |-> c.n, act |-> c.act, ids |-> c.ids, left |-> c.left \ S]
    BY <2>1
  <2> HIDE DEF d
  <2> QED
    BY <2>1, <2>2, <2>3
<1> HIDE DEF d
<1>6. TypeOK'
  BY <1>0, <1>1, <1>2, <1>4, <1>5 DEF TypeOK, d
<1>7. RemovedIsGone' /\ RemovedStaysGone'
  BY <1>0, <1>2, <1>4 DEF PageInv, RemovedIsGone, RemovedStaysGone, Shown, rows, TypeOK
<1>8. calls' = (calls \ {c}) \cup {d}
  BY <1>1 DEF d
<1>9. DialogExcludes' /\ CallsUnique'
  BY <1>2, <1>5, <1>8 DEF PageInv, DialogExcludes, CallsUnique, Pending
<1> QED
  BY <1>2, <1>6, <1>7, <1>9, SelectionApart DEF PageInv

LEMMA AnsweredStep ==
  ASSUME PageInv, NEW c \in calls, answered(c)
  PROVE  PageInv'
<1>0. TypeOK /\ view \in Views
  BY DEF PageInv, TypeOK
<1>1. /\ calls' = calls \ {c}
      /\ UNCHANGED <<job, view, dialog, drawer, announced>>
  BY DEF answered
<1>2. DialogExcludes' /\ CallsUnique'
  BY <1>1 DEF PageInv, DialogExcludes, CallsUnique, Pending
<1>3. CASE Event /\ UNCHANGED <<cache, fetch, selected, ticked, removed>>
  <2>1. TypeOK'
    BY <1>0, <1>1, <1>3, JobsPageAssumption DEF TypeOK, Event
  <2> QED
    BY <2>1, <1>1, <1>2, <1>3, ListApart, SelectionApart DEF PageInv
<1>4. CASE /\ invalidate
           /\ removed' = removed \cup
                          {j \in c.ids : c.act \in {"remove", "bulk"} /\ job[j] = "gone"}
           /\ IF c.act = "bulk" THEN selected' = {} /\ ticked' = [j \in Jobs |-> None]
              ELSE UNCHANGED <<selected, ticked>>
           /\ UNCHANGED events
  <2>1. /\ cache' = [v \in Views |-> [cache[v] EXCEPT !.invalid = TRUE]]
        /\ fetch' = [fetch EXCEPT ![view] = Listed(job, view)]
    BY <1>4 DEF invalidate
  <2>2. /\ cache' \in [Views -> [rows : [Jobs -> Statuses \cup {None}], total : Nat,
                                 invalid : BOOLEAN]]
        /\ cache'[view].invalid = TRUE
    <3> DEFINE R == [rows : [Jobs -> Statuses \cup {None}], total : Nat, invalid : BOOLEAN]
               x(v) == [cache[v] EXCEPT !.invalid = TRUE]
    <3>1. ASSUME NEW c0 \in R
          PROVE  /\ [c0 EXCEPT !.invalid = TRUE] \in R
                 /\ [c0 EXCEPT !.invalid = TRUE].invalid = TRUE
      OBVIOUS
    <3>2. \A v \in Views : cache[v] \in R
      BY <1>0 DEF TypeOK
    <3>3. \A v \in Views : x(v) \in R /\ x(v).invalid = TRUE
      BY <3>1, <3>2
    <3>4. cache' = [v \in Views |-> x(v)]
      BY <2>1
    <3> HIDE DEF x, R
    <3>5. cache' \in [Views -> R] /\ cache'[view].invalid = TRUE
      BY <1>0, <3>3, <3>4
    <3> QED
      BY <3>5 DEF R
  <2>3. removed' \subseteq Jobs /\ \A j \in removed' : job[j] = "gone"
    BY <1>0, <1>4 DEF PageInv, RemovedIsGone, TypeOK
  <2>4. /\ selected' \subseteq Jobs /\ ticked' \in [Jobs -> Views \cup {None}]
        /\ SelectionOfView'
    BY <1>0, <1>1, <1>4 DEF PageInv, TypeOK, SelectionOfView
  <2>5. TypeOK'
    BY <1>0, <1>1, <1>4, <2>1, <2>2, <2>3, <2>4, RequestStep DEF TypeOK, Fetched
  <2>6. RemovedIsGone' /\ RemovedStaysGone'
    BY <1>0, <1>1, <2>1, <2>2, <2>3, RequestStep DEF RemovedIsGone, RemovedStaysGone
  <2> QED
    BY <1>2, <2>4, <2>5, <2>6 DEF PageInv
<1> QED
  BY <1>3, <1>4 DEF answered

LEMMA ElsewhereStep ==
  ASSUME PageInv, pollDrawer \/ \E j \in Jobs : workerStep(j)
  PROVE  PageInv'
<1>0. TypeOK
  BY DEF PageInv
<1>1. CASE pollDrawer
  <2>1. /\ UNCHANGED <<job, view, cache, fetch, selected, dialog, calls, ticked, removed,
                       announced, events>>
        /\ drawer' \in [id : Jobs \cup {None}, st : Statuses \cup {None}]
    BY <1>0, <1>1 DEF pollDrawer, drawerOnly, TypeOK
  <2>2. TypeOK'
    BY <1>0, <2>1 DEF TypeOK
  <2> QED
    BY <2>1, <2>2, ListApart, SelectionApart, CallsApart DEF PageInv
<1>2. CASE \E j \in Jobs : workerStep(j)
  <2>1. /\ UNCHANGED <<view, cache, fetch, selected, dialog, calls, drawer, ticked, removed,
                       announced>>
        /\ events' \in 0..MaxEvents
    BY <1>0, <1>2, JobsPageAssumption DEF workerStep, page, Event, TypeOK
  <2>2. /\ job' \in [Jobs -> Statuses \cup {"gone"}]
        /\ \A j \in Jobs : job[j] = "gone" => job'[j] = "gone"
    BY <1>0, <1>2 DEF workerStep, TypeOK, Statuses
  <2>3. TypeOK'
    BY <1>0, <2>1, <2>2 DEF TypeOK
  <2>4. RemovedIsGone' /\ RemovedStaysGone'
    BY <1>0, <2>1, <2>2 DEF PageInv, RemovedIsGone, RemovedStaysGone, Shown, rows, TypeOK
  <2> QED
    BY <2>1, <2>3, <2>4, SelectionApart, CallsApart DEF PageInv
<1> QED
  BY <1>1, <1>2

LEMMA PageStep ==
  ASSUME PageInv, [Next]_vars
  PROVE  PageInv'
<1>1. CASE UNCHANGED vars
  <2>1. TypeOK'
    BY <1>1 DEF vars, PageInv, TypeOK
  <2> QED
    BY <1>1, <2>1, ListApart, SelectionApart, CallsApart DEF vars, PageInv
<1>2. CASE Answers
  BY <1>2, ListAnsweredStep, ServerTakesStep, AnsweredStep DEF Answers
<1> QED
  BY <1>1, <1>2, PollStep, ViewStep, ClickStep, ElsewhereStep DEF Next

LEMMA PageInvariant == Spec => []PageInv
BY PageInit, PageStep, PTL DEF Spec

-----------------------------------------------------------------------------
\* The variables of the page have their types.
THEOREM PageTypes == Spec => []TypeOK
BY PageInvariant, PTL DEF PageInv

\* A ticked row was ticked in the view that is open: every way to another view
\* (the effect of clearSelection, JobsPage.tsx:29-31) drops the selection.
THEOREM TickedInView == Spec => []SelectionOfView
BY PageInvariant, PTL DEF PageInv

\* No list asked for before a deletion was answered brings the row back.
THEOREM RemovedNotShown == Spec => []RemovedStaysGone
BY PageInvariant, PTL DEF PageInv

\* One bulk delete at a time, and one cancel-all, however dialogs follow.
THEOREM OneBulkAtATime == Spec => []OneBulk
<1>1. PageInv => OneBulk
  <2> SUFFICES ASSUME PageInv, NEW act \in {"bulk", "all"}
               PROVE  Cardinality({c \in calls : c.act = act}) <= 1
    BY DEF OneBulk
  <2> DEFINE S == {c \in calls : c.act = act}
  <2>1. \A c, d \in S : c = d
    BY DEF PageInv, CallsUnique
  <2>2. S = {} \/ \E c : S = {c}
    BY <2>1
  <2> HIDE DEF S
  <2>3. Cardinality(S) \in {0, 1}
    BY <2>2, FS_EmptySet, FS_Singleton
  <2> QED
    BY <2>3 DEF S
<1> QED
  BY <1>1, PageInvariant, PTL
=============================================================================
