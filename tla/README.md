# Formal models of Flowgrok

TLA+ models of Flowgrok. Of the backend: the job queue and its worker, the
slots of the browser profiles, and the limits a submitted job has to pass. Of
the web client: signing in and the route guards, the panels that submit jobs in
batches, the jobs page, the dialog that creates a job, and every dashboard
screen as a client of the query cache. TLC checks them on small instances,
TLAPS proves the properties that matter most for every value of the constants.
Backend paths are relative to `src/backend/app/`, paths ending in `.ts` or
`.tsx` to `src/frontend/src/`; leading directories are dropped where the rest
names one file.

## 1. The system

Flowgrok runs image and video jobs in browsers that are logged in to an
external site. `src/docker-compose.yml` starts two gunicorn processes of the
FastAPI backend (which also run the watchdogs), one worker, one idle-cleanup
loop, PostgreSQL, Redis and nginx, all with `restart: unless-stopped`. The
processes share nothing but the database (and the containers of the browsers):
every interaction below is two of them writing the same row.

| Component | State | Operations | Correct when |
|---|---|---|---|
| Job queue and worker (`workers/run.py`) | `jobs` rows: status, profile, retry_count, max_retry, next_attempt_at, `_banned_profiles`; one asyncio task and one session per attempt | claim, refresh, bind a profile, run, judge, webhook, commit; cancel watcher; startup recovery | no row is forgotten, run twice at a time, or run more often than paid for |
| Owners' requests (`modules/grok/jobs`) | the same rows | create, cancel, retry, delete, bulk delete, edit | a request never undoes what the worker did meanwhile |
| Profile slots (`run.py`, `core/profile_slots.py`) | `profiles` rows: active_jobs, active_video_jobs, status | acquire and release, for video jobs (worker) and image tabs (provider) | counters equal the tabs that are open, never pass the caps |
| Profile administration (`modules/grok/profiles`) | the same rows | update, upload, check, open, finish, stop, disable, start VNC, resets | a status change does not disturb the counters, a reset is respected |
| Idle cleanup and heal (`workers/idle_cleanup.py`) | the same rows | stop idle browsers, repair counters | lost slots come back |
| Watchdogs (`services/profile_relogin_watchdog.py`, `services/vnc_cdp_watchdog.py`) | the same rows; failure counters in memory | log in again, restart a dead browser | they touch idle profiles only, clear dead ones |
| Daily quota (`services/domain_quota.py`) | a counter per domain or install and period | reserve, refuse; edits of caps and reset hours | a counter equals what was charged to it and never admits more than the cap |
| Plan limits (`modules/entitlements`) | counts over `jobs` | concurrent, daily and monthly limits; plan resolution | limits hold under concurrent submissions |
| Public API (`modules/landing/public_v1`, `client_api`, `core/rate_limit.py`, `workers/daily_reset.py`) | api_keys.used_today, Redis windows | submit, count, reset | a key's limits hold, its jobs count against the tenant |
| Billing (`modules/landing/billing`, `modules/admin/routers/subscriptions.py`) | subscriptions, payments, invoices | checkout, confirm, cancel | one paid period per payment, unique invoice numbers, access ends when it should |
| VNC containers (`browser/vnc_manager.py`, keeper, tab GC, event listener) | one container per profile | start, reuse, stop, reap | one container per profile, none kept for a deleted one |
| Webhooks (`workers/webhook.py`) | none | three tries with backoff | every end of a job is announced |
| Project routing (`modules/grok/projects`) | projects, assignments to tenants, installs, users | assign, create, re-map | a tenant's job stays in its own projects |
| Providers (`providers/`) | browser tabs | run a prompt | external: any result |
| Authentication, roles, keys, admin CRUD, dashboard, gallery, audit, notifications, files, nginx, tenant modules, server monitor, migrations | single rows, files | reads and single-row writes | not modelled: no interaction a model would tell more about than a test |
| HTTP client and session (`core/api`, `core/auth`, `core/domain`, `components/layout`, `modules/auth`, `AdminGuard.tsx`) | auth store, domain store, location, calls in flight | sign in, second factor, register, sign out, retry, 401 interceptor, guards | the stored user is the token's, admin pages need a fresh check, nothing is posted twice |
| Permissions (`core/permissions.ts`, sidebar) | none | which path, feature and landing page for which user | guards and landing pages agree |
| Video workspace (`modules/grok/views/cvp-panels`) | drafts, reference image, batch loop, cached job list | edit, Start, Stop, submit in chunks, cancel, retry, remove | no prompt is lost, none is sent twice, a batch ends |
| Jobs page (`modules/grok/views/JobsPage.tsx`) | filter, page, selection, dialog, cache | filter, tick, bulk delete, cancel all, retry, detail drawer | what is deleted is what was ticked, and stays gone |
| Create-job dialog (`modules/grok/components/CreateJobModal.tsx`) | form, reference uploads | fields, effects, uploads, submit | what is sent fits the profile, the project and, for what the dialog resets, the plan |
| Dashboard screens (`modules/admin`, `modules/grok`, `modules/landing`) | query cache | read, write, invalidate, poll | a list catches up with what was saved |
| Playground, repositories, static pages, locales | page state | single requests, texts | not modelled |

What makes it hard:

- **Stale copies.** SQLAlchemy sessions are created with
  `expire_on_commit=False` (`core/database.py:48`). An object loaded once is
  handed out again by `db.get`, also with `with_for_update=True`: the lock is
  taken, the values stay old. A flush writes the columns that differ from the
  loaded ones, computed from the old values.
- **Check, then act.** The handlers of owners and administrators read a row,
  decide, and write later; nothing in the write repeats the check.
- **Concurrency in one process.** Attempts are asyncio tasks; all of them and
  the cancel watcher interleave at every await.
- **Crashes.** A worker that dies leaves rows in flight and slots counted; the
  next one repairs them, and takes every row in flight for an orphan.
- **Order of effects.** The webhook is sent before the commit that makes the
  status true; the slot and the job are committed together.
- **Late answers.** Between a click and its answer the user of the web client
  signs out, turns the page, changes the filter, presses Stop or removes an
  image; closures keep the values of the render they were made in.
- **Lost requests and answers.** During a deploy the proxy answers 502 with or
  without the backend having handled the request.
- **Effects that answer effects.** Redirects and form corrections run after a
  render, may trigger one another, and see the values of that render.

## 2. The modules

    JobContract          abstract: what the queue promises about a job
      ^ implemented by
    JobLifecycle         jobs, attempts, owners, crashes      MCJobLifecycle
      ^ proved about in
    JobLifecycleProofs

    SlotGate             abstract: a semaphore
      ^ implemented by
    ProfileSlots         one profile's row and who writes it  MCProfileSlots
    ProfileSlotsProofs

    QuotaLedger          abstract: a request is charged once, within the cap
      ^ implemented by
    JobAdmission         limits a submission has to pass      MCJobAdmission
    JobAdmissionProofs

    Access               permissions, landing page, sidebar
    ApiClient            one HTTP call: retries, lost answers
      both extended by
    Session              a browser tab from sign-in to sign-out  MCSession
    SessionProofs

    Workspace            one job panel                    MCWorkspace
    WorkspaceProofs
    JobsPage             one page of a filtered list      MCJobsPage
    JobsPageProofs
    CreateJob            the create dialog                MCCreateJob
    CreateJobProofs

    Screens              what each screen reads, writes, invalidates
    QueryCache           a screen over the query cache    MCScreens (both)
    QueryCacheProofs

### JobLifecycle

`job[j]` is the committed row; `uploading_result` is never written by the code
and left out. `task[t]` is one `process_one` with the columns its session has
loaded. An attempt goes through the transactions of the code:

    Claim     _pick_job (SKIP LOCKED, priority order) and status "running"
    Refresh   db.refresh, return if cancelled
    Assign    alternate profile, video slot or hot failover, requeue, first commit
    Begin     second commit: "processing_provider", whatever the row says
    ProviderEnds / WatcherCancels   the result, or the abort of the watcher
    Settle    the verdict is flushed: the row is locked from here
    Notify    the webhook, inside the transaction
    Commit    row and slot

`Judge` is the decision tree after a failed run (rotate, back off, fail) and
`Written` the columns it writes from the session's copy. `RowGone` is an
attempt whose row was deleted under it, `TaskFault` a database error: the
session is rolled back, later statements of `process_one` fail as well, and the
loop's catch-all does not touch the row. `Crash` and `Start` are the worker
process and `_startup_recovery`. `ReadRow` and `WriteRow` are the two halves of
the owners' handlers; several may be between the two. `pool` is the set of
profiles in a usable status and changes at any time. Profile slots are left
open here: `Assign` may always requeue a video job.

Ghosts: `runs` (provider runs), `hooks` (events sent), `stranded` (rows left in
flight by an attempt a database error killed).

### ProfileSlots

One profile's row. Raw UPDATEs (`AcquireVideo`, `AcquireImage`, the watchdogs)
compute from the row; everything else goes through `Flush`, the ORM's rule
above. A video attempt keeps the copy loaded when it took the slot until
`ReleaseVideo`; an image attempt takes a slot for the time of its tab only and
releases it in two steps (`ReadForRelease`, `ReleaseImage`). `Load`, `Store`
and `GiveUp` are the operations of administrators and background loops, listed
in `FlushOps` and `RawOps`: each reads the row, waits (for a container, a
probe, a lock) and writes. `LoseSlot` is an attempt that ends without its
release. Not modelled: the helper's cookie upload, which raises a NameError
before it writes anything (`modules/grok/profiles/router.py:473`), and edits of
the caps.

### JobAdmission

One request record walks through authentication (`Arrive`: the user's domain,
or the key, is loaded here), the plan limits, scope resolution, the upsert,
the comparison, and the creation of the job; the record then stands for the
job. `Upsert` to `Reserve` or `Refuse` is one transaction: `RowFree` is the row
lock of the counter. `Die` rolls an open transaction back. `PeriodDate` is the
date of the period with a configurable reset hour; days have `Hours` hours. The
window of the last day is measured in the same clock. The minute window of the
API keys lives in Redis and appears as a refusal at any time; the 30-day limit
of `assert_quota` is the same check as the daily one and is left out.
`DailyReset` is the cron job; that it runs at midnight is not assumed.

### ApiClient, Access, Session

`call[c]` is one request from `request()` to what its caller gets: sent,
handled by the backend or not, answered or lost, in the backoff of the retry
interceptor, and last rejected or returned. Token and body are those of the
moment it is sent again: the interceptor reads the store. `Access` translates
`permissions.ts`, `isPageAllowed` and the sidebar's filter as pure operators on
paths. `Session` is one tab: `token` and `user` are the auth store, `config`
the domain store, `routeFor` and `guard` what `ProtectedRoute` and `AdminGuard`
remember, `needTotp` the credentials `LoginPage` keeps for its second form.
`Redirect` goes one step from `loc` to `Target`, which is what the routes render
for this store; answers may arrive between two steps. An effect whose
dependencies changed leaves its call behind as `"stale"`, no longer live. A page
that a guard replaces at its own address (maintenance, a closed login) is unmounted
like one that is left (`stays`): its form, and what it waited for, are gone.
`endsSession` is the interceptor of `axios.ts`; `answerMe` and `answerSignIn` are the
handlers of `modules/auth/router.py`. No caller sends the header X-Retry-On-502
(`core/api/retry.ts:56`), which would have a post repeated; it is left out. `setRole`, `expire` and
`editSite` are the server's. `Pages` are the addresses a tab can ever show:
entrances, pages of the program, pages a domain allows.

### Workspace

One panel of the Create Video Pro page; the five kinds differ in the record
`panel`. `draft[d]` is a row of the drafts table, `job[j]` a job on the server,
`seen[j]` what the cached list says of it. A click on Start is a member of
`Loops`: it awaits the quota, then posts chunk after chunk and pauses in
between, and every POST is sent, handled and answered separately, or lost.
`running`, `stopRef` and the countdown are shared by all loops as in
`hooks.ts`. Workers end jobs, also before the POST that made them is answered, and
other tabs use up quota at any time. `told`
remembers what a loop had posted when Stop found it.

### JobsPage

`view` is the query key: filter, page and page size. `cache[v]` and `fetch[v]`
are what React Query holds and has asked for under each key. Mutations are sent
and answered; what the answer does to the open page depends on the `view` of
that moment. `dialog` is the one pending confirm: asking again resolves the
former with false. `ticked`, `removed` and `announced` are history.

### CreateJob

`form` is the fields. An edit marks what changed in `dirty`; `effects` runs
every effect that depends on a dirty field, all with the values of the render,
and marks what they set. A click is only taken when `dirty` is empty: React has
run the effects by then. A drop of files uploads one file after the other and
adds each to the list it saw when it started (`drop`). The picker is unmounted when
the form no longer offers reference images: what was uploaded stays in `refs`, the
uploads go on, and `uploadPending` keeps the value it had (`render`, `mirror`).
Plans, and the profiles' `allows_video`, change under the open dialog. `made` is
what was sent, with the plan and the profiles of the click.

### Screens, QueryCache

`Screens` is a table of the dashboard: per component its `useQuery` keys with
the tables each endpoint shows, and its mutations with the tables they change
and the keys they invalidate on success; and the screens the routes make of the
components (`AllScreens`). Pages of the shell have the header's bell on them,
`/billing` shows an admin the three lists of `AdminBillingTab` one at a time beside
the personal summary, `/admin/legacy` keeps the counters above every tab.
`OpenGaps` names the writes that change a list of their own screen and do not
refresh it; section 3 lists them. `QueryCache` runs one of the screens
and follows one of its lists: writes, foreign edits, failures, polls, changes of
filter, and refetches that cancel refetches. The data of a list is the number
of changes made so far to the tables it shows. Since entries of different keys
never touch each other, one list at a time is enough. What a screen finds in the
cache when it is opened (entries younger than `staleTime`) is not modelled: a screen
starts with lists that were just asked for or are up to date.

## 3. The runs

All configurations use one worker, as `src/docker-compose.yml` does. A type
invariant that is proved (section 4) is not run again.

| Run | Instance | Shows |
|---|---|---|
| JobWorker | 1 video job, 2 profiles, 2 tasks, cancel and delete, 1 crash, 1 fault | `InFlightHasDriver`, `SingleAttempt`, `BannedNeverRuns`, `RunsArePaidFor`, `EventsAgree`, `SuccessIsFinal` |
| JobOwner | 1 video job, 1 profile, 2 tasks, cancel and retry, 1 crash, 1 fault | `RetryBudget` when two attempts drive one row |
| JobQueue | 2 image jobs, 1 task, 1 crash, fairness | the queue implements `JobContract` (`KeepsContract`); `EventuallySettled` |
| SlotsDefault | cap 1, 2 video + 1 image attempts, every status operation, 1 crash, 1 lost slot | `SlotsExact`, implements `SlotGate` (`ImplementsGate`) |
| SlotsShared | cap 2, video cap 1, resets and the CDP watchdog, 1 crash, fairness | `CountersWithinCaps` (the upper bound), `SlotComesBack` |
| Quota | 3 requests: of a domain, of an install, of an API key; 2 days, 1 edit, fairness | `NeverOverCap`, `UsedIsCharged`, `RefusedOnlyWhenFull`, `EveryRequestAnswered` |
| Workspace | 2 panels, 2 drafts, 2 clicks on Start, chunks of 1, quota 2, 3 events, fairness | `JobHasReference`, `PromptKept`, `OneJobPerClick`, `StopHolds`, `BatchEnds`, `RowsFollow` |
| JobsPage | 2 jobs on 2 pages, 2 filters, 3 events, fairness | `SelectionOfView`, `RemovedStaysGone`, `OneBulk`, `FinishAnnounced` |
| CreateJob | a profile of each provider, 1 project, 3 plans, 2 drops of up to 2 images, 3 events, fairness | `ProjectOfProfile`, `VideoProfileMakesVideo`, `DefaultsWithinPlan`, `RefsBounded`, `EffectsSettle` |
| Session | an admin with a second factor, a user, a tool user; a tenant's domain and one under maintenance; 1 retry, 4 events, fairness | types, `SessionAgrees`, `AdminSeenByAdmin`, `PostedOnce`, `SecondFormKept`, `RedirectsSettle` |
| Screens | every routed screen, each of its lists, 3 events, fairness; 850 567 states | `CatchesUp` but for the gaps of `OpenGaps`, `NeverGoesBack` for all |
| CancelledRuns | 1 video job, cancel | `CancelledNeverBegins`, violated: see below |

`CancelledRuns` states what `workers/run.py:195` says of the refresh at the head of
`process_one`: "Race window: user may have hit Cancel between claim and process. ...
Re-read fresh state once before doing real work." The refresh narrows the window and
does not close it. In the trace TLC finds, the cancel is committed after the refresh,
while the first transaction of the attempt ends; the second commit
(`workers/run.py:298`) then writes "processing_provider" over "cancelled", and the
run begins. The watcher starts later and never sees the cancel. The requeue at
capacity (`workers/run.py:280`) overwrites a cancel in the same way, with "queued".

**Disagreements without a run.** The models contain these behaviours unless a line says
"not modelled"; no run of the project claims their absence. The behaviour is
the code's, the text the repository's. Where the module states the broken
property it is named.

Backend:

- `workers/run.py:646`: the resolver is called with an argument it does not take
  (`domain_id`): a crashed browser never makes its job rotate, as lines 618-621
  say it does (`CrashRotates`).
- `workers/run.py:554`: the probe of a rotation searches the whole pool, the
  next attempt the tenant's part of it; with one profile per tenant the job
  fails with its retries unused (`RotationLeavesAProfile`).
- `workers/idle_cleanup.py:48`: the hourly heal loads a profile, the last attempt
  gives its slot back, the heal stores its older count: a logged-in profile with
  a full counter, which the heal never selects (`DriftIsHealed`). Line 72 also
  counts jobs in a counter of tabs.
- `landing/public_v1/router.py:94`: jobs that enter by an API key are not charged
  to the domain's quota (`DomainCapHolds`).
- `jobs/router.py:277`: a cancel that read the row before the attempt's commit
  overwrites a success (line 275 means to refuse it). `SuccessIsFinal` excepts
  this one request.
- `jobs/router.py:364` and `:408`: a delete races with the claim and removes a
  running job, which line 389 says never happens; a cancel followed by a delete
  before the watcher's next look (3 s) strands the slot of the attempt, contrary
  to line 358. `RowGone` is that attempt, `LoseSlot` its slot.
- `jobs/router.py:257`: of two retry requests that read the same row one may
  stall across later attempts, and then leaves retry_count above max_retry.
  `RetryBudget` is checked with one handler at a time.
- `workers/run.py:217` and `:727`: failures for want of a profile and failures
  at recovery send no webhook (`workers/webhook.py:1`).
- `core/profile_slots.py:62`: with `max_concurrent_jobs` above one a release
  from an old copy loses an acquire, and more tabs than allowed are open
  (lines 12-14). `TabsBounded` is proved for the default of one.
- `core/profile_slots.py:41`: an image attempt takes a slot on a profile that
  was reset (`profiles/router.py:707`).
- `workers/run.py:116`: a later release, deciding from its old copy, sets a
  profile that needs a login back to logged_in (line 118).
- `entitlements/service.py:212`: two submissions pass the concurrency limit
  together (line 207).
- `landing/public_v1/router.py:73`: concurrent submissions with one key count as
  one, and one that straddles the daily reset brings yesterday's count back
  (`core/rate_limit.py:5`).
- Not modelled: `jobs/router.py:292` writes an edited payload without the
  `_banned_profiles` the worker added meanwhile; `workers/run.py:394` re-maps a
  rotated job to any project of its new profile; `landing/billing/service.py:21`
  takes the greatest invoice number plus one, compared as strings, without a lock.

Web client:

- `modules/auth/views/LoginPage.tsx:60` says that the form for the second factor
  keeps e-mail and password. No answer makes it forget them at `/login`
  (`SecondFormKept`), but a configuration that closes the site or its login does:
  `PublicRouteGuard.tsx:40` replaces the page within 20 s and unmounts the form. At
  `/admin/login` the interceptor (`core/api/axios.ts:73`, which spares `/login` only)
  takes the 401 for a dead session, clears the store and loads `/login`.
- `core/api/axios.ts:73`: a late 401 of an old session signs the new one out; at
  `core/api/retry.ts:33` a repeated DELETE whose answer was lost reports 404.
- `core/domain/store.ts:86`: a failed load of the configuration opens every page,
  also in the middle of a session under restrictions.
- `modules/admin/components/AdminGuard.tsx`: a demotion is noticed when the next
  guard is mounted; `AdminSeenByAdmin` says "since this page was opened".
- `cvp-panels/TextToVideoPanel.tsx:122`: "the job row now represents it" is not
  true of a prompt edited while its row waited in the batch. The job's row itself
  goes when a list that was asked for before the POST is answered after it, and
  stays away while nothing else on the list is unfinished: the poll has stopped
  (`RowStays`). `RowsFollow` says only that no row stays unfinished.
- `cvp-panels/hooks.ts:307`: two clicks on Start at once may each post a row;
  `OneJobPerClick` is about one click.
- `cvp-panels/TextToVideoPanel.tsx:138`: Stop cancels the jobs of the list as it
  was cached at the click; those of POSTs in flight run on. A Stop during the
  quota check does not keep the batch from starting.
- `cvp-panels/CharacterSyncPanel.tsx:52`: of two reference uploads the one that
  answers last wins, whichever image is shown.
- `modules/grok/views/JobsPage.tsx:331`: the grid's trash button deletes without
  the confirmation the table asks for; cancel-all takes the rows cached when the
  dialog is answered; a page that emptied is not left.
- `modules/grok/components/CreateJobModal.tsx:120` speaks of a form that does not
  "submit a blocked option". The effect below resets quality, resolution and
  duration (`DefaultsWithinPlan`). A video's mode (line 194) and the reference images
  (lines 201-208) are sent whatever the plan has become, and images also when the
  type was changed to one whose references the plan lacks (`WithinPlan`).
- `modules/grok/components/CreateJobModal.tsx:41`: Submit is to wait for "ANY"
  upload, but the flag is the state of one mutation, which is that of the upload
  started last (`CreateJobReferenceImagePicker.tsx:93`): when it has ended, a job
  is sent while another drop still uploads (`UploadsAwaited`). When the picker is
  taken away during an upload (line 376) the flag stays up, and Submit refuses until
  a picker is shown again (`PendingIsUpload`). A change of provider keeps the other
  provider's profile.
- Lists that a write of their own screen leaves behind (`OpenGaps`):
  `billing-summary` after any write of the system-wide lists below it
  (`BillingSubscriptionsTab.tsx:22`, `:31`, the payments', the invoices' and the
  editors'); `admin-subscriptions` after an admin cancels a subscription of their own
  (`BillingPage.tsx:30`); on `/admin/legacy` `admin-stats` after a user is deleted
  (`UsersTab.tsx:116`); `admin-user-effective` after a change of role
  (`UsersTab.tsx:112`); `admin-roles` after a domain is created
  (`AdminDomainEditorModal.tsx:95`), because the backend gives it a role
  (`modules/admin/domains/router.py:196`).
- `app/router.tsx:61` announces the workspace of the desktop tool, and nothing is
  routed there: `/create-video-pro` (`modules/grok/router/index.tsx:29` says it is) and
  the pricing page have no route at this commit. The workspace's panels are modelled
  as the components they are; `PricingPage.tsx` and `ProfileDomainsModal.tsx`, which
  nothing mounts, are not.
- `modules/grok/components/PromptHistoryDropdown.tsx:35`: the invalidation it
  speaks of is made nowhere. `components/layout/AppShell.tsx:101`: signing out
  leaves the query cache to the next user of the tab.
- `modules/admin/components/GitRepoEditorModal.tsx:42` (panel routed nowhere) and
  `PendingBillingWidget.tsx` (`rejectMut`) invalidate fewer keys than their
  tables have readers on other screens; `PromptHistoryDropdown.tsx` asks for an endpoint
  the backend does not have.
- Not modelled, what the forms send: `AssignDomainsModal.tsx:22` saves an empty
  assignment when Save is pressed before the current one is loaded (so do
  `AssignToolInstallsModal.tsx`, `ProjectEditorModal.tsx:51`); the domain editor
  clears a maintenance start that has passed (`AdminDomainEditorModal.tsx:76`).

**Bounds.** `MaxCrashes`, `MaxFaults`, `MaxLosses` bound the failures (one of
each leaves every intermediate state behind once; the theorems have no such
bound), `RetryCap` the retries of owners, `MaxRuns` where the ghost `runs`
saturates (6 is above what the instance can reach; it is smaller where
`RunsArePaidFor` is not checked), `MaxDay` and `Hours` the clock, `MaxEdits`
the edits, `TopCap` the highest cap. Two attempts and one handler are what it
takes for every pairwise race on a row, two profiles for a rotation, three
requests for a refusal that overlaps with a first and a last admission.
JobWorker has no retry request because with one two attempts may drive a job,
which half of its properties exclude.

In the modules of the web client `MaxEvents` bounds what happens by itself:
clicks, reloads, foreign edits, lost requests and answers; what follows from
them (answers, effects, polls, redirects) is not bounded. Three events are
enough for click, counter-click and fault, and every mutant of these modules is
caught within them; Session has four because a second sign-in after an expiry
takes two. Two drafts and chunks of one give a chunk under way and one to come,
two clicks on Start the two loops that share the flags, two jobs and pages of
one a row that moves between pages, two drops of three files and a limit of two
an overflow. `MaxText` is the versions of a prompt. The theorems about these
modules have no such bounds.

No run uses **symmetry**.

**Deadlock** is checked except where the system may stop: requests of Quota are
used once and the system stops when all have been answered; in Workspace,
CreateJob, Session and Screens nothing has to happen once the user stops
clicking. The jobs page polls for ever, and is checked.

**Fairness.** `JobLifecycle!Fairness`: weak fairness of each attempt (the loops
poll for ever; a provider run ends by itself or at the hard cap of
`wait_for`), of `Start` (docker restarts the worker) and of a backoff's end.
Owners need not do anything and profiles change as they like.
`EventuallySettled` is checked for image jobs: whether a video job finds a slot
depends on `ProfileSlots`, and in this module it may be turned away for ever.
`ProfileSlots!Fairness`: weak fairness of each attempt, of `Start`, of the
hourly heal and of the end of an operation that was begun. `SlotComesBack` does
without the heal, which does not act in its run. `JobAdmission!FairSpec`: weak
fairness of each handler; the database serves whoever waits for a row.

In the browser: requests are answered or fail (axios rejects, the proxy times
out), timers fire in a visible tab, React runs the effects of what it rendered.
Nobody has to click, and no job has to end. `Workspace`: one weak fairness for
all loops together, since any step of any loop may be scheduled first, and one
for the poll with its answer. `JobsPage`: the poll, and the answer of the open
view. `CreateJob`: the effects. `QueryCache`: interval, server and answer of the
list that is followed. `Session`: the redirects and each call.

## 4. The proofs

All theorems hold for every value of the constants allowed by the named
assumptions `ConstantsAssumption`, `SlotConstants`, `AdmissionConstants`,
`WorkspaceAssumption`, `PanelsAssumption`, `JobsPageAssumption`,
`CreateJobAssumption`, `SessionAssumption` and `QueryCacheAssumption` (types of
the constants, finiteness of the sets that are counted, caps at least one, panels
among the five, the record of a domain's configuration).

| Theorem | Assumes in addition | Inductive invariant |
|---|---|---|
| `TypeCorrect` | | `TypeInv` = `TypeOK`, `AttemptShape`, `HandlerShape`: a live attempt has a job, and past its first transaction a profile; a handler has a kind and a job |
| `NoForgottenJob` (`InFlightHasDriver`) | | `TypeInv` and the invariant itself; `AttemptSteps` says that an attempt that ends leaves its row out of flight |
| `OneAttemptAtATime` (`SingleAttempt`) | `NoManualRetry`, `OneProcess` | `SoleInv`: a queued row has no attempt, and a worker that is down has none |
| `RetriesStayInBudget` (`RetryBudget`) | `NoManualRetry` | `BudgetInv`: max_retry is never written, copies held by attempts respect it, and a verdict to try again leaves room for one more |
| `ManualRetriesStayInBudget` (`RetryBudget`) | `OneHandler` | `CapInv`: a cap only rises while its row exists, so the copies of attempts are lower bounds, and the handler's copy is exact |
| `NoRunOnBannedProfile` (`BannedNeverRuns`), `SuccessStays` (`SuccessIsFinal`) | `NoManualRetry`, `OneProcess` | `FitsInv` over `TypeInv` and `SoleInv`: a row is never bound to a profile of its own ban list, an attempt's copies of that list and of the counter are the row's, and nobody else settles its row |
| `RunsNeverExceedRetries` (`RunsArePaidFor`), `EventsContradictOnlyByFailure` (`EventsAgree`) | `NoManualRetry`, `OneProcess` | `CountInv`: while the run that is due has not begun (`Unspent`), or an end is still to be announced (`Unannounced`), the count is one lower |
| `QueueKeepsContract` (`KeepsContract`) | `NoRequests`, `OneProcess` | `FullInv` adds `LiveInv`: while an attempt lives its row is in flight and has the retry_count the attempt read |
| `SlotTypes` | | `TypeOK` |
| `CapsHold` (`CountersWithinCaps`) | `NoRepair` | `CapInv`: also every copy held by an attempt or a session is within the caps |
| `OneTabAtATime`, `CountersAreExact`, `SlotsImplementGate` | `OneTab` | `OneInv` = `CapInv`, `HolderInv` (the only holder is counted by the row and by its copy of it), `ExactInv` (the row counts nothing else) |
| `AdmissionTypes`, `NoDoubleSpend` (`UsedIsCharged`) | | `QuotaInv` = `TypeOK`, `ChargeShape` (which phases are charged), `RowLock` (one transaction at a time on a counter), `UsedIsCharged` |
| `CapIsKept` (`NeverOverCap`) | | `CapInv` adds `FreshCaps`: without edits a request carries the cap of its scope |
| `RefusalsAreRight` (`RefusedOnlyWhenFull`) | | `QuotaInv`; `SpentBesideLock` counts the committed requests beside the one that holds the row |
| `QuotaImplementsLedger` (`ImplementsLedger`) | | `QuotaInv` |
| `PanelTypes`, `PromptsKept` (`PromptKept`), `OneJobOfARow` (`OneJobPerClick`), `StopIsKept` (`StopHolds`), `WallIsTheEnd` (`WallEndsLoop`), `ReferenceKept` (`JobHasReference`) | | `PanelInv` = `TypeOK`, `LoopsFit`, `JobsFit`, `MadeHasJob`, `StopSeen`, `OneJobPerClick`, `PromptKept` |
| `PageTypes`, `TickedInView` (`SelectionOfView`), `RemovedNotShown` (`RemovedStaysGone`), `OneBulkAtATime` (`OneBulk`) | | `PageInv` = `TypeOK`, `SelectionOfView`, `RemovedIsGone`, `RemovedStaysGone`, `DialogExcludes`, `CallsUnique` |
| `DialogTypes`, `SentProjectOfProfile` (`ProjectOfProfile`), `SentVideoProfile` (`VideoProfileMakesVideo`), `SentDefaultsWithinPlan` (`DefaultsWithinPlan`), `ShownRefsBounded` (`RefsBounded`) | | `DialogInv` = `TypeOK`, `FormInv`, `RoomForDrops`, `RefsBounded`, `MadeInv` |
| `SessionTypes` (`TypeOK`), `UserIsTokens` (`SessionAgrees`), `AdminPageIsVerified` (`AdminSeenByAdmin`), `SignInHandledOnce` (`PostedOnce`) | | `TypeInv` = `TabType`, `CallsInv` and `SessionInv` = `SessionAgrees`, `LoginSignedOut`, `RouteCurrent`, `AdminCurrent`, `StaleUnwanted`, `GuardCurrent` |
| `AnswersKeepSecondForm` (`SecondFormKept`) | | the same and `FormCurrent`: a wanted sign-in was made by the form that is shown, with the credentials it keeps |
| `RedirectsEnd` (`RedirectsComeCloser`) | `PreferredPagesStay` | the same; `Distance` is the measure |
| `CacheTypes`, `ListsGoForward` (`NeverGoesBack`) | | `CacheInv` = `TypeOK`, `Fresh`, `MadeBefore`, `EventsCount` |

Why the assumptions. `NoManualRetry`: a retry of a cancelled job puts the row
back in the queue while the cancelled attempt still runs, so two attempts drive
it, and each writes its own copy. The code allows that; `JobOwner` checks what
remains true. `OneProcess`: a second worker's recovery takes live rows for
orphans and requeues them, contrary to `workers/run.py:711`; one worker is
deployed. `OneHandler`: a retry raises max_retry from the copy its handler loaded;
of two handlers, the slower one may set it back below what an attempt has already
used. With one the budget holds for any number of workers, although two attempts
may then drive one job. `NoRepair`: the heal sets the counters to a number of jobs, which the
caps do not bound. `OneTab`:
the default cap `max_concurrent_jobs = 1` and no operation that clears the
counters under a running attempt; with a cap of two updates are lost. The reason the default is safe although releases use
stale copies: with a cap of one nobody can change the counter between a
holder's load and its release, because every raw UPDATE is guarded by the cap and
no status operation flushes a counter.

Why the invariants of the web client are what they are. *Workspace*: that a row
is posted once cannot be seen from the jobs alone, because a POST that is lost
leaves none. `LoopsFit` says what a loop knows about itself: what is still to
do has not been posted, only the chunk under way has requests without an answer,
a loop that met the quota wall has none, and a loop past its first check holds a
reference image if its panel needs one; `JobsFit` and `MadeHasJob` tie the jobs of
the server to the requests of the loops. *JobsPage*: an old list brings a deleted
row back only if it was asked for before the delete took effect and is accepted
after it was answered; `RemovedIsGone` excludes it for the request in flight of the
open view, because the invalidation cancelled the older one.
`DialogExcludes` says that the dialog of a bulk action and that action under way
exclude each other, which makes `OneBulk` inductive. *CreateJob*: a property of what is
sent is a property of the form when no effect is pending. `FormInv` is the
invariant between: whatever is out of line is marked dirty for an effect that
will put it right. `RoomForDrops` bounds, for each drop, what it has added and still may.
*QueryCache*: `Fresh` orders the versions in the cache, in the request whose
answer counts, and on the server. *Session*: that the stored user is the token's
depends on which answers are still wanted. `RouteCurrent` and `AdminCurrent` say
that a wanted answer was asked for with the token of now, from a page that is
still open; `LoginSignedOut`, that a sign-in is under way only in a tab without a
token, so a late sign-in replaces nobody; `StaleUnwanted`, that the effect that
ran again gave up its first call. `GuardCurrent` ties what `AdminGuard` remembers
to the page and the account it was mounted for. `CallsInv` types the calls by
their method: a repeated call is never a post.

`RedirectsEnd` is what safety can say of `RedirectsSettle`: every redirect lowers
`Distance`, a number up to seven that only the address, the token, the user and the
configuration decide, so between two changes of these the guards redirect at most
seven times. Its assumption is needed. A domain whose first preferred page
(`firstAllowedPath`) is an administrators' page, because all its pages are, sends
an ordinary user who may open that page from `AdminGuard` to `/dashboard` and from
`ProtectedRoute` back, for ever; TLC finds this when such a domain is put in the place
of the run's. The comment at `ProtectedRoute.tsx:95` has only a fallback in mind
that the domain itself does not allow. The domains of the run have a page for
everyone.

The counts of runs saturate at `MaxRuns` in the model, and the theorem holds for
every `MaxRuns`, hence without it.

Only model-checked: the liveness properties (`EventuallySettled`,
`SlotComesBack`, `EveryRequestAnswered`, `BatchEnds`, `RowsFollow`,
`FinishAnnounced`, `EffectsSettle`, `CatchesUp`, `RedirectsSettle`), which are
beyond the prover. Every invariant and every action property of the passing runs
is proved. Proved, and not the subject of a run: the type invariants other than
`Session`'s, `TabsBounded`, `WallEndsLoop`, `RedirectsComeCloser` and that the quota
tables implement `QuotaLedger` (`ImplementsLedger`).

## 5. Not modelled

- What a provider does in the browser: any result is possible, at any time.
- Attachments, files, options, prompts, logs, notifications, audit: data that
  decides nothing about the state modelled here. A job whose inputs are invalid
  fails with an outcome of kind "fatal".
- Prompt edits of queued jobs, choice and re-mapping of projects, a profile
  requested by name at creation.
- The 30-day limit, the minute window of the keys, read-only snapshots.
- What a form of the dashboard puts into a write, search and sorting within a
  fetched list, pages that show texts, the playground (single requests with a key
  held in the page), the repository panel (no route shows it), markup and
  locales.
- Prompt, aspect ratio, model, seed and count in `CreateJob`, search text and the
  further filters in `JobsPage`: they join the query key or the payload as the
  modelled ones do, and no property tells them apart.
- The client's models do not contain the backend's: a job there ends when it
  likes, and the server is one atomic step per request. What the backend does
  inside that step is `JobLifecycle` and `JobAdmission`.
- The components marked `not_modelled` in `PROJECT.json`, with reasons there.

## 6. Plan

1. Done: `JobLifecycle`, `ProfileSlots`, `JobAdmission` with their abstract
   specifications; `Session`, `Workspace`, `JobsPage`, `CreateJob`, `Screens` over
   `QueryCache`; proofs of all their invariants and action properties.
2. `WorkerPool`: several jobs and profiles with the slots of `ProfileSlots` in
   the attempts of `JobLifecycle`; liveness of video jobs, agreement of counters
   and rows across crash and recovery; prompt edits and `_banned_profiles`.
3. `Forms`: editors seeded from a row or a query that may be late, what they
   send, and whose change survives two open editors.
4. `Billing`: checkout, confirmation, cancellation, the plan they grant, invoice
   numbers; composed with the plan limits of `JobAdmission`. Abstract
   specification: a user has a paid plan exactly while a paid period lasts.
5. `VncContainer`: start, stop, keeper, event listener, CDP and relogin
   watchdogs on one container and one profile row, in several processes.
6. `ProjectRouting` (tenants, installs, re-mapping after a rotation),
   `WebhookDelivery` (retries, duplicates across a crash), the rate-limit windows.
7. Proofs: the measures behind the other liveness properties, as `RedirectsEnd` is
   for `RedirectsSettle`; the budget and the events with several handlers, as far
   as they hold.

## 7. Running the checks

    tlc -workers 2 -config JobWorker.cfg MCJobLifecycle.tla
    tlapm JobLifecycleProofs.tla

The module of each configuration is named in `PROJECT.json`.
