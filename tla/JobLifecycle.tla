---------------------------- MODULE JobLifecycle ----------------------------
(***************************************************************************)
(* The life of a generation job: the rows of the jobs table, the worker's  *)
(* attempts at them (one asyncio task per attempt, each with the ORM's     *)
(* private copy of the row), the owner's cancel / retry / delete requests, *)
(* worker crashes and the recovery a worker runs when it starts.           *)
(*                                                                         *)
(* A profile is seen only through `pool`, the profiles whose status lets a *)
(* job run on them; whether one has a free slot is left open here, and     *)
(* settled in module ProfileSlots.                                         *)
(***************************************************************************)
EXTENDS Integers, FiniteSets

CONSTANTS
    Jobs,         \* job ids
    Profiles,     \* browser profiles of the admin pool
    Workers,      \* worker processes
    Tasks,        \* the in-flight slots (MAX_IN_FLIGHT) of all workers
    Clients,      \* concurrent HTTP requests on jobs
    None,         \* SQL NULL
    Runner,       \* Runner[t]: the worker process task t runs in
    JobType,      \* JobType[j]: "image" or "video"
    Visible,      \* Visible[j]: profiles the tenant of j may be routed to
    AllowsVideo,  \* profiles that are not image-only
    Rank,         \* Rank[j]: place of j in ORDER BY priority DESC, created_at
    Requests,     \* the kinds of request the owners make
    MaxRetry,     \* jobs.max_retry of a new row
    RetryCap,     \* bound: owners retry only while retry_count < RetryCap
    MaxRuns,      \* bound: the ghost count of provider runs saturates here
    MaxCrashes,   \* bound: worker crashes
    MaxFaults     \* bound: database errors that kill an attempt

ASSUME ConstantsAssumption ==
    /\ None \notin Profiles
    /\ Runner \in [Tasks -> Workers]
    /\ JobType \in [Jobs -> {"image", "video"}]
    /\ Visible \in [Jobs -> SUBSET Profiles]
    /\ AllowsVideo \subseteq Profiles
    /\ Rank \in [Jobs -> Nat]
    /\ Requests \subseteq {"cancel", "retry", "delete"}
    /\ {MaxRetry, RetryCap, MaxRuns, MaxCrashes, MaxFaults} \subseteq Nat

VARIABLES
    job,      \* job[j]: the committed row of j
    task,     \* task[t]: a process_one coroutine and its session
    worker,   \* worker[w]: "up" or "down"
    pool,     \* profiles in status logged_in / running_job
    request,  \* request[c]: a handler between its SELECT and its UPDATE
    crashes,  \* crashes so far
    faults,   \* attempts killed by a database error so far
    runs,     \* ghost: runs[j], provider runs started for j
    hooks,    \* ghost: hooks[j], webhook events delivered for j
    stranded  \* ghost: in-flight rows whose attempt a database error killed

vars == <<job, task, worker, pool, request, crashes, faults,
          runs, hooks, stranded>>
ghosts == <<runs, hooks, stranded>>

-----------------------------------------------------------------------------
(* The jobs table. "absent": no row yet; "deleted": the row is gone.       *)

InFlight == {"running", "processing_provider"}
Terminal == {"success", "failed", "cancelled"}
Gone == {"absent", "deleted"}
JobStatus == {"queued"} \cup InFlight \cup Terminal \cup Gone

Row == [status : JobStatus, profile : Profiles \cup {None},
        banned : SUBSET Profiles, retry : Nat, max : Nat, due : BOOLEAN]

NoRow(status) == [status |-> status, profile |-> None, banned |-> {},
                  retry |-> 0, max |-> MaxRetry, due |-> TRUE]

Exists(j) == job[j].status \notin Gone

(* An attempt: where process_one is, the columns its session has loaded,   *)
(* how the provider ended, and what the attempt flushed but not committed. *)

Outcome == {"success", "rotatable", "transient", "fatal", "crashed", "bug",
            "cancelled"}
Verdict == Terminal \cup {"rotate", "backoff"}
Task == [pc : {"idle", "claimed", "assigning", "assigned", "running",
               "ended", "settling", "notified"},
         job : Jobs \cup {None}, profile : Profiles \cup {None},
         banned : SUBSET Profiles, retry : Nat, max : Nat,
         outcome : Outcome \cup {None}, verdict : Verdict \cup {None}]

IdleTask == [pc |-> "idle", job |-> None, profile |-> None, banned |-> {},
             retry |-> 0, max |-> 0, outcome |-> None, verdict |-> None]

Live(t) == task[t].pc # "idle"
Attempts(j) == {t \in Tasks : Live(t) /\ task[t].job = j}

\* The row lock between an attempt's flush and its commit.
Locked(j) == \E t \in Attempts(j) : task[t].pc \in {"settling", "notified"}

NoRequest == [kind |-> "none", job |-> None, retry |-> 0, max |-> 0]
Request == [kind : {"none", "cancel", "retry", "delete"},
            job : Jobs \cup {None}, retry : Nat, max : Nat]

-----------------------------------------------------------------------------
(* Profile resolution.                                                     *)

Fits(j) == IF JobType[j] = "video" THEN AllowsVideo ELSE Profiles

\* Auto-pick in the scope of the tenant: creation and pick_alternate_profile.
Candidates(j, excluded) == (pool \cap Visible[j] \cap Fits(j)) \ excluded

\* Auto-pick without a tenant: the worker's hot-failover and rotation probe.
Siblings(j, excluded) == (pool \cap Fits(j)) \ excluded

-----------------------------------------------------------------------------
Init ==
    /\ job = [j \in Jobs |-> NoRow("absent")]
    /\ task = [t \in Tasks |-> IdleTask]
    /\ worker = [w \in Workers |-> "up"]
    /\ pool = Profiles
    /\ request = [c \in Clients |-> NoRequest]
    /\ crashes = 0
    /\ faults = 0
    /\ runs = [j \in Jobs |-> 0]
    /\ hooks = [j \in Jobs |-> {}]
    /\ stranded = {}

\* POST /jobs, once its checks have passed: bind a profile and enqueue.
CreateJob(j) ==
    /\ job[j].status = "absent"
    /\ \E p \in Candidates(j, {}) :
         job' = [job EXCEPT ![j].status = "queued", ![j].profile = p]
    /\ UNCHANGED <<task, worker, pool, request, crashes, faults, ghosts>>

-----------------------------------------------------------------------------
(* The worker.                                                             *)

\* Mutant: rows other loops have claimed are picked again.
PickableClaimed(j) ==
    job[j].status \in {"queued", "running"} /\ job[j].due /\ ~Locked(j)

Pickable(j) == job[j].status = "queued" /\ job[j].due /\ ~Locked(j)

\* _pick_job: first in the queue that is due and whose row is not locked.
Claim(t) ==
    /\ worker[Runner[t]] = "up"
    /\ ~Live(t)
    /\ \E j \in Jobs :
         /\ Pickable(j)
         /\ \A i \in Jobs : Pickable(i) => Rank[j] <= Rank[i]
         /\ job' = [job EXCEPT ![j].status = "running"]
         /\ task' = [task EXCEPT ![t] = [IdleTask EXCEPT !.pc = "claimed",
                                                         !.job = j]]
    /\ UNCHANGED <<worker, pool, request, crashes, faults, ghosts>>

\* The refresh at the head of process_one: give up on a cancelled job.
Refresh(t) ==
    LET row == job[task[t].job] IN
    /\ task[t].pc = "claimed"
    /\ Exists(task[t].job)
    /\ task' = [task EXCEPT ![t] =
                  IF row.status = "cancelled" THEN IdleTask
                  ELSE [@ EXCEPT !.pc = "assigning", !.profile = row.profile,
                                 !.banned = row.banned, !.retry = row.retry,
                                 !.max = row.max]]
    /\ UNCHANGED <<job, worker, pool, request, crashes, faults, ghosts>>

\* Mutant: _banned_profiles is not passed to the resolver.
StartingPointsForgetful(tk) ==
    IF tk.profile # None THEN {tk.profile} ELSE Candidates(tk.job, {})

\* The profiles an attempt may start from: its own, or an alternate when a
\* rotation cleared it.
StartingPoints(tk) ==
    IF tk.profile # None THEN {tk.profile} ELSE Candidates(tk.job, tk.banned)

\* job.profile_id, written only when the attempt changed it.
Rebind(row, tk, p) == IF p = tk.profile THEN row ELSE [row EXCEPT !.profile = p]

\* No profile is left to rotate to.
FailNoProfile(t) ==
    /\ StartingPoints(task[t]) = {}
    /\ job' = [job EXCEPT ![task[t].job].status = "failed"]
    /\ task' = [task EXCEPT ![t] = IdleTask]

\* An image job starts without a slot; a video job takes one on its profile,
\* or fails over to a sibling that has one.
BindProfile(t) ==
    LET tk == task[t] IN
    \E p \in StartingPoints(tk) :
    \E q \in IF JobType[tk.job] = "image" THEN {p}
             ELSE (pool \cap {p}) \cup Siblings(tk.job, tk.banned \cup {p}) :
       /\ job' = [job EXCEPT ![tk.job] = Rebind(@, tk, q)]
       /\ task' = [task EXCEPT ![t].pc = "assigned", ![t].profile = q]

\* Mutant: the requeue leaves the row in flight.
RequeueForgotten(t) ==
    /\ JobType[task[t].job] = "video"
    /\ StartingPoints(task[t]) # {}
    /\ task' = [task EXCEPT ![t] = IdleTask]
    /\ UNCHANGED job

\* A video job that found no free slot goes back to the queue.
RequeueAtCapacity(t) ==
    LET tk == task[t] IN
    /\ JobType[tk.job] = "video"
    /\ \E p \in StartingPoints(tk) :
         job' = [job EXCEPT ![tk.job] = [Rebind(@, tk, p) EXCEPT
                                           !.status = "queued"]]
    /\ task' = [task EXCEPT ![t] = IdleTask]

\* First transaction of process_one, committed.
Assign(t) ==
    /\ task[t].pc = "assigning"
    /\ Exists(task[t].job) /\ ~Locked(task[t].job)
    /\ FailNoProfile(t) \/ BindProfile(t) \/ RequeueAtCapacity(t)
    /\ UNCHANGED <<worker, pool, request, crashes, faults, ghosts>>

\* Second commit: whatever the row says by now, it is being processed.
Begin(t) ==
    LET j == task[t].job IN
    /\ task[t].pc = "assigned"
    /\ Exists(j) /\ ~Locked(j)
    /\ job' = [job EXCEPT ![j].status = "processing_provider"]
    /\ task' = [task EXCEPT ![t].pc = "running"]
    /\ runs' = [runs EXCEPT ![j] = IF @ < MaxRuns THEN @ + 1 ELSE @]
    /\ UNCHANGED <<worker, pool, request, crashes, faults, hooks, stranded>>

\* The provider answers, raises, or is cut off by the hard cap ("rotatable").
ProviderEnds(t) ==
    /\ task[t].pc = "running"
    /\ \E o \in Outcome \ {"cancelled"} :
         task' = [task EXCEPT ![t].pc = "ended", ![t].outcome = o]
    /\ UNCHANGED <<job, worker, pool, request, crashes, faults, ghosts>>

\* _watch_for_cancel sees the row cancelled and aborts the provider.
WatcherCancels(t) ==
    /\ task[t].pc = "running"
    /\ job[task[t].job].status = "cancelled"
    /\ task' = [task EXCEPT ![t].pc = "ended", ![t].outcome = "cancelled"]
    /\ UNCHANGED <<job, worker, pool, request, crashes, faults, ghosts>>

-----------------------------------------------------------------------------
(* The end of an attempt.                                                  *)

\* Mutant: one retry too many.
RetryLeftOffByOne(tk) == tk.retry <= tk.max

RetryLeft(tk) == tk.retry < tk.max

\* A failed run is retried on a sibling, retried on the same profile after a
\* backoff, or final. A crash asks for a sibling with an argument the resolver
\* does not take, so it never gets one.
Judge(tk) ==
    CASE tk.outcome \in {"success", "cancelled"} -> tk.outcome
      [] tk.outcome \in {"fatal", "bug"} \/ ~RetryLeft(tk) -> "failed"
      [] /\ tk.outcome = "rotatable" /\ RetryLeft(tk)
         /\ Siblings(tk.job, tk.banned \cup {tk.profile}) # {} -> "rotate"
      [] OTHER -> "backoff"

\* The attempt flushes its verdict: the row is locked until the commit.
Settle(t) ==
    /\ task[t].pc = "ended"
    /\ Exists(task[t].job) /\ ~Locked(task[t].job)
    /\ task' = [task EXCEPT ![t].pc = "settling",
                            ![t].verdict = Judge(task[t])]
    /\ UNCHANGED <<job, worker, pool, request, crashes, faults, ghosts>>

\* The owner's webhook is called inside the transaction, before the commit.
Notify(t) ==
    LET tk == task[t] IN
    /\ tk.pc = "settling" /\ tk.verdict \in Terminal
    /\ hooks' = [hooks EXCEPT ![tk.job] = @ \cup {tk.verdict}]
    /\ task' = [task EXCEPT ![t].pc = "notified"]
    /\ UNCHANGED <<job, worker, pool, request, crashes, faults, runs,
                   stranded>>

\* Mutant: a backoff does not count as a retry.
WrittenUncounted(row, tk) ==
    CASE tk.verdict \in Terminal -> [row EXCEPT !.status = tk.verdict]
      [] tk.verdict = "rotate" ->
           [row EXCEPT !.status = "queued", !.retry = tk.retry + 1,
                       !.profile = None, !.banned = tk.banned \cup {tk.profile},
                       !.due = TRUE]
      [] OTHER -> [row EXCEPT !.status = "queued", !.due = FALSE]

\* The columns the verdict writes over the row, from the session's copy.
Written(row, tk) ==
    CASE tk.verdict \in Terminal -> [row EXCEPT !.status = tk.verdict]
      [] tk.verdict = "rotate" ->
           [row EXCEPT !.status = "queued", !.retry = tk.retry + 1,
                       !.profile = None, !.banned = tk.banned \cup {tk.profile},
                       !.due = TRUE]
      [] OTHER -> [row EXCEPT !.status = "queued", !.retry = tk.retry + 1,
                              !.due = FALSE]

\* Last commit of process_one: the row and the slot together.
Commit(t) ==
    LET tk == task[t] IN
    /\ \/ tk.pc = "notified"
       \/ tk.pc = "settling" /\ tk.verdict \notin Terminal
    /\ job' = [job EXCEPT ![tk.job] = Written(@, tk)]
    /\ task' = [task EXCEPT ![t] = IdleTask]
    /\ UNCHANGED <<worker, pool, request, crashes, faults, ghosts>>

\* The row was deleted under the attempt: its next statement fails, also the
\* one that would have released its slot.
RowGone(t) ==
    /\ task[t].pc \in {"claimed", "assigning", "assigned", "ended"}
    /\ ~Exists(task[t].job)
    /\ task' = [task EXCEPT ![t] = IdleTask]
    /\ UNCHANGED <<job, worker, pool, request, crashes, faults, runs, hooks,
                   stranded>>

\* A database error ends the attempt: the session rolls back and every later
\* statement of process_one fails as well.
TaskFault(t) ==
    /\ Live(t)
    /\ faults < MaxFaults
    /\ faults' = faults + 1
    /\ task' = [task EXCEPT ![t] = IdleTask]
    /\ stranded' = stranded \cup
                     ({task[t].job} \cap {j \in Jobs : job[j].status \in InFlight})
    /\ UNCHANGED <<job, worker, pool, request, crashes, runs, hooks>>

-----------------------------------------------------------------------------
(* Crash and restart of a worker process.                                  *)

Crash(w) ==
    LET mine == {t \in Tasks : Runner[t] = w} IN
    /\ worker[w] = "up"
    /\ crashes < MaxCrashes
    /\ crashes' = crashes + 1
    /\ worker' = [worker EXCEPT ![w] = "down"]
    /\ task' = [t \in Tasks |-> IF t \in mine THEN IdleTask ELSE task[t]]
    /\ UNCHANGED <<job, pool, request, faults, runs, hooks, stranded>>

\* What _startup_recovery makes of a row: stuck ones are requeued or, out of
\* retries, failed; queued rows past their cap are reaped.
Recovered(row) ==
    CASE row.status \in InFlight ->
           [row EXCEPT !.status = IF row.retry >= row.max THEN "failed"
                                  ELSE "queued"]
      [] row.status = "queued" /\ row.retry > row.max ->
           [row EXCEPT !.status = "failed"]
      [] OTHER -> row

\* A worker starts: every in-flight row is taken for an orphan.
Start(w) ==
    /\ worker[w] = "down"
    /\ worker' = [worker EXCEPT ![w] = "up"]
    /\ job' = [j \in Jobs |-> Recovered(job[j])]
    /\ stranded' = {}
    /\ UNCHANGED <<task, pool, request, crashes, faults, runs, hooks>>

-----------------------------------------------------------------------------
(* The owners' requests: the handler reads the row, checks its status, and *)
(* writes it in a later statement.                                         *)

\* Mutant: retry is only refused for queued jobs.
AllowedRetryAnything(kind, row) ==
    CASE kind = "cancel" -> row.status \notin Terminal
      [] kind = "retry"  -> row.status # "queued"
      [] kind = "delete" -> row.status \notin InFlight

Allowed(kind, row) ==
    CASE kind = "cancel" -> row.status \notin Terminal
      [] kind = "retry"  -> row.status \in {"failed", "cancelled"}
      [] kind = "delete" -> row.status \notin InFlight

ReadRow(c) ==
    /\ request[c] = NoRequest
    /\ \E j \in Jobs, kind \in Requests :
         /\ Exists(j)
         /\ Allowed(kind, job[j])
         /\ kind = "retry" => job[j].retry < RetryCap
         /\ request' = [request EXCEPT ![c] = [kind |-> kind, job |-> j,
                                 retry |-> job[j].retry, max |-> job[j].max]]
    /\ UNCHANGED <<job, task, worker, pool, crashes, faults, ghosts>>

\* Mutant: a manual retry does not raise the cap.
AnsweredSameCap(row, r) ==
    CASE r.kind = "cancel" -> [row EXCEPT !.status = "cancelled"]
      [] r.kind = "retry" -> [row EXCEPT !.status = "queued",
                                         !.retry = r.retry + 1, !.due = TRUE]
      [] r.kind = "delete" -> NoRow("deleted")

\* The columns the handler writes; a manual retry also raises the cap.
Answered(row, r) ==
    CASE r.kind = "cancel" -> [row EXCEPT !.status = "cancelled"]
      [] r.kind = "retry" ->
           [row EXCEPT !.status = "queued", !.retry = r.retry + 1,
                       !.max = IF r.max < r.retry + 1 THEN r.retry + 2 ELSE @,
                       !.due = TRUE]
      [] r.kind = "delete" -> NoRow("deleted")

WriteRow(c) ==
    LET r == request[c] IN
    /\ r # NoRequest
    /\ ~Locked(r.job)
    /\ job' = [job EXCEPT ![r.job] = IF Exists(r.job) THEN Answered(@, r)
                                     ELSE @]
    /\ request' = [request EXCEPT ![c] = NoRequest]
    /\ UNCHANGED <<task, worker, pool, crashes, faults, ghosts>>

-----------------------------------------------------------------------------
(* The environment: backoffs elapse, profiles come and go.                 *)

BackoffElapses(j) ==
    /\ ~job[j].due
    /\ job' = [job EXCEPT ![j].due = TRUE]
    /\ UNCHANGED <<task, worker, pool, request, crashes, faults, ghosts>>

ProfileChanges(p) ==
    /\ pool' = IF p \in pool THEN pool \ {p} ELSE pool \cup {p}
    /\ UNCHANGED <<job, task, worker, request, crashes, faults, ghosts>>

Attempt(t) ==
    \/ Claim(t) \/ Refresh(t) \/ Assign(t) \/ Begin(t) \/ ProviderEnds(t)
    \/ WatcherCancels(t) \/ Settle(t) \/ Notify(t) \/ Commit(t) \/ RowGone(t)

Next ==
    \/ \E t \in Tasks : Attempt(t) \/ TaskFault(t)
    \/ \E w \in Workers : Crash(w) \/ Start(w)
    \/ \E c \in Clients : ReadRow(c) \/ WriteRow(c)
    \/ \E j \in Jobs : CreateJob(j) \/ BackoffElapses(j)
    \/ \E p \in Profiles : ProfileChanges(p)

Spec == Init /\ [][Next]_vars

(* The worker loop polls for ever, a provider run ends by itself or at the *)
(* hard cap, a backoff elapses, the process supervisor restarts a worker.  *)
Fairness ==
    /\ \A t \in Tasks : WF_vars(Attempt(t))
    /\ \A w \in Workers : WF_vars(Start(w))
    /\ \A j \in Jobs : WF_vars(BackoffElapses(j))

FairSpec == Spec /\ Fairness

-----------------------------------------------------------------------------
(* Invariants.                                                             *)

\* Every variable has its type: rows, attempts and handlers carry the fields
\* the code gives them.
TypeOK ==
    /\ job \in [Jobs -> Row]
    /\ task \in [Tasks -> Task]
    /\ worker \in [Workers -> {"up", "down"}]
    /\ pool \subseteq Profiles
    /\ request \in [Clients -> Request]
    /\ crashes \in Nat /\ faults \in Nat
    /\ runs \in [Jobs -> Nat]
    /\ hooks \in [Jobs -> SUBSET Terminal]
    /\ stranded \subseteq Jobs

\* No row is in flight with nobody driving it: there is an attempt at it, or a
\* worker is down and will recover it when it starts, or a database error
\* killed its attempt. (process_one must leave every row it claimed in a
\* status some other code picks up, whatever the interleaving with owners,
\* with a second attempt at the same row and with recovery.)
InFlightHasDriver ==
    \A j \in Jobs :
        job[j].status \in InFlight =>
            \/ Attempts(j) # {}
            \/ \E w \in Workers : worker[w] = "down"
            \/ j \in stranded

\* retry_count never exceeds max_retry, although attempts and handlers write
\* both from stale copies. (The final allowed attempt has them equal.)
RetryBudget == \A j \in Jobs : job[j].retry <= job[j].max

\* Two attempts never drive the same job (SKIP LOCKED and the claim's status
\* write are the only things that keep them apart).
SingleAttempt ==
    \A t, u \in Tasks : Live(t) /\ Live(u) /\ task[t].job = task[u].job => t = u

\* A job is never run on a profile it was rotated away from
\* (_banned_profiles): rotation would otherwise burn retries on it.
BannedNeverRuns ==
    \A t \in Tasks :
        task[t].pc \in {"assigned", "running"} =>
            task[t].profile \notin job[task[t].job].banned

\* The provider is paid for at most retry_count + 1 runs of a job, plus one for
\* each crash that interrupted a run; a queued job has all of them behind it.
RunsArePaidFor ==
    \A j \in Jobs : Exists(j) =>
        /\ runs[j] <= job[j].retry + 1 + crashes
        /\ job[j].status = "queued" => runs[j] <= job[j].retry + crashes

\* The owner's webhook hears contradicting ends of a job (a success, then a
\* failure) only if a crash or a database error came between an event, which is
\* sent first, and the commit it announced.
EventsAgree == \A j \in Jobs : Cardinality(hooks[j]) <= 1 + crashes + faults

-----------------------------------------------------------------------------
(* Action properties.                                                      *)

\* A successful job keeps its status until its owner deletes it, whatever
\* recovery, another attempt or a backoff does. One request can undo it: a
\* cancel that had read the row before the attempt's commit.
SuccessIsFinal ==
    [][\A j \in Jobs : job[j].status = "success" =>
           \/ job'[j].status \in {"success", "deleted"}
           \/ \E c \in Clients : /\ request[c].kind = "cancel"
                                 /\ request[c].job = j
                                 /\ request'[c] = NoRequest]_vars

\* No attempt begins to run a job whose cancel has been committed ("user may
\* have hit Cancel between claim and process ... Re-read fresh state once
\* before doing real work", run.py:195-197).
CancelledNeverBegins ==
    [][\A j \in Jobs : job[j].status = "cancelled" =>
           job'[j].status # "processing_provider"]_vars

\* An attempt whose browser crashed rotates to a sibling if there is one.
CrashRotates ==
    [][\A t \in Tasks :
           /\ task[t].outcome = "crashed" /\ task'[t].pc = "settling"
           /\ task[t].retry < task[t].max
           /\ Siblings(task[t].job, task[t].banned \cup {task[t].profile}) # {}
           => task'[t].verdict = "rotate"]_vars

\* A job is rotated away from its profile only if another profile it may be
\* routed to is left.
RotationLeavesAProfile ==
    [][\A t \in Tasks :
           task[t].pc = "ended" /\ task'[t].verdict = "rotate" =>
               Candidates(task[t].job, task[t].banned \cup {task[t].profile})
                   # {}]_vars

-----------------------------------------------------------------------------
(* Liveness.                                                               *)

\* A submitted job is eventually settled: retries, rotations, crashes and
\* restarts of the worker do not make it go round for ever.
EventuallySettled ==
    \A j \in Jobs : Exists(j) ~> job[j].status \in Terminal \cup {"deleted"}

-----------------------------------------------------------------------------
(* The contract of the queue, in terms of the rows.                        *)

Phase(row) == CASE row.status = "absent" -> "new"
                [] row.status = "queued" -> "waiting"
                [] row.status \in InFlight -> "active"
                [] OTHER -> "done"

Contract == INSTANCE JobContract WITH
    Budget <- MaxRetry,
    phase <- [j \in Jobs |-> Phase(job[j])],
    spent <- [j \in Jobs |-> job[j].retry]

\* Without owners' requests the queue keeps its contract through rotations,
\* failovers, crashes and recoveries.
KeepsContract == Contract!ContractSpec
=============================================================================
