---------------------------- MODULE JobAdmission ----------------------------
(***************************************************************************)
(* How a submitted job is admitted: the limits of the user's plan, the     *)
(* daily quota of the tenant's domain or of the desktop install, and the   *)
(* daily limit of an API key. Requests run side by side in several         *)
(* processes, administrators change the limits, requests die halfway.      *)
(*                                                                         *)
(* A request is used once. Its record keeps what it has read, and stands   *)
(* for the job it creates, so the tables need no variables of their own.   *)
(***************************************************************************)
EXTENDS Integers, FiniteSets

CONSTANTS
    Requests,   \* submissions
    Keyed,      \* those that come with the API key, not from the dashboard
    Installed,  \* those of the user bound to the desktop install
    None,       \* no cap
    Limits,     \* caps an administrator may set
    MaxLive,    \* the plan's max_concurrent_jobs, 0 for none
    MaxRecent,  \* the plan's daily_jobs, 0 for none
    KeyLimit,   \* api_keys.daily_limit, 0 for none
    Hours,      \* hours in a day
    MaxDay,     \* bound: the last day
    MaxEdits,   \* bound: edits of the caps and reset hours
    TopCap      \* no cap is higher

ASSUME AdmissionConstants ==
    /\ IsFiniteSet(Requests) /\ Keyed \subseteq Requests
    /\ Installed \subseteq Requests \ Keyed
    /\ Limits \subseteq Nat
    /\ None \notin Limits
    /\ TopCap \in Nat /\ \A n \in Limits : n <= TopCap
    /\ MaxLive \in Nat /\ MaxRecent \in Nat /\ KeyLimit \in Nat
    /\ Hours \in Nat \ {0} /\ MaxDay \in Nat /\ MaxEdits \in Nat

VARIABLES
    now,      \* the day and the hour
    cap,      \* cap[s]: jobs_quota_per_day of scope s
    reset,    \* reset[s]: quota_reset_hour_utc of scope s
    used,     \* used[s][d]: jobs_used of scope s in the period dated d
    keyUsed,  \* api_keys.used_today
    resets,   \* runs of the daily reset
    req,      \* req[r]: the request's progress, readings and job
    edits     \* edits so far

vars == <<now, cap, reset, used, keyUsed, resets, req, edits>>

-----------------------------------------------------------------------------
Scopes == {"domain", "install"}
Dates == -1 .. MaxDay
Hour == 0 .. Hours - 1
Time == [day : 0 .. MaxDay, hour : Hour]
Midnight == [day |-> 0, hour |-> 0]
Caps == Limits \cup {None}

\* Phases in which a request still runs, and its answers.
Running == {"arrived", "counted", "checked", "resolved", "locked", "reserved",
            "created"}
Answers == {"refused", "full", "accepted", "lost"}

Request == [pc : {"idle"} \cup Running \cup Answers,
            cap : Caps, hour : Hour,             \* the cap that applies
            scope : Scopes, date : Dates,        \* the counter that applies
            paid : BOOLEAN,                      \* charged to that counter
            seen : Nat,                          \* used_today as loaded
            job : {"none", "live", "done"},
            at : Time]                           \* when the job was created

NoRequest == [pc |-> "idle", cap |-> None, hour |-> 0, scope |-> "domain",
              date |-> 0, paid |-> FALSE, seen |-> 0, job |-> "none",
              at |-> Midnight]

Init ==
    /\ now = Midnight
    /\ cap \in [Scopes -> Caps]
    /\ reset = [s \in Scopes |-> 0]
    /\ used = [s \in Scopes |-> [d \in Dates |-> 0]]
    /\ keyUsed = 0
    /\ resets = 0
    /\ req = [r \in Requests |-> NoRequest]
    /\ edits = 0

\* The date of the period that contains hour t, when counters roll over at h.
PeriodDate(t, h) == IF t.hour >= h THEN t.day ELSE t.day - 1

\* t is less than a day ago, or exactly one.
WithinDay(t) ==
    t.day = now.day \/ (t.day = now.day - 1 /\ t.hour >= now.hour)

Colleagues(r) == {q \in Requests : (q \in Installed) = (r \in Installed)}

\* The user's jobs in flight, and those of the last day.
Live(r) == {q \in Colleagues(r) : req[q].job = "live"}
Recent(r) ==
    {q \in Colleagues(r) : req[q].job # "none" /\ WithinDay(req[q].at)}

Full(S, limit) == limit > 0 /\ Cardinality(S) >= limit

-----------------------------------------------------------------------------
(* The steps of a submission.                                              *)

\* Authentication loads the user's domain, or the API key.
Arrive(r) ==
    /\ req[r].pc = "idle"
    /\ req' = [req EXCEPT ![r] =
                 [NoRequest EXCEPT !.pc = "arrived", !.cap = cap["domain"],
                                   !.hour = reset["domain"], !.seen = keyUsed]]
    /\ UNCHANGED <<now, cap, reset, used, keyUsed, resets, edits>>

Goto(r, pc) ==
    /\ req' = [req EXCEPT ![r].pc = pc]
    /\ UNCHANGED <<now, cap, reset, used, keyUsed, resets, edits>>

\* The payload's files and options are valid, and assert_concurrent_jobs.
CountLive(r) ==
    /\ req[r].pc = "arrived"
    /\ r \notin Keyed
    /\ \/ Goto(r, "refused")
       \/ ~Full(Live(r), MaxLive) /\ Goto(r, "counted")

\* assert_quota
CountRecent(r) ==
    /\ req[r].pc = "counted"
    /\ Goto(r, IF Full(Recent(r), MaxRecent) THEN "refused" ELSE "checked")

\* enforce_api_key_rate_limit: the calls of the minute are counted elsewhere
\* and may be too many; the daily limit is compared with the key as loaded.
CheckKey(r) ==
    /\ req[r].pc = "arrived"
    /\ r \in Keyed
    /\ \/ Goto(r, "refused")
       \/ /\ KeyLimit = 0 \/ req[r].seen < KeyLimit
          /\ Goto(r, "reserved")

\* _resolve_scope: the install's cap, read now, goes before the domain's, which
\* was read on arrival. The period is fixed here.
Resolve(r) ==
    LET install == r \in Installed /\ cap["install"] # None
        scope == IF install THEN "install" ELSE "domain"
        limit == IF install THEN cap["install"] ELSE req[r].cap
        hour == IF install THEN reset["install"] ELSE req[r].hour IN
    /\ req[r].pc = "checked"
    /\ req' = [req EXCEPT ![r] =
                 IF limit = None THEN [@ EXCEPT !.pc = "reserved"]
                 ELSE [@ EXCEPT !.pc = "resolved", !.cap = limit,
                                !.hour = hour, !.scope = scope,
                                !.date = PeriodDate(now, hour)]]
    /\ UNCHANGED <<now, cap, reset, used, keyUsed, resets, edits>>

\* Mutant: the counter's row is not locked by the increment.
RowFreeAlways(r) == TRUE

\* Mutant: a request also waits for those that are about to increment.
RowFreeWhenAlone(r) ==
    \A q \in Requests \ {r} : req[q].pc \in {"resolved", "locked"} =>
        req[q].scope # req[r].scope \/ req[q].date # req[r].date

\* No other transaction has incremented the counter and not committed yet.
RowFree(r) ==
    \A q \in Requests : req[q].pc = "locked" =>
        req[q].scope # req[r].scope \/ req[q].date # req[r].date

Count(r, n) == used' = [used EXCEPT ![req[r].scope][req[r].date] = @ + n]

\* The upsert of check_and_reserve; it waits for the row.
Upsert(r) ==
    /\ req[r].pc = "resolved"
    /\ RowFree(r)
    /\ Count(r, 1)
    /\ req' = [req EXCEPT ![r] = [@ EXCEPT !.pc = "locked", !.paid = TRUE]]
    /\ UNCHANGED <<now, cap, reset, keyUsed, resets, edits>>

\* Mutant: the comparison is off by one.
OverCapOffByOne(r) == used[req[r].scope][req[r].date] > req[r].cap + 1

OverCap(r) == used[req[r].scope][req[r].date] > req[r].cap

\* Within the cap: commit.
Reserve(r) ==
    /\ req[r].pc = "locked"
    /\ ~OverCap(r)
    /\ Goto(r, "reserved")

\* Mutant: the increment of a refused request stays.
GiveBackNothing(r) == req[r].paid /\ UNCHANGED used

\* The increment is taken back.
GiveBack(r) == Count(r, -1)

\* Over the cap: decrement, commit, 429.
Refuse(r) ==
    /\ req[r].pc = "locked"
    /\ OverCap(r)
    /\ GiveBack(r)
    /\ req' = [req EXCEPT ![r] = [@ EXCEPT !.pc = "full", !.paid = FALSE]]
    /\ UNCHANGED <<now, cap, reset, keyUsed, resets, edits>>

\* service.create_job: no usable profile or project, or a job. The reservation
\* is not undone when it fails.
Create(r) ==
    /\ req[r].pc = "reserved"
    /\ \/ Goto(r, "refused")
       \/ /\ req' = [req EXCEPT ![r] =
                 [@ EXCEPT !.pc = IF r \in Keyed THEN "created" ELSE "accepted",
                           !.job = "live", !.at = now]]
          /\ UNCHANGED <<now, cap, reset, used, keyUsed, resets, edits>>

\* The API's handler counts the job on the key as it was loaded.
Bump(r) ==
    /\ req[r].pc = "created"
    /\ keyUsed' = req[r].seen + 1
    /\ req' = [req EXCEPT ![r].pc = "accepted"]
    /\ UNCHANGED <<now, cap, reset, used, resets, edits>>

\* A request dies with its process or its connection; an open transaction is
\* rolled back.
Die(r) ==
    /\ req[r].pc \in Running
    /\ IF req[r].pc = "locked" THEN Count(r, -1) ELSE UNCHANGED used
    /\ req' = [req EXCEPT ![r] =
                 [@ EXCEPT !.pc = "lost",
                           !.paid = req[r].paid /\ req[r].pc # "locked"]]
    /\ UNCHANGED <<now, cap, reset, keyUsed, resets, edits>>

-----------------------------------------------------------------------------
(* Their environment.                                                      *)

\* The worker settles a job.
Finish(r) ==
    /\ req[r].job = "live"
    /\ req' = [req EXCEPT ![r].job = "done"]
    /\ UNCHANGED <<now, cap, reset, used, keyUsed, resets, edits>>

Tick ==
    /\ now' = IF now.hour + 1 < Hours THEN [now EXCEPT !.hour = @ + 1]
              ELSE [day |-> now.day + 1, hour |-> 0]
    /\ now'.day <= MaxDay
    /\ UNCHANGED <<cap, reset, used, keyUsed, resets, req, edits>>

\* The cron job of midnight.
DailyReset ==
    /\ resets < now.day
    /\ resets' = resets + 1
    /\ keyUsed' = 0
    /\ UNCHANGED <<now, cap, reset, used, req, edits>>

\* An administrator changes a cap or a reset hour.
Edit(s) ==
    /\ edits < MaxEdits
    /\ edits' = edits + 1
    /\ \/ /\ \E c \in Caps : cap' = [cap EXCEPT ![s] = c]
          /\ UNCHANGED reset
       \/ /\ \E h \in Hour : reset' = [reset EXCEPT ![s] = h]
          /\ UNCHANGED cap
    /\ UNCHANGED <<now, used, keyUsed, resets, req>>

-----------------------------------------------------------------------------
Handle(r) ==
    \/ CountLive(r) \/ CountRecent(r) \/ CheckKey(r) \/ Resolve(r) \/ Upsert(r)
    \/ Reserve(r) \/ Refuse(r) \/ Create(r) \/ Bump(r)

Next ==
    \/ \E r \in Requests : Arrive(r) \/ Handle(r) \/ Die(r) \/ Finish(r)
    \/ Tick \/ DailyReset \/ \E s \in Scopes : Edit(s)

Spec == Init /\ [][Next]_vars

\* A handler that has begun goes on; the database serves whoever waits.
FairSpec == Spec /\ \A r \in Requests : WF_vars(Handle(r))

-----------------------------------------------------------------------------
(* Properties.                                                             *)

TypeOK ==
    /\ now \in Time
    /\ cap \in [Scopes -> Caps] /\ reset \in [Scopes -> Hour]
    /\ used \in [Scopes -> [Dates -> Nat]]
    /\ keyUsed \in Nat /\ resets \in Nat /\ edits \in Nat
    /\ req \in [Requests -> Request]

\* The requests charged to a counter, and those that have committed.
Charged(s, d) ==
    {r \in Requests : req[r].paid /\ req[r].scope = s /\ req[r].date = d}
Spent(s, d) == {r \in Charged(s, d) : req[r].pc # "locked"}

\* A counter counts the requests charged to it: refusals, rollbacks and
\* concurrent first requests of a day neither lose nor invent one.
UsedIsCharged ==
    \A s \in Scopes, d \in Dates : used[s][d] = Cardinality(Charged(s, d))

\* As long as nobody edits the caps, the reservations of a period never exceed
\* the cap of their scope.
NeverOverCap ==
    edits = 0 => \A s \in Scopes, d \in Dates :
        cap[s] # None => Cardinality(Spent(s, d)) <= cap[s]

\* A request is told that the quota is exhausted only if it is: other requests
\* that are refused or rolled back at the same time do not count.
RefusedOnlyWhenFull ==
    [][\A r \in Requests :
           req[r].pc = "locked" /\ req'[r].pc = "full"
           => Cardinality(Spent(req[r].scope, req[r].date)') >= req[r].cap]_vars

\* Every submission is answered, whoever else waits for the same counter.
EveryRequestAnswered ==
    \A r \in Requests : req[r].pc = "arrived" ~> req[r].pc \in Answers

\* In each period of a domain its users create no more jobs than its cap.
DomainCapHolds ==
    edits = 0 /\ cap["domain"] # None =>
        \A d \in Dates :
            Cardinality({r \in Requests \ Installed : req[r].job # "none"
                         /\ PeriodDate(req[r].at, reset["domain"]) = d})
                <= cap["domain"]

-----------------------------------------------------------------------------
Ledger == INSTANCE QuotaLedger
              WITH Cap <- TopCap, spent <- [s \in Scopes |-> [d \in Dates |-> Spent(s, d)]]

\* Whatever the administrators do, a request is charged at most once, no
\* counter admits more than the highest cap, and no charge is ever taken back.
ImplementsLedger == Ledger!LedgerSpec
=============================================================================
