---------------------------- MODULE ProfileSlots ----------------------------
(***************************************************************************)
(* The slots of one browser profile: the counters and the status in its    *)
(* row, the attempts that open tabs in its browser, the administrators and *)
(* background loops that write the same row, crashes of the worker and the *)
(* recovery it runs when it starts.                                        *)
(*                                                                         *)
(* A row is written in two ways. An UPDATE computes in the database from   *)
(* the current row. Everything else goes through the ORM: the row is       *)
(* loaded, changed in memory, and the flush writes the columns that differ *)
(* from what was loaded, with the values computed from it.                 *)
(***************************************************************************)
EXTENDS Integers, FiniteSets

CONSTANTS
    Tasks,       \* attempts at jobs bound to this profile
    Video,       \* those of video jobs: they take a slot for the whole run
    Sessions,    \* handlers and background loops working on the row
    Ops,         \* what those do
    None,        \* no error, no operation
    MaxJobs,     \* profiles.max_concurrent_jobs
    MaxVideo,    \* profiles.max_concurrent_video
    MaxCrashes,  \* bound: worker crashes
    MaxLosses    \* bound: attempts that end without giving their slot back

\* Operations that end in an ORM flush, and the raw UPDATEs of the watchdogs.
FlushOps == {"update", "upload", "check", "open", "start_vnc", "finish",
             "stop", "disable", "reset_cdp", "reset_stuck", "heal", "idle_stop"}
RawOps == {"relogin", "watchdog"}

\* The operations that count the profile's running jobs.
Repairs == {"heal", "reset_stuck"}

ASSUME SlotConstants ==
    /\ IsFiniteSet(Tasks) /\ Video \subseteq Tasks
    /\ Ops \subseteq FlushOps \cup RawOps
    /\ None \notin FlushOps \cup RawOps
    /\ MaxJobs \in Nat \ {0} /\ MaxVideo \in Nat \ {0}
    /\ MaxCrashes \in Nat /\ MaxLosses \in Nat

VARIABLES
    row,      \* the profile's row: the two counters and the status
    task,     \* task[t]: where the attempt is, and the row as it loaded it
    session,  \* session[s]: the operation under way, and what it has read
    worker,   \* "up" or "down"
    crashes,  \* crashes so far
    losses    \* slots lost so far

vars == <<row, task, session, worker, crashes, losses>>

-----------------------------------------------------------------------------
Status == {"created", "opening", "logged_in", "running_job", "need_login",
           "blocked", "disabled"}
Usable == {"logged_in", "running_job"}

Row == [active : Nat, videos : Nat, status : Status]
FreshRow == [active |-> 0, videos |-> 0, status |-> "logged_in"]

Task == [pc : {"idle", "inflight", "holding", "releasing", "dead"},
         loaded : Row]
IdleTask == [pc |-> "idle", loaded |-> FreshRow]

Session == [op : FlushOps \cup RawOps \cup {None}, loaded : Row, live : Nat,
            liveVideo : Nat]
IdleSession == [op |-> None, loaded |-> FreshRow, live |-> 0, liveVideo |-> 0]

\* The attempts whose tab is open under a slot.
Holders == {t \in Tasks : task[t].pc \in {"holding", "releasing"}}

\* Jobs bound to this profile in a running state, slot or no slot.
LiveJobs == {t \in Tasks : task[t].pc # "idle"}

Init ==
    /\ row = FreshRow
    /\ task = [t \in Tasks |-> IdleTask]
    /\ session = [s \in Sessions |-> IdleSession]
    /\ worker = "up"
    /\ crashes = 0
    /\ losses = 0

\* max(0, n - 1)
OneLess(n) == IF n = 0 THEN 0 ELSE n - 1

\* The ORM's flush: columns left as loaded are not written.
Flush(r, loaded, new) ==
    [active |-> IF new.active = loaded.active THEN r.active ELSE new.active,
     videos |-> IF new.videos = loaded.videos THEN r.videos ELSE new.videos,
     status |-> IF new.status = loaded.status THEN r.status ELSE new.status]

-----------------------------------------------------------------------------
(* Attempts.                                                               *)

\* The worker claims a job of this profile; no slot yet.
Claim(t) ==
    /\ worker = "up"
    /\ task[t].pc = "idle"
    /\ task' = [task EXCEPT ![t].pc = "inflight"]
    /\ UNCHANGED <<row, session, worker, crashes, losses>>

\* Mutant: the overall cap is not checked for video.
HasVideoSlotNoCap(r) == r.videos < MaxVideo /\ r.status \in Usable

\* Mutant: the video cap is off by one.
HasVideoSlotOffByOne(r) ==
    r.active < MaxJobs /\ r.videos <= MaxVideo /\ r.status \in Usable

HasVideoSlot(r) ==
    r.active < MaxJobs /\ r.videos < MaxVideo /\ r.status \in Usable

\* _try_acquire_slot for a video job: one UPDATE, then the row is loaded in the
\* same transaction and stays in the session until the release.
AcquireVideo(t) ==
    LET taken == [active |-> row.active + 1, videos |-> row.videos + 1,
                  status |-> "running_job"] IN
    /\ t \in Video
    /\ task[t].pc = "inflight"
    /\ HasVideoSlot(row)
    /\ row' = taken
    /\ task' = [task EXCEPT ![t] = [pc |-> "holding", loaded |-> taken]]
    /\ UNCHANGED <<session, worker, crashes, losses>>

\* No slot: the job goes back to the queue, or over to another profile.
TurnedAway(t) ==
    /\ t \in Video
    /\ task[t].pc = "inflight"
    /\ ~HasVideoSlot(row)
    /\ task' = [task EXCEPT ![t] = IdleTask]
    /\ UNCHANGED <<row, session, worker, crashes, losses>>

\* acquire_image_dom_slot: one UPDATE, which looks at the overall cap only.
AcquireImage(t) ==
    /\ t \notin Video
    /\ task[t].pc = "inflight"
    /\ row.active < MaxJobs
    /\ row' = [row EXCEPT !.active = @ + 1, !.status = "running_job"]
    /\ task' = [task EXCEPT ![t].pc = "holding"]
    /\ UNCHANGED <<session, worker, crashes, losses>>

\* Mutant: the overall counter is not given back.
VideoReleasedHalf(l, err) ==
    [active |-> l.active, videos |-> OneLess(l.videos),
     status |-> IF err = None THEN "logged_in" ELSE err]

\* _release_slot of a video job whose error, if any, is about the account.
VideoReleased(l, err) ==
    [active |-> OneLess(l.active),
     videos |-> OneLess(l.videos),
     status |-> IF OneLess(l.active) = 0
                THEN IF err = None THEN "logged_in" ELSE err
                ELSE IF err = None THEN l.status ELSE err]

\* The end of a video run: SELECT FOR UPDATE takes the row lock but leaves the
\* values the session loaded when it took the slot; slot and job commit
\* together.
ReleaseVideo(t) ==
    /\ t \in Video
    /\ task[t].pc = "holding"
    /\ \E err \in {None, "need_login", "blocked"} :
         row' = Flush(row, task[t].loaded, VideoReleased(task[t].loaded, err))
    /\ task' = [task EXCEPT ![t] = IdleTask]
    /\ UNCHANGED <<session, worker, crashes, losses>>

\* release_image_dom_slot reads the row without a lock ...
ReadForRelease(t) ==
    /\ t \notin Video
    /\ task[t].pc = "holding"
    /\ task' = [task EXCEPT ![t] = [pc |-> "releasing", loaded |-> row]]
    /\ UNCHANGED <<row, session, worker, crashes, losses>>

ImageReleased(l) ==
    [active |-> OneLess(l.active),
     videos |-> l.videos,
     status |-> IF OneLess(l.active) = 0 /\ l.videos = 0
                   /\ l.status = "running_job"
                THEN "logged_in" ELSE l.status]

\* ... and writes it back.
ReleaseImage(t) ==
    /\ task[t].pc = "releasing"
    /\ row' = Flush(row, task[t].loaded, ImageReleased(task[t].loaded))
    /\ task' = [task EXCEPT ![t] = [IdleTask EXCEPT !.pc = "inflight"]]
    /\ UNCHANGED <<session, worker, crashes, losses>>

\* An image job ends: by the API path, with its tab closed, or refused one.
EndImageJob(t) ==
    /\ t \notin Video
    /\ task[t].pc = "inflight"
    /\ task' = [task EXCEPT ![t] = IdleTask]
    /\ UNCHANGED <<row, session, worker, crashes, losses>>

\* An attempt ends without its release: the job was deleted under it, a
\* database error, a cancellation while the release was running. The job's
\* row is settled or gone, or left in flight.
LoseSlot(t) ==
    /\ task[t].pc \in {"holding", "releasing"}
    /\ losses < MaxLosses
    /\ losses' = losses + 1
    /\ \E pc \in {"idle", "dead"} :
         task' = [task EXCEPT ![t] = [IdleTask EXCEPT !.pc = pc]]
    /\ UNCHANGED <<row, session, worker, crashes>>

-----------------------------------------------------------------------------
(* The worker process.                                                     *)

Crash ==
    /\ worker = "up"
    /\ crashes < MaxCrashes
    /\ crashes' = crashes + 1
    /\ worker' = "down"
    /\ task' = [t \in Tasks |->
                  IF task[t].pc = "idle" THEN task[t]
                  ELSE [IdleTask EXCEPT !.pc = "dead"]]
    /\ UNCHANGED <<row, session, losses>>

\* Mutant: recovery repairs the status and leaves the counters.
RecoveredRowCounted(r) ==
    [r EXCEPT !.status = IF @ = "running_job" THEN "logged_in" ELSE @]

RecoveredRow(r) ==
    [active |-> 0, videos |-> 0,
     status |-> IF r.status = "running_job" THEN "logged_in" ELSE r.status]

\* _startup_recovery: no job is left in flight, so no slot is in use.
Start ==
    /\ worker = "down"
    /\ worker' = "up"
    /\ row' = RecoveredRow(row)
    /\ task' = [t \in Tasks |-> IdleTask]
    /\ UNCHANGED <<session, crashes, losses>>

-----------------------------------------------------------------------------
(* Administrators and background loops.                                    *)

\* Handlers refuse to disturb a running profile; the loops select their rows.
Admissible(op, r) ==
    CASE op \in {"upload", "check", "start_vnc"} -> r.status # "running_job"
      [] op = "heal" -> r.status = "running_job"
      [] op = "idle_stop" ->
           r.active = 0 /\ r.status \in {"logged_in", "running_job", "opening"}
      [] op = "relogin" ->
           r.status = "need_login" /\ r.active = 0 /\ r.videos = 0
      [] OTHER -> TRUE

Load(s) ==
    /\ session[s].op = None
    /\ \E op \in Ops :
         /\ Admissible(op, row)
         /\ session' = [session EXCEPT ![s] =
              IF op \in Repairs
              THEN [op |-> op, loaded |-> row, live |-> Cardinality(LiveJobs),
                    liveVideo |-> Cardinality(LiveJobs \cap Video)]
              ELSE [IdleSession EXCEPT !.op = op, !.loaded = row]]
    /\ UNCHANGED <<row, task, worker, crashes, losses>>

\* The statuses an operation may leave the profile in.
NewStatus(a) ==
    CASE a.op = "update" -> Status
      [] a.op = "disable" -> {"disabled"}
      [] a.op = "upload" -> {"logged_in"}
      [] a.op \in {"check", "finish"} -> {"logged_in", "need_login"}
      [] a.op \in {"open", "start_vnc"} -> {"opening"}
      [] a.op \in {"stop", "reset_cdp", "idle_stop"} -> {"need_login"}
      [] a.op \in Repairs ->
           {IF a.live = 0 /\ a.loaded.status = "running_job" THEN "logged_in"
            ELSE a.loaded.status}

\* The counters an operation sets: most leave them, a reset clears them, and
\* the repairs set them to the number of running jobs.
Counters(a) ==
    CASE a.op = "reset_cdp" -> <<0, 0>>
      [] a.op \in Repairs -> <<a.live, a.liveVideo>>
      [] OTHER -> <<a.loaded.active, a.loaded.videos>>

\* What the operation makes of the row, which may have changed since.
Result(a, status) ==
    CASE a.op = "relogin" ->
           IF row.status = "need_login" THEN [row EXCEPT !.status = "logged_in"]
           ELSE row
      [] a.op = "watchdog" ->
           [active |-> 0, videos |-> 0, status |-> "need_login"]
      [] OTHER -> Flush(row, a.loaded, [active |-> Counters(a)[1],
                                        videos |-> Counters(a)[2],
                                        status |-> status])

Store(s) ==
    LET a == session[s] IN
    /\ a.op # None
    /\ \E status \in IF a.op \in RawOps THEN Status ELSE NewStatus(a) :
         row' = Result(a, status)
    /\ session' = [session EXCEPT ![s] = IdleSession]
    /\ UNCHANGED <<task, worker, crashes, losses>>

\* Operations that end early: a bad file, a container that does not start or
\* stop, a probe that finds nobody logged in.
Fallible == {"upload", "start_vnc", "idle_stop", "relogin"}

GiveUp(s) ==
    /\ session[s].op \in Fallible
    /\ session' = [session EXCEPT ![s] = IdleSession]
    /\ UNCHANGED <<row, task, worker, crashes, losses>>

-----------------------------------------------------------------------------
Attempt(t) ==
    \/ AcquireVideo(t) \/ TurnedAway(t) \/ AcquireImage(t) \/ ReleaseVideo(t)
    \/ ReadForRelease(t) \/ ReleaseImage(t) \/ EndImageJob(t)

Next ==
    \/ \E t \in Tasks : Claim(t) \/ Attempt(t) \/ LoseSlot(t)
    \/ Crash \/ Start
    \/ \E s \in Sessions : Load(s) \/ Store(s) \/ GiveUp(s)

Spec == Init /\ [][Next]_vars

\* The hourly repair.
Heal(s) == Load(s) /\ session'[s].op = "heal"

(* Runs end (hard cap), the supervisor restarts the worker, the repair runs *)
(* every hour, and an operation that was begun ends. Administrators need   *)
(* not do anything.                                                        *)
Fairness ==
    /\ \A t \in Tasks : WF_vars(Attempt(t))
    /\ WF_vars(Start)
    /\ \A s \in Sessions : WF_vars(Heal(s)) /\ WF_vars(Store(s))

FairSpec == Spec /\ Fairness

-----------------------------------------------------------------------------
(* Invariants.                                                             *)

\* The row, the attempts and the sessions have their types; counters are never
\* negative.
TypeOK ==
    /\ row \in Row
    /\ task \in [Tasks -> Task]
    /\ session \in [Sessions -> Session]
    /\ worker \in {"up", "down"}
    /\ crashes \in Nat /\ losses \in Nat

\* The browser never has more tabs open under a slot than the profile allows.
TabsBounded == Cardinality(Holders) <= MaxJobs

\* The counters stay within the caps although releases and resets overwrite
\* them with values computed from old copies.
CountersWithinCaps == row.active <= MaxJobs /\ row.videos <= MaxVideo

\* As long as no attempt has lost its slot the counters count the attempts that
\* hold one: no slot leaks, and none is given back twice.
SlotsExact ==
    losses = 0 /\ crashes = 0 =>
        /\ row.active = Cardinality(Holders)
        /\ row.videos = Cardinality(Holders \cap Video)

-----------------------------------------------------------------------------
(* Liveness.                                                               *)

\* A full profile has a free slot again some time later: neither a release that
\* writes back an old count nor a crash keeps the last slot for good.
SlotComesBack == row.active >= MaxJobs ~> row.active < MaxJobs

\* A logged-in profile whose slots are all counted although no job runs is
\* repaired.
DriftIsHealed ==
    (row.status = "logged_in" /\ row.active >= MaxJobs /\ LiveJobs = {})
        ~> ~(row.status = "logged_in" /\ row.active >= MaxJobs)

-----------------------------------------------------------------------------
Gate == INSTANCE SlotGate WITH Cap <- MaxJobs, holders <- Holders

\* The counters implement the semaphore they stand for.
ImplementsGate == Gate!GateSpec
=============================================================================
