------------------------- MODULE ProfileSlotsProofs -------------------------
(***************************************************************************)
(* Proofs about ProfileSlots, for any number of attempts and sessions, any *)
(* number of crashes and lost slots.                                       *)
(***************************************************************************)
EXTENDS ProfileSlots, FiniteSetTheorems, TLAPS

-----------------------------------------------------------------------------
(* Types.                                                                  *)

LEMMA OneLessIsNat ==
  ASSUME NEW n \in Nat
  PROVE  OneLess(n) \in Nat /\ OneLess(n) <= n /\ (n > 0 => OneLess(n) = n - 1)
BY DEF OneLess

\* A flush of rows is a row.
LEMMA FlushIsRow ==
  ASSUME NEW r \in Row, NEW l \in Row, NEW n \in Row
  PROVE  Flush(r, l, n) \in Row
BY DEF Flush, Row

LEMMA ReleasedIsRow ==
  ASSUME NEW l \in Row, NEW err \in {None, "need_login", "blocked"}
  PROVE  VideoReleased(l, err) \in Row /\ ImageReleased(l) \in Row
<1>1. OneLess(l.active) \in Nat /\ OneLess(l.videos) \in Nat
  BY OneLessIsNat DEF Row
<1> QED
  BY <1>1 DEF VideoReleased, ImageReleased, Row, Status

LEMMA IdleIsTyped ==
  /\ FreshRow \in Row /\ IdleTask \in Task /\ IdleTask.pc = "idle"
  /\ IdleSession \in Session /\ IdleSession.op = None
  /\ \A pc \in {"idle", "inflight", "holding", "releasing", "dead"} :
        /\ [IdleTask EXCEPT !.pc = pc] \in Task
        /\ [IdleTask EXCEPT !.pc = pc].pc = pc
BY DEF FreshRow, Row, Status, IdleTask, Task, IdleSession, Session

\* The attempts are finitely many, so the counts of jobs are numbers.
LEMMA CountsAreNat ==
  Cardinality(LiveJobs) \in Nat /\ Cardinality(LiveJobs \cap Video) \in Nat
<1>1. LiveJobs \subseteq Tasks /\ LiveJobs \cap Video \subseteq Tasks
  BY DEF LiveJobs
<1> QED
  BY <1>1, SlotConstants, FS_Subset, FS_CardinalityType

\* What an operation makes of the row is a row.
LEMMA ResultIsRow ==
  ASSUME TypeOK, NEW a \in Session, NEW status \in Status
  PROVE  Result(a, status) \in Row
<1>1. row \in Row /\ a.loaded \in Row /\ a.live \in Nat /\ a.liveVideo \in Nat
  BY DEF TypeOK, Session
<1>2. Counters(a)[1] \in Nat /\ Counters(a)[2] \in Nat
  BY <1>1 DEF Counters, Row, Repairs
<1> DEFINE new == [active |-> Counters(a)[1], videos |-> Counters(a)[2],
                   status |-> status]
<1>3. new \in Row
  BY <1>2 DEF Row
<1>4. Flush(row, a.loaded, new) \in Row
  BY <1>1, <1>3, FlushIsRow
<1>5. CASE a.op = "relogin"
  BY <1>5, <1>1 DEF Result, Row, Status
<1>6. CASE a.op = "watchdog"
  BY <1>6 DEF Result, Row, Status
<1>7. CASE a.op # "relogin" /\ a.op # "watchdog"
  BY <1>7, <1>4 DEF Result
<1> QED
  BY <1>5, <1>6, <1>7

LEMMA NewStatusIsStatus ==
  ASSUME NEW a \in Session, a.op # None
  PROVE  (IF a.op \in RawOps THEN Status ELSE NewStatus(a)) \subseteq Status
BY DEF NewStatus, Session, FlushOps, RawOps, Repairs, Status, Row

LEMMA TypeInit == Init => TypeOK
BY IdleIsTyped DEF Init, TypeOK

\* An update of one attempt, and of one session, keeps the types.
LEMMA AttemptIsTyped ==
  ASSUME TypeOK, NEW t \in Tasks, NEW new \in Task,
         task' = [task EXCEPT ![t] = new]
  PROVE  task' \in [Tasks -> Task]
BY DEF TypeOK

LEMMA SessionIsTyped ==
  ASSUME TypeOK, NEW s \in Sessions, NEW new \in Session,
         session' = [session EXCEPT ![s] = new]
  PROVE  session' \in [Sessions -> Session]
BY DEF TypeOK

LEMMA AttemptType ==
  ASSUME TypeOK, NEW t \in Tasks, Attempt(t) \/ Claim(t) \/ LoseSlot(t)
  PROVE  TypeOK'
<1>1. row \in Row /\ task[t] \in Task /\ task[t].loaded \in Row
  BY DEF TypeOK, Task
<1>2. CASE Claim(t)
  <2>1. [task[t] EXCEPT !.pc = "inflight"] \in Task
    BY <1>1 DEF Task
  <2>2. task' = [task EXCEPT ![t] = [task[t] EXCEPT !.pc = "inflight"]]
    BY <1>2 DEF Claim, TypeOK
  <2> QED
    BY <2>1, <2>2, <1>2, AttemptIsTyped DEF Claim, TypeOK
<1>3. CASE AcquireVideo(t)
  <2> DEFINE taken == [active |-> row.active + 1, videos |-> row.videos + 1,
                       status |-> "running_job"]
  <2>1. taken \in Row
    BY <1>1 DEF Row, Status
  <2>2. [pc |-> "holding", loaded |-> taken] \in Task
    BY <2>1 DEF Task
  <2>3. row' = taken
        /\ task' = [task EXCEPT ![t] = [pc |-> "holding", loaded |-> taken]]
    BY <1>3 DEF AcquireVideo
  <2> QED
    BY <2>1, <2>2, <2>3, <1>3, AttemptIsTyped DEF AcquireVideo, TypeOK
<1>4. CASE TurnedAway(t)
  BY <1>4, IdleIsTyped, AttemptIsTyped DEF TurnedAway, TypeOK
<1>5. CASE AcquireImage(t)
  <2>1. [task[t] EXCEPT !.pc = "holding"] \in Task
    BY <1>1 DEF Task
  <2>2. task' = [task EXCEPT ![t] = [task[t] EXCEPT !.pc = "holding"]]
    BY <1>5 DEF AcquireImage, TypeOK
  <2>3. row' = [row EXCEPT !.active = row.active + 1,
                           !.status = "running_job"]
    BY <1>5 DEF AcquireImage
  <2>4. row' \in Row
    <3>1. row.active + 1 \in Nat
      BY <1>1 DEF Row
    <3> DEFINE n == row.active + 1
    <3>2. n \in Nat /\ row' = [row EXCEPT !.active = n, !.status = "running_job"]
      BY <2>3, <3>1
    <3> HIDE DEF n
    <3> QED
      BY <3>2, <1>1 DEF Row, Status
  <2> QED
    BY <2>1, <2>2, <2>4, <1>5, AttemptIsTyped DEF AcquireImage, TypeOK
<1>6. CASE ReleaseVideo(t)
  <2>1. row' \in Row
    BY <1>1, <1>6, ReleasedIsRow, FlushIsRow DEF ReleaseVideo
  <2> QED
    BY <2>1, <1>6, IdleIsTyped, AttemptIsTyped DEF ReleaseVideo, TypeOK
<1>7. CASE ReadForRelease(t)
  <2>1. [pc |-> "releasing", loaded |-> row] \in Task
    BY <1>1 DEF Task
  <2> QED
    BY <2>1, <1>7, AttemptIsTyped DEF ReadForRelease, TypeOK
<1>8. CASE ReleaseImage(t)
  <2>1. row' \in Row
    <3>1. ImageReleased(task[t].loaded) \in Row
      BY <1>1, ReleasedIsRow
    <3> QED
      BY <3>1, <1>1, <1>8, FlushIsRow DEF ReleaseImage
  <2> QED
    BY <2>1, <1>8, IdleIsTyped, AttemptIsTyped DEF ReleaseImage, TypeOK
<1>9. CASE EndImageJob(t)
  BY <1>9, IdleIsTyped, AttemptIsTyped DEF EndImageJob, TypeOK
<1>10. CASE LoseSlot(t)
  <2>1. task' \in [Tasks -> Task]
    BY <1>10, IdleIsTyped, AttemptIsTyped DEF LoseSlot
  <2> QED
    BY <2>1, <1>10 DEF LoseSlot, TypeOK
<1> QED
  BY <1>2, <1>3, <1>4, <1>5, <1>6, <1>7, <1>8, <1>9, <1>10 DEF Attempt

LEMMA WorkerType ==
  ASSUME TypeOK, Crash \/ Start
  PROVE  TypeOK'
<1>1. CASE Crash
  <2>1. task' \in [Tasks -> Task]
    BY <1>1, IdleIsTyped DEF Crash, TypeOK
  <2> QED
    BY <1>1, <2>1 DEF Crash, TypeOK
<1>2. CASE Start
  <2>1. row' \in Row
    BY <1>2 DEF Start, RecoveredRow, TypeOK, Row, Status
  <2>2. task' \in [Tasks -> Task]
    BY <1>2, IdleIsTyped DEF Start
  <2> QED
    BY <1>2, <2>1, <2>2 DEF Start, TypeOK
<1> QED
  BY <1>1, <1>2

LEMMA SessionType ==
  ASSUME TypeOK, NEW s \in Sessions, Load(s) \/ Store(s) \/ GiveUp(s)
  PROVE  TypeOK'
<1>1. row \in Row /\ session[s] \in Session
  BY DEF TypeOK
<1>2. CASE Load(s)
  <2>1. PICK op \in Ops : session' = [session EXCEPT ![s] =
              IF op \in Repairs
              THEN [op |-> op, loaded |-> row, live |-> Cardinality(LiveJobs),
                    liveVideo |-> Cardinality(LiveJobs \cap Video)]
              ELSE [IdleSession EXCEPT !.op = op, !.loaded = row]]
    BY <1>2 DEF Load
  <2> DEFINE new == IF op \in Repairs
              THEN [op |-> op, loaded |-> row, live |-> Cardinality(LiveJobs),
                    liveVideo |-> Cardinality(LiveJobs \cap Video)]
              ELSE [IdleSession EXCEPT !.op = op, !.loaded = row]
  <2>2. op \in FlushOps \cup RawOps
    BY SlotConstants
  <2>3. new \in Session
    BY <1>1, <2>2, CountsAreNat DEF Session, IdleSession
  <2>4. session' = [session EXCEPT ![s] = new]
    BY <2>1
  <2> HIDE DEF new
  <2>5. session' \in [Sessions -> Session]
    BY <2>3, <2>4, SessionIsTyped
  <2> QED
    BY <2>5, <1>2 DEF Load, TypeOK
<1>3. CASE Store(s)
  <2>1. session[s].op # None
    BY <1>3 DEF Store
  <2>2. PICK status \in IF session[s].op \in RawOps THEN Status
                        ELSE NewStatus(session[s]) :
           row' = Result(session[s], status)
    BY <1>3 DEF Store
  <2>3. status \in Status
    BY <1>1, <2>1, <2>2, NewStatusIsStatus
  <2>4. row' \in Row
    BY <1>1, <2>2, <2>3, ResultIsRow
  <2>5. session' \in [Sessions -> Session]
    BY <1>3, IdleIsTyped, SessionIsTyped DEF Store
  <2> QED
    BY <2>4, <2>5, <1>3 DEF Store, TypeOK
<1>4. CASE GiveUp(s)
  BY <1>4, IdleIsTyped, SessionIsTyped DEF GiveUp, TypeOK
<1> QED
  BY <1>2, <1>3, <1>4

LEMMA TypeStep == TypeOK /\ [Next]_vars => TypeOK'
<1> SUFFICES ASSUME TypeOK, [Next]_vars PROVE TypeOK'
  OBVIOUS
<1>1. CASE UNCHANGED vars
  BY <1>1 DEF vars, TypeOK
<1>2. CASE Next
  BY <1>2, AttemptType, WorkerType, SessionType DEF Next
<1> QED
  BY <1>1, <1>2

\* Types: in particular no counter is ever negative, and no stale copy a
\* release or a handler writes back is malformed.
THEOREM SlotTypes == Spec => []TypeOK
<1> QED
  BY TypeInit, TypeStep, PTL DEF Spec

-----------------------------------------------------------------------------
(* The caps. A counter is overwritten with values computed from copies, so *)
(* the copies have to respect the caps too. The repairs are left out: they *)
(* count jobs, with or without a slot, and may well exceed a cap.          *)

NoRepair == Ops \cap Repairs = {}

Within(r) == r.active <= MaxJobs /\ r.videos <= MaxVideo

CapInv ==
    /\ TypeOK
    /\ Within(row)
    /\ \A t \in Tasks : Within(task[t].loaded)
    /\ \A s \in Sessions :
         Within(session[s].loaded) /\ session[s].op \notin Repairs

LEMMA FreshIsWithin ==
  /\ Within(FreshRow) /\ Within(IdleTask.loaded) /\ Within(IdleSession.loaded)
  /\ IdleSession.op \notin Repairs
  /\ \A pc \in {"idle", "inflight", "holding", "releasing", "dead"} :
        Within([IdleTask EXCEPT !.pc = pc].loaded)
BY SlotConstants
   DEF Within, FreshRow, IdleTask, IdleSession, Repairs, FlushOps, RawOps

LEMMA FlushIsWithin ==
  ASSUME NEW r \in Row, NEW l, NEW n, Within(r), Within(n)
  PROVE  Within(Flush(r, l, n))
BY DEF Within, Flush

LEMMA ReleasedIsWithin ==
  ASSUME NEW l \in Row, NEW err, Within(l)
  PROVE  Within(VideoReleased(l, err)) /\ Within(ImageReleased(l))
<1>1. l.active \in Nat /\ l.videos \in Nat
  BY DEF Row
<1>2. OneLess(l.active) \in Nat /\ OneLess(l.active) <= l.active
  BY <1>1, OneLessIsNat
<1>3. OneLess(l.videos) \in Nat /\ OneLess(l.videos) <= l.videos
  BY <1>1, OneLessIsNat
<1> QED
  BY <1>1, <1>2, <1>3, SlotConstants DEF Within, VideoReleased, ImageReleased

LEMMA ResultIsWithin ==
  ASSUME CapInv, NEW s \in Sessions, NEW status
  PROVE  Within(Result(session[s], status))
<1> DEFINE a == session[s]
<1>1. row \in Row /\ Within(row) /\ Within(a.loaded) /\ a.op \notin Repairs
  BY DEF CapInv, TypeOK
<1> DEFINE new == [active |-> Counters(a)[1], videos |-> Counters(a)[2],
                   status |-> status]
<1>2. Within(new)
  BY <1>1, SlotConstants DEF Counters, Within
<1>3. Within(Flush(row, a.loaded, new))
  BY <1>1, <1>2, FlushIsWithin
<1>4. CASE a.op = "relogin"
  BY <1>4, <1>1 DEF Result, Within, Row
<1>5. CASE a.op = "watchdog"
  BY <1>5, SlotConstants DEF Result, Within
<1>6. CASE a.op # "relogin" /\ a.op # "watchdog"
  BY <1>6, <1>3 DEF Result
<1> QED
  BY <1>4, <1>5, <1>6

\* One attempt changes: its new copy and the new row are within the caps.
LEMMA CapFromParts ==
  ASSUME CapInv, TypeOK', Within(row'), UNCHANGED session, NEW t \in Tasks,
         NEW new \in Task, task' = [task EXCEPT ![t] = new], Within(new.loaded)
  PROVE  CapInv'
<1>1. \A u \in Tasks : Within(task'[u].loaded)
  BY DEF CapInv, TypeOK
<1> QED
  BY <1>1 DEF CapInv, Within

LEMMA AttemptCap ==
  ASSUME CapInv, NEW t \in Tasks, Attempt(t) \/ Claim(t) \/ LoseSlot(t)
  PROVE  CapInv'
<1>1. TypeOK /\ row \in Row /\ task[t] \in Task /\ task[t].loaded \in Row
      /\ Within(row) /\ Within(task[t].loaded)
  BY DEF CapInv, TypeOK, Task
<1>2. TypeOK'
  BY <1>1, AttemptType
<1>3. CASE Claim(t)
  <2>1. task' = [task EXCEPT ![t] = [task[t] EXCEPT !.pc = "inflight"]]
    BY <1>1, <1>3 DEF Claim, TypeOK
  <2>2. [task[t] EXCEPT !.pc = "inflight"] \in Task
        /\ Within([task[t] EXCEPT !.pc = "inflight"].loaded)
    BY <1>1 DEF Task
  <2> QED
    BY <1>1, <1>2, <1>3, <2>1, <2>2, CapFromParts DEF Claim
<1>4. CASE AcquireVideo(t)
  <2> DEFINE taken == [active |-> row.active + 1, videos |-> row.videos + 1,
                       status |-> "running_job"]
  <2>1. Within(taken)
    BY <1>1, <1>4, SlotConstants DEF AcquireVideo, HasVideoSlot, Within, Row
  <2>2. [pc |-> "holding", loaded |-> taken] \in Task
    BY <1>1 DEF Task, Row, Status
  <2>3. row' = taken
        /\ task' = [task EXCEPT ![t] = [pc |-> "holding", loaded |-> taken]]
    BY <1>4 DEF AcquireVideo
  <2>4. [pc |-> "holding", loaded |-> taken].loaded = taken
    OBVIOUS
  <2> HIDE DEF taken
  <2> QED
    BY <1>2, <1>4, <2>1, <2>2, <2>3, <2>4, CapFromParts DEF AcquireVideo
<1>5. CASE AcquireImage(t)
  <2>1. task' = [task EXCEPT ![t] = [task[t] EXCEPT !.pc = "holding"]]
    BY <1>1, <1>5 DEF AcquireImage, TypeOK
  <2>2. [task[t] EXCEPT !.pc = "holding"] \in Task
        /\ Within([task[t] EXCEPT !.pc = "holding"].loaded)
    BY <1>1 DEF Task
  <2>3. row'.active = row.active + 1 /\ row'.videos = row.videos
    BY <1>1, <1>5 DEF AcquireImage, Row
  <2>4. Within(row')
    BY <2>3, <1>1, <1>5, SlotConstants DEF AcquireImage, Within, Row
  <2> QED
    BY <1>2, <1>5, <2>1, <2>2, <2>4, CapFromParts DEF AcquireImage
<1>6. CASE ReleaseVideo(t)
  <2>1. Within(row')
    <3>1. PICK err \in {None, "need_login", "blocked"} :
             row' = Flush(row, task[t].loaded,
                          VideoReleased(task[t].loaded, err))
      BY <1>6 DEF ReleaseVideo
    <3>2. Within(VideoReleased(task[t].loaded, err))
      BY <1>1, ReleasedIsWithin
    <3> QED
      BY <1>1, <3>1, <3>2, FlushIsWithin
  <2> QED
    BY <2>1, <1>2, <1>6, IdleIsTyped, FreshIsWithin, CapFromParts
       DEF ReleaseVideo
<1>7. CASE ReleaseImage(t)
  <2>1. Within(row')
    BY <1>1, <1>7, ReleasedIsWithin, FlushIsWithin DEF ReleaseImage
  <2> QED
    BY <2>1, <1>2, <1>7, IdleIsTyped, FreshIsWithin, CapFromParts
       DEF ReleaseImage
<1>8. CASE ReadForRelease(t)
  <2>1. [pc |-> "releasing", loaded |-> row] \in Task
    BY <1>1 DEF Task
  <2> QED
    BY <2>1, <1>1, <1>2, <1>8, CapFromParts DEF ReadForRelease
<1>9. CASE TurnedAway(t) \/ EndImageJob(t)
  BY <1>9, <1>1, <1>2, IdleIsTyped, FreshIsWithin, CapFromParts
     DEF TurnedAway, EndImageJob
<1>10. CASE LoseSlot(t)
  BY <1>10, <1>1, <1>2, IdleIsTyped, FreshIsWithin, CapFromParts DEF LoseSlot
<1> QED
  BY <1>3, <1>4, <1>5, <1>6, <1>7, <1>8, <1>9, <1>10 DEF Attempt

LEMMA WorkerCap ==
  ASSUME CapInv, Crash \/ Start
  PROVE  CapInv'
<1>1. TypeOK'
  BY WorkerType DEF CapInv
<1>2. Within(row')
  BY SlotConstants DEF Crash, Start, RecoveredRow, CapInv, Within
<1>3. \A t \in Tasks : Within(task'[t].loaded)
  BY FreshIsWithin DEF Crash, Start, CapInv
<1> QED
  BY <1>1, <1>2, <1>3 DEF Crash, Start, CapInv

LEMMA SessionCap ==
  ASSUME NoRepair, CapInv, NEW s \in Sessions, Load(s) \/ Store(s) \/ GiveUp(s)
  PROVE  CapInv'
<1>1. TypeOK'
  BY SessionType DEF CapInv
<1>2. Within(row')
  BY ResultIsWithin DEF Load, Store, GiveUp, CapInv
<1>3. PICK new : session' = [session EXCEPT ![s] = new] /\ Within(new.loaded)
                 /\ new.op \notin Repairs
  <2>1. CASE Load(s)
    <3>1. PICK op \in Ops :
            session' = [session EXCEPT ![s] =
                          [IdleSession EXCEPT !.op = op, !.loaded = row]]
      BY <2>1 DEF Load, NoRepair
    <3>2. [IdleSession EXCEPT !.op = op, !.loaded = row].loaded = row
          /\ [IdleSession EXCEPT !.op = op, !.loaded = row].op = op
      BY DEF IdleSession
    <3> QED
      BY <3>1, <3>2 DEF NoRepair, CapInv
  <2>2. CASE Store(s) \/ GiveUp(s)
    BY <2>2, FreshIsWithin DEF Store, GiveUp
  <2> QED
    BY <2>1, <2>2
<1>4. \A r \in Sessions :
         Within(session'[r].loaded) /\ session'[r].op \notin Repairs
  BY <1>3 DEF CapInv, TypeOK
<1> QED
  BY <1>1, <1>2, <1>4 DEF Load, Store, GiveUp, CapInv

\* The counters respect the caps, for any number of attempts, however often the
\* row is overwritten from stale copies and the worker crashes, as long as no
\* repair counts the jobs.
THEOREM CapsHold == ASSUME NoRepair PROVE Spec => []CountersWithinCaps
<1>1. Init => CapInv
  BY TypeInit, FreshIsWithin DEF Init, CapInv
<1>2. CapInv /\ [Next]_vars => CapInv'
  <2> SUFFICES ASSUME CapInv, [Next]_vars PROVE CapInv'
    OBVIOUS
  <2>1. CASE UNCHANGED vars
    BY <2>1 DEF vars, CapInv, TypeOK, Within
  <2>2. CASE Next
    BY <2>2, AttemptCap, WorkerCap, SessionCap DEF Next
  <2> QED
    BY <2>1, <2>2
<1>3. CapInv => CountersWithinCaps
  BY DEF CapInv, Within, CountersWithinCaps
<1> QED
  BY <1>1, <1>2, <1>3, PTL DEF Spec

-----------------------------------------------------------------------------
(* The default cap, one job at a time. Then a release never finds a row    *)
(* that another attempt changed in between: the stale copy and the lost    *)
(* update are harmless, and the counters are exact.                        *)

Clearing == {"reset_cdp", "watchdog"} \cup Repairs

OneTab == MaxJobs = 1 /\ Ops \cap Clearing = {}

\* The attempts that have a copy of the row to release with.
Copied(t) ==
    (t \in Video /\ task[t].pc = "holding") \/ task[t].pc = "releasing"

\* The only holder is counted, by the row and by its copy of the row.
HolderInv ==
    \A t \in Holders :
        /\ row.active = 1
        /\ \A u \in Holders : u = t
        /\ Copied(t) => task[t].loaded.active = 1
        /\ task[t].pc = "releasing" => t \notin Video

\* Until something is lost the row counts nothing else.
ExactInv ==
    losses = 0 /\ crashes = 0 =>
        /\ Holders = {} => row.active = 0 /\ row.videos = 0
        /\ \A t \in Holders :
             /\ row.videos = IF t \in Video THEN 1 ELSE 0
             /\ Copied(t) => task[t].loaded.videos = row.videos

OneInv ==
    /\ CapInv
    /\ HolderInv
    /\ ExactInv
    /\ \A s \in Sessions : session[s].op \notin Clearing

\* One new attempt: who holds afterwards.
LEMMA HoldersAfter ==
  ASSUME TypeOK, NEW t \in Tasks, NEW new, task' = [task EXCEPT ![t] = new]
  PROVE  /\ Holders' = IF new.pc \in {"holding", "releasing"}
                       THEN Holders \cup {t} ELSE Holders \ {t}
         /\ task'[t] = new
         /\ \A u \in Tasks : u # t => task'[u] = task[u]
BY DEF TypeOK, Holders

\* An attempt that opens a tab is alone.
LEMMA AcquireOne ==
  ASSUME OneTab, OneInv, NEW t \in Tasks, AcquireVideo(t) \/ AcquireImage(t)
  PROVE  HolderInv' /\ ExactInv' /\ Holders = {} /\ Holders' = {t}
<1>1. TypeOK /\ row.active \in Nat /\ row.videos \in Nat
  BY DEF OneInv, CapInv, TypeOK, Row
<1>2. row.active = 0
  BY <1>1 DEF AcquireVideo, AcquireImage, HasVideoSlot, OneTab
<1>3. Holders = {}
  BY <1>2 DEF OneInv, HolderInv
<1>4. losses = 0 /\ crashes = 0 => row.videos = 0
  BY <1>3 DEF OneInv, ExactInv
<1>5. CASE AcquireVideo(t)
  <2> DEFINE taken == [active |-> row.active + 1, videos |-> row.videos + 1,
                       status |-> "running_job"]
             new == [pc |-> "holding", loaded |-> taken]
  <2>1. row' = taken /\ task' = [task EXCEPT ![t] = new] /\ t \in Video
        /\ UNCHANGED <<worker, crashes, losses>>
    BY <1>5 DEF AcquireVideo
  <2>2. new.pc = "holding" /\ new.loaded = taken /\ taken.active = 1
        /\ (losses = 0 /\ crashes = 0 => taken.videos = 1)
    BY <1>1, <1>2, <1>4
  <2> HIDE DEF taken, new
  <2>3. Holders' = {t} /\ task'[t] = new
    BY <1>1, <1>3, <2>1, <2>2, HoldersAfter
  <2> QED
    BY <1>3, <2>1, <2>2, <2>3 DEF HolderInv, ExactInv, Copied
<1>6. CASE AcquireImage(t)
  <2>1. PICK new : new = [task[t] EXCEPT !.pc = "holding"]
    OBVIOUS
  <2>2. task' = [task EXCEPT ![t] = new] /\ new.pc = "holding"
        /\ t \notin Video /\ UNCHANGED <<worker, crashes, losses>>
    BY <1>1, <1>6, <2>1 DEF AcquireImage, TypeOK, Task
  <2>3. Holders' = {t} /\ task'[t] = new
    BY <1>1, <1>3, <2>2, HoldersAfter
  <2>4. row'.active = 1 /\ row'.videos = row.videos
    BY <1>1, <1>2, <1>6 DEF AcquireImage, TypeOK, Row
  <2> QED
    BY <1>3, <1>4, <2>2, <2>3, <2>4 DEF HolderInv, ExactInv, Copied
<1> QED
  BY <1>5, <1>6

\* An attempt that gives its slot back leaves the row empty.
LEMMA ReleaseOne ==
  ASSUME OneTab, OneInv, NEW t \in Tasks, ReleaseVideo(t) \/ ReleaseImage(t)
  PROVE  HolderInv' /\ ExactInv' /\ Holders' = Holders \ {t}
<1>1. TypeOK /\ row \in Row /\ task[t].loaded \in Row
  BY DEF OneInv, CapInv, TypeOK, Task
<1>2. t \in Holders /\ Copied(t)
  BY DEF ReleaseVideo, ReleaseImage, Holders, Copied
<1>3. /\ row.active = 1 /\ task[t].loaded.active = 1 /\ Holders = {t}
      /\ task[t].pc = "releasing" => t \notin Video
  BY <1>2 DEF OneInv, HolderInv
<1>4. losses = 0 /\ crashes = 0 =>
         /\ row.videos = IF t \in Video THEN 1 ELSE 0
         /\ task[t].loaded.videos = row.videos
  BY <1>2 DEF OneInv, ExactInv
<1>5. PICK new \in {IdleTask, [IdleTask EXCEPT !.pc = "inflight"]} :
         task' = [task EXCEPT ![t] = new]
  BY DEF ReleaseVideo, ReleaseImage
<1>6. new.pc \notin {"holding", "releasing"}
  BY IdleIsTyped
<1>7. Holders' = {}
  BY <1>1, <1>3, <1>5, <1>6, HoldersAfter
<1>8. row'.active = 0 /\ (losses = 0 /\ crashes = 0 => row'.videos = 0)
  <2>1. CASE ReleaseVideo(t)
    <3>1. PICK err \in {None, "need_login", "blocked"} :
             row' = Flush(row, task[t].loaded,
                          VideoReleased(task[t].loaded, err))
      BY <2>1 DEF ReleaseVideo
    <3> QED
      BY <2>1, <3>1, <1>3, <1>4
      DEF ReleaseVideo, Flush, VideoReleased, OneLess
  <2>2. CASE ReleaseImage(t)
    <3>1. t \notin Video
      BY <2>2, <1>3 DEF ReleaseImage
    <3> QED
      BY <2>2, <3>1, <1>3, <1>4
      DEF ReleaseImage, Flush, ImageReleased, OneLess
  <2> QED
    BY <2>1, <2>2
<1>9. UNCHANGED <<crashes, losses>>
  BY DEF ReleaseVideo, ReleaseImage
<1> QED
  BY <1>3, <1>7, <1>8, <1>9 DEF HolderInv, ExactInv

\* The steps of an attempt that leave the row and the holders alone.
LEMMA ReadOne ==
  ASSUME OneTab, OneInv, NEW t \in Tasks, ReadForRelease(t)
  PROVE  HolderInv' /\ ExactInv' /\ Holders' = Holders
<1>1. TypeOK /\ t \in Holders /\ t \notin Video
  BY DEF OneInv, CapInv, ReadForRelease, Holders
<1>2. row.active = 1 /\ \A u \in Holders : u = t
  BY <1>1 DEF OneInv, HolderInv
<1>3. PICK new : task' = [task EXCEPT ![t] = new] /\ new.pc = "releasing"
      /\ new.loaded = row /\ UNCHANGED <<row, crashes, losses>>
  <2>1. [pc |-> "releasing", loaded |-> row].pc = "releasing"
        /\ [pc |-> "releasing", loaded |-> row].loaded = row
    OBVIOUS
  <2> QED
    BY <2>1 DEF ReadForRelease
<1>4. Holders' = Holders /\ task'[t] = new
  <2>1. Holders' = Holders \cup {t} /\ task'[t] = new
    BY <1>1, <1>3, HoldersAfter
  <2>2. Holders \cup {t} = Holders
    BY <1>1
  <2> QED
    BY <2>1, <2>2
<1>5. HolderInv'
  BY <1>1, <1>2, <1>3, <1>4 DEF HolderInv
<1>6. losses = 0 /\ crashes = 0 => row.videos = 0
  BY <1>1 DEF OneInv, ExactInv
<1>7. ExactInv'
  BY <1>1, <1>2, <1>3, <1>4, <1>6 DEF ExactInv
<1> QED
  BY <1>4, <1>5, <1>7

LEMMA OtherOne ==
  ASSUME OneTab, OneInv, NEW t \in Tasks,
         Claim(t) \/ TurnedAway(t) \/ EndImageJob(t)
  PROVE  HolderInv' /\ ExactInv' /\ Holders' = Holders
<1>1. TypeOK /\ t \notin Holders /\ UNCHANGED <<row, crashes, losses>>
  BY DEF OneInv, CapInv, Claim, TurnedAway, EndImageJob, Holders
<1>2. PICK new : task' = [task EXCEPT ![t] = new]
                 /\ new.pc \notin {"holding", "releasing"}
  <2>1. CASE Claim(t)
    <3>1. task' = [task EXCEPT ![t] = [task[t] EXCEPT !.pc = "inflight"]]
      BY <1>1, <2>1 DEF Claim, TypeOK
    <3>2. [task[t] EXCEPT !.pc = "inflight"].pc = "inflight"
      BY <1>1 DEF TypeOK, Task
    <3> QED
      BY <3>1, <3>2
  <2>2. CASE TurnedAway(t) \/ EndImageJob(t)
    BY <2>2, IdleIsTyped DEF TurnedAway, EndImageJob
  <2> QED
    BY <2>1, <2>2
<1>3. Holders' = Holders /\ \A u \in Holders : task'[u] = task[u]
  BY <1>1, <1>2, HoldersAfter DEF Holders
<1> QED
  BY <1>1, <1>3 DEF OneInv, HolderInv, ExactInv, Copied

\* An attempt or a worker that dies holds nothing; what it leaves behind is
\* counted but not held.
LEMMA LossOne ==
  ASSUME OneTab, OneInv, NEW t \in Tasks, LoseSlot(t)
  PROVE  HolderInv' /\ ExactInv' /\ Holders' = Holders \ {t}
<1>1. TypeOK /\ t \in Holders /\ row' = row /\ losses \in Nat
      /\ losses' = losses + 1
  BY DEF OneInv, CapInv, TypeOK, LoseSlot, Holders
<1>2. \A u \in Holders : u = t
  BY <1>1 DEF OneInv, HolderInv
<1>3. PICK new : task' = [task EXCEPT ![t] = new]
                 /\ new.pc \notin {"holding", "releasing"}
  BY IdleIsTyped DEF LoseSlot
<1>4. Holders' = Holders \ {t}
  BY <1>1, <1>3, HoldersAfter
<1>5. losses' # 0 /\ Holders' = {}
  BY <1>1, <1>2, <1>4
<1> QED
  BY <1>4, <1>5 DEF HolderInv, ExactInv

LEMMA WorkerOne ==
  ASSUME OneTab, OneInv, Crash \/ Start
  PROVE  HolderInv' /\ ExactInv' /\ Holders' = {}
<1>1. \A t \in Tasks : task'[t].pc \notin {"holding", "releasing"}
  BY IdleIsTyped DEF Crash, Start
<1>2. Holders' = {}
  BY <1>1 DEF Holders
<1>3. CASE Crash
  <2>1. crashes' # 0
    BY <1>3 DEF Crash, OneInv, CapInv, TypeOK
  <2> QED
    BY <1>2, <2>1 DEF HolderInv, ExactInv
<1>4. CASE Start
  <2>1. row'.active = 0 /\ row'.videos = 0
    BY <1>4 DEF Start, RecoveredRow
  <2> QED
    BY <1>2, <2>1 DEF HolderInv, ExactInv
<1> QED
  BY <1>2, <1>3, <1>4

\* Operations on the status write no counter.
LEMMA SessionOne ==
  ASSUME OneTab, OneInv, NEW s \in Sessions, Load(s) \/ Store(s) \/ GiveUp(s)
  PROVE  /\ HolderInv' /\ ExactInv' /\ Holders' = Holders
         /\ \A r \in Sessions : session'[r].op \notin Clearing
<1>1. TypeOK /\ row \in Row /\ session[s].op \notin Clearing
  BY DEF OneInv, CapInv, TypeOK
<1>2. UNCHANGED <<task, crashes, losses>>
  BY DEF Load, Store, GiveUp
<1>3. row'.active = row.active /\ row'.videos = row.videos
  <2>1. CASE Load(s) \/ GiveUp(s)
    BY <2>1 DEF Load, GiveUp
  <2>2. CASE Store(s)
    <3>1. PICK status : row' = Result(session[s], status)
      BY <2>2 DEF Store
    <3>2. Counters(session[s]) = <<session[s].loaded.active,
                                   session[s].loaded.videos>>
      BY <1>1 DEF Counters, Clearing
    <3>3. session[s].op # "watchdog"
      BY <1>1 DEF Clearing
    <3>4. CASE session[s].op = "relogin"
      BY <3>1, <3>4, <1>1 DEF Result, Row
    <3>5. CASE session[s].op # "relogin"
      BY <3>1, <3>2, <3>3, <3>5 DEF Result, Flush
    <3> QED
      BY <3>4, <3>5
  <2> QED
    BY <2>1, <2>2
<1>4. PICK new : session' = [session EXCEPT ![s] = new] /\ new.op \notin Clearing
  <2>1. CASE Load(s)
    <3>1. PICK op \in Ops :
            session' = [session EXCEPT ![s] =
                          [IdleSession EXCEPT !.op = op, !.loaded = row]]
      BY <2>1 DEF Load, OneTab, Clearing
    <3>2. [IdleSession EXCEPT !.op = op, !.loaded = row].op = op
      BY DEF IdleSession
    <3> QED
      BY <3>1, <3>2 DEF OneTab
  <2>2. CASE Store(s) \/ GiveUp(s)
    <3>1. None \notin Clearing
      BY SlotConstants DEF Clearing, Repairs, FlushOps, RawOps
    <3>2. IdleSession.op \notin Clearing
      BY <3>1, IdleIsTyped
    <3> QED
      BY <2>2, <3>2 DEF Store, GiveUp
  <2> QED
    BY <2>1, <2>2
<1>5. \A r \in Sessions : session'[r].op \notin Clearing
  BY <1>4 DEF OneInv, CapInv, TypeOK
<1>6. Holders' = Holders
  BY <1>2 DEF Holders
<1> QED
  BY <1>2, <1>3, <1>5, <1>6 DEF OneInv, HolderInv, ExactInv, Copied

LEMMA OneInit == ASSUME OneTab PROVE Init => OneInv /\ Holders = {}
<1> SUFFICES ASSUME Init PROVE OneInv /\ Holders = {}
  OBVIOUS
<1>1. Holders = {}
  BY IdleIsTyped DEF Init, Holders
<1>2. CapInv
  BY TypeInit, FreshIsWithin DEF Init, CapInv
<1>3. None \notin Clearing
  BY SlotConstants DEF Clearing, Repairs, FlushOps, RawOps
<1>4. \A s \in Sessions : session[s].op \notin Clearing
  BY <1>3, IdleIsTyped DEF Init
<1>5. ExactInv
  BY <1>1 DEF ExactInv, Init, FreshRow
<1> QED
  BY <1>1, <1>2, <1>4, <1>5 DEF OneInv, HolderInv

\* Every step keeps the invariant and is a step of the semaphore.
LEMMA OneStep ==
  ASSUME OneTab
  PROVE  OneInv /\ [Next]_vars => OneInv' /\ [Gate!GateNext]_Holders
<1> SUFFICES ASSUME OneInv, [Next]_vars
             PROVE  OneInv' /\ [Gate!GateNext]_Holders
  OBVIOUS
<1>0. NoRepair
  BY DEF OneTab, NoRepair, Clearing
<1>1. CASE UNCHANGED vars
  <2>1. Holders' = Holders
    BY <1>1 DEF vars, Holders
  <2> QED
    BY <1>1, <2>1 DEF vars, OneInv, CapInv, TypeOK, Within, HolderInv,
                      ExactInv, Copied
<1>2. ASSUME NEW t \in Tasks, Claim(t) \/ Attempt(t) \/ LoseSlot(t)
      PROVE  OneInv' /\ [Gate!GateNext]_Holders
  <2>1. CapInv'
    BY <1>2, AttemptCap DEF OneInv
  <2>2. \A s \in Sessions : session'[s].op \notin Clearing
    BY <1>2 DEF OneInv, Claim, Attempt, LoseSlot, AcquireVideo, TurnedAway,
       AcquireImage, ReleaseVideo, ReadForRelease, ReleaseImage, EndImageJob
  <2>3. CASE AcquireVideo(t) \/ AcquireImage(t)
    <3>1. HolderInv' /\ ExactInv' /\ Holders = {} /\ Holders' = {t}
      BY <2>3, AcquireOne
    <3>2. Gate!Admit(t)
      BY <3>1, FS_EmptySet DEF Gate!Admit, Gate!Cardinality, Cardinality, OneTab
    <3> QED
      BY <2>1, <2>2, <3>1, <3>2 DEF OneInv, Gate!GateNext
  <2>4. CASE ReleaseVideo(t) \/ ReleaseImage(t) \/ LoseSlot(t)
    <3>1. HolderInv' /\ ExactInv' /\ Holders' = Holders \ {t}
      BY <2>4, ReleaseOne, LossOne
    <3>2. Gate!Leave({t}) /\ {t} \in SUBSET Tasks
      BY <3>1 DEF Gate!Leave
    <3> QED
      BY <2>1, <2>2, <3>1, <3>2 DEF OneInv, Gate!GateNext
  <2>5. CASE Claim(t) \/ TurnedAway(t) \/ EndImageJob(t) \/ ReadForRelease(t)
    <3>1. HolderInv' /\ ExactInv' /\ Holders' = Holders
      BY <2>5, ReadOne, OtherOne
    <3> QED
      BY <2>1, <2>2, <3>1 DEF OneInv
  <2> QED
    BY <1>2, <2>3, <2>4, <2>5 DEF Attempt
<1>3. CASE Crash \/ Start
  <2>1. HolderInv' /\ ExactInv' /\ Holders' = {}
    BY <1>3, WorkerOne
  <2>2. CapInv'
    BY <1>3, WorkerCap DEF OneInv
  <2>3. Holders \ Tasks = {} /\ Tasks \in SUBSET Tasks
    BY DEF Holders
  <2>4. Gate!Leave(Tasks)
    BY <2>1, <2>3 DEF Gate!Leave
  <2>5. session' = session
    BY <1>3 DEF Crash, Start
  <2> QED
    BY <2>1, <2>2, <2>3, <2>4, <2>5 DEF OneInv, Gate!GateNext
<1>4. ASSUME NEW s \in Sessions, Load(s) \/ Store(s) \/ GiveUp(s)
      PROVE  OneInv' /\ [Gate!GateNext]_Holders
  <2>1. CapInv'
    BY <1>0, <1>4, SessionCap DEF OneInv
  <2> QED
    BY <2>1, <1>4, SessionOne DEF OneInv
<1> QED
  BY <1>1, <1>2, <1>3, <1>4 DEF Next

LEMMA OneAlways == ASSUME OneTab PROVE Spec => []OneInv
<1>1. Init => OneInv
  BY OneInit
<1>2. OneInv /\ [Next]_vars => OneInv'
  BY OneStep
<1> QED
  BY <1>1, <1>2, PTL DEF Spec

\* The holders are none or one.
LEMMA HoldersCounted ==
  ASSUME OneInv
  PROVE  \/ Holders = {} /\ Cardinality(Holders) = 0
            /\ Cardinality(Holders \cap Video) = 0
         \/ \E t \in Tasks :
              /\ Holders = {t} /\ Cardinality(Holders) = 1
              /\ Cardinality(Holders \cap Video) = IF t \in Video THEN 1 ELSE 0
<1>1. CASE Holders = {}
  <2>1. Holders \cap Video = {}
    BY <1>1
  <2> QED
    BY <1>1, <2>1, FS_EmptySet
<1>2. CASE Holders # {}
  <2>1. PICK t \in Tasks : t \in Holders
    BY <1>2 DEF Holders
  <2>2. Holders = {t}
    BY <2>1 DEF OneInv, HolderInv
  <2>3. Holders \cap Video = IF t \in Video THEN {t} ELSE {}
    BY <2>2
  <2> QED
    BY <2>2, <2>3, FS_EmptySet, FS_Singleton
<1> QED
  BY <1>1, <1>2

\* With the default cap the browser never has two tabs open under a slot,
\* although the release reads without a lock and writes back what it read.
THEOREM OneTabAtATime == ASSUME OneTab PROVE Spec => []TabsBounded
<1>1. OneInv => TabsBounded
  BY HoldersCounted DEF OneTab, TabsBounded
<1> QED
  BY <1>1, OneAlways, PTL

\* With the default cap the counters are exact until something is lost.
THEOREM CountersAreExact == ASSUME OneTab PROVE Spec => []SlotsExact
<1>1. OneInv => SlotsExact
  <2> SUFFICES ASSUME OneInv, losses = 0 /\ crashes = 0
               PROVE  /\ row.active = Cardinality(Holders)
                      /\ row.videos = Cardinality(Holders \cap Video)
    BY DEF SlotsExact
  <2>1. HolderInv /\ ExactInv
    BY DEF OneInv
  <2> QED
    BY <2>1, HoldersCounted DEF HolderInv, ExactInv
<1> QED
  BY <1>1, OneAlways, PTL

\* With the default cap the counters implement the semaphore SlotGate.
THEOREM SlotsImplementGate == ASSUME OneTab PROVE Spec => ImplementsGate
<1>1. Init => Holders = {}
  BY OneInit
<1>2. OneInv /\ [Next]_vars => [Gate!GateNext]_Holders
  BY OneStep
<1> QED
  BY <1>1, <1>2, OneAlways, PTL DEF Spec, ImplementsGate, Gate!GateSpec
=============================================================================
