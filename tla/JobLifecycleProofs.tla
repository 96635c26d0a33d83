------------------------- MODULE JobLifecycleProofs -------------------------
(***************************************************************************)
(* Proofs about JobLifecycle, for every value of its constants: any number *)
(* of jobs, profiles, workers, tasks, clients, crashes and faults.  In     *)
(* order: types, drivers, one attempt at a time, the retry budget without  *)
(* and with manual retries, what an attempt leaves behind (profiles, runs, *)
(* events), and the contract of the queue.                                 *)
(***************************************************************************)
EXTENDS JobLifecycle, FiniteSetTheorems, TLAPS

-----------------------------------------------------------------------------
(* Type correctness needs to know which fields of an attempt and of a      *)
(* handler are set by the time they are used.                              *)

\* An attempt has a job from its claim on and a profile once it has bound one.
AttemptShape ==
    \A t \in Tasks : Live(t) =>
        /\ task[t].job \in Jobs
        /\ task[t].pc \notin {"claimed", "assigning"} =>
              task[t].profile \in Profiles

\* A handler between its two statements knows what it does, and to which row.
HandlerShape ==
    \A c \in Clients : request[c] # NoRequest =>
        request[c].kind \in Requests /\ request[c].job \in Jobs

TypeInv == TypeOK /\ AttemptShape /\ HandlerShape

\* What an attempt writes over a row, Written, is a row.
LEMMA WrittenIsRow ==
  ASSUME NEW row \in Row, NEW tk \in Task, tk.profile \in Profiles
  PROVE  Written(row, tk) \in Row
<1>1. row.banned \subseteq Profiles /\ tk.banned \subseteq Profiles
  BY DEF Row, Task
<1>2. tk.retry + 1 \in Nat
  BY DEF Task
<1>3. CASE tk.verdict \in Terminal
  BY <1>3 DEF Written, Row, Terminal, JobStatus
<1>4. CASE tk.verdict \notin Terminal /\ tk.verdict = "rotate"
  <2>1. Written(row, tk) =
          [row EXCEPT !.status = "queued", !.retry = tk.retry + 1,
                      !.profile = None, !.banned = tk.banned \cup {tk.profile},
                      !.due = TRUE]
    BY <1>4 DEF Written
  <2>2. tk.banned \cup {tk.profile} \in SUBSET Profiles
    BY <1>1
  <2> DEFINE bans == tk.banned \cup {tk.profile}
  <2>3. bans \in SUBSET Profiles
    BY <2>2
  <2>4. Written(row, tk) = [row EXCEPT !.status = "queued",
            !.retry = tk.retry + 1, !.profile = None, !.banned = bans,
            !.due = TRUE]
    BY <2>1
  <2> HIDE DEF bans
  <2> QED
    BY <2>3, <2>4, <1>2 DEF Row, JobStatus
<1>5. CASE tk.verdict \notin Terminal /\ tk.verdict # "rotate"
  <2>1. Written(row, tk) = [row EXCEPT !.status = "queued",
                                       !.retry = tk.retry + 1, !.due = FALSE]
    BY <1>5 DEF Written
  <2> QED
    BY <2>1, <1>2 DEF Row, JobStatus
<1> QED
  BY <1>3, <1>4, <1>5

\* What a handler writes over a row, Answered, is a row; so is what recovery
\* makes of it, Recovered.
LEMMA AnsweredIsRow ==
  ASSUME NEW row \in Row, NEW r \in Request,
         r.kind \in {"cancel", "retry", "delete"}
  PROVE  Answered(row, r) \in Row
<1>1. NoRow("deleted") \in Row
  BY ConstantsAssumption DEF NoRow, Row, JobStatus, Gone
<1>2. CASE r.kind = "cancel"
  BY <1>2 DEF Answered, Row, JobStatus, Terminal
<1>3. CASE r.kind = "retry"
  <2> DEFINE top == IF r.max < r.retry + 1 THEN r.retry + 2 ELSE row.max
  <2>1. Answered(row, r) = [row EXCEPT !.status = "queued",
                              !.retry = r.retry + 1, !.max = top, !.due = TRUE]
    BY <1>3 DEF Answered
  <2>2. r.retry + 1 \in Nat /\ top \in Nat
    BY DEF Request, Row
  <2> QED
    BY <2>1, <2>2 DEF Row, JobStatus
<1>4. CASE r.kind = "delete"
  BY <1>4, <1>1 DEF Answered
<1> QED
  BY <1>2, <1>3, <1>4

LEMMA RecoveredIsRow ==
  ASSUME NEW row \in Row
  PROVE  Recovered(row) \in Row
BY DEF Recovered, Row, JobStatus, Terminal, InFlight

\* A record with no job and nothing loaded is an attempt's initial state.
LEMMA IdleTaskIsTask == IdleTask \in Task /\ IdleTask.pc = "idle"
BY DEF IdleTask, Task

LEMMA TypeInit == Init => TypeInv
<1> SUFFICES ASSUME Init PROVE TypeInv
  OBVIOUS
<1>1. NoRow("absent") \in Row
  BY ConstantsAssumption DEF NoRow, Row, JobStatus, Gone
<1>2. NoRequest \in Request
  BY DEF NoRequest, Request
<1>3. TypeOK
  BY <1>1, <1>2, IdleTaskIsTask DEF Init, TypeOK
<1>4. AttemptShape
  BY IdleTaskIsTask DEF Init, AttemptShape, Live
<1>5. HandlerShape
  BY DEF Init, HandlerShape
<1> QED
  BY <1>3, <1>4, <1>5 DEF TypeInv

\* One attempt changes, to a record of the right type and shape.
LEMMA AttemptUpdate ==
  ASSUME TypeInv, NEW t \in Tasks, NEW tk \in Task,
         task' = [task EXCEPT ![t] = tk],
         tk.pc # "idle" =>
            /\ tk.job \in Jobs
            /\ tk.pc \notin {"claimed", "assigning"} => tk.profile \in Profiles
  PROVE  task' \in [Tasks -> Task] /\ AttemptShape'
BY DEF TypeInv, TypeOK, AttemptShape, Live

\* One row changes, to a row.
LEMMA RowUpdate ==
  ASSUME TypeInv, NEW j \in Jobs, NEW row \in Row,
         job' = [job EXCEPT ![j] = row]
  PROVE  job' \in [Jobs -> Row]
BY DEF TypeInv, TypeOK

\* A row that only changes its status is a row.
LEMMA StatusIsRow ==
  ASSUME NEW row \in Row, NEW status \in JobStatus
  PROVE  [row EXCEPT !.status = status] \in Row
BY DEF Row

\* Binding a profile keeps a row a row.
LEMMA RebindIsRow ==
  ASSUME NEW row \in Row, NEW tk \in Task, NEW p \in Profiles
  PROVE  Rebind(row, tk, p) \in Row
BY DEF Rebind, Row

\* Whatever an attempt may start from, or fail over to, is a profile.
LEMMA StartingPointsAreProfiles ==
  ASSUME TypeInv, NEW tk \in Task
  PROVE  StartingPoints(tk) \subseteq Profiles
<1>1. pool \subseteq Profiles
  BY DEF TypeInv, TypeOK
<1>2. tk.profile # None => tk.profile \in Profiles
  BY DEF Task
<1>3. Candidates(tk.job, tk.banned) \subseteq Profiles
  BY <1>1 DEF Candidates
<1> QED
  BY <1>2, <1>3, ConstantsAssumption DEF StartingPoints

\* Every step of the worker's attempts preserves types and shapes.
LEMMA TypeAttempt ==
  ASSUME TypeInv, NEW t \in Tasks, Attempt(t)
  PROVE  TypeInv'
<1> DEFINE tk == task[t]
<1>t. tk \in Task /\ IdleTask \in Task /\ IdleTask.pc = "idle"
  BY IdleTaskIsTask DEF TypeInv, TypeOK
<1>a. tk.pc # "idle" => tk.job \in Jobs /\ job[tk.job] \in Row
  BY DEF TypeInv, TypeOK, AttemptShape, Live
<1>1. CASE Claim(t)
  <2>1. PICK j \in Jobs :
          /\ job' = [job EXCEPT ![j].status = "running"]
          /\ task' = [task EXCEPT ![t] = [IdleTask EXCEPT !.pc = "claimed",
                                                          !.job = j]]
    BY <1>1 DEF Claim
  <2> DEFINE new == [IdleTask EXCEPT !.pc = "claimed", !.job = j]
  <2>2. new \in Task /\ new.pc = "claimed" /\ new.job = j
    BY <1>t DEF Task, IdleTask
  <2>3. job' \in [Jobs -> Row]
    <3> DEFINE row == [job[j] EXCEPT !.status = "running"]
    <3>1. job[j] \in Row /\ "running" \in JobStatus
      BY DEF TypeInv, TypeOK, JobStatus, InFlight
    <3>2. row \in Row
      BY <3>1, StatusIsRow
    <3>3. job' = [job EXCEPT ![j] = row]
      BY <2>1
    <3> QED
      BY <3>2, <3>3, RowUpdate
  <2> HIDE DEF new
  <2>4. task' = [task EXCEPT ![t] = new]
    BY <2>1 DEF new
  <2>5. task' \in [Tasks -> Task] /\ AttemptShape'
    BY <2>2, <2>4, AttemptUpdate
  <2> QED
    BY <1>1, <2>3, <2>5 DEF Claim, TypeInv, TypeOK, HandlerShape, ghosts
<1>2. CASE Refresh(t)
  <2> DEFINE row == job[tk.job]
             new == IF row.status = "cancelled" THEN IdleTask
                    ELSE [tk EXCEPT !.pc = "assigning",
                            !.profile = row.profile, !.banned = row.banned,
                            !.retry = row.retry, !.max = row.max]
  <2>1. tk.pc = "claimed" /\ row \in Row
    BY <1>2, <1>a DEF Refresh
  <2>2. new \in Task
    BY <1>t, <2>1 DEF Task, Row
  <2>3. new.pc # "idle" => new.pc = "assigning" /\ new.job = tk.job
    BY <1>t, <2>1 DEF Task
  <2>4. task' = [task EXCEPT ![t] = new]
    BY <1>2 DEF Refresh
  <2> HIDE DEF new
  <2>5. task' \in [Tasks -> Task] /\ AttemptShape'
    BY <1>a, <2>1, <2>2, <2>3, <2>4, AttemptUpdate
  <2> QED
    BY <1>2, <2>5 DEF Refresh, TypeInv, TypeOK, HandlerShape, ghosts
<1>3. CASE Assign(t)
  <2>1. tk.pc = "assigning" /\ tk.job \in Jobs /\ job[tk.job] \in Row
    BY <1>3, <1>a DEF Assign
  <2>2. StartingPoints(tk) \subseteq Profiles
    BY <1>t, StartingPointsAreProfiles
  <2>3. ASSUME FailNoProfile(t) PROVE job' \in [Jobs -> Row]
    BY <2>1, <2>3 DEF FailNoProfile, TypeInv, TypeOK, Row, JobStatus, Terminal
  <2>4. ASSUME RequeueAtCapacity(t) PROVE job' \in [Jobs -> Row]
    <3>1. PICK p \in StartingPoints(tk) :
            job' = [job EXCEPT ![tk.job] = [Rebind(@, tk, p) EXCEPT
                                               !.status = "queued"]]
      BY <2>4 DEF RequeueAtCapacity
    <3>2. Rebind(job[tk.job], tk, p) \in Row
      BY <1>t, <2>1, <2>2, RebindIsRow
    <3>3. [Rebind(job[tk.job], tk, p) EXCEPT !.status = "queued"] \in Row
      BY <3>2, StatusIsRow DEF JobStatus
    <3> QED
      BY <2>1, <3>1, <3>3 DEF TypeInv, TypeOK
  <2>5. ASSUME FailNoProfile(t) \/ RequeueAtCapacity(t)
        PROVE  task' \in [Tasks -> Task] /\ AttemptShape'
    <3>1. task' = [task EXCEPT ![t] = IdleTask]
      BY <2>5 DEF FailNoProfile, RequeueAtCapacity
    <3> QED
      BY <1>t, <3>1, AttemptUpdate
  <2>6. ASSUME BindProfile(t)
        PROVE  job' \in [Jobs -> Row] /\ task' \in [Tasks -> Task]
               /\ AttemptShape'
    <3>1. PICK p \in StartingPoints(tk), q \in Profiles :
            /\ job' = [job EXCEPT ![tk.job] = Rebind(@, tk, q)]
            /\ task' = [task EXCEPT ![t].pc = "assigned", ![t].profile = q]
      <4>1. PICK p \in StartingPoints(tk) :
              \E q \in IF JobType[tk.job] = "image" THEN {p}
                       ELSE (pool \cap {p}) \cup
                            Siblings(tk.job, tk.banned \cup {p}) :
                /\ job' = [job EXCEPT ![tk.job] = Rebind(@, tk, q)]
                /\ task' = [task EXCEPT ![t].pc = "assigned",
                     ![t].profile = q]
        BY <2>6 DEF BindProfile
      <4>2. p \in Profiles /\ pool \subseteq Profiles
        BY <2>2 DEF TypeInv, TypeOK
      <4>3. Siblings(tk.job, tk.banned \cup {p}) \subseteq Profiles
        BY <4>2 DEF Siblings
      <4> QED
        BY <4>1, <4>2, <4>3
    <3> DEFINE new == [tk EXCEPT !.pc = "assigned", !.profile = q]
    <3>2. new \in Task /\ new.job = tk.job /\ new.profile = q
      BY <1>t DEF Task
    <3>3. task' = [task EXCEPT ![t] = new]
      BY <3>1, <1>t DEF TypeInv, TypeOK
    <3> HIDE DEF new
    <3>4. task' \in [Tasks -> Task] /\ AttemptShape'
      BY <2>1, <3>2, <3>3, AttemptUpdate
    <3>5. Rebind(job[tk.job], tk, q) \in Row
      BY <1>t, <2>1, RebindIsRow
    <3> QED
      BY <2>1, <3>1, <3>4, <3>5 DEF TypeInv, TypeOK
  <2> QED
    BY <1>3, <2>3, <2>4, <2>5, <2>6 DEF Assign, TypeInv, TypeOK, HandlerShape,
                                        ghosts
<1>4. CASE Begin(t)
  <2>1. tk.pc = "assigned" /\ tk.job \in Jobs /\ job[tk.job] \in Row
    BY <1>4, <1>a DEF Begin
  <2> DEFINE new == [tk EXCEPT !.pc = "running"]
  <2>2. tk.profile \in Profiles
    BY <2>1 DEF TypeInv, AttemptShape, Live
  <2>3. new \in Task /\ new.job = tk.job /\ new.profile = tk.profile
    BY <1>t DEF Task
  <2>4. task' = [task EXCEPT ![t] = new]
    BY <1>4 DEF Begin
  <2> HIDE DEF new
  <2>5. task' \in [Tasks -> Task] /\ AttemptShape'
    BY <2>1, <2>2, <2>3, <2>4, AttemptUpdate
  <2>6. job' \in [Jobs -> Row]
    BY <1>4, <2>1 DEF Begin, TypeInv, TypeOK, Row, JobStatus, InFlight
  <2>7. runs' \in [Jobs -> Nat]
    BY <1>4, <2>1 DEF Begin, TypeInv, TypeOK
  <2> QED
    BY <1>4, <2>5, <2>6, <2>7 DEF Begin, TypeInv, TypeOK, HandlerShape
<1>5. CASE ProviderEnds(t) \/ WatcherCancels(t)
  <2>1. PICK o \in Outcome :
          task' = [task EXCEPT ![t].pc = "ended", ![t].outcome = o]
    BY <1>5 DEF ProviderEnds, WatcherCancels, Outcome
  <2>2. tk.pc = "running" /\ tk.job \in Jobs
    BY <1>5, <1>a DEF ProviderEnds, WatcherCancels
  <2>3. tk.profile \in Profiles
    BY <2>2 DEF TypeInv, AttemptShape, Live
  <2> DEFINE new == [tk EXCEPT !.pc = "ended", !.outcome = o]
  <2>4. new \in Task /\ new.job = tk.job /\ new.profile = tk.profile
    BY <1>t DEF Task
  <2>5. task' = [task EXCEPT ![t] = new]
    BY <2>1, <1>t DEF TypeInv, TypeOK
  <2> HIDE DEF new
  <2>6. task' \in [Tasks -> Task] /\ AttemptShape'
    BY <2>2, <2>3, <2>4, <2>5, AttemptUpdate
  <2> QED
    BY <1>5, <2>6 DEF ProviderEnds, WatcherCancels, TypeInv, TypeOK,
                      HandlerShape, ghosts
<1>6. CASE Settle(t)
  <2>1. tk.pc = "ended" /\ tk.job \in Jobs
    BY <1>6, <1>a DEF Settle
  <2>2. tk.profile \in Profiles
    BY <2>1 DEF TypeInv, AttemptShape, Live
  <2>3. Judge(tk) \in Verdict
    BY DEF Judge, Verdict, Terminal
  <2> DEFINE new == [tk EXCEPT !.pc = "settling", !.verdict = Judge(tk)]
  <2>4. new \in Task /\ new.job = tk.job /\ new.profile = tk.profile
    BY <1>t, <2>3 DEF Task
  <2>5. task' = [task EXCEPT ![t] = new]
    BY <1>6, <1>t DEF Settle, TypeInv, TypeOK
  <2> HIDE DEF new
  <2>6. task' \in [Tasks -> Task] /\ AttemptShape'
    BY <2>1, <2>2, <2>4, <2>5, AttemptUpdate
  <2> QED
    BY <1>6, <2>6 DEF Settle, TypeInv, TypeOK, HandlerShape, ghosts
<1>7. CASE Notify(t)
  <2>1. tk.pc = "settling" /\ tk.job \in Jobs /\ tk.verdict \in Terminal
    BY <1>7, <1>a DEF Notify
  <2>2. tk.profile \in Profiles
    BY <2>1 DEF TypeInv, AttemptShape, Live
  <2> DEFINE new == [tk EXCEPT !.pc = "notified"]
  <2>3. new \in Task /\ new.job = tk.job /\ new.profile = tk.profile
    BY <1>t DEF Task
  <2>4. task' = [task EXCEPT ![t] = new]
    BY <1>7 DEF Notify
  <2> HIDE DEF new
  <2>5. task' \in [Tasks -> Task] /\ AttemptShape'
    BY <2>1, <2>2, <2>3, <2>4, AttemptUpdate
  <2>6. hooks' \in [Jobs -> SUBSET Terminal]
    BY <1>7, <2>1 DEF Notify, TypeInv, TypeOK
  <2> QED
    BY <1>7, <2>5, <2>6 DEF Notify, TypeInv, TypeOK, HandlerShape
<1>8. CASE Commit(t)
  <2>1. tk.pc \in {"settling", "notified"} /\ tk.job \in Jobs
        /\ job[tk.job] \in Row
    BY <1>8, <1>a DEF Commit
  <2>2. tk.profile \in Profiles
    BY <2>1 DEF TypeInv, AttemptShape, Live
  <2>3. Written(job[tk.job], tk) \in Row
    BY <1>t, <2>1, <2>2, WrittenIsRow
  <2>4. job' = [job EXCEPT ![tk.job] = Written(job[tk.job], tk)]
    BY <1>8 DEF Commit
  <2>5. job' \in [Jobs -> Row]
    BY <2>1, <2>3, <2>4, RowUpdate
  <2>6. task' \in [Tasks -> Task] /\ AttemptShape'
    BY <1>8, <1>t, AttemptUpdate DEF Commit
  <2> QED
    BY <1>8, <2>5, <2>6 DEF Commit, TypeInv, TypeOK, HandlerShape, ghosts
<1>9. CASE RowGone(t)
  <2>1. task' \in [Tasks -> Task] /\ AttemptShape'
    BY <1>9, <1>t, AttemptUpdate DEF RowGone
  <2> QED
    BY <1>9, <2>1 DEF RowGone, TypeInv, TypeOK, HandlerShape
<1> QED
  BY <1>1, <1>2, <1>3, <1>4, <1>5, <1>6, <1>7, <1>8, <1>9 DEF Attempt

\* So do crashes, recoveries, requests and the environment.
LEMMA TypeStep == TypeInv /\ [Next]_vars => TypeInv'
<1> SUFFICES ASSUME TypeInv, [Next]_vars PROVE TypeInv'
  OBVIOUS
<1>t. IdleTask \in Task /\ IdleTask.pc = "idle"
  BY IdleTaskIsTask
<1>1. ASSUME NEW t \in Tasks, Attempt(t) PROVE TypeInv'
  BY <1>1, TypeAttempt
<1>2. ASSUME NEW t \in Tasks, TaskFault(t) PROVE TypeInv'
  <2>1. task[t] \in Task
    BY DEF TypeInv, TypeOK
  <2>2. task' \in [Tasks -> Task] /\ AttemptShape'
    BY <1>2, <1>t, AttemptUpdate DEF TaskFault
  <2>5. stranded' \subseteq Jobs
    BY <1>2, Zenon DEF TaskFault, TypeInv, TypeOK
  <2>6. faults' \in Nat
    BY <1>2 DEF TaskFault, TypeInv, TypeOK
  <2> QED
    BY <1>2, <2>2, <2>5, <2>6 DEF TaskFault, TypeInv, TypeOK, HandlerShape
<1>3. ASSUME NEW w \in Workers, Crash(w) PROVE TypeInv'
  <2> DEFINE mine == {t \in Tasks : Runner[t] = w}
  <2>2. task' = [t \in Tasks |-> IF t \in mine THEN IdleTask ELSE task[t]]
    BY <1>3 DEF Crash
  <2>3. task' \in [Tasks -> Task]
    BY <1>t, <2>2 DEF TypeInv, TypeOK
  <2>4. AttemptShape'
    BY <1>t, <2>2 DEF TypeInv, AttemptShape, Live
  <2> QED
    BY <1>3, <2>3, <2>4 DEF Crash, TypeInv, TypeOK, HandlerShape
<1>4. ASSUME NEW w \in Workers, Start(w) PROVE TypeInv'
  <2>1. job' \in [Jobs -> Row]
    BY <1>4, RecoveredIsRow DEF Start, TypeInv, TypeOK
  <2> QED
    BY <1>4, <2>1 DEF Start, TypeInv, TypeOK, AttemptShape, Live, HandlerShape
<1>5. ASSUME NEW c \in Clients, ReadRow(c) PROVE TypeInv'
  <2>1. PICK j \in Jobs, kind \in Requests :
          request' = [request EXCEPT ![c] = [kind |-> kind, job |-> j,
                               retry |-> job[j].retry, max |-> job[j].max]]
    BY <1>5 DEF ReadRow
  <2>2. kind \in {"cancel", "retry", "delete"} /\ job[j] \in Row
    BY ConstantsAssumption DEF TypeInv, TypeOK
  <2> DEFINE new == [kind |-> kind, job |-> j, retry |-> job[j].retry,
                     max |-> job[j].max]
  <2>3. new \in Request /\ new.kind \in Requests /\ new.job \in Jobs
    BY <2>2 DEF Request, Row
  <2>4. request' = [request EXCEPT ![c] = new]
    BY <2>1
  <2> HIDE DEF new
  <2>5. request' \in [Clients -> Request] /\ HandlerShape'
    BY <2>3, <2>4 DEF TypeInv, TypeOK, HandlerShape
  <2> QED
    BY <1>5, <2>5 DEF ReadRow, TypeInv, TypeOK, AttemptShape, Live, ghosts
<1>6. ASSUME NEW c \in Clients, WriteRow(c) PROVE TypeInv'
  <2> DEFINE r == request[c]
  <2>1. /\ r \in Request /\ r.job \in Jobs
        /\ r.kind \in {"cancel", "retry", "delete"}
    BY <1>6, ConstantsAssumption DEF WriteRow, TypeInv, TypeOK, HandlerShape
  <2>2. job[r.job] \in Row
    BY <2>1 DEF TypeInv, TypeOK
  <2>3. Answered(job[r.job], r) \in Row
    BY <2>1, <2>2, AnsweredIsRow
  <2>4. job' \in [Jobs -> Row]
    BY <1>6, <2>1, <2>2, <2>3 DEF WriteRow, TypeInv, TypeOK
  <2>5. NoRequest \in Request
    BY DEF NoRequest, Request
  <2>6. request' \in [Clients -> Request] /\ HandlerShape'
    BY <1>6, <2>5 DEF WriteRow, TypeInv, TypeOK, HandlerShape
  <2> QED
    BY <1>6, <2>4, <2>6 DEF WriteRow, TypeInv, TypeOK, AttemptShape, Live,
                            ghosts
<1>7. ASSUME NEW j \in Jobs, CreateJob(j) PROVE TypeInv'
  <2>1. PICK p \in Candidates(j, {}) :
          job' = [job EXCEPT ![j].status = "queued", ![j].profile = p]
    BY <1>7 DEF CreateJob
  <2>2. p \in Profiles
    BY <2>1 DEF Candidates, TypeInv, TypeOK
  <2> DEFINE new == [job[j] EXCEPT !.status = "queued", !.profile = p]
  <2>3. new \in Row
    BY <2>2 DEF TypeInv, TypeOK, Row, JobStatus
  <2>4. job' = [job EXCEPT ![j] = new]
    BY <2>1 DEF TypeInv, TypeOK
  <2> HIDE DEF new
  <2>5. job' \in [Jobs -> Row]
    BY <2>3, <2>4, RowUpdate
  <2> QED
    BY <1>7, <2>5 DEF CreateJob, TypeInv, TypeOK, AttemptShape, Live,
                      HandlerShape, ghosts
<1>8. ASSUME NEW j \in Jobs, BackoffElapses(j) PROVE TypeInv'
  <2>1. job' \in [Jobs -> Row]
    <3> DEFINE row == [job[j] EXCEPT !.due = TRUE]
    <3>1. row \in Row
      BY DEF TypeInv, TypeOK, Row
    <3>2. job' = [job EXCEPT ![j] = row]
      BY <1>8 DEF BackoffElapses
    <3> QED
      BY <3>1, <3>2, RowUpdate
  <2> QED
    BY <1>8, <2>1 DEF BackoffElapses, TypeInv, TypeOK, AttemptShape, Live,
                      HandlerShape, ghosts
<1>9. ASSUME NEW p \in Profiles, ProfileChanges(p) PROVE TypeInv'
  <2>1. pool' \subseteq Profiles
    BY <1>9 DEF ProfileChanges, TypeInv, TypeOK
  <2> QED
    BY <1>9, <2>1 DEF ProfileChanges, TypeInv, TypeOK, AttemptShape, Live,
                      HandlerShape, ghosts
<1>10. CASE UNCHANGED vars
  BY <1>10 DEF vars, ghosts, TypeInv, TypeOK, AttemptShape, Live, HandlerShape
<1> QED
  BY <1>1, <1>2, <1>3, <1>4, <1>5, <1>6, <1>7, <1>8, <1>9, <1>10 DEF Next

LEMMA TypeAlways == Spec => []TypeInv
BY TypeInit, TypeStep, PTL DEF Spec

\* Rows, attempts and handlers always have the fields the code gives them.
THEOREM TypeCorrect == Spec => []TypeOK
<1>1. TypeInv => TypeOK
  BY DEF TypeInv
<1> QED
  BY <1>1, TypeAlways, PTL

-----------------------------------------------------------------------------
(* What the steps of an attempt have in common: they touch the row of their *)
(* own job only, and either go on with it or leave it out of flight.        *)

OnlyOwnRow(t) == \A j \in Jobs : j # task[t].job => job'[j] = job[j]
OnlyOwnTask(t) == \A u \in Tasks : u # t => task'[u] = task[u]

GoesOn(t) ==
    /\ Live(t) /\ Live(t)' /\ task'[t].job = task[t].job
    /\ job'[task[t].job].status \in
          {job[task[t].job].status, "processing_provider"}

Ends(t) ==
    /\ Live(t) /\ ~Live(t)'
    /\ job'[task[t].job].status \notin InFlight

\* A step of an attempt claims a job, goes on with it, or ends the attempt and
\* leaves its row out of flight.
LEMMA AttemptSteps ==
  ASSUME TypeInv, NEW t \in Tasks, Attempt(t)
  PROVE  /\ Claim(t) \/ GoesOn(t) \/ Ends(t)
         /\ Claim(t) \/ OnlyOwnRow(t)
         /\ OnlyOwnTask(t)
         /\ UNCHANGED <<worker, request, stranded, crashes, faults>>
<1> DEFINE tk == task[t]
<1>t. IdleTask.pc = "idle"
  BY IdleTaskIsTask
<1>a. tk \in Task /\ (tk.pc # "idle" => tk.job \in Jobs /\ job[tk.job] \in Row)
  BY DEF TypeInv, TypeOK, AttemptShape, Live
<1>b. job \in [Jobs -> Row] /\ task \in [Tasks -> Task]
  BY DEF TypeInv, TypeOK
<1>1. CASE Claim(t)
  BY <1>1, <1>b DEF Claim, OnlyOwnTask, ghosts
<1>2. CASE Refresh(t)
  BY <1>2, <1>a, <1>b, <1>t
  DEF Refresh, GoesOn, Ends, OnlyOwnRow, OnlyOwnTask, Live, ghosts, Task,
      InFlight
<1>3. CASE Assign(t)
  <2>1. CASE FailNoProfile(t)
    BY <1>3, <2>1, <1>a, <1>b, <1>t
    DEF Assign, FailNoProfile, Ends, OnlyOwnRow, OnlyOwnTask, Live, ghosts,
        Row, InFlight
  <2>2. CASE RequeueAtCapacity(t)
    <3>1. PICK p \in StartingPoints(tk) :
            job' = [job EXCEPT ![tk.job] = [Rebind(@, tk, p) EXCEPT
                                               !.status = "queued"]]
      BY <2>2 DEF RequeueAtCapacity
    <3>2. job'[tk.job].status = "queued"
      BY <3>1, <1>3, <1>a, <1>b DEF Assign, Rebind, Row
    <3> QED
      BY <1>3, <2>2, <3>1, <3>2, <1>a, <1>b, <1>t
      DEF Assign, RequeueAtCapacity, Ends, OnlyOwnRow, OnlyOwnTask, Live,
          ghosts, InFlight
  <2>3. CASE BindProfile(t)
    <3>1. PICK q :
            /\ job' = [job EXCEPT ![tk.job] = Rebind(@, tk, q)]
            /\ task' = [task EXCEPT ![t].pc = "assigned", ![t].profile = q]
      BY <2>3 DEF BindProfile
    <3>2. job'[tk.job].status = job[tk.job].status
      BY <3>1, <1>3, <1>a, <1>b DEF Assign, Rebind, Row
    <3>3. task'[t].pc = "assigned" /\ task'[t].job = tk.job
      BY <3>1, <1>a, <1>b DEF Task
    <3> QED
      BY <1>3, <3>1, <3>2, <3>3, <1>a, <1>b
      DEF Assign, GoesOn, OnlyOwnRow, OnlyOwnTask, Live, ghosts
  <2> QED
    BY <1>3, <2>1, <2>2, <2>3 DEF Assign
<1>4. CASE Begin(t)
  BY <1>4, <1>a, <1>b
  DEF Begin, GoesOn, OnlyOwnRow, OnlyOwnTask, Live, Task, Row
<1>5. CASE ProviderEnds(t) \/ WatcherCancels(t)
  BY <1>5, <1>a, <1>b
  DEF ProviderEnds, WatcherCancels, GoesOn, OnlyOwnRow, OnlyOwnTask, Live,
      ghosts, Task
<1>6. CASE Settle(t)
  BY <1>6, <1>a, <1>b
  DEF Settle, GoesOn, OnlyOwnRow, OnlyOwnTask, Live, ghosts, Task
<1>7. CASE Notify(t)
  BY <1>7, <1>a, <1>b
  DEF Notify, GoesOn, OnlyOwnRow, OnlyOwnTask, Live, Task
<1>8. CASE Commit(t)
  <2>1. tk.pc # "idle" /\ tk.job \in Jobs
    BY <1>8, <1>a DEF Commit
  <2>2. Written(job[tk.job], tk).status \in Terminal \cup {"queued"}
    BY <1>a, <2>1 DEF Written, Row
  <2> QED
    BY <1>8, <2>1, <2>2, <1>b, <1>t
    DEF Commit, Ends, OnlyOwnRow, OnlyOwnTask, Live, ghosts, InFlight, Terminal
<1>9. CASE RowGone(t)
  BY <1>9, <1>a, <1>b, <1>t
  DEF RowGone, Ends, OnlyOwnRow, OnlyOwnTask, Live, Exists, Gone, InFlight
<1> QED
  BY <1>1, <1>2, <1>3, <1>4, <1>5, <1>6, <1>7, <1>8, <1>9 DEF Attempt

-----------------------------------------------------------------------------
(* No job is forgotten in flight.                                          *)

Driven(j) ==
    \/ Attempts(j) # {}
    \/ \E w \in Workers : worker[w] = "down"
    \/ j \in stranded

LEMMA DriverStep == TypeInv /\ InFlightHasDriver /\ [Next]_vars
                      => InFlightHasDriver'
<1> SUFFICES ASSUME TypeInv, InFlightHasDriver, [Next]_vars,
                    NEW j \in Jobs, job'[j].status \in InFlight
             PROVE  Driven(j)'
  BY DEF InFlightHasDriver, Driven
<1>t. IdleTask.pc = "idle"
  BY IdleTaskIsTask
<1>b. job \in [Jobs -> Row] /\ task \in [Tasks -> Task]
      /\ worker \in [Workers -> {"up", "down"}]
  BY DEF TypeInv, TypeOK
<1>d. job[j].status \in InFlight => Driven(j)
  BY DEF InFlightHasDriver, Driven
<1>1. ASSUME NEW t \in Tasks, Attempt(t) PROVE Driven(j)'
  <2>1. /\ Claim(t) \/ GoesOn(t) \/ Ends(t)
        /\ Claim(t) \/ OnlyOwnRow(t)
        /\ OnlyOwnTask(t)
        /\ UNCHANGED <<worker, stranded>>
    BY <1>1, AttemptSteps
  <2>2. CASE Claim(t)
    <3>1. PICK i \in Jobs :
            /\ job' = [job EXCEPT ![i].status = "running"]
            /\ task' = [task EXCEPT ![t] = [IdleTask EXCEPT !.pc = "claimed",
                                                            !.job = i]]
      BY <2>2 DEF Claim
    <3>2. task'[t].pc = "claimed" /\ task'[t].job = i
      BY <3>1, <1>b DEF IdleTask
    <3>3. CASE i = j
      BY <3>2, <3>3 DEF Driven, Attempts, Live
    <3>4. CASE i # j
      <4>1. Driven(j)
        BY <3>1, <3>4, <1>b, <1>d
      <4>2. ~Live(t)
        BY <2>2 DEF Claim
      <4>3. Attempts(j) \subseteq Attempts(j)'
        BY <2>1, <4>2 DEF OnlyOwnTask, Attempts, Live
      <4> QED
        BY <2>1, <4>1, <4>3 DEF Driven
    <3> QED
      BY <3>3, <3>4
  <2>3. CASE GoesOn(t) /\ OnlyOwnRow(t)
    <3>1. CASE task[t].job = j
      BY <2>3, <3>1 DEF GoesOn, Driven, Attempts
    <3>2. CASE task[t].job # j
      <4>1. Driven(j)
        BY <2>3, <3>2, <1>d DEF OnlyOwnRow
      <4>2. Attempts(j) \subseteq Attempts(j)'
        BY <2>1, <3>2 DEF OnlyOwnTask, Attempts, Live
      <4> QED
        BY <2>1, <4>1, <4>2 DEF Driven
    <3> QED
      BY <3>1, <3>2
  <2>4. CASE Ends(t) /\ OnlyOwnRow(t)
    <3>1. task[t].job # j
      BY <2>4 DEF Ends
    <3>2. Driven(j)
      BY <2>4, <3>1, <1>d DEF OnlyOwnRow
    <3>3. Attempts(j) \subseteq Attempts(j)'
      BY <2>1, <3>1 DEF OnlyOwnTask, Attempts, Live
    <3> QED
      BY <2>1, <3>2, <3>3 DEF Driven
  <2> QED
    BY <2>1, <2>2, <2>3, <2>4
<1>2. ASSUME NEW t \in Tasks, TaskFault(t) PROVE Driven(j)'
  <2>1. Driven(j) /\ stranded \subseteq stranded'
    BY <1>2, <1>d DEF TaskFault
  <2>2. CASE task[t].job = j
    BY <1>2, <2>2, <1>d DEF TaskFault, Driven
  <2>3. CASE task[t].job # j
    <3>1. Attempts(j) \subseteq Attempts(j)'
      BY <1>2, <2>3, <1>b DEF TaskFault, Attempts, Live
    <3>2. UNCHANGED worker
      BY <1>2 DEF TaskFault
    <3> QED
      BY <2>1, <3>1, <3>2 DEF Driven
  <2> QED
    BY <2>2, <2>3
<1>3. ASSUME NEW w \in Workers, Crash(w) PROVE Driven(j)'
  BY <1>3, <1>b DEF Crash, Driven
<1>4. ASSUME NEW w \in Workers, Start(w) PROVE Driven(j)'
  <2>1. job'[j] = Recovered(job[j])
    BY <1>4 DEF Start
  <2>2. Recovered(job[j]).status \notin InFlight
    BY <1>b DEF Recovered, InFlight, Row
  <2> QED
    BY <2>1, <2>2
<1>5. ASSUME NEW c \in Clients, ReadRow(c) PROVE Driven(j)'
  BY <1>5, <1>d DEF ReadRow, ghosts, Driven, Attempts, Live
<1>6. ASSUME NEW c \in Clients, WriteRow(c) PROVE Driven(j)'
  <2> DEFINE r == request[c]
  <2>1. r.kind \in {"cancel", "retry", "delete"} /\ r.job \in Jobs
    BY <1>6, ConstantsAssumption DEF WriteRow, TypeInv, HandlerShape
  <2>2. Answered(job[r.job], r).status \notin InFlight
    BY <2>1, <1>b DEF Answered, InFlight, Row, NoRow
  <2>3. job[j].status \in InFlight
    BY <1>6, <2>1, <2>2, <1>b DEF WriteRow
  <2> QED
    BY <1>6, <2>3, <1>d DEF WriteRow, ghosts, Driven, Attempts, Live
<1>7. ASSUME NEW i \in Jobs, CreateJob(i) PROVE Driven(j)'
  <2>1. job[j].status \in InFlight
    BY <1>7, <1>b DEF CreateJob, InFlight, Row
  <2> QED
    BY <1>7, <2>1, <1>d DEF CreateJob, ghosts, Driven, Attempts, Live
<1>8. ASSUME NEW i \in Jobs, BackoffElapses(i) PROVE Driven(j)'
  <2>1. job[j].status \in InFlight
    BY <1>8, <1>b DEF BackoffElapses, Row
  <2> QED
    BY <1>8, <2>1, <1>d DEF BackoffElapses, ghosts, Driven, Attempts, Live
<1>9. ASSUME NEW p \in Profiles, ProfileChanges(p) PROVE Driven(j)'
  BY <1>9, <1>d DEF ProfileChanges, ghosts, Driven, Attempts, Live
<1>10. CASE UNCHANGED vars
  BY <1>10, <1>d DEF vars, ghosts, Driven, Attempts, Live
<1> QED
  BY <1>1, <1>2, <1>3, <1>4, <1>5, <1>6, <1>7, <1>8, <1>9, <1>10 DEF Next

\* A row in flight always has an attempt at it, or a recovery to come, or lost
\* its attempt to a database error: whatever the number of workers, and however
\* owners cancel, retry and delete meanwhile.
THEOREM NoForgottenJob == Spec => []InFlightHasDriver
<1>1. Init => InFlightHasDriver
  BY DEF Init, InFlightHasDriver, NoRow, InFlight
<1> QED
  BY <1>1, DriverStep, TypeAlways, PTL DEF Spec

-----------------------------------------------------------------------------
(* One attempt at a time. It takes one worker process (a second one would  *)
(* recover the rows of the first) and owners who do not retry (a retry of a *)
(* cancelled job whose attempt has not noticed yet starts a second one).   *)

NoManualRetry == "retry" \notin Requests
OneProcess == \A v, w \in Workers : v = w

\* SingleAttempt is not inductive alone: a claim keeps it because a row being
\* driven is never queued, a recovery because a dead process drives nothing.
SoleInv ==
    /\ SingleAttempt
    /\ \A t \in Tasks : Live(t) =>
          job[task[t].job].status \notin {"queued", "absent"}
    /\ \A t \in Tasks : worker[Runner[t]] = "down" => ~Live(t)

LEMMA SoleStep ==
  ASSUME NoManualRetry, OneProcess
  PROVE  TypeInv /\ SoleInv /\ [Next]_vars => SoleInv'
<1> SUFFICES ASSUME TypeInv, SoleInv, [Next]_vars PROVE SoleInv'
  OBVIOUS
<1>t. IdleTask.pc = "idle"
  BY IdleTaskIsTask
<1>b. /\ job \in [Jobs -> Row] /\ task \in [Tasks -> Task]
      /\ worker \in [Workers -> {"up", "down"}] /\ Runner \in [Tasks -> Workers]
  BY ConstantsAssumption DEF TypeInv, TypeOK
<1>c. \A t \in Tasks : Live(t) => task[t].job \in Jobs
  BY DEF TypeInv, AttemptShape
<1>1. ASSUME NEW t \in Tasks, Attempt(t) PROVE SoleInv'
  <2>1. /\ Claim(t) \/ GoesOn(t) \/ Ends(t)
        /\ Claim(t) \/ OnlyOwnRow(t)
        /\ OnlyOwnTask(t)
        /\ UNCHANGED worker
    BY <1>1, AttemptSteps
  <2>2. CASE Claim(t)
    <3>1. PICK j \in Jobs :
            /\ Pickable(j)
            /\ job' = [job EXCEPT ![j].status = "running"]
            /\ task' = [task EXCEPT ![t] = [IdleTask EXCEPT !.pc = "claimed",
                                                            !.job = j]]
      BY <2>2 DEF Claim
    <3>2. task'[t].pc = "claimed" /\ task'[t].job = j
      BY <3>1, <1>b DEF IdleTask
    <3>3. job[j].status = "queued" /\ job'[j].status = "running"
      BY <3>1, <1>b DEF Pickable, Row
    <3>4. \A u \in Tasks : u # t /\ Live(u) => task[u].job # j
      BY <3>3 DEF SoleInv
    <3>5. SingleAttempt'
      BY <2>1, <3>2, <3>4 DEF SoleInv, SingleAttempt, OnlyOwnTask, Live
    <3>6. ASSUME NEW u \in Tasks, Live(u)'
          PROVE  job'[task'[u].job].status \notin {"queued", "absent"}
      <4>1. CASE u = t
        BY <4>1, <3>2, <3>3
      <4>2. CASE u # t
        <5>1. Live(u) /\ task'[u] = task[u] /\ task[u].job # j
          BY <4>2, <3>4, <3>6, <2>1 DEF OnlyOwnTask, Live
        <5>2. job'[task[u].job] = job[task[u].job]
          BY <5>1, <3>1, <1>b, <1>c
        <5> QED
          BY <5>1, <5>2 DEF SoleInv
      <4> QED
        BY <4>1, <4>2
    <3>7. ASSUME NEW u \in Tasks, (worker[Runner[u]] = "down")'
          PROVE  ~Live(u)'
      <4>1. worker[Runner[t]] = "up" /\ worker[Runner[u]] = "down"
        BY <2>1, <2>2, <3>7 DEF Claim
      <4>2. ~Live(u) /\ u # t
        BY <4>1 DEF SoleInv
      <4> QED
        BY <2>1, <4>2 DEF OnlyOwnTask, Live
    <3> QED
      BY <3>5, <3>6, <3>7 DEF SoleInv
  <2>3. CASE (GoesOn(t) \/ Ends(t)) /\ OnlyOwnRow(t)
    <3>1. Live(t)
      BY <2>3 DEF GoesOn, Ends
    <3>2. \A u \in Tasks : u # t /\ Live(u) => task[u].job # task[t].job
      BY <3>1 DEF SoleInv, SingleAttempt
    <3>3. Live(t)' => task'[t].job = task[t].job
      BY <2>3 DEF GoesOn, Ends
    <3>4. ASSUME NEW u \in Tasks, NEW v \in Tasks, Live(u)', Live(v)',
                 task'[u].job = task'[v].job
          PROVE  u = v
      <4>1. \A x \in Tasks : Live(x)' => Live(x) /\ task'[x].job = task[x].job
        BY <2>1, <3>1, <3>3 DEF OnlyOwnTask, Live
      <4> QED
        BY <3>4, <4>1 DEF SoleInv, SingleAttempt
    <3>5. ASSUME NEW u \in Tasks, Live(u)'
          PROVE  job'[task'[u].job].status \notin {"queued", "absent"}
      <4>1. CASE u = t
        BY <4>1, <2>3, <3>1, <3>5 DEF GoesOn, Ends, SoleInv
      <4>2. CASE u # t
        <5>1. Live(u) /\ task'[u] = task[u] /\ task[u].job # task[t].job
          BY <4>2, <3>2, <3>5, <2>1 DEF OnlyOwnTask, Live
        <5>2. job'[task[u].job] = job[task[u].job]
          BY <5>1, <2>3, <1>c DEF OnlyOwnRow
        <5> QED
          BY <5>1, <5>2 DEF SoleInv
      <4> QED
        BY <4>1, <4>2
    <3>6. ASSUME NEW u \in Tasks, (worker[Runner[u]] = "down")'
          PROVE  ~Live(u)'
      <4>1. ~Live(u) /\ u # t
        BY <2>1, <3>1, <3>6 DEF SoleInv
      <4> QED
        BY <2>1, <4>1 DEF OnlyOwnTask, Live
    <3> QED
      BY <3>4, <3>5, <3>6 DEF SoleInv, SingleAttempt
  <2> QED
    BY <2>1, <2>2, <2>3
<1>2. ASSUME NEW t \in Tasks, TaskFault(t) PROVE SoleInv'
  <2>1. /\ ~Live(t)' /\ UNCHANGED <<job, worker>>
        /\ \A u \in Tasks : u # t => task'[u] = task[u]
    BY <1>2, <1>b, <1>t DEF TaskFault, Live
  <2> QED
    BY <2>1 DEF SoleInv, SingleAttempt, Live
<1>3. ASSUME NEW w \in Workers, Crash(w) PROVE SoleInv'
  <2>1. \A u \in Tasks : Runner[u] = w
    BY <1>b DEF OneProcess
  <2>2. \A u \in Tasks : ~Live(u)'
    BY <1>3, <2>1, <1>t DEF Crash, Live
  <2> QED
    BY <2>2 DEF SoleInv, SingleAttempt
<1>4. ASSUME NEW w \in Workers, Start(w) PROVE SoleInv'
  <2>1. \A u \in Tasks : Runner[u] = w
    BY <1>b DEF OneProcess
  <2>2. \A u \in Tasks : ~Live(u)'
    BY <1>4, <2>1 DEF Start, SoleInv, Live
  <2> QED
    BY <2>2 DEF SoleInv, SingleAttempt
<1>5. ASSUME NEW c \in Clients, ReadRow(c) PROVE SoleInv'
  BY <1>5 DEF ReadRow, ghosts, SoleInv, SingleAttempt, Live
<1>6. ASSUME NEW c \in Clients, WriteRow(c) PROVE SoleInv'
  <2> DEFINE r == request[c]
  <2>1. r.kind \in {"cancel", "delete"} /\ r.job \in Jobs
    BY <1>6, ConstantsAssumption
    DEF WriteRow, TypeInv, HandlerShape, NoManualRetry
  <2>2. Answered(job[r.job], r).status \in {"cancelled", "deleted"}
    BY <2>1, <1>b DEF Answered, Row, NoRow
  <2>3. \A j \in Jobs : job'[j].status \in {job[j].status, "cancelled",
                                            "deleted"}
    BY <1>6, <2>1, <2>2, <1>b DEF WriteRow
  <2>4. UNCHANGED <<task, worker>>
    BY <1>6 DEF WriteRow
  <2> QED
    BY <2>3, <2>4, <1>c DEF SoleInv, SingleAttempt, Live
<1>7. ASSUME NEW i \in Jobs, CreateJob(i) PROVE SoleInv'
  <2>1. job[i].status = "absent" /\ UNCHANGED <<task, worker>>
        /\ \A j \in Jobs : j # i => job'[j] = job[j]
    BY <1>7, <1>b DEF CreateJob
  <2>2. \A u \in Tasks : Live(u) => task[u].job # i
    BY <2>1 DEF SoleInv
  <2> QED
    BY <2>1, <2>2, <1>c DEF SoleInv, SingleAttempt, Live
<1>8. ASSUME NEW i \in Jobs, BackoffElapses(i) PROVE SoleInv'
  <2>1. UNCHANGED <<task, worker>>
        /\ \A j \in Jobs : job'[j].status = job[j].status
    BY <1>8, <1>b DEF BackoffElapses, ghosts, Row
  <2> QED
    BY <2>1, <1>c DEF SoleInv, SingleAttempt, Live
<1>9. ASSUME NEW p \in Profiles, ProfileChanges(p) PROVE SoleInv'
  BY <1>9 DEF ProfileChanges, ghosts, SoleInv, SingleAttempt, Live
<1>10. CASE UNCHANGED vars
  BY <1>10 DEF vars, ghosts, SoleInv, SingleAttempt, Live
<1> QED
  BY <1>1, <1>2, <1>3, <1>4, <1>5, <1>6, <1>7, <1>8, <1>9, <1>10 DEF Next

LEMMA SoleAlways ==
  ASSUME NoManualRetry, OneProcess
  PROVE  Spec => []SoleInv
<1>1. Init => SoleInv
  BY IdleTaskIsTask DEF Init, SoleInv, SingleAttempt, Live
<1>2. TypeInv /\ SoleInv /\ [Next]_vars => SoleInv'
  BY SoleStep
<1> QED
  BY <1>1, <1>2, TypeAlways, PTL DEF Spec

\* With one worker process, and owners who cancel and delete as they like, no
\* job is ever driven by two attempts.
THEOREM OneAttemptAtATime ==
  ASSUME NoManualRetry, OneProcess
  PROVE  Spec => []SingleAttempt
<1>1. SoleInv => SingleAttempt
  BY DEF SoleInv
<1> QED
  BY <1>1, SoleAlways, PTL

-----------------------------------------------------------------------------
(* The retry budget, for any number of workers, with owners who do not     *)
(* retry: an attempt's copies of the counters may be stale, but every copy *)
(* that goes back with one more retry was below the cap when it was judged. *)

RowBudget(row) == row.max = MaxRetry /\ row.retry <= MaxRetry

TaskBudget(tk) ==
    /\ tk.pc \notin {"idle", "claimed"} =>
          tk.max = MaxRetry /\ tk.retry <= MaxRetry
    /\ tk.pc \in {"settling", "notified"} /\ tk.verdict \notin Terminal =>
          tk.retry < MaxRetry

BudgetInv ==
    /\ \A j \in Jobs : RowBudget(job[j])
    /\ \A t \in Tasks : TaskBudget(task[t])

\* An attempt is judged "rotate" or "backoff" only with a retry left.
LEMMA JudgedWithinBudget ==
  ASSUME NEW tk, Judge(tk) \notin Terminal
  PROVE  tk.retry < tk.max
BY DEF Judge, RetryLeft, Terminal

LEMMA BudgetStep ==
  ASSUME NoManualRetry
  PROVE  TypeInv /\ BudgetInv /\ [Next]_vars => BudgetInv'
<1> SUFFICES ASSUME TypeInv, BudgetInv, [Next]_vars PROVE BudgetInv'
  OBVIOUS
<1>t. TaskBudget(IdleTask)
  BY IdleTaskIsTask DEF TaskBudget
<1>b. /\ job \in [Jobs -> Row] /\ task \in [Tasks -> Task] /\ MaxRetry \in Nat
  BY ConstantsAssumption DEF TypeInv, TypeOK
<1>n. RowBudget(NoRow("deleted"))
  BY <1>b DEF RowBudget, NoRow
<1>1. ASSUME NEW t \in Tasks, Attempt(t) PROVE BudgetInv'
  <2> DEFINE tk == task[t]
  <2>a. tk \in Task /\ (tk.pc # "idle" => tk.job \in Jobs)
    BY DEF TypeInv, TypeOK, AttemptShape, Live
  <2>o. OnlyOwnTask(t)
    BY <1>1, AttemptSteps
  <2>s. SUFFICES /\ TaskBudget(task'[t])
                 /\ \A j \in Jobs : RowBudget(job'[j])
    BY <2>o DEF BudgetInv, OnlyOwnTask
  <2>k. TaskBudget(tk) /\ \A j \in Jobs : RowBudget(job[j])
    BY DEF BudgetInv
  <2>1. CASE Claim(t)
    <3>1. PICK j \in Jobs :
            /\ job' = [job EXCEPT ![j].status = "running"]
            /\ task' = [task EXCEPT ![t] = [IdleTask EXCEPT !.pc = "claimed",
                                                            !.job = j]]
      BY <2>1 DEF Claim
    <3>2. task'[t].pc = "claimed"
      BY <3>1, <1>b DEF IdleTask
    <3>3. \A i \in Jobs : job'[i].max = job[i].max
                          /\ job'[i].retry = job[i].retry
      BY <3>1, <1>b DEF Row
    <3> QED
      BY <2>k, <3>2, <3>3 DEF TaskBudget, RowBudget
  <2>2. CASE Refresh(t)
    <3>1. UNCHANGED job
      BY <2>2 DEF Refresh, ghosts
    <3>2. \/ task'[t] = IdleTask
          \/ /\ task'[t].pc = "assigning"
             /\ task'[t].retry = job[tk.job].retry
             /\ task'[t].max = job[tk.job].max
      BY <2>2, <2>a, <1>b DEF Refresh, Task
    <3>3. tk.job \in Jobs
      BY <2>2, <2>a DEF Refresh
    <3> QED
      BY <3>1, <3>2, <3>3, <2>k, <1>t DEF TaskBudget, RowBudget
  <2>3. CASE Assign(t)
    <3>1. tk.pc = "assigning" /\ tk.job \in Jobs
      BY <2>3, <2>a DEF Assign
    <3>2. ASSUME FailNoProfile(t) PROVE BudgetInv'
      <4>1. task'[t] = IdleTask
        BY <3>2, <1>b DEF FailNoProfile
      <4>2. \A i \in Jobs : job'[i].max = job[i].max
                            /\ job'[i].retry = job[i].retry
        BY <3>1, <3>2, <1>b DEF FailNoProfile, Row
      <4> QED
        BY <4>1, <4>2, <2>k, <2>o, <1>t DEF BudgetInv, RowBudget, OnlyOwnTask
    <3>3. ASSUME RequeueAtCapacity(t) PROVE BudgetInv'
      <4>1. task'[t] = IdleTask
        BY <3>3, <1>b DEF RequeueAtCapacity
      <4>2. PICK p :
              job' = [job EXCEPT ![tk.job] = [Rebind(@, tk, p) EXCEPT
                                                 !.status = "queued"]]
        BY <3>3 DEF RequeueAtCapacity
      <4>3. \A i \in Jobs : job'[i].max = job[i].max
                            /\ job'[i].retry = job[i].retry
        BY <3>1, <4>2, <1>b DEF Rebind, Row
      <4> QED
        BY <4>1, <4>3, <2>k, <2>o, <1>t DEF BudgetInv, RowBudget, OnlyOwnTask
    <3>4. ASSUME BindProfile(t) PROVE BudgetInv'
      <4>1. PICK q :
              /\ job' = [job EXCEPT ![tk.job] = Rebind(@, tk, q)]
              /\ task' = [task EXCEPT ![t].pc = "assigned", ![t].profile = q]
        BY <3>4 DEF BindProfile
      <4>2. \A i \in Jobs : job'[i].max = job[i].max
                            /\ job'[i].retry = job[i].retry
        BY <3>1, <4>1, <1>b DEF Rebind, Row
      <4>3. task'[t].pc = "assigned" /\ task'[t].retry = tk.retry
            /\ task'[t].max = tk.max
        BY <4>1, <2>a, <1>b DEF Task
      <4>4. TaskBudget(task'[t])
        BY <4>3, <3>1, <2>k DEF TaskBudget
      <4> QED
        BY <4>2, <4>4, <2>k, <2>o DEF BudgetInv, RowBudget, OnlyOwnTask
    <3> QED
      BY <2>3, <3>2, <3>3, <3>4 DEF Assign, BudgetInv
  <2>4. CASE Begin(t)
    <3>1. tk.pc = "assigned" /\ tk.job \in Jobs
      BY <2>4, <2>a DEF Begin
    <3>2. \A i \in Jobs : job'[i].max = job[i].max
                          /\ job'[i].retry = job[i].retry
      BY <2>4, <3>1, <1>b DEF Begin, Row
    <3>3. task'[t].pc = "running" /\ task'[t].retry = tk.retry
          /\ task'[t].max = tk.max
      BY <2>4, <2>a, <1>b DEF Begin, Task
    <3> QED
      BY <3>1, <3>2, <3>3, <2>k DEF TaskBudget, RowBudget
  <2>5. CASE ProviderEnds(t) \/ WatcherCancels(t)
    <3>1. tk.pc = "running" /\ UNCHANGED job
      BY <2>5 DEF ProviderEnds, WatcherCancels, ghosts
    <3>2. task'[t].pc = "ended" /\ task'[t].retry = tk.retry
          /\ task'[t].max = tk.max
      BY <2>5, <2>a, <1>b DEF ProviderEnds, WatcherCancels, Task
    <3> QED
      BY <3>1, <3>2, <2>k DEF TaskBudget
  <2>6. CASE Settle(t)
    <3>1. tk.pc = "ended" /\ UNCHANGED job
      BY <2>6 DEF Settle, ghosts
    <3>2. task'[t].pc = "settling" /\ task'[t].retry = tk.retry
          /\ task'[t].max = tk.max /\ task'[t].verdict = Judge(tk)
      BY <2>6, <2>a, <1>b DEF Settle, Task
    <3>3. Judge(tk) \notin Terminal => tk.retry < tk.max
      BY JudgedWithinBudget
    <3> QED
      BY <3>1, <3>2, <3>3, <2>k DEF TaskBudget
  <2>7. CASE Notify(t)
    <3>1. tk.pc = "settling" /\ tk.verdict \in Terminal /\ UNCHANGED job
      BY <2>7 DEF Notify
    <3>2. task'[t].pc = "notified" /\ task'[t].retry = tk.retry
          /\ task'[t].max = tk.max /\ task'[t].verdict = tk.verdict
      BY <2>7, <2>a, <1>b DEF Notify, Task
    <3> QED
      BY <3>1, <3>2, <2>k DEF TaskBudget
  <2>8. CASE Commit(t)
    <3>1. tk.pc \in {"settling", "notified"} /\ tk.job \in Jobs
      BY <2>8, <2>a DEF Commit
    <3>2. task'[t] = IdleTask
      BY <2>8, <1>b DEF Commit
    <3>3. RowBudget(job[tk.job]) /\ job[tk.job] \in Row
      BY <3>1, <2>k, <1>b
    <3>4. RowBudget(Written(job[tk.job], tk))
      <4>1. CASE tk.verdict \in Terminal
        <5>1. Written(job[tk.job], tk) =
                [job[tk.job] EXCEPT !.status = tk.verdict]
          BY <4>1, <3>3 DEF Written, Terminal, Row
        <5> QED
          BY <5>1, <3>3 DEF RowBudget, Row
      <4>2. CASE tk.verdict \notin Terminal
        <5>1. tk.retry + 1 <= MaxRetry
          BY <4>2, <3>1, <2>k, <2>a, <1>b DEF TaskBudget, Task
        <5>2. Written(job[tk.job], tk).retry = tk.retry + 1
              /\ Written(job[tk.job], tk).max = job[tk.job].max
          BY <4>2, <3>3 DEF Written, Row
        <5> QED
          BY <5>1, <5>2, <3>3 DEF RowBudget
      <4> QED
        BY <4>1, <4>2
    <3>5. \A i \in Jobs : job'[i] \in {job[i], Written(job[tk.job], tk)}
      BY <2>8, <3>1, <1>b DEF Commit
    <3> QED
      BY <3>2, <3>4, <3>5, <2>k, <1>t
  <2>9. CASE RowGone(t)
    BY <2>9, <2>k, <1>t, <1>b DEF RowGone
  <2> QED
    BY <1>1, <2>1, <2>2, <2>3, <2>4, <2>5, <2>6, <2>7, <2>8, <2>9
    DEF Attempt, BudgetInv
<1>2. ASSUME NEW t \in Tasks, TaskFault(t) PROVE BudgetInv'
  BY <1>2, <1>b, <1>t DEF TaskFault, BudgetInv
<1>3. ASSUME NEW w \in Workers, Crash(w) PROVE BudgetInv'
  BY <1>3, <1>b, <1>t DEF Crash, BudgetInv
<1>4. ASSUME NEW w \in Workers, Start(w) PROVE BudgetInv'
  <2>1. \A j \in Jobs : Recovered(job[j]).max = job[j].max
                        /\ Recovered(job[j]).retry = job[j].retry
    BY <1>b DEF Recovered, Row
  <2> QED
    BY <1>4, <2>1 DEF Start, BudgetInv, RowBudget
<1>5. ASSUME NEW c \in Clients, ReadRow(c) PROVE BudgetInv'
  BY <1>5 DEF ReadRow, ghosts, BudgetInv
<1>6. ASSUME NEW c \in Clients, WriteRow(c) PROVE BudgetInv'
  <2> DEFINE r == request[c]
  <2>1. r.kind \in {"cancel", "delete"} /\ r.job \in Jobs
    BY <1>6, ConstantsAssumption
    DEF WriteRow, TypeInv, HandlerShape, NoManualRetry
  <2>2. RowBudget(Answered(job[r.job], r))
    BY <2>1, <1>b, <1>n DEF Answered, Row, RowBudget, BudgetInv
  <2>3. \A i \in Jobs : job'[i] \in {job[i], Answered(job[r.job], r)}
    BY <1>6, <2>1, <1>b DEF WriteRow
  <2> QED
    BY <1>6, <2>2, <2>3 DEF WriteRow, BudgetInv
<1>7. ASSUME NEW i \in Jobs, CreateJob(i) PROVE BudgetInv'
  <2>1. \A j \in Jobs : job'[j].max = job[j].max /\ job'[j].retry = job[j].retry
    BY <1>7, <1>b DEF CreateJob, Row
  <2> QED
    BY <1>7, <2>1 DEF CreateJob, BudgetInv, RowBudget
<1>8. ASSUME NEW i \in Jobs, BackoffElapses(i) PROVE BudgetInv'
  <2>1. \A j \in Jobs : job'[j].max = job[j].max /\ job'[j].retry = job[j].retry
    BY <1>8, <1>b DEF BackoffElapses, Row
  <2> QED
    BY <1>8, <2>1 DEF BackoffElapses, ghosts, BudgetInv, RowBudget
<1>9. ASSUME NEW p \in Profiles, ProfileChanges(p) PROVE BudgetInv'
  BY <1>9 DEF ProfileChanges, ghosts, BudgetInv
<1>10. CASE UNCHANGED vars
  BY <1>10 DEF vars, BudgetInv
<1> QED
  BY <1>1, <1>2, <1>3, <1>4, <1>5, <1>6, <1>7, <1>8, <1>9, <1>10 DEF Next

LEMMA BudgetAlways ==
  ASSUME NoManualRetry
  PROVE  Spec => []BudgetInv
<1>1. Init => BudgetInv
  BY ConstantsAssumption, IdleTaskIsTask
  DEF Init, BudgetInv, RowBudget, TaskBudget, NoRow
<1>2. TypeInv /\ BudgetInv /\ [Next]_vars => BudgetInv'
  BY BudgetStep
<1> QED
  BY <1>1, <1>2, TypeAlways, PTL DEF Spec

\* With owners who do not retry, retry_count never exceeds max_retry, whatever
\* the number of workers and of crashes.
THEOREM RetriesStayInBudget ==
  ASSUME NoManualRetry
  PROVE  Spec => []RetryBudget
<1>1. BudgetInv => RetryBudget
  BY DEF BudgetInv, RowBudget, RetryBudget
<1> QED
  BY <1>1, BudgetAlways, PTL

-----------------------------------------------------------------------------
(* The retry budget again, now with owners who retry, through one handler  *)
(* at a time (a second handler's stale copy can lower the cap under an     *)
(* attempt), for any number of workers: here several attempts may drive the *)
(* same job. A cap only ever rises while the row exists, so every copy of  *)
(* it, however old, is a lower bound.                                      *)

OneHandler == \A c, d \in Clients : c = d

TaskCap(t) ==
    Live(t) =>
      /\ job[task[t].job].status # "absent"
      /\ task[t].pc # "claimed" /\ Exists(task[t].job) =>
            task[t].max <= job[task[t].job].max
      /\ task[t].pc \in {"settling", "notified"} =>
            /\ Exists(task[t].job)
            /\ task[t].verdict \notin Terminal => task[t].retry < task[t].max

HandlerCap(c) ==
    request[c] # NoRequest =>
      /\ job[request[c].job].status # "absent"
      /\ Exists(request[c].job) => request[c].max = job[request[c].job].max

CapInv ==
    /\ RetryBudget
    /\ \A t \in Tasks : TaskCap(t)
    /\ \A c \in Clients : HandlerCap(c)

\* Rows keep their cap, and go on to exist or not to.
CapsKept ==
    \A j \in Jobs :
        /\ job'[j].max = job[j].max
        /\ Exists(j)' <=> Exists(j)
        /\ job'[j].status = "absent" <=> job[j].status = "absent"

\* When the rows keep their caps, attempts and handlers that do not move keep
\* theirs.
LEMMA CapsOfOthers ==
  ASSUME TypeInv, CapInv, CapsKept
  PROVE  /\ \A t \in Tasks : task'[t] = task[t] => TaskCap(t)'
         /\ \A c \in Clients : request'[c] = request[c] => HandlerCap(c)'
<1>1. ASSUME NEW t \in Tasks, task'[t] = task[t] PROVE TaskCap(t)'
  <2>1. Live(t) => task[t].job \in Jobs
    BY DEF TypeInv, AttemptShape
  <2> QED
    BY <1>1, <2>1 DEF CapInv, TaskCap, CapsKept, Live, Exists
<1>2. ASSUME NEW c \in Clients, request'[c] = request[c] PROVE HandlerCap(c)'
  <2>1. request[c] # NoRequest => request[c].job \in Jobs
    BY DEF TypeInv, HandlerShape
  <2> QED
    BY <1>2, <2>1 DEF CapInv, HandlerCap, CapsKept, Exists
<1> QED
  BY <1>1, <1>2

\* No step of an attempt changes a cap or makes a row come or go.
LEMMA CapAttempt ==
  ASSUME TypeInv, CapInv, NEW t \in Tasks, Attempt(t)
  PROVE  CapsKept /\ RetryBudget' /\ TaskCap(t)'
<1> DEFINE tk == task[t]
           Moved(row) == /\ row.max = job[tk.job].max
                         /\ row.retry <= row.max
                         /\ row.status \notin Gone
<1>b. job \in [Jobs -> Row] /\ task \in [Tasks -> Task] /\ tk \in Task
  BY DEF TypeInv, TypeOK
<1>i. IdleTask.pc = "idle"
  BY IdleTaskIsTask
<1>a. tk.pc # "idle" => tk.job \in Jobs
  BY DEF TypeInv, AttemptShape, Live
<1>c. TaskCap(t) /\ \A j \in Jobs : job[j].retry <= job[j].max
  BY DEF CapInv, RetryBudget
\* The attempt's own row is all that can change, and it exists before and after.
<1>r. ASSUME NEW row, Moved(row), Exists(tk.job), tk.job \in Jobs,
             job' = [job EXCEPT ![tk.job] = row]
      PROVE  CapsKept /\ RetryBudget'
  BY <1>r, <1>b, <1>c DEF CapsKept, RetryBudget, Exists, Gone
<1>n. ASSUME UNCHANGED job PROVE CapsKept /\ RetryBudget'
  BY <1>n, <1>c DEF CapsKept, RetryBudget, Exists
<1>d. ASSUME task'[t] = IdleTask PROVE TaskCap(t)'
  BY <1>d, <1>i DEF TaskCap, Live
<1>1. CASE Claim(t)
  <2>1. PICK j \in Jobs :
          /\ Pickable(j)
          /\ job' = [job EXCEPT ![j].status = "running"]
          /\ task' = [task EXCEPT ![t] = [IdleTask EXCEPT !.pc = "claimed",
                                                          !.job = j]]
    BY <1>1 DEF Claim
  <2>2. task'[t].pc = "claimed" /\ task'[t].job = j
    BY <2>1, <1>b DEF IdleTask
  <2>3. /\ job[j].status = "queued" /\ job'[j].status = "running"
        /\ job'[j].max = job[j].max /\ job'[j].retry = job[j].retry
        /\ \A k \in Jobs : k # j => job'[k] = job[k]
    BY <2>1, <1>b DEF Pickable, Row
  <2>4. CapsKept /\ RetryBudget'
    BY <2>3, <1>c DEF CapsKept, RetryBudget, Exists, Gone
  <2>5. TaskCap(t)'
    BY <2>2, <2>3 DEF TaskCap
  <2> QED
    BY <2>4, <2>5
<1>2. CASE Refresh(t)
  <2>1. UNCHANGED job /\ tk.pc = "claimed" /\ tk.job \in Jobs
    BY <1>2, <1>a DEF Refresh, ghosts
  <2>2. \/ task'[t] = IdleTask
        \/ /\ task'[t].pc = "assigning" /\ task'[t].job = tk.job
           /\ task'[t].max = job[tk.job].max
    BY <1>2, <1>b DEF Refresh, Task
  <2>3. ASSUME task'[t] # IdleTask PROVE TaskCap(t)'
    <3>1. job[tk.job].max \in Nat
      BY <2>1, <1>b DEF Row
    <3> QED
      BY <2>1, <2>2, <2>3, <3>1, <1>c DEF TaskCap, Live
  <2> QED
    BY <2>1, <2>3, <1>n, <1>d
<1>3. CASE Assign(t)
  <2>1. tk.pc = "assigning" /\ tk.job \in Jobs /\ Exists(tk.job)
    BY <1>3, <1>a DEF Assign
  <2>2. CASE FailNoProfile(t)
    <3> DEFINE row == [job[tk.job] EXCEPT !.status = "failed"]
    <3>1. Moved(row)
      BY <2>1, <1>b, <1>c DEF Row, Gone
    <3>2. job' = [job EXCEPT ![tk.job] = row] /\ task'[t] = IdleTask
      BY <2>2, <1>b DEF FailNoProfile
    <3> HIDE DEF row, Moved
    <3> QED
      BY <2>1, <3>1, <3>2, <1>r, <1>d
  <2>3. CASE RequeueAtCapacity(t)
    <3>1. PICK p :
            /\ job' = [job EXCEPT ![tk.job] = [Rebind(@, tk, p) EXCEPT
                                                 !.status = "queued"]]
            /\ task' = [task EXCEPT ![t] = IdleTask]
      BY <2>3 DEF RequeueAtCapacity
    <3> DEFINE row == [Rebind(job[tk.job], tk, p) EXCEPT !.status = "queued"]
    <3>2. Moved(row)
      BY <2>1, <1>b, <1>c DEF Rebind, Row, Gone
    <3>3. job' = [job EXCEPT ![tk.job] = row] /\ task'[t] = IdleTask
      BY <3>1, <1>b
    <3> HIDE DEF row, Moved
    <3> QED
      BY <2>1, <3>2, <3>3, <1>r, <1>d
  <2>4. CASE BindProfile(t)
    <3>1. PICK q :
            /\ job' = [job EXCEPT ![tk.job] = Rebind(@, tk, q)]
            /\ task' = [task EXCEPT ![t].pc = "assigned", ![t].profile = q]
      BY <2>4 DEF BindProfile
    <3> DEFINE row == Rebind(job[tk.job], tk, q)
    <3>2. Moved(row) /\ row.status = job[tk.job].status
      BY <2>1, <1>b, <1>c DEF Rebind, Row, Exists
    <3>3. job' = [job EXCEPT ![tk.job] = row] /\ job'[tk.job] = row
      BY <2>1, <3>1, <1>b
    <3>4. task'[t].pc = "assigned" /\ task'[t].job = tk.job
          /\ task'[t].max = tk.max
      BY <3>1, <1>b DEF Task
    <3>5. TaskCap(t)'
      BY <2>1, <3>2, <3>3, <3>4, <1>c DEF TaskCap, Live
    <3> HIDE DEF row, Moved
    <3> QED
      BY <2>1, <3>2, <3>3, <3>5, <1>r
  <2> QED
    BY <1>3, <2>2, <2>3, <2>4 DEF Assign
<1>4. CASE Begin(t)
  <2>1. tk.pc = "assigned" /\ tk.job \in Jobs /\ Exists(tk.job)
    BY <1>4, <1>a DEF Begin
  <2> DEFINE row == [job[tk.job] EXCEPT !.status = "processing_provider"]
  <2>2. Moved(row)
    BY <2>1, <1>b, <1>c DEF Row, Gone
  <2>3. job' = [job EXCEPT ![tk.job] = row] /\ job'[tk.job] = row
    BY <1>4, <2>1, <1>b DEF Begin
  <2>4. task'[t].pc = "running" /\ task'[t].job = tk.job
        /\ task'[t].max = tk.max
    BY <1>4, <1>b DEF Begin, Task
  <2>5. TaskCap(t)'
    BY <2>1, <2>2, <2>3, <2>4, <1>c DEF TaskCap, Live, Gone
  <2> HIDE DEF row, Moved
  <2> QED
    BY <2>1, <2>2, <2>3, <2>5, <1>r
<1>5. CASE ProviderEnds(t) \/ WatcherCancels(t)
  <2>1. tk.pc = "running" /\ UNCHANGED job
    BY <1>5 DEF ProviderEnds, WatcherCancels, ghosts
  <2>2. task'[t].pc = "ended" /\ task'[t].job = tk.job /\ task'[t].max = tk.max
    BY <1>5, <1>b DEF ProviderEnds, WatcherCancels, Task
  <2>3. TaskCap(t)'
    BY <2>1, <2>2, <1>c DEF TaskCap, Live, Exists
  <2> QED
    BY <2>1, <2>3, <1>n
<1>6. CASE Settle(t)
  <2>1. tk.pc = "ended" /\ UNCHANGED job /\ Exists(tk.job)
    BY <1>6 DEF Settle, ghosts
  <2>2. /\ task'[t].pc = "settling" /\ task'[t].job = tk.job
        /\ task'[t].max = tk.max /\ task'[t].retry = tk.retry
        /\ task'[t].verdict = Judge(tk)
    BY <1>6, <1>b DEF Settle, Task
  <2>3. Judge(tk) \notin Terminal => tk.retry < tk.max
    BY JudgedWithinBudget
  <2>4. TaskCap(t)'
    BY <2>1, <2>2, <2>3, <1>c DEF TaskCap, Live, Exists
  <2> QED
    BY <2>1, <2>4, <1>n
<1>7. CASE Notify(t)
  <2>1. tk.pc = "settling" /\ UNCHANGED job
    BY <1>7 DEF Notify
  <2>2. /\ task'[t].pc = "notified" /\ task'[t].job = tk.job
        /\ task'[t].max = tk.max /\ task'[t].retry = tk.retry
        /\ task'[t].verdict = tk.verdict
    BY <1>7, <1>b DEF Notify, Task
  <2>4. TaskCap(t)'
    BY <2>1, <2>2, <1>c DEF TaskCap, Live, Exists
  <2> QED
    BY <2>1, <2>4, <1>n
<1>8. CASE Commit(t)
  <2>1. tk.pc \in {"settling", "notified"} /\ tk.job \in Jobs
    BY <1>8, <1>a DEF Commit
  <2>2. /\ Exists(tk.job) /\ tk.max <= job[tk.job].max
        /\ tk.verdict \notin Terminal => tk.retry < tk.max
    BY <2>1, <1>c DEF TaskCap, Live
  <2> DEFINE row == Written(job[tk.job], tk)
  <2>3. Moved(row)
    <3>1. job[tk.job] \in Row
      BY <2>1, <1>b
    <3>2. CASE tk.verdict \in Terminal
      <4>1. row = [job[tk.job] EXCEPT !.status = tk.verdict]
        BY <3>2 DEF Written, Terminal
      <4> QED
        BY <3>1, <3>2, <4>1, <2>1, <1>c DEF Row, Gone, Terminal
    <3>3. CASE tk.verdict \notin Terminal
      <4>1. row.retry = tk.retry + 1 /\ row.max = job[tk.job].max
            /\ row.status = "queued"
        BY <3>1, <3>3 DEF Written, Row
      <4>2. tk.retry \in Nat /\ tk.max \in Nat /\ job[tk.job].max \in Nat
        BY <3>1, <1>b DEF Task, Row
      <4> QED
        BY <4>1, <4>2, <3>3, <2>2 DEF Gone
    <3> QED
      BY <3>2, <3>3
  <2>4. job' = [job EXCEPT ![tk.job] = row] /\ task'[t] = IdleTask
    BY <1>8, <1>b DEF Commit
  <2> HIDE DEF row, Moved
  <2> QED
    BY <2>1, <2>2, <2>3, <2>4, <1>r, <1>d
<1>9. CASE RowGone(t)
  BY <1>9, <1>b, <1>n, <1>d DEF RowGone
<1> QED
  BY <1>1, <1>2, <1>3, <1>4, <1>5, <1>6, <1>7, <1>8, <1>9 DEF Attempt

LEMMA CapStep ==
  ASSUME OneHandler
  PROVE  TypeInv /\ CapInv /\ [Next]_vars => CapInv'
<1> SUFFICES ASSUME TypeInv, CapInv, [Next]_vars PROVE CapInv'
  OBVIOUS
<1>b. /\ job \in [Jobs -> Row] /\ task \in [Tasks -> Task]
      /\ request \in [Clients -> Request]
  BY DEF TypeInv, TypeOK
<1>i. IdleTask.pc = "idle"
  BY IdleTaskIsTask
<1>d. \A t \in Tasks : task'[t] = IdleTask => TaskCap(t)'
  BY <1>i DEF TaskCap, Live
<1>o. /\ \A t \in Tasks : CapsKept /\ task'[t] = task[t] => TaskCap(t)'
      /\ \A c \in Clients : CapsKept /\ request'[c] = request[c] => HandlerCap(c)'
  BY CapsOfOthers
<1>n. UNCHANGED job => CapsKept /\ RetryBudget'
  BY DEF CapInv, CapsKept, RetryBudget, Exists
<1>1. ASSUME NEW t \in Tasks, Attempt(t) PROVE CapInv'
  <2>1. CapsKept /\ RetryBudget' /\ TaskCap(t)'
    BY <1>1, CapAttempt
  <2>2. UNCHANGED request /\ OnlyOwnTask(t)
    BY <1>1, AttemptSteps
  <2> QED
    BY <2>1, <2>2, <1>o DEF CapInv, OnlyOwnTask
<1>2. ASSUME NEW t \in Tasks, TaskFault(t) PROVE CapInv'
  <2>1. /\ task'[t] = IdleTask /\ UNCHANGED <<job, request>>
        /\ \A u \in Tasks : u # t => task'[u] = task[u]
    BY <1>2, <1>b DEF TaskFault
  <2> QED
    BY <2>1, <1>d, <1>n, <1>o DEF CapInv
<1>3. ASSUME NEW w \in Workers, Crash(w) PROVE CapInv'
  <2>1. /\ UNCHANGED <<job, request>>
        /\ \A u \in Tasks : task'[u] \in {IdleTask, task[u]}
    BY <1>3 DEF Crash
  <2> QED
    BY <2>1, <1>d, <1>n, <1>o DEF CapInv
<1>4. ASSUME NEW w \in Workers, Start(w) PROVE CapInv'
  <2>1. UNCHANGED <<task, request>>
        /\ \A j \in Jobs : job'[j] = Recovered(job[j])
    BY <1>4 DEF Start
  <2>2. \A j \in Jobs : /\ Recovered(job[j]).max = job[j].max
                        /\ Recovered(job[j]).retry = job[j].retry
                        /\ \/ Recovered(job[j]).status = job[j].status
                           \/ /\ Recovered(job[j]).status \in {"failed", "queued"}
                              /\ job[j].status \in InFlight \cup {"queued"}
    BY <1>b DEF Recovered, Row
  <2>3. CapsKept
    BY <2>1, <2>2 DEF CapsKept, Exists, Gone, InFlight
  <2>4. RetryBudget'
    BY <2>1, <2>2 DEF CapInv, RetryBudget
  <2> QED
    BY <2>1, <2>3, <2>4, <1>o DEF CapInv
<1>5. ASSUME NEW c \in Clients, ReadRow(c) PROVE CapInv'
  <2>1. PICK j \in Jobs, kind \in Requests :
          /\ Exists(j)
          /\ request' = [request EXCEPT ![c] = [kind |-> kind, job |-> j,
                               retry |-> job[j].retry, max |-> job[j].max]]
    BY <1>5 DEF ReadRow
  <2>2. UNCHANGED <<job, task>>
    BY <1>5 DEF ReadRow, ghosts
  <2>3. /\ request'[c].job = j /\ request'[c].max = job[j].max
        /\ \A d \in Clients : d # c => request'[d] = request[d]
    BY <2>1, <1>b
  <2>4. HandlerCap(c)'
    BY <2>1, <2>2, <2>3 DEF HandlerCap, Exists, Gone
  <2> QED
    BY <2>2, <2>3, <2>4, <1>n, <1>o DEF CapInv
<1>6. ASSUME NEW c \in Clients, WriteRow(c) PROVE CapInv'
  <2> DEFINE r == request[c]
             i == r.job
             new == IF Exists(i) THEN Answered(job[i], r) ELSE job[i]
  <2>1. /\ r.kind \in {"cancel", "retry", "delete"} /\ i \in Jobs
        /\ r # NoRequest /\ ~Locked(i) /\ r \in Request /\ job[i] \in Row
    BY <1>6, <1>b, ConstantsAssumption DEF WriteRow, TypeInv, HandlerShape
  <2>2. /\ job'[i] = new /\ UNCHANGED task /\ request'[c] = NoRequest
        /\ \A j \in Jobs : j # i => job'[j] = job[j]
    BY <1>6, <2>1, <1>b DEF WriteRow
  <2>3. \A d \in Clients : HandlerCap(d)'
    BY <2>2 DEF OneHandler, HandlerCap
  <2>4. /\ new.status # "absent" /\ new.retry <= new.max
        /\ new.status \notin Gone => new.max >= job[i].max /\ Exists(i)
    <3>1. CASE ~Exists(i)
      BY <2>1, <3>1 DEF CapInv, HandlerCap, RetryBudget, Exists
    <3>2. CASE Exists(i) /\ r.kind = "cancel"
      <4>1. new = [job[i] EXCEPT !.status = "cancelled"]
        BY <3>2 DEF Answered
      <4> QED
        BY <2>1, <3>2, <4>1 DEF CapInv, RetryBudget, Row
    <3>3. CASE Exists(i) /\ r.kind = "retry"
      <4>1. /\ new.status = "queued" /\ new.retry = r.retry + 1
            /\ new.max = IF r.max < r.retry + 1 THEN r.retry + 2 ELSE job[i].max
        BY <2>1, <3>3 DEF Answered, Row
      <4>2. r.max = job[i].max /\ r.max \in Nat /\ r.retry \in Nat
        BY <2>1, <3>3 DEF CapInv, HandlerCap, Request
      <4> QED
        BY <3>3, <4>1, <4>2
    <3>4. CASE Exists(i) /\ r.kind = "delete"
      <4>1. new = NoRow("deleted")
        BY <3>4 DEF Answered
      <4> QED
        BY <4>1, ConstantsAssumption DEF NoRow, Gone
    <3> QED
      BY <2>1, <3>1, <3>2, <3>3, <3>4
  <2>n. new.max \in Nat
    <3>1. new \in Row
      BY <2>1, AnsweredIsRow
    <3> QED
      BY <3>1 DEF Row
  <2> HIDE DEF new
  <2>5. RetryBudget'
    BY <2>2, <2>4 DEF CapInv, RetryBudget
  <2>6. ASSUME NEW u \in Tasks PROVE TaskCap(u)'
    <3>1. Live(u) => task[u].job \in Jobs /\ task[u].max \in Nat
      BY <1>b DEF TypeInv, AttemptShape, Task
    <3>2. CASE Live(u) /\ task[u].job = i
      <4>1. task[u].pc \notin {"settling", "notified"}
        BY <2>1, <3>2 DEF Locked, Attempts
      <4>2. TaskCap(u) /\ job[i].max \in Nat
        BY <2>1 DEF CapInv, Row
      <4> QED
        BY <2>2, <2>4, <2>n, <3>1, <3>2, <4>1, <4>2 DEF TaskCap, Live, Exists
    <3>3. CASE ~(Live(u) /\ task[u].job = i)
      BY <2>2, <3>1, <3>3 DEF CapInv, TaskCap, Live, Exists
    <3> QED
      BY <3>2, <3>3
  <2> QED
    BY <2>3, <2>5, <2>6 DEF CapInv
<1>7. ASSUME NEW i \in Jobs, CreateJob(i) PROVE CapInv'
  <2>1. /\ job[i].status = "absent" /\ UNCHANGED <<task, request>>
        /\ job'[i].max = job[i].max /\ job'[i].retry = job[i].retry
        /\ \A j \in Jobs : j # i => job'[j] = job[j]
    BY <1>7, <1>b DEF CreateJob, Row
  <2>2. RetryBudget'
    BY <2>1 DEF CapInv, RetryBudget
  <2>3. ASSUME NEW u \in Tasks PROVE TaskCap(u)'
    <3>1. Live(u) => task[u].job \in Jobs /\ task[u].job # i
      BY <2>1 DEF CapInv, TaskCap, TypeInv, AttemptShape
    <3> QED
      BY <2>1, <3>1 DEF CapInv, TaskCap, Live, Exists
  <2>4. ASSUME NEW c \in Clients PROVE HandlerCap(c)'
    <3>1. request[c] # NoRequest => request[c].job \in Jobs /\ request[c].job # i
      BY <2>1 DEF CapInv, HandlerCap, TypeInv, HandlerShape
    <3> QED
      BY <2>1, <3>1 DEF CapInv, HandlerCap, Exists
  <2> QED
    BY <2>2, <2>3, <2>4 DEF CapInv
<1>8. ASSUME NEW i \in Jobs, BackoffElapses(i) PROVE CapInv'
  <2>1. /\ UNCHANGED <<task, request>>
        /\ \A j \in Jobs : /\ job'[j].status = job[j].status
                           /\ job'[j].max = job[j].max
                           /\ job'[j].retry = job[j].retry
    BY <1>8, <1>b DEF BackoffElapses, ghosts, Row
  <2>2. CapsKept /\ RetryBudget'
    BY <2>1 DEF CapInv, CapsKept, RetryBudget, Exists
  <2> QED
    BY <2>1, <2>2, <1>o DEF CapInv
<1>9. ASSUME NEW p \in Profiles, ProfileChanges(p) PROVE CapInv'
  BY <1>9, <1>n, <1>o DEF ProfileChanges, ghosts, CapInv
<1>10. CASE UNCHANGED vars
  BY <1>10, <1>n, <1>o DEF vars, CapInv
<1> QED
  BY <1>1, <1>2, <1>3, <1>4, <1>5, <1>6, <1>7, <1>8, <1>9, <1>10 DEF Next

\* Owners who cancel, retry and delete one request at a time never bring
\* retry_count above max_retry, whatever the number of workers, of attempts at
\* the same job and of crashes.
THEOREM ManualRetriesStayInBudget ==
  ASSUME OneHandler
  PROVE  Spec => []RetryBudget
<1>1. Init => CapInv
  <2> SUFFICES ASSUME Init PROVE CapInv
    OBVIOUS
  <2>1. \A j \in Jobs : job[j].retry = 0 /\ job[j].max = MaxRetry
    BY DEF Init, NoRow
  <2>2. RetryBudget
    BY <2>1, ConstantsAssumption DEF RetryBudget
  <2>3. /\ \A t \in Tasks : ~Live(t)
        /\ \A c \in Clients : request[c] = NoRequest
    BY IdleTaskIsTask DEF Init, Live
  <2> QED
    BY <2>2, <2>3 DEF CapInv, TaskCap, HandlerCap
<1>2. TypeInv /\ CapInv /\ [Next]_vars => CapInv'
  BY CapStep
<1>3. CapInv => RetryBudget
  BY DEF CapInv
<1> QED
  BY <1>1, <1>2, <1>3, TypeAlways, PTL DEF Spec

-----------------------------------------------------------------------------
(* What one worker process keeps true of its attempts and their rows, with *)
(* owners who cancel and delete, but do not retry.                         *)

\* A row that is gone has nothing left in it, and a row is never bound to a
\* profile it was rotated away from.
RowFits(j) ==
    /\ ~Exists(j) => job[j] = NoRow(job[j].status)
    /\ job[j].profile \notin job[j].banned

\* An attempt's row is not settled by anyone else, the attempt's copies of its
\* ban list and counter are up to date, and the row cannot go once it is locked.
TaskFits(t) ==
    Live(t) =>
      /\ job[task[t].job].status \notin {"success", "failed"}
      /\ task[t].pc # "claimed" /\ Exists(task[t].job) =>
            /\ task[t].banned = job[task[t].job].banned
            /\ task[t].retry = job[task[t].job].retry
      /\ task[t].pc \in {"settling", "notified"} => Exists(task[t].job)
      /\ task[t].pc = "notified" => task[t].verdict \in Terminal
      /\ task[t].profile \notin task[t].banned

FitsInv ==
    /\ \A j \in Jobs : RowFits(j)
    /\ \A t \in Tasks : TaskFits(t)

\* What is left of a row that does not exist.
LEMMA NoRowFields ==
  ASSUME NEW status
  PROVE  /\ NoRow(status).status = status /\ NoRow(status).banned = {}
         /\ NoRow(status).retry = 0 /\ NoRow(status).due
         /\ NoRow(status).profile = None
BY DEF NoRow

\* An attempt never starts on, or fails over to, a profile it may not use.
LEMMA StartingPointsNotBanned ==
  ASSUME NEW tk, tk.profile \notin tk.banned, NEW p \in StartingPoints(tk)
  PROVE  p \notin tk.banned
BY DEF StartingPoints, Candidates

\* Attempts at other jobs, and their rows, do not see a step of an attempt.
LEMMA OthersUntouched ==
  ASSUME TypeInv, SoleInv, NEW t \in Tasks, Attempt(t), ~Claim(t),
         NEW j, j = task[t].job
  PROVE  /\ Live(t) /\ j \in Jobs
         /\ job[j].status \notin {"queued", "absent"}
         /\ Attempts(j) = {t}
         /\ \A u \in Tasks : u # t /\ Live(u) =>
               /\ task'[u] = task[u] /\ task[u].job # j
               /\ job'[task[u].job] = job[task[u].job]
         /\ \A i \in Jobs : i # j => Attempts(i)' = Attempts(i)
                                     /\ job'[i] = job[i]
         /\ Live(t)' => task'[t].job = j /\ Attempts(j)' = {t}
         /\ ~Live(t)' => Attempts(j)' = {}
<1>1. /\ GoesOn(t) \/ Ends(t)
      /\ OnlyOwnRow(t) /\ OnlyOwnTask(t)
  BY AttemptSteps
<1>2. Live(t)
  BY <1>1 DEF GoesOn, Ends
<1>3. j \in Jobs
  BY <1>2 DEF TypeInv, AttemptShape
<1>4. \A u \in Tasks : u # t /\ Live(u) => task[u].job # j
  BY <1>2 DEF SoleInv, SingleAttempt
<1>5. \A u \in Tasks : Live(u) => task[u].job \in Jobs
  BY DEF TypeInv, AttemptShape
<1>6. Live(t)' => task'[t].job = j
  BY <1>1 DEF GoesOn, Ends
<1>7. \A u \in Tasks : u # t => (Live(u)' <=> Live(u)) /\ task'[u] = task[u]
  BY <1>1 DEF OnlyOwnTask, Live
<1>8. Attempts(j) = {t}
  BY <1>2, <1>4 DEF Attempts
<1>9. \A u \in Tasks : u # t /\ Live(u) => job'[task[u].job] = job[task[u].job]
  BY <1>1, <1>4, <1>5 DEF OnlyOwnRow
<1>10. ASSUME NEW i \in Jobs, i # j
       PROVE  Attempts(i)' = Attempts(i) /\ job'[i] = job[i]
  <2>1. \A u \in Tasks : u \in Attempts(i)' <=> u \in Attempts(i)
    BY <1>2, <1>6, <1>7, <1>10 DEF Attempts
  <2> QED
    BY <1>1, <1>10, <2>1 DEF OnlyOwnRow, Attempts
<1>11. \A u \in Tasks : u # t => u \notin Attempts(j)'
  BY <1>4, <1>7 DEF Attempts
<1>12. Live(t)' => Attempts(j)' = {t}
  BY <1>6, <1>11 DEF Attempts
<1>13. ~Live(t)' => Attempts(j)' = {}
  BY <1>11 DEF Attempts
<1>14. job[j].status \notin {"queued", "absent"}
  BY <1>2 DEF SoleInv
<1> QED
  BY <1>2, <1>3, <1>4, <1>6, <1>7, <1>8, <1>9, <1>10, <1>12, <1>13, <1>14

\* Every step of an attempt keeps rows and attempts in step.
LEMMA FitsAttempt ==
  ASSUME TypeInv, SoleInv, FitsInv, NEW t \in Tasks, Attempt(t)
  PROVE  FitsInv'
<1> DEFINE tk == task[t]
           j == tk.job
           row == job[j]
<1>b. job \in [Jobs -> Row] /\ task \in [Tasks -> Task] /\ tk \in Task
  BY DEF TypeInv, TypeOK
<1>i. IdleTask.pc = "idle"
  BY IdleTaskIsTask
<1>f. TaskFits(t) /\ \A i \in Jobs : RowFits(i)
  BY DEF FitsInv
<1>1. CASE Claim(t)
  <2>1. PICK i \in Jobs :
          /\ Pickable(i)
          /\ job' = [job EXCEPT ![i].status = "running"]
          /\ task' = [task EXCEPT ![t] = [IdleTask EXCEPT !.pc = "claimed",
                                                          !.job = i]]
    BY <1>1 DEF Claim
  <2>2. /\ task'[t].pc = "claimed" /\ task'[t].job = i
        /\ task'[t].profile = None /\ task'[t].banned = {}
        /\ \A u \in Tasks : u # t => task'[u] = task[u]
    BY <2>1, <1>b DEF IdleTask
  <2>3. job[i].status = "queued" /\ job'[i] = [job[i] EXCEPT !.status = "running"]
        /\ \A k \in Jobs : k # i => job'[k] = job[k]
    BY <2>1, <1>b DEF Pickable
  <2>4. job'[i].status = "running" /\ job'[i].profile = job[i].profile
        /\ job'[i].banned = job[i].banned
    BY <2>3, <1>b DEF Row
  <2>5. ASSUME NEW k \in Jobs PROVE RowFits(k)'
    BY <1>f, <2>3, <2>4 DEF RowFits, Exists, Gone
  <2>6. ASSUME NEW u \in Tasks PROVE TaskFits(u)'
    <3>1. CASE u = t
      BY <3>1, <2>2, <2>4 DEF TaskFits
    <3>2. CASE u # t
      <4>1. Live(u) => task[u].job # i /\ task[u].job \in Jobs
        BY <2>3 DEF SoleInv, TypeInv, AttemptShape
      <4> QED
        BY <3>2, <4>1, <2>2, <2>3 DEF FitsInv, TaskFits, Live, Exists
    <3> QED
      BY <3>1, <3>2
  <2> QED
    BY <2>5, <2>6 DEF FitsInv
<1>2. CASE ~Claim(t)
  <2>a. /\ Live(t) /\ j \in Jobs /\ row \in Row
        /\ row.status \notin {"queued", "absent"}
        /\ \A u \in Tasks : u # t /\ Live(u) =>
              task'[u] = task[u] /\ job'[task[u].job] = job[task[u].job]
        /\ \A i \in Jobs : i # j => job'[i] = job[i]
        /\ \A u \in Tasks : u # t => task'[u] = task[u]
    BY <1>2, <1>b, OthersUntouched, AttemptSteps DEF OnlyOwnTask
  <2>o. SUFFICES ASSUME TRUE
                 PROVE  TaskFits(t)' /\ (\A i \in Jobs : i = j => RowFits(i)')
    <3>1. ASSUME NEW u \in Tasks, u # t PROVE TaskFits(u)'
      BY <2>a, <3>1 DEF FitsInv, TaskFits, Live, Exists
    <3>2. ASSUME NEW i \in Jobs, i # j PROVE RowFits(i)'
      BY <2>a, <3>2, <1>f DEF RowFits, Exists
    <3> QED
      BY <3>1, <3>2 DEF FitsInv
  <2>r. RowFits(j)
    BY <1>f, <2>a
  <2>1. CASE Refresh(t)
    <3>1. UNCHANGED job /\ tk.pc = "claimed"
      BY <2>1 DEF Refresh, ghosts
    <3>2. \/ task'[t] = IdleTask
          \/ /\ task'[t].pc = "assigning" /\ task'[t].job = j
             /\ task'[t].profile = row.profile /\ task'[t].banned = row.banned
             /\ task'[t].retry = row.retry
      BY <2>1, <1>b DEF Refresh, Task
    <3> QED
      BY <3>1, <3>2, <2>a, <2>r, <1>f, <1>i DEF TaskFits, RowFits, Live, Exists
  <2>2. CASE Assign(t)
    <3>1. tk.pc = "assigning" /\ Exists(j)
      BY <2>2 DEF Assign
    <3>2. tk.banned = row.banned /\ tk.retry = row.retry
          /\ tk.profile \notin tk.banned
      BY <3>1, <2>a, <1>f DEF TaskFits
    <3>3. ASSUME NEW q, q \notin tk.banned
          PROVE  /\ Rebind(row, tk, q).profile \notin row.banned
                 /\ Rebind(row, tk, q).banned = row.banned
                 /\ Rebind(row, tk, q).retry = row.retry
                 /\ Rebind(row, tk, q).status = row.status
      BY <3>2, <3>3, <2>a, <2>r DEF Rebind, Row, RowFits
    <3>4. CASE FailNoProfile(t)
      <4>1. /\ task'[t] = IdleTask /\ job'[j].status = "failed"
            /\ job'[j].profile = row.profile /\ job'[j].banned = row.banned
        BY <3>4, <2>a, <1>b DEF FailNoProfile, Row
      <4> QED
        BY <4>1, <2>r, <1>i DEF TaskFits, RowFits, Live, Exists, Gone
    <3>5. CASE RequeueAtCapacity(t)
      <4>1. PICK p \in StartingPoints(tk) :
              /\ job' = [job EXCEPT ![j] = [Rebind(@, tk, p) EXCEPT
                                              !.status = "queued"]]
              /\ task' = [task EXCEPT ![t] = IdleTask]
        BY <3>5 DEF RequeueAtCapacity
      <4>2. p \notin tk.banned
        BY <3>2, StartingPointsNotBanned
      <4>3. /\ task'[t] = IdleTask /\ job'[j].status = "queued"
            /\ job'[j].profile \notin row.banned /\ job'[j].banned = row.banned
        BY <4>1, <4>2, <3>3, <2>a, <1>b DEF Rebind, Row
      <4> QED
        BY <4>3, <1>i DEF TaskFits, RowFits, Live, Exists, Gone
    <3>6. CASE BindProfile(t)
      <4>1. PICK p \in StartingPoints(tk) :
              \E q \in IF JobType[j] = "image" THEN {p}
                       ELSE (pool \cap {p}) \cup
                            Siblings(j, tk.banned \cup {p}) :
                /\ job' = [job EXCEPT ![j] = Rebind(@, tk, q)]
                /\ task' = [task EXCEPT ![t].pc = "assigned",
                                        ![t].profile = q]
        BY <3>6 DEF BindProfile
      <4>2. p \notin tk.banned
        BY <3>2, StartingPointsNotBanned
      <4>3. PICK q :
              /\ q \notin tk.banned
              /\ job' = [job EXCEPT ![j] = Rebind(@, tk, q)]
              /\ task' = [task EXCEPT ![t].pc = "assigned", ![t].profile = q]
        BY <4>1, <4>2 DEF Siblings
      <4>4. /\ task'[t].pc = "assigned" /\ task'[t].job = j
            /\ task'[t].profile = q /\ task'[t].banned = tk.banned
            /\ task'[t].retry = tk.retry
        BY <4>3, <1>b DEF Task
      <4>5. job'[j] = Rebind(row, tk, q)
        BY <4>3, <2>a, <1>b
      <4>6. /\ job'[j].profile \notin row.banned
            /\ job'[j].banned = row.banned /\ job'[j].retry = row.retry
            /\ job'[j].status = row.status
        BY <4>3, <4>5, <3>3
      <4>7. row.status \notin {"success", "failed"}
        BY <2>a, <1>f DEF TaskFits
      <4>8. TaskFits(t)'
        BY <4>3, <4>4, <4>6, <4>7, <3>1, <3>2 DEF TaskFits, Exists
      <4>9. ASSUME NEW i \in Jobs, i = j PROVE RowFits(i)'
        BY <4>6, <4>9, <3>1 DEF RowFits, Exists
      <4> QED
        BY <4>8, <4>9
    <3> QED
      BY <2>2, <3>4, <3>5, <3>6 DEF Assign
  <2>3. CASE Begin(t)
    <3>1. tk.pc = "assigned" /\ Exists(j)
      BY <2>3 DEF Begin
    <3>2. /\ job'[j].status = "processing_provider"
          /\ job'[j].profile = row.profile /\ job'[j].banned = row.banned
          /\ job'[j].retry = row.retry
      BY <2>3, <2>a, <1>b DEF Begin, Row
    <3>3. /\ task'[t].pc = "running" /\ task'[t].job = j
          /\ task'[t].profile = tk.profile /\ task'[t].banned = tk.banned
          /\ task'[t].retry = tk.retry
      BY <2>3, <1>b DEF Begin, Task
    <3> QED
      BY <3>1, <3>2, <3>3, <2>a, <2>r, <1>f DEF TaskFits, RowFits, Exists, Gone
  <2>4. CASE ProviderEnds(t) \/ WatcherCancels(t)
    <3>1. tk.pc = "running" /\ UNCHANGED job
      BY <2>4 DEF ProviderEnds, WatcherCancels, ghosts
    <3>2. /\ task'[t].pc = "ended" /\ task'[t].job = j
          /\ task'[t].profile = tk.profile /\ task'[t].banned = tk.banned
          /\ task'[t].retry = tk.retry
      BY <2>4, <1>b DEF ProviderEnds, WatcherCancels, Task
    <3> QED
      BY <3>1, <3>2, <2>a, <2>r, <1>f DEF TaskFits, RowFits, Exists
  <2>5. CASE Settle(t)
    <3>1. tk.pc = "ended" /\ UNCHANGED job /\ Exists(j)
      BY <2>5 DEF Settle, ghosts
    <3>2. /\ task'[t].pc = "settling" /\ task'[t].job = j
          /\ task'[t].profile = tk.profile /\ task'[t].banned = tk.banned
          /\ task'[t].retry = tk.retry
      BY <2>5, <1>b DEF Settle, Task
    <3> QED
      BY <3>1, <3>2, <2>a, <2>r, <1>f DEF TaskFits, RowFits, Exists
  <2>6. CASE Notify(t)
    <3>1. tk.pc = "settling" /\ UNCHANGED job /\ tk.verdict \in Terminal
      BY <2>6 DEF Notify
    <3>2. /\ task'[t].pc = "notified" /\ task'[t].job = j
          /\ task'[t].profile = tk.profile /\ task'[t].banned = tk.banned
          /\ task'[t].retry = tk.retry /\ task'[t].verdict = tk.verdict
      BY <2>6, <1>b DEF Notify, Task
    <3> QED
      BY <3>1, <3>2, <2>a, <2>r, <1>f DEF TaskFits, RowFits, Exists
  <2>7. CASE Commit(t)
    <3>1. task'[t] = IdleTask /\ job'[j] = Written(row, tk) /\ Exists(j)
          /\ tk.pc \in {"settling", "notified"}
      BY <2>7, <2>a, <1>b, <1>f DEF Commit, TaskFits
    <3>2. Written(row, tk).status \in Terminal \cup {"queued"}
      BY <2>a DEF Written, Row
    <3>3. Written(row, tk).profile \notin Written(row, tk).banned
      <4>1. None \notin tk.banned \cup {tk.profile}
        <5>1. tk.profile \in Profiles
          BY <3>1, <2>a DEF TypeInv, AttemptShape
        <5>2. tk.banned \in SUBSET Profiles
          BY <1>b DEF Task
        <5> QED
          BY <5>1, <5>2, ConstantsAssumption
      <4>2. CASE tk.verdict \notin Terminal /\ tk.verdict = "rotate"
        <5>1. /\ Written(row, tk).profile = None
              /\ Written(row, tk).banned = tk.banned \cup {tk.profile}
          BY <4>2, <2>a DEF Written, Row
        <5> QED
          BY <4>1, <5>1
      <4>3. CASE tk.verdict \in Terminal
        <5>1. Written(row, tk) = [row EXCEPT !.status = tk.verdict]
          BY <4>3 DEF Written, Terminal
        <5> QED
          BY <2>a, <2>r, <5>1 DEF RowFits, Row
      <4>4. CASE tk.verdict \notin Terminal /\ tk.verdict # "rotate"
        <5>1. Written(row, tk) = [row EXCEPT !.status = "queued",
                                    !.retry = tk.retry + 1, !.due = FALSE]
          BY <4>4 DEF Written
        <5> QED
          BY <2>a, <2>r, <5>1 DEF RowFits, Row
      <4> QED
        BY <4>2, <4>3, <4>4
    <3> QED
      BY <3>1, <3>2, <3>3, <1>i
      DEF TaskFits, RowFits, Live, Exists, Gone, Terminal
  <2>8. CASE RowGone(t)
    <3>1. task'[t] = IdleTask /\ UNCHANGED job
      BY <2>8, <1>b DEF RowGone
    <3> QED
      BY <3>1, <2>r, <1>i DEF TaskFits, RowFits, Live, Exists
  <2> QED
    BY <1>2, <2>1, <2>2, <2>3, <2>4, <2>5, <2>6, <2>7, <2>8 DEF Attempt
<1> QED
  BY <1>1, <1>2

LEMMA FitsStep ==
  ASSUME NoManualRetry, OneProcess
  PROVE  TypeInv /\ SoleInv /\ FitsInv /\ [Next]_vars => FitsInv'
<1> SUFFICES ASSUME TypeInv, SoleInv, FitsInv, [Next]_vars PROVE FitsInv'
  OBVIOUS
<1>b. job \in [Jobs -> Row] /\ task \in [Tasks -> Task]
  BY DEF TypeInv, TypeOK
<1>i. IdleTask.pc = "idle"
  BY IdleTaskIsTask
<1>c. \A u \in Tasks : Live(u) => task[u].job \in Jobs
  BY DEF TypeInv, AttemptShape
<1>1. ASSUME NEW t \in Tasks, Attempt(t) PROVE FitsInv'
  BY <1>1, FitsAttempt
<1>2. ASSUME NEW t \in Tasks, TaskFault(t) PROVE FitsInv'
  <2>1. /\ task'[t] = IdleTask /\ UNCHANGED job
        /\ \A u \in Tasks : u # t => task'[u] = task[u]
    BY <1>2, <1>b DEF TaskFault
  <2> QED
    BY <2>1, <1>i DEF FitsInv, RowFits, TaskFits, Live, Exists
<1>3. ASSUME NEW w \in Workers, Crash(w) PROVE FitsInv'
  <2>1. UNCHANGED job /\ \A u \in Tasks : task'[u] \in {IdleTask, task[u]}
    BY <1>3 DEF Crash
  <2> QED
    BY <2>1, <1>i DEF FitsInv, RowFits, TaskFits, Live, Exists
<1>4. ASSUME NEW w \in Workers, Start(w) PROVE FitsInv'
  <2>1. \A u \in Tasks : ~Live(u)
    BY <1>4, ConstantsAssumption DEF OneProcess, Start, SoleInv
  <2>2. ASSUME NEW j \in Jobs PROVE RowFits(j)'
    <3>1. /\ job'[j] = Recovered(job[j])
          /\ Recovered(job[j]).profile = job[j].profile
          /\ Recovered(job[j]).banned = job[j].banned
          /\ \/ Recovered(job[j]) = job[j]
             \/ Recovered(job[j]).status \in {"failed", "queued"}
      BY <1>4, <1>b DEF Start, Recovered, Row
    <3> QED
      BY <3>1 DEF FitsInv, RowFits, Exists, Gone
  <2> QED
    BY <1>4, <2>1, <2>2 DEF Start, FitsInv, TaskFits, Live
<1>5. ASSUME NEW c \in Clients, ReadRow(c) PROVE FitsInv'
  BY <1>5 DEF ReadRow, ghosts, FitsInv, RowFits, TaskFits, Live, Exists
<1>6. ASSUME NEW c \in Clients, WriteRow(c) PROVE FitsInv'
  <2> DEFINE i == request[c].job
             new == IF Exists(i) THEN Answered(job[i], request[c]) ELSE job[i]
  <2>1. request[c].kind \in {"cancel", "delete"} /\ i \in Jobs
    BY <1>6, ConstantsAssumption
    DEF WriteRow, TypeInv, HandlerShape, NoManualRetry
  <2>2. /\ job'[i] = new /\ UNCHANGED task /\ ~Locked(i)
        /\ \A j \in Jobs : j # i => job'[j] = job[j]
    BY <1>6, <2>1, <1>b DEF WriteRow
  <2>3. \/ new = job[i]
        \/ /\ new.status = "cancelled" /\ Exists(i)
           /\ new.profile = job[i].profile /\ new.banned = job[i].banned
           /\ new.retry = job[i].retry
        \/ new = NoRow("deleted") /\ new.status = "deleted"
           /\ new.banned = {}
    BY <2>1, <1>b DEF Answered, Row, NoRow
  <2> HIDE DEF new
  <2>4. ASSUME NEW j \in Jobs PROVE RowFits(j)'
    BY <2>2, <2>3 DEF FitsInv, RowFits, Exists, Gone
  <2>5. ASSUME NEW u \in Tasks PROVE TaskFits(u)'
    <3>1. Live(u) /\ task[u].job = i => task[u].pc \notin {"settling", "notified"}
      BY <2>2 DEF Locked, Attempts
    <3>2. CASE Live(u) /\ task[u].job = i
      BY <3>1, <3>2, <2>2, <2>3 DEF FitsInv, TaskFits, Live, Exists, Gone
    <3>3. CASE ~(Live(u) /\ task[u].job = i)
      BY <3>3, <2>2, <1>c DEF FitsInv, TaskFits, Live, Exists
    <3> QED
      BY <3>2, <3>3
  <2> QED
    BY <2>4, <2>5 DEF FitsInv
<1>7. ASSUME NEW i \in Jobs, CreateJob(i) PROVE FitsInv'
  <2>1. PICK p \in Candidates(i, {}) :
          job' = [job EXCEPT ![i].status = "queued", ![i].profile = p]
    BY <1>7 DEF CreateJob
  <2>2. /\ job'[i].status = "queued" /\ job'[i].banned = job[i].banned
        /\ job[i].status = "absent" /\ UNCHANGED task
        /\ \A j \in Jobs : j # i => job'[j] = job[j]
    BY <1>7, <2>1, <1>b DEF CreateJob, Row
  <2>3. job[i].banned = {}
    BY <2>2, NoRowFields DEF FitsInv, RowFits, Exists, Gone
  <2>4. \A u \in Tasks : Live(u) => task[u].job # i
    BY <2>2 DEF SoleInv
  <2>5. ASSUME NEW j \in Jobs PROVE RowFits(j)'
    BY <2>2, <2>3 DEF FitsInv, RowFits, Exists, Gone
  <2>6. ASSUME NEW u \in Tasks PROVE TaskFits(u)'
    BY <2>2, <2>4, <1>c DEF FitsInv, TaskFits, Live, Exists
  <2> QED
    BY <2>5, <2>6 DEF FitsInv
<1>8. ASSUME NEW i \in Jobs, BackoffElapses(i) PROVE FitsInv'
  <2>1. /\ ~job[i].due /\ UNCHANGED task
        /\ job'[i].status = job[i].status /\ job'[i].profile = job[i].profile
        /\ job'[i].banned = job[i].banned /\ job'[i].retry = job[i].retry
        /\ \A j \in Jobs : j # i => job'[j] = job[j]
    BY <1>8, <1>b DEF BackoffElapses, ghosts, Row
  <2>2. Exists(i)
    BY <2>1, NoRowFields DEF FitsInv, RowFits
  <2>3. ASSUME NEW j \in Jobs PROVE RowFits(j)'
    BY <2>1, <2>2 DEF FitsInv, RowFits, Exists
  <2>4. ASSUME NEW u \in Tasks PROVE TaskFits(u)'
    BY <2>1, <1>c DEF FitsInv, TaskFits, Live, Exists
  <2> QED
    BY <2>3, <2>4 DEF FitsInv
<1>9. ASSUME NEW p \in Profiles, ProfileChanges(p) PROVE FitsInv'
  BY <1>9 DEF ProfileChanges, ghosts, FitsInv, RowFits, TaskFits, Live, Exists
<1>10. CASE UNCHANGED vars
  BY <1>10 DEF vars, ghosts, FitsInv, RowFits, TaskFits, Live, Exists
<1> QED
  BY <1>1, <1>2, <1>3, <1>4, <1>5, <1>6, <1>7, <1>8, <1>9, <1>10 DEF Next

LEMMA FitsAlways ==
  ASSUME NoManualRetry, OneProcess
  PROVE  Spec => []FitsInv
<1>1. Init => FitsInv
  <2> SUFFICES ASSUME Init PROVE FitsInv
    OBVIOUS
  <2>1. \A j \in Jobs : job[j] = NoRow("absent")
    BY DEF Init
  <2>2. \A t \in Tasks : ~Live(t)
    BY IdleTaskIsTask DEF Init, Live
  <2> QED
    BY <2>1, <2>2, NoRowFields DEF FitsInv, RowFits, TaskFits
<1>2. TypeInv /\ SoleInv /\ FitsInv /\ [Next]_vars => FitsInv'
  BY FitsStep
<1> QED
  BY <1>1, <1>2, TypeAlways, SoleAlways, PTL DEF Spec

\* With one worker process, and owners who cancel and delete as they like, no
\* attempt is at work on a profile its job was rotated away from.
THEOREM NoRunOnBannedProfile ==
  ASSUME NoManualRetry, OneProcess
  PROVE  Spec => []BannedNeverRuns
<1>1. TypeInv /\ FitsInv => BannedNeverRuns
  <2> SUFFICES ASSUME TypeInv, FitsInv, NEW t \in Tasks,
                      task[t].pc \in {"assigned", "running"}
               PROVE  task[t].profile \notin job[task[t].job].banned
    BY DEF BannedNeverRuns
  <2>1. Live(t) /\ task[t].job \in Jobs
    BY DEF Live, TypeInv, AttemptShape
  <2>2. CASE Exists(task[t].job)
    BY <2>1, <2>2 DEF FitsInv, TaskFits
  <2>3. CASE ~Exists(task[t].job)
    BY <2>1, <2>3, NoRowFields DEF FitsInv, RowFits
  <2> QED
    BY <2>2, <2>3
<1> QED
  BY <1>1, TypeAlways, FitsAlways, PTL

\* With one worker process and owners who do not retry, a successful job stays
\* successful: only a cancel that read the row before can undo it.
THEOREM SuccessStays ==
  ASSUME NoManualRetry, OneProcess
  PROVE  Spec => SuccessIsFinal
<1> DEFINE Kept == \A j \in Jobs : job[j].status = "success" =>
                     \/ job'[j].status \in {"success", "deleted"}
                     \/ \E c \in Clients : /\ request[c].kind = "cancel"
                                           /\ request[c].job = j
                                           /\ request'[c] = NoRequest
<1>1. TypeInv /\ SoleInv /\ FitsInv /\ [Next]_vars => [Kept]_vars
  <2> SUFFICES ASSUME TypeInv, SoleInv, FitsInv, Next,
                      NEW j \in Jobs, job[j].status = "success"
               PROVE  \/ job'[j].status \in {"success", "deleted"}
                      \/ \E c \in Clients : /\ request[c].kind = "cancel"
                                            /\ request[c].job = j
                                            /\ request'[c] = NoRequest
    OBVIOUS
  <2>b. job \in [Jobs -> Row] /\ request \in [Clients -> Request]
    BY DEF TypeInv, TypeOK
  <2>1. ASSUME NEW t \in Tasks, Attempt(t) PROVE job'[j].status = "success"
    <3>1. CASE Claim(t)
      BY <3>1, <2>b DEF Claim, Pickable
    <3>2. CASE ~Claim(t)
      <4>1. Live(t) /\ OnlyOwnRow(t)
        BY <2>1, <3>2, OthersUntouched, AttemptSteps
      <4>2. task[t].job # j
        BY <4>1 DEF FitsInv, TaskFits
      <4> QED
        BY <4>1, <4>2 DEF OnlyOwnRow
    <3> QED
      BY <3>1, <3>2
  <2>2. ASSUME NEW w \in Workers, Start(w) PROVE job'[j].status = "success"
    BY <2>2, <2>b DEF Start, Recovered, InFlight
  <2>3. ASSUME NEW c \in Clients, WriteRow(c)
        PROVE  \/ job'[j].status \in {"success", "deleted"}
               \/ /\ request[c].kind = "cancel" /\ request[c].job = j
                  /\ request'[c] = NoRequest
    <3>1. request[c].kind \in {"cancel", "delete"} /\ request[c].job \in Jobs
          /\ request'[c] = NoRequest
      BY <2>3, <2>b, ConstantsAssumption
      DEF WriteRow, TypeInv, HandlerShape, NoManualRetry
    <3>2. CASE request[c].job # j
      BY <2>3, <3>2, <2>b DEF WriteRow
    <3>3. CASE request[c].job = j /\ request[c].kind = "delete"
      BY <2>3, <3>3, <2>b DEF WriteRow, Answered, NoRow
    <3> QED
      BY <3>1, <3>2, <3>3
  <2>4. ASSUME NEW i \in Jobs, CreateJob(i) \/ BackoffElapses(i)
        PROVE  job'[j].status = "success"
    BY <2>4, <2>b DEF CreateJob, BackoffElapses, Row
  <2>5. CASE \/ \E t \in Tasks : TaskFault(t)
             \/ \E w \in Workers : Crash(w)
             \/ \E c \in Clients : ReadRow(c)
             \/ \E p \in Profiles : ProfileChanges(p)
    BY <2>5 DEF TaskFault, Crash, ReadRow, ProfileChanges, ghosts
  <2> QED
    BY <2>1, <2>2, <2>3, <2>4, <2>5 DEF Next
<1> QED
  BY <1>1, TypeAlways, SoleAlways, FitsAlways, PTL DEF Spec, SuccessIsFinal

-----------------------------------------------------------------------------
(* Provider runs and webhook events are counted by ghosts; each run is paid *)
(* for by a retry or a crash, each further event by a crash or an error.    *)

\* The run the job's counter already allows for has not been started yet.
Unspent(j) ==
    \/ job[j].status = "queued"
    \/ \E w \in Workers : worker[w] = "down"
    \/ \E t \in Attempts(j) : task[t].pc \in {"claimed", "assigning", "assigned"}

RunsPaid(j) ==
    Exists(j) => /\ runs[j] <= job[j].retry + 1 + crashes
                 /\ Unspent(j) => runs[j] <= job[j].retry + crashes

\* An end of the job is still to be announced.
Unannounced(j) ==
    \/ job[j].status \in {"absent", "queued"}
    \/ job[j].status \in InFlight /\ Attempts(j) = {}
    \/ \E t \in Attempts(j) : task[t].pc # "notified"

EventsPaid(j) ==
    /\ Cardinality(hooks[j]) <= 1 + crashes + faults
    /\ Unannounced(j) => Cardinality(hooks[j]) <= crashes + faults

\* A job that was not created yet was not run.
Counted(j) ==
    /\ RunsPaid(j)
    /\ EventsPaid(j)
    /\ job[j].status = "absent" => runs[j] = 0

CountInv == \A j \in Jobs : Counted(j)

\* The events of a job are finitely many: one more raises their number by one.
LEMMA EventAdded ==
  ASSUME NEW events \in SUBSET Terminal, NEW verdict \in Terminal
  PROVE  /\ Cardinality(events) \in Nat
         /\ Cardinality(events \cup {verdict}) <= Cardinality(events) + 1
<1>1. IsFiniteSet(Terminal)
  <2>1. Terminal = (({} \cup {"success"}) \cup {"failed"}) \cup {"cancelled"}
    BY DEF Terminal
  <2> QED
    BY <2>1, FS_EmptySet, FS_AddElement
<1>2. IsFiniteSet(events)
  BY <1>1, FS_Subset
<1>3. Cardinality(events) \in Nat
  BY <1>2, FS_CardinalityType
<1>4. Cardinality(events \cup {verdict}) =
        IF verdict \in events THEN Cardinality(events)
                              ELSE Cardinality(events) + 1
  BY <1>2, FS_AddElement
<1> QED
  BY <1>3, <1>4

\* With its workers up and an attempt at it, a row's counts depend on where
\* that attempt is.
LEMMA CountsOfAttempt ==
  ASSUME NEW j \in Jobs, NEW t \in Tasks, Attempts(j) = {t},
         \A w \in Workers : worker[w] # "down",
         job[j].status \notin {"queued", "absent"}
  PROVE  /\ Unspent(j) <=> task[t].pc \in {"claimed", "assigning", "assigned"}
         /\ Unannounced(j) <=> task[t].pc # "notified"
BY DEF Unspent, Unannounced

\* A step that starts no run and sends no event keeps a job's counts, unless it
\* makes room for one.
LEMMA CountsKept ==
  ASSUME NEW j, Counted(j), runs'[j] = runs[j], hooks'[j] = hooks[j],
         UNCHANGED <<crashes, faults>>,
         job'[j].status = "absent" => job[j].status = "absent",
         Exists(j)' => Exists(j) /\ job'[j].retry = job[j].retry,
         Unspent(j)' => Unspent(j), Unannounced(j)' => Unannounced(j)
  PROVE  Counted(j)'
BY DEF Counted, RunsPaid, EventsPaid

\* A step that a job takes no part in does not change its counts.
LEMMA CountsUntouched ==
  ASSUME NEW j, Counted(j), job'[j] = job[j], runs'[j] = runs[j],
         hooks'[j] = hooks[j], Attempts(j)' = Attempts(j),
         \A t \in Attempts(j) : task'[t] = task[t],
         UNCHANGED <<worker, crashes, faults>>
  PROVE  Counted(j)'
<1>1. /\ Unspent(j)' => Unspent(j)
      /\ Unannounced(j)' => Unannounced(j)
      /\ Exists(j)' => Exists(j)
  BY DEF Unspent, Unannounced, Exists
<1> QED
  BY <1>1, CountsKept

\* Every step of an attempt keeps the counts of its job.
LEMMA CountAttempt ==
  ASSUME OneProcess, TypeInv, SoleInv, FitsInv, CountInv,
         NEW t \in Tasks, Attempt(t)
  PROVE  CountInv'
<1> DEFINE tk == task[t]
<1>b. /\ job \in [Jobs -> Row] /\ task \in [Tasks -> Task] /\ tk \in Task
      /\ runs \in [Jobs -> Nat] /\ hooks \in [Jobs -> SUBSET Terminal]
      /\ crashes \in Nat /\ faults \in Nat
  BY DEF TypeInv, TypeOK
<1>i. IdleTask.pc = "idle"
  BY IdleTaskIsTask
<1>u. UNCHANGED <<worker, crashes, faults>>
  BY AttemptSteps
<1>1. CASE Claim(t)
  <2>1. PICK i \in Jobs :
          /\ Pickable(i)
          /\ job' = [job EXCEPT ![i].status = "running"]
          /\ task' = [task EXCEPT ![t] = [IdleTask EXCEPT !.pc = "claimed",
                                                          !.job = i]]
    BY <1>1 DEF Claim
  <2>2. /\ task'[t].pc = "claimed" /\ task'[t].job = i
        /\ \A u \in Tasks : u # t => task'[u] = task[u]
        /\ ~Live(t) /\ UNCHANGED <<runs, hooks>>
    BY <1>1, <2>1, <1>b DEF IdleTask, Claim, ghosts
  <2>3. /\ job[i].status = "queued" /\ job'[i].status = "running"
        /\ job'[i].retry = job[i].retry
        /\ \A k \in Jobs : k # i => job'[k] = job[k]
    BY <2>1, <1>b DEF Pickable, Row
  <2>4. Counted(i)'
    <3>1. Unspent(i) /\ Unannounced(i) /\ Exists(i) /\ Counted(i)
      BY <2>3 DEF Unspent, Unannounced, Exists, Gone, CountInv
    <3> QED
      BY <3>1, <2>2, <2>3, <1>u, CountsKept
  <2>5. ASSUME NEW k \in Jobs, k # i PROVE Counted(k)'
    <3>1. Attempts(k)' = Attempts(k)
      BY <2>2, <2>5 DEF Attempts, Live
    <3>2. \A u \in Attempts(k) : task'[u] = task[u]
      BY <2>2 DEF Attempts
    <3> QED
      BY <3>1, <3>2, <2>2, <2>3, <2>5, <1>u, CountsUntouched DEF CountInv
  <2> QED
    BY <2>4, <2>5 DEF CountInv
<1>2. CASE ~Claim(t)
  <2>j. PICK j \in Jobs : j = tk.job
    BY <1>2, OthersUntouched
  <2> DEFINE row == job[j]
  <2>a. /\ Live(t) /\ row \in Row /\ row.status \notin {"queued", "absent"}
        /\ Attempts(j) = {t}
        /\ \A u \in Tasks : u # t /\ Live(u) => task'[u] = task[u]
        /\ \A i \in Jobs : i # j => Attempts(i)' = Attempts(i)
                                    /\ job'[i] = job[i]
        /\ Live(t)' => Attempts(j)' = {t}
        /\ ~Live(t)' => Attempts(j)' = {}
    <3>1. /\ Live(t) /\ row.status \notin {"queued", "absent"}
          /\ Attempts(j) = {t}
          /\ \A u \in Tasks : u # t /\ Live(u) => task'[u] = task[u]
          /\ \A i \in Jobs : i # j => Attempts(i)' = Attempts(i)
                                      /\ job'[i] = job[i]
          /\ Live(t)' => Attempts(j)' = {t}
          /\ ~Live(t)' => Attempts(j)' = {}
      BY <1>2, <2>j, OthersUntouched
    <3> QED
      BY <3>1, <1>b
  <2>w. \A w \in Workers : worker[w] # "down"
    BY <2>a, ConstantsAssumption DEF SoleInv, OneProcess
  <2>c. /\ Counted(j) /\ TaskFits(t)
        /\ Unspent(j) <=> tk.pc \in {"claimed", "assigning", "assigned"}
        /\ Unannounced(j) <=> tk.pc # "notified"
    BY <2>a, <2>w, CountsOfAttempt DEF CountInv, FitsInv
  <2>d. ASSUME Live(t)', job'[j].status \notin {"queued", "absent"}
        PROVE  /\ Unspent(j)' <=>
                    task'[t].pc \in {"claimed", "assigning", "assigned"}
               /\ Unannounced(j)' <=> task'[t].pc # "notified"
    BY <2>d, <2>a, <2>w, <1>u DEF Unspent, Unannounced
  <2>e. ASSUME ~Live(t)', job'[j].status \in (Terminal \cup Gone) \ {"absent"}
        PROVE  ~Unspent(j)' /\ ~Unannounced(j)'
    BY <2>e, <2>a, <2>w, <1>u DEF Unspent, Unannounced, Terminal, Gone, InFlight
  <2>k. Cardinality(hooks[j]) \in Nat
    BY <1>b, EventAdded DEF Terminal
  <2>o. ASSUME NEW i \in Jobs, i # j, runs'[i] = runs[i], hooks'[i] = hooks[i]
        PROVE  Counted(i)'
    <3>1. \A u \in Attempts(i) : task'[u] = task[u]
      BY <2>a, <2>j, <2>o DEF Attempts
    <3> QED
      BY <3>1, <2>a, <2>o, <1>u, CountsUntouched DEF CountInv
  <2>1. CASE Refresh(t)
    <3>1. UNCHANGED <<job, runs, hooks>> /\ tk.pc = "claimed"
      BY <2>1 DEF Refresh, ghosts
    <3>2. \/ ~Live(t)' /\ row.status = "cancelled"
          \/ Live(t)' /\ task'[t].pc = "assigning"
      BY <2>1, <1>b, <1>i, <2>j DEF Refresh, Task, Live
    <3>3. Counted(j)'
      BY <3>1, <3>2, <2>a, <2>c, <2>d, <2>e, <1>u, CountsKept
      DEF Exists, Terminal
    <3> QED
      BY <3>1, <3>3, <2>o DEF CountInv
  <2>2. CASE Assign(t)
    <3>1. UNCHANGED <<runs, hooks>> /\ tk.pc = "assigning" /\ Exists(j)
      BY <2>2, <2>j DEF Assign, ghosts
    <3>2. Unspent(j) /\ Unannounced(j)
      BY <3>1, <2>c
    <3>3. job'[j].retry = row.retry /\ job'[j].status # "absent"
      <4>1. CASE FailNoProfile(t)
        BY <4>1, <2>a, <2>j, <1>b DEF FailNoProfile, Row
      <4>2. CASE RequeueAtCapacity(t)
        <5>1. PICK p : job' = [job EXCEPT ![j] = [Rebind(@, tk, p) EXCEPT
                                                    !.status = "queued"]]
          BY <4>2, <2>j DEF RequeueAtCapacity
        <5> QED
          BY <5>1, <2>a, <1>b DEF Rebind, Row
      <4>3. CASE BindProfile(t)
        <5>1. PICK p : job' = [job EXCEPT ![j] = Rebind(@, tk, p)]
          BY <4>3, <2>j DEF BindProfile
        <5> QED
          BY <5>1, <2>a, <1>b DEF Rebind, Row
      <4> QED
        BY <2>2, <4>1, <4>2, <4>3 DEF Assign
    <3>4. Counted(j)'
      BY <3>1, <3>2, <3>3, <2>c, <1>u, CountsKept
    <3> QED
      BY <3>1, <3>4, <2>o DEF CountInv
  <2>3. CASE Begin(t)
    <3>1. tk.pc = "assigned" /\ Exists(j) /\ UNCHANGED hooks
      BY <2>3, <2>j DEF Begin
    <3>2. job'[j].status = "processing_provider" /\ job'[j].retry = row.retry
      BY <2>3, <2>a, <2>j, <1>b DEF Begin, Row
    <3>3. task'[t].pc = "running"
      BY <2>3, <1>b DEF Begin, Task
    <3>4. /\ runs'[j] \in {runs[j], runs[j] + 1}
          /\ \A i \in Jobs : i # j => runs'[i] = runs[i]
      BY <2>3, <2>j, <1>b DEF Begin
    <3>5. runs[j] <= row.retry + crashes
      BY <3>1, <2>c DEF Counted, RunsPaid
    <3>6. ~Unspent(j)' /\ Unannounced(j)' /\ Unannounced(j)
      BY <3>1, <3>2, <3>3, <2>c, <2>d DEF Live
    <3>7. RunsPaid(j)'
      <4>1. runs'[j] <= job'[j].retry + 1 + crashes'
        BY <3>2, <3>4, <3>5, <2>a, <1>b, <1>u DEF Row
      <4> QED
        BY <4>1, <3>6 DEF RunsPaid
    <3>8. Counted(j)'
      BY <3>1, <3>2, <3>6, <3>7, <2>c, <1>u DEF Counted, EventsPaid
    <3> QED
      BY <3>1, <3>4, <3>8, <2>o DEF CountInv
  <2>4. CASE ProviderEnds(t) \/ WatcherCancels(t) \/ Settle(t)
    <3>1. UNCHANGED <<job, runs, hooks>> /\ tk.pc \in {"running", "ended"}
      BY <2>4 DEF ProviderEnds, WatcherCancels, Settle, ghosts
    <3>2. task'[t].pc \in {"ended", "settling"}
      BY <2>4, <1>b DEF ProviderEnds, WatcherCancels, Settle, Task
    <3>3. ~Unspent(j)' /\ Unannounced(j)
      BY <3>1, <3>2, <2>a, <2>c, <2>d DEF Live
    <3>4. Counted(j)'
      BY <3>1, <3>3, <2>c, <1>u, CountsKept DEF Exists
    <3> QED
      BY <3>1, <3>4, <2>o DEF CountInv
  <2>5. CASE Notify(t)
    <3>1. UNCHANGED <<job, runs>> /\ tk.pc = "settling"
          /\ tk.verdict \in Terminal
      BY <2>5 DEF Notify
    <3>2. task'[t].pc = "notified"
      BY <2>5, <1>b DEF Notify, Task
    <3>3. ~Unspent(j)' /\ ~Unannounced(j)'
      BY <3>1, <3>2, <2>a, <2>d DEF Live
    <3>4. /\ hooks'[j] = hooks[j] \cup {tk.verdict}
          /\ \A i \in Jobs : i # j => hooks'[i] = hooks[i]
      BY <2>5, <2>j, <1>b DEF Notify
    <3>5. Cardinality(hooks[j] \cup {tk.verdict}) <= Cardinality(hooks[j]) + 1
          /\ Cardinality(hooks[j] \cup {tk.verdict}) \in Nat
      <4>1. hooks[j] \cup {tk.verdict} \in SUBSET Terminal
        BY <3>1, <1>b
      <4> QED
        BY <3>1, <4>1, <1>b, EventAdded
    <3>6. Cardinality(hooks[j]) <= crashes + faults
      BY <3>1, <2>c DEF Counted, EventsPaid
    <3>7. Cardinality(hooks'[j]) <= 1 + crashes + faults
      BY <3>4, <3>5, <3>6, <2>k, <1>b
    <3>8. Counted(j)'
      BY <3>1, <3>3, <3>7, <2>c, <1>u
      DEF Counted, EventsPaid, RunsPaid, Exists
    <3> QED
      BY <3>1, <3>4, <3>8, <2>o DEF CountInv
  <2>6. CASE Commit(t)
    <3>1. /\ UNCHANGED <<runs, hooks>> /\ ~Live(t)'
          /\ job'[j] = Written(row, tk)
          /\ tk.pc \in {"settling", "notified"}
          /\ tk.pc = "settling" => tk.verdict \notin Terminal
      BY <2>6, <2>j, <1>b, <1>i DEF Commit, ghosts, Live
    <3>2. Exists(j) /\ tk.retry = row.retry
          /\ (tk.pc = "notified" => tk.verdict \in Terminal)
      BY <3>1, <2>a, <2>c, <2>j DEF TaskFits
    <3>3. CASE tk.pc = "notified"
    <4>1. Written(row, tk).status \in Terminal
            /\ Written(row, tk).retry = row.retry
        <5>1. Written(row, tk) = [row EXCEPT !.status = tk.verdict]
          BY <3>2, <3>3 DEF Written, Terminal
        <5> QED
          BY <5>1, <3>2, <3>3, <2>a DEF Row
      <4>2. ~Unspent(j)' /\ ~Unannounced(j)'
        <5>1. job'[j].status \in (Terminal \cup Gone) \ {"absent"}
          BY <3>1, <4>1 DEF Terminal, Gone
        <5> QED
          BY <3>1, <5>1, <2>e
      <4> QED
        BY <3>1, <3>2, <4>1, <4>2, <2>c, <2>o, <1>u, CountsKept
        DEF CountInv, Terminal
    <3>4. CASE tk.pc = "settling"
      <4>1. Written(row, tk).status = "queued"
            /\ Written(row, tk).retry = row.retry + 1
        BY <3>1, <3>2, <3>4, <2>a DEF Written, Row
      <4>2. RunsPaid(j)'
        <5>1. runs[j] <= row.retry + 1 + crashes
          BY <3>2, <2>c DEF Counted, RunsPaid
        <5> QED
          BY <5>1, <3>1, <4>1, <1>b, <2>a, <1>u DEF RunsPaid, Row
      <4>3. EventsPaid(j)'
        BY <3>1, <3>4, <2>c, <1>u DEF Counted, EventsPaid
      <4> QED
        BY <3>1, <4>1, <4>2, <4>3, <2>o DEF CountInv, Counted
    <3> QED
      BY <3>1, <3>3, <3>4
  <2>7. CASE RowGone(t)
    <3>1. UNCHANGED <<job, runs, hooks>> /\ ~Live(t)' /\ ~Exists(j)
      BY <2>7, <2>j, <1>b, <1>i DEF RowGone, Live
    <3>2. ~Unspent(j)' /\ ~Unannounced(j)'
      BY <3>1, <2>a, <2>e DEF Exists
    <3> QED
      BY <3>1, <3>2, <2>c, <2>o, <1>u, CountsKept DEF CountInv, Exists
  <2> QED
    BY <1>2, <2>1, <2>2, <2>3, <2>4, <2>5, <2>6, <2>7 DEF Attempt
<1> QED
  BY <1>1, <1>2

LEMMA CountStep ==
  ASSUME NoManualRetry, OneProcess
  PROVE  TypeInv /\ SoleInv /\ FitsInv /\ CountInv /\ [Next]_vars => CountInv'
<1> SUFFICES ASSUME TypeInv, SoleInv, FitsInv, CountInv, [Next]_vars,
                    NEW j \in Jobs
             PROVE  Counted(j)'
  BY DEF CountInv
<1>b. /\ job \in [Jobs -> Row] /\ task \in [Tasks -> Task]
      /\ worker \in [Workers -> {"up", "down"}]
      /\ runs \in [Jobs -> Nat] /\ hooks \in [Jobs -> SUBSET Terminal]
      /\ crashes \in Nat /\ faults \in Nat
  BY DEF TypeInv, TypeOK
<1>i. IdleTask.pc = "idle"
  BY IdleTaskIsTask
<1>c. Counted(j) /\ Cardinality(hooks[j]) \in Nat
  BY <1>b, EventAdded DEF CountInv, Terminal
<1>f. \A u \in Tasks : task'[u] = task[u] => (Live(u)' <=> Live(u))
  BY DEF Live
<1>1. ASSUME NEW t \in Tasks, Attempt(t) PROVE Counted(j)'
  BY <1>1, CountAttempt DEF CountInv
<1>2. ASSUME NEW t \in Tasks, TaskFault(t) PROVE Counted(j)'
  <2>1. /\ task'[t] = IdleTask /\ UNCHANGED <<job, worker, crashes, runs, hooks>>
        /\ faults' = faults + 1
        /\ \A u \in Tasks : u # t => task'[u] = task[u]
    BY <1>2, <1>b DEF TaskFault
  <2>2. \A u \in Attempts(j)' : u \in Attempts(j) /\ task'[u] = task[u]
    BY <2>1, <1>i DEF Attempts, Live
  <2>3. Unspent(j)' => Unspent(j)
    BY <2>1, <2>2 DEF Unspent
  <2>4. RunsPaid(j)'
    BY <2>1, <2>3, <1>c DEF Counted, RunsPaid, Exists
  <2>5. EventsPaid(j)'
    BY <2>1, <1>b, <1>c DEF Counted, EventsPaid
  <2> QED
    BY <2>1, <2>4, <2>5, <1>c DEF Counted
<1>3. ASSUME NEW w \in Workers, Crash(w) PROVE Counted(j)'
  <2>1. UNCHANGED <<job, faults, runs, hooks>> /\ crashes' = crashes + 1
    BY <1>3 DEF Crash
  <2>2. RunsPaid(j)'
    <3>1. Exists(j) => runs[j] <= job[j].retry + 1 + crashes
      BY <1>c DEF Counted, RunsPaid
    <3>2. job[j].retry \in Nat /\ runs[j] \in Nat
      BY <1>b DEF Row
    <3>3. Exists(j) => /\ runs[j] <= job[j].retry + 1 + (crashes + 1)
                       /\ runs[j] <= job[j].retry + (crashes + 1)
      BY <3>1, <3>2, <1>b
    <3> QED
      BY <2>1, <3>3 DEF RunsPaid, Exists
  <2>3. EventsPaid(j)'
    BY <2>1, <1>b, <1>c DEF Counted, EventsPaid
  <2> QED
    BY <2>1, <2>2, <2>3, <1>c DEF Counted
<1>4. ASSUME NEW w \in Workers, Start(w) PROVE Counted(j)'
  <2>1. \A u \in Tasks : ~Live(u) /\ ~Live(u)'
    BY <1>4, ConstantsAssumption DEF OneProcess, Start, SoleInv, Live
  <2>2. Unspent(j) /\ Attempts(j) = {} /\ Attempts(j)' = {}
    BY <1>4, <2>1 DEF Start, Unspent, Attempts
  <2>3. /\ job'[j] = Recovered(job[j])
        /\ Recovered(job[j]).retry = job[j].retry
        /\ \/ Recovered(job[j]).status = job[j].status
              /\ job[j].status \notin InFlight
           \/ /\ Recovered(job[j]).status \in {"failed", "queued"}
              /\ job[j].status \in InFlight \cup {"queued"}
    BY <1>4, <1>b DEF Start, Recovered, Row
  <2>4. Unannounced(j)' => Unannounced(j)
    BY <2>2, <2>3 DEF Unannounced
  <2>5. Exists(j)' => Exists(j)
    BY <2>3 DEF Exists, Gone, InFlight
  <2>6. UNCHANGED <<crashes, faults, runs, hooks>>
    BY <1>4 DEF Start
  <2> QED
    BY <2>2, <2>3, <2>4, <2>5, <2>6, <1>c, CountsKept
<1>5. ASSUME NEW c \in Clients, ReadRow(c) PROVE Counted(j)'
  BY <1>5, <1>c, CountsUntouched DEF ReadRow, ghosts, Attempts, Live
<1>6. ASSUME NEW c \in Clients, WriteRow(c) PROVE Counted(j)'
  <2>1. /\ UNCHANGED <<task, worker, crashes, faults, runs, hooks>>
        /\ Attempts(j)' = Attempts(j)
    BY <1>6 DEF WriteRow, ghosts, Attempts, Live
  <2>2. request[c].kind \in {"cancel", "delete"} /\ request[c].job \in Jobs
    BY <1>6, ConstantsAssumption
    DEF WriteRow, TypeInv, HandlerShape, NoManualRetry
  <2>3. \/ job'[j] = job[j]
        \/ /\ job'[j].status = "cancelled" /\ job'[j].retry = job[j].retry
           /\ Exists(j)
        \/ job'[j].status = "deleted"
    BY <1>6, <2>2, <1>b DEF WriteRow, Answered, NoRow, Row
  <2>4. Unspent(j)' => Unspent(j)
    BY <2>1, <2>3 DEF Unspent
  <2>5. Unannounced(j)' => Unannounced(j)
    BY <2>1, <2>3 DEF Unannounced, InFlight
  <2>6. Exists(j)' => Exists(j) /\ job'[j].retry = job[j].retry
    BY <2>3 DEF Exists, Gone
  <2>7. job'[j].status = "absent" => job[j].status = "absent"
    BY <2>3
  <2> QED
    BY <2>1, <2>4, <2>5, <2>6, <2>7, <1>c, CountsKept
<1>7. ASSUME NEW i \in Jobs, CreateJob(i) PROVE Counted(j)'
  <2>1. /\ UNCHANGED <<task, worker, crashes, faults, runs, hooks>>
        /\ Attempts(j)' = Attempts(j)
        /\ job[i].status = "absent" /\ job'[i].status = "queued"
        /\ job'[i].retry = job[i].retry
        /\ j # i => job'[j] = job[j]
    BY <1>7, <1>b DEF CreateJob, ghosts, Attempts, Live, Row
  <2>2. CASE j # i
    BY <2>1, <2>2, <1>c, CountsUntouched
  <2>3. CASE j = i
    <3>1. runs[j] = 0 /\ Unannounced(j)
      BY <2>1, <2>3, <1>c DEF Counted, Unannounced
    <3>2. RunsPaid(j)'
      BY <2>1, <2>3, <3>1, <1>b DEF RunsPaid, Row
    <3>3. EventsPaid(j)'
      BY <2>1, <3>1, <1>c DEF Counted, EventsPaid
    <3> QED
      BY <2>1, <2>3, <3>2, <3>3 DEF Counted
  <2> QED
    BY <2>2, <2>3
<1>8. ASSUME NEW i \in Jobs, BackoffElapses(i) PROVE Counted(j)'
  <2>1. /\ UNCHANGED <<task, worker, crashes, faults, runs, hooks>>
        /\ Attempts(j)' = Attempts(j)
        /\ job'[j].status = job[j].status /\ job'[j].retry = job[j].retry
    BY <1>8, <1>b DEF BackoffElapses, ghosts, Attempts, Live, Row
  <2>2. /\ Unspent(j)' => Unspent(j)
        /\ Unannounced(j)' => Unannounced(j)
        /\ Exists(j)' => Exists(j)
    BY <2>1 DEF Unspent, Unannounced, Exists
  <2> QED
    BY <2>1, <2>2, <1>c, CountsKept
<1>9. ASSUME NEW p \in Profiles, ProfileChanges(p) PROVE Counted(j)'
  BY <1>9, <1>c, CountsUntouched DEF ProfileChanges, ghosts, Attempts, Live
<1>10. CASE UNCHANGED vars
  BY <1>10, <1>c, CountsUntouched DEF vars, Attempts, Live
<1> QED
  BY <1>1, <1>2, <1>3, <1>4, <1>5, <1>6, <1>7, <1>8, <1>9, <1>10 DEF Next

LEMMA CountAlways ==
  ASSUME NoManualRetry, OneProcess
  PROVE  Spec => []CountInv
<1>1. Init => CountInv
  <2> SUFFICES ASSUME Init, NEW j \in Jobs PROVE Counted(j)
    BY DEF CountInv
  <2>1. /\ job[j].status = "absent" /\ runs[j] = 0 /\ hooks[j] = {}
        /\ crashes = 0 /\ faults = 0
    BY NoRowFields DEF Init
  <2>2. Cardinality(hooks[j]) = 0
    BY <2>1, FS_EmptySet
  <2> QED
    BY <2>1, <2>2 DEF Counted, RunsPaid, EventsPaid, Exists, Gone
<1>2. TypeInv /\ SoleInv /\ FitsInv /\ CountInv /\ [Next]_vars => CountInv'
  BY CountStep
<1> QED
  BY <1>1, <1>2, TypeAlways, SoleAlways, FitsAlways, PTL DEF Spec

\* With one worker process and owners who do not retry, the provider is paid
\* for at most one run more than the job's retries and the crashes, and a job
\* that waits has none more, whatever profiles come and go.
THEOREM RunsNeverExceedRetries ==
  ASSUME NoManualRetry, OneProcess
  PROVE  Spec => []RunsArePaidFor
<1>1. CountInv => RunsArePaidFor
  BY DEF CountInv, Counted, RunsPaid, Unspent, RunsArePaidFor
<1> QED
  BY <1>1, CountAlways, PTL

\* With one worker process and owners who do not retry, the webhook hears
\* contradicting ends of a job only as often as a crash or a database error
\* parted an event from its commit.
THEOREM EventsContradictOnlyByFailure ==
  ASSUME NoManualRetry, OneProcess
  PROVE  Spec => []EventsAgree
<1>1. CountInv => EventsAgree
  BY DEF CountInv, Counted, EventsPaid, EventsAgree
<1> QED
  BY <1>1, CountAlways, PTL

-----------------------------------------------------------------------------
(* JobLifecycle implements JobContract: with one worker process and owners *)
(* who leave their jobs alone, for any number of jobs, profiles, attempts, *)
(* rotations, crashes and database errors.                                 *)

NoRequests == Requests = {}

\* What the refinement needs beyond SoleInv and BudgetInv: a row stays in
\* flight, and its counter as the attempt read it, until the attempt ends.
LiveInv ==
    \A t \in Tasks : Live(t) =>
        /\ job[task[t].job].status \in InFlight
        /\ task[t].pc # "claimed" => task[t].retry = job[task[t].job].retry

FullInv == TypeInv /\ SoleInv /\ BudgetInv /\ LiveInv

\* One row's part of a step of the contract.
RowMove(a, b) ==
    \/ Phase(b) = Phase(a) /\ b.retry = a.retry
    \/ Phase(a) = "new" /\ Phase(b) = "waiting" /\ b.retry = a.retry
    \/ Phase(a) = "waiting" /\ Phase(b) = "active" /\ b.retry = a.retry
    \/ Phase(a) = "active" /\ Phase(b) = "waiting" /\ b.retry = a.retry
    \/ /\ Phase(a) = "active" /\ Phase(b) = "waiting"
       /\ a.retry < MaxRetry /\ b.retry = a.retry + 1
    \/ Phase(a) = "active" /\ Phase(b) = "done" /\ b.retry = a.retry

\* The phase of a row is one of the contract's, and depends on its status only.
LEMMA PhaseOfStatus ==
  ASSUME NEW row \in Row
  PROVE  /\ row.status = "absent" => Phase(row) = "new"
         /\ row.status = "queued" => Phase(row) = "waiting"
         /\ row.status \in InFlight => Phase(row) = "active"
         /\ row.status \in Terminal \cup {"deleted"} => Phase(row) = "done"
BY DEF Phase, Row, InFlight, Terminal, JobStatus, Gone

\* When every row makes a move, the mapped variables make a contract step.
LEMMA RowMovesRefine ==
  ASSUME TypeInv, TypeInv', BudgetInv',
         \A j \in Jobs : RowMove(job[j], job'[j])
  PROVE  Contract!ContractNext
<1>1. \A j \in Jobs : Phase(job'[j]) \in {"new", "waiting", "active", "done"}
  BY PhaseOfStatus DEF TypeInv, TypeOK, Row, JobStatus, Gone
<1>2. \A j \in Jobs : job'[j].retry \in 0 .. MaxRetry
  BY ConstantsAssumption DEF TypeInv, TypeOK, Row, BudgetInv, RowBudget
<1>3. ASSUME NEW j \in Jobs
      PROVE  \/ Contract!Move(j)
             \/ /\ Phase(job'[j]) = Phase(job[j])
                /\ job'[j].retry = job[j].retry
  BY <1>3 DEF RowMove, Contract!Move
<1> QED
  BY <1>1, <1>2, <1>3 DEF Contract!ContractNext

\* A row that keeps its status and its counter keeps its place in the contract.
LEMMA SameRowMove ==
  ASSUME NEW a \in Row, NEW b \in Row, b.status = a.status, b.retry = a.retry
  PROVE  RowMove(a, b)
BY DEF RowMove, Phase

\* A step of an attempt moves its own row as the contract allows, and the
\* attempt that goes on still knows the row's counter.
LEMMA OwnRowMove ==
  ASSUME FullInv, TypeInv', NEW t \in Tasks, Attempt(t), ~Claim(t)
  PROVE  /\ RowMove(job[task[t].job], job'[task[t].job])
         /\ Live(t)' => /\ task'[t].job = task[t].job
                        /\ job'[task[t].job].status \in InFlight
                        /\ task'[t].retry = job'[task[t].job].retry
<1> DEFINE tk == task[t]
           row == job[tk.job]
           new == job'[tk.job]
<1>t. IdleTask.pc = "idle"
  BY IdleTaskIsTask
<1>b. /\ job \in [Jobs -> Row] /\ task \in [Tasks -> Task]
      /\ job' \in [Jobs -> Row]
  BY DEF FullInv, TypeInv, TypeOK
<1>l. Live(t)
  BY DEF Attempt, Refresh, Assign, Begin, ProviderEnds, WatcherCancels, Settle,
         Notify, Commit, RowGone, Live
<1>a. /\ tk \in Task /\ tk.job \in Jobs /\ row \in Row /\ new \in Row
      /\ row.status \in InFlight /\ Phase(row) = "active"
      /\ tk.pc # "claimed" => tk.retry = row.retry
  BY <1>b, <1>l, PhaseOfStatus DEF FullInv, TypeInv, AttemptShape, LiveInv
<1>s. ASSUME new.status \in InFlight, new.retry = row.retry
      PROVE  RowMove(row, new)
  BY <1>s, <1>a, PhaseOfStatus DEF RowMove
<1>2. CASE Refresh(t)
  <2>1. new = row
    BY <1>2 DEF Refresh, ghosts
  <2>2. task'[t].job = tk.job /\ task'[t].retry = row.retry
    BY <1>2, <1>a, <1>b DEF Refresh, Task, InFlight
  <2> QED
    BY <2>1, <2>2, <1>a, <1>s
<1>3. CASE Assign(t)
  <2>p. tk.pc = "assigning"
    BY <1>3 DEF Assign
  <2>1. CASE FailNoProfile(t)
    <3>1. ~Live(t)' /\ new.status = "failed" /\ new.retry = row.retry
      BY <2>1, <1>a, <1>b, <1>t DEF FailNoProfile, Live, Row
    <3> QED
      BY <3>1, <1>a, PhaseOfStatus DEF RowMove, Terminal
  <2>2. CASE RequeueAtCapacity(t)
    <3>1. PICK p :
            job' = [job EXCEPT ![tk.job] = [Rebind(@, tk, p) EXCEPT
                                               !.status = "queued"]]
      BY <2>2 DEF RequeueAtCapacity
    <3>2. new.status = "queued" /\ new.retry = row.retry
      BY <3>1, <1>a, <1>b DEF Rebind, Row
    <3>3. ~Live(t)'
      BY <2>2, <1>b, <1>t DEF RequeueAtCapacity, Live
    <3> QED
      BY <3>2, <3>3, <1>a, PhaseOfStatus DEF RowMove
  <2>3. CASE BindProfile(t)
    <3>1. PICK q :
            /\ job' = [job EXCEPT ![tk.job] = Rebind(@, tk, q)]
            /\ task' = [task EXCEPT ![t].pc = "assigned", ![t].profile = q]
      BY <2>3 DEF BindProfile
    <3>2. new.status = row.status /\ new.retry = row.retry
      BY <3>1, <1>a, <1>b DEF Rebind, Row
    <3>3. task'[t].job = tk.job /\ task'[t].retry = tk.retry
      BY <3>1, <1>a, <1>b DEF Task
    <3> QED
      BY <3>2, <3>3, <2>p, <1>a, <1>s
  <2> QED
    BY <1>3, <2>1, <2>2, <2>3 DEF Assign
<1>4. CASE Begin(t)
  <2>1. new.status = "processing_provider" /\ new.retry = row.retry
    BY <1>4, <1>a, <1>b DEF Begin, Row
  <2>2. tk.pc = "assigned" /\ task'[t].job = tk.job /\ task'[t].retry = tk.retry
    BY <1>4, <1>a, <1>b DEF Begin, Task
  <2> QED
    BY <2>1, <2>2, <1>a, <1>s DEF InFlight
<1>5. CASE ProviderEnds(t) \/ WatcherCancels(t) \/ Settle(t) \/ Notify(t)
  <2>1. new = row
    BY <1>5 DEF ProviderEnds, WatcherCancels, Settle, Notify, ghosts
  <2>2. tk.pc # "claimed"
    BY <1>5 DEF ProviderEnds, WatcherCancels, Settle, Notify
  <2>3. task'[t].job = tk.job /\ task'[t].retry = tk.retry
    BY <1>5, <1>a, <1>b DEF ProviderEnds, WatcherCancels, Settle, Notify, Task
  <2> QED
    BY <2>1, <2>2, <2>3, <1>a, <1>s
<1>8. CASE Commit(t)
  <2>1. ~Live(t)' /\ new = Written(row, tk) /\ tk.pc \in {"settling", "notified"}
    BY <1>8, <1>a, <1>b, <1>t DEF Commit, Live
  <2>2. CASE tk.verdict \in Terminal
    <3>1. Written(row, tk) = [row EXCEPT !.status = tk.verdict]
      BY <2>2, <1>a DEF Written, Terminal, Row
    <3>2. new.status \in Terminal /\ new.retry = row.retry
      BY <2>1, <2>2, <3>1, <1>a DEF Row
    <3> QED
      BY <2>1, <3>2, <1>a, PhaseOfStatus DEF RowMove
  <2>3. CASE tk.verdict \notin Terminal
    <3>1. new.status = "queued" /\ new.retry = tk.retry + 1
      BY <2>1, <2>3, <1>a DEF Written, Row
    <3>2. tk.retry = row.retry /\ tk.retry < MaxRetry
      BY <2>1, <2>3, <1>a DEF FullInv, BudgetInv, TaskBudget
    <3> QED
      BY <2>1, <3>1, <3>2, <1>a, PhaseOfStatus DEF RowMove
  <2> QED
    BY <2>2, <2>3
<1>9. CASE RowGone(t)
  BY <1>9, <1>a DEF RowGone, Exists, Gone, InFlight
<1> QED
  BY <1>2, <1>3, <1>4, <1>5, <1>8, <1>9 DEF Attempt

LEMMA ContractStep ==
  ASSUME NoRequests, OneProcess
  PROVE  FullInv /\ TypeInv' /\ BudgetInv' /\ [Next]_vars
           => LiveInv' /\ [Contract!ContractNext]_(Contract!contractVars)
<1> SUFFICES ASSUME FullInv, TypeInv', BudgetInv', [Next]_vars
             PROVE  LiveInv' /\ [Contract!ContractNext]_(Contract!contractVars)
  OBVIOUS
<1>t. IdleTask.pc = "idle"
  BY IdleTaskIsTask
<1>b. /\ job \in [Jobs -> Row] /\ task \in [Tasks -> Task]
      /\ job' \in [Jobs -> Row] /\ Runner \in [Tasks -> Workers]
  BY ConstantsAssumption DEF FullInv, TypeInv, TypeOK
<1>c. \A t \in Tasks : Live(t) => task[t].job \in Jobs
  BY DEF FullInv, TypeInv, AttemptShape
<1>l. LiveInv
  BY DEF FullInv
<1>m. ASSUME \A j \in Jobs : RowMove(job[j], job'[j])
      PROVE  [Contract!ContractNext]_(Contract!contractVars)
  BY <1>m, RowMovesRefine DEF FullInv
<1>1. ASSUME NEW t \in Tasks, Attempt(t)
      PROVE  LiveInv' /\ \A j \in Jobs : RowMove(job[j], job'[j])
  <2>1. Claim(t) \/ (Live(t) /\ OnlyOwnRow(t))
    BY <1>1, AttemptSteps DEF FullInv, GoesOn, Ends
  <2>2. OnlyOwnTask(t)
    BY <1>1, AttemptSteps DEF FullInv
  <2>3. CASE Claim(t)
    <3>1. PICK j \in Jobs :
            /\ Pickable(j)
            /\ job' = [job EXCEPT ![j].status = "running"]
            /\ task' = [task EXCEPT ![t] = [IdleTask EXCEPT !.pc = "claimed",
                                                            !.job = j]]
      BY <2>3 DEF Claim
    <3>2. task'[t].pc = "claimed" /\ task'[t].job = j
      BY <3>1, <1>b DEF IdleTask
    <3>3. /\ job[j].status = "queued" /\ job'[j].status = "running"
          /\ job'[j].retry = job[j].retry
          /\ \A i \in Jobs : i # j => job'[i] = job[i]
      BY <3>1, <1>b DEF Pickable, Row
    <3>4. RowMove(job[j], job'[j])
      BY <3>3, <1>b, PhaseOfStatus DEF RowMove, InFlight
    <3>5. \A i \in Jobs : RowMove(job[i], job'[i])
      BY <3>3, <3>4, <1>b, SameRowMove
    <3>6. \A u \in Tasks : u # t /\ Live(u) => task[u].job # j
      BY <3>3, <1>l DEF LiveInv, InFlight
    <3>7. ASSUME NEW u \in Tasks, Live(u)'
          PROVE  /\ job'[task'[u].job].status \in InFlight
                 /\ task'[u].pc # "claimed" =>
                       task'[u].retry = job'[task'[u].job].retry
      <4>1. CASE u = t
        BY <4>1, <3>2, <3>3 DEF InFlight
      <4>2. CASE u # t
        <5>1. Live(u) /\ task'[u] = task[u] /\ task[u].job # j
          BY <4>2, <3>6, <3>7, <2>2 DEF OnlyOwnTask, Live
        <5>2. job'[task[u].job] = job[task[u].job]
          BY <5>1, <3>3, <1>c
        <5> QED
          BY <5>1, <5>2, <1>l DEF LiveInv
      <4> QED
        BY <4>1, <4>2
    <3> QED
      BY <3>5, <3>7 DEF LiveInv
  <2>4. CASE ~Claim(t) /\ Live(t) /\ OnlyOwnRow(t)
    <3>1. /\ RowMove(job[task[t].job], job'[task[t].job])
          /\ Live(t)' => /\ task'[t].job = task[t].job
                         /\ job'[task[t].job].status \in InFlight
                         /\ task'[t].retry = job'[task[t].job].retry
      BY <1>1, <2>4, OwnRowMove
    <3>2. \A i \in Jobs : RowMove(job[i], job'[i])
      BY <3>1, <2>4, <1>b, SameRowMove DEF OnlyOwnRow
    <3>3. \A u \in Tasks : u # t /\ Live(u) => task[u].job # task[t].job
      BY <2>4 DEF FullInv, SoleInv, SingleAttempt
    <3>4. ASSUME NEW u \in Tasks, Live(u)'
          PROVE  /\ job'[task'[u].job].status \in InFlight
                 /\ task'[u].pc # "claimed" =>
                       task'[u].retry = job'[task'[u].job].retry
      <4>1. CASE u = t
        BY <4>1, <3>1, <3>4
      <4>2. CASE u # t
        <5>1. Live(u) /\ task'[u] = task[u] /\ task[u].job # task[t].job
          BY <4>2, <3>3, <3>4, <2>2 DEF OnlyOwnTask, Live
        <5>2. job'[task[u].job] = job[task[u].job]
          BY <5>1, <2>4, <1>c DEF OnlyOwnRow
        <5> QED
          BY <5>1, <5>2, <1>l DEF LiveInv
      <4> QED
        BY <4>1, <4>2
    <3> QED
      BY <3>2, <3>4 DEF LiveInv
  <2> QED
    BY <2>1, <2>3, <2>4
<1>2. ASSUME NEW t \in Tasks, TaskFault(t)
      PROVE  LiveInv' /\ \A j \in Jobs : RowMove(job[j], job'[j])
  <2>1. /\ ~Live(t)' /\ UNCHANGED job
        /\ \A u \in Tasks : u # t => task'[u] = task[u]
    BY <1>2, <1>b, <1>t DEF TaskFault, Live
  <2> QED
    BY <2>1, <1>l, <1>b, SameRowMove DEF LiveInv, Live
<1>3. ASSUME NEW w \in Workers, Crash(w)
      PROVE  LiveInv' /\ \A j \in Jobs : RowMove(job[j], job'[j])
  <2>1. \A u \in Tasks : Runner[u] = w
    BY <1>b DEF OneProcess
  <2>2. (\A u \in Tasks : ~Live(u)') /\ UNCHANGED job
    BY <1>3, <2>1, <1>t DEF Crash, Live
  <2> QED
    BY <2>2, <1>b, SameRowMove DEF LiveInv
<1>4. ASSUME NEW w \in Workers, Start(w)
      PROVE  LiveInv' /\ \A j \in Jobs : RowMove(job[j], job'[j])
  <2>1. \A u \in Tasks : Runner[u] = w
    BY <1>b DEF OneProcess
  <2>2. \A u \in Tasks : ~Live(u)'
    BY <1>4, <2>1 DEF Start, FullInv, SoleInv, Live
  <2>3. ASSUME NEW j \in Jobs PROVE RowMove(job[j], job'[j])
    <3>1. job'[j] = Recovered(job[j]) /\ job[j] \in Row
          /\ RowBudget(job[j])
      BY <1>4, <1>b DEF Start, FullInv, BudgetInv
    <3>2. CASE job[j].status \in InFlight
      <4>1. job'[j].status \in {"failed", "queued"}
            /\ job'[j].retry = job[j].retry
        BY <3>1, <3>2 DEF Recovered, Row, InFlight
      <4> QED
        BY <3>2, <4>1, <1>b, PhaseOfStatus DEF RowMove, Terminal
    <3>3. CASE job[j].status \notin InFlight
      <4>1. ~(job[j].retry > job[j].max)
        BY <3>1, ConstantsAssumption DEF RowBudget, Row
      <4>2. job'[j] = job[j]
        BY <3>1, <3>3, <4>1 DEF Recovered
      <4> QED
        BY <4>2, <1>b, SameRowMove
    <3> QED
      BY <3>2, <3>3
  <2> QED
    BY <2>2, <2>3 DEF LiveInv
<1>5. ASSUME NEW c \in Clients, ReadRow(c) \/ WriteRow(c)
      PROVE  FALSE
  BY <1>5 DEF ReadRow, WriteRow, NoRequests, FullInv, TypeInv, HandlerShape
<1>7. ASSUME NEW i \in Jobs, CreateJob(i)
      PROVE  LiveInv' /\ \A j \in Jobs : RowMove(job[j], job'[j])
  <2>1. job[i].status = "absent" /\ UNCHANGED task
        /\ \A j \in Jobs : j # i => job'[j] = job[j]
    BY <1>7, <1>b DEF CreateJob
  <2>2. job'[i].status = "queued" /\ job'[i].retry = job[i].retry
    BY <1>7, <1>b DEF CreateJob, Row
  <2>3. RowMove(job[i], job'[i])
    BY <2>1, <2>2, <1>b, PhaseOfStatus DEF RowMove
  <2>4. \A u \in Tasks : Live(u) => task[u].job # i
    BY <2>1, <1>l DEF LiveInv, InFlight
  <2> QED
    BY <2>1, <2>3, <2>4, <1>b, <1>c, <1>l, SameRowMove DEF LiveInv, Live
<1>8. ASSUME NEW i \in Jobs, BackoffElapses(i)
      PROVE  LiveInv' /\ \A j \in Jobs : RowMove(job[j], job'[j])
  <2>1. UNCHANGED task
        /\ \A j \in Jobs : job'[j].status = job[j].status
                           /\ job'[j].retry = job[j].retry
    BY <1>8, <1>b DEF BackoffElapses, ghosts, Row
  <2> QED
    BY <2>1, <1>b, <1>c, <1>l, SameRowMove DEF LiveInv, Live
<1>9. ASSUME NEW p \in Profiles, ProfileChanges(p)
      PROVE  LiveInv' /\ \A j \in Jobs : RowMove(job[j], job'[j])
  BY <1>9, <1>b, <1>l, SameRowMove DEF ProfileChanges, ghosts, LiveInv, Live
<1>10. CASE UNCHANGED vars
  BY <1>10, <1>b, <1>l DEF vars, LiveInv, Live, Contract!contractVars
<1> QED
  BY <1>1, <1>2, <1>3, <1>4, <1>5, <1>7, <1>8, <1>9, <1>10, <1>m DEF Next

\* The queue keeps its contract: every step of the worker, of a crash and of a
\* recovery is a step of JobContract or leaves phases and counters alone.
THEOREM QueueKeepsContract ==
  ASSUME NoRequests, OneProcess
  PROVE  Spec => KeepsContract
<1>0. NoManualRetry
  BY DEF NoRequests, NoManualRetry
<1>1. Init => Contract!ContractInit
  <2>1. NoRow("absent").status = "absent" /\ NoRow("absent").retry = 0
        /\ NoRow("absent") \in Row
    BY ConstantsAssumption DEF NoRow, Row, JobStatus, Gone
  <2>2. Phase(NoRow("absent")) = "new"
    BY <2>1, PhaseOfStatus
  <2> QED
    BY <2>1, <2>2 DEF Init, Contract!ContractInit
<1>2. Init => LiveInv
  BY IdleTaskIsTask DEF Init, LiveInv, Live
<1>3. FullInv /\ TypeInv' /\ BudgetInv' /\ [Next]_vars
        => LiveInv' /\ [Contract!ContractNext]_(Contract!contractVars)
  BY ContractStep
<1>4. TypeInv /\ SoleInv /\ BudgetInv /\ LiveInv <=> FullInv
  BY DEF FullInv
<1>5. Spec => []TypeInv /\ []SoleInv /\ []BudgetInv
  BY <1>0, TypeAlways, SoleAlways, BudgetAlways
<1> QED
  BY <1>1, <1>2, <1>3, <1>4, <1>5, PTL
  DEF Spec, KeepsContract, Contract!ContractSpec
=============================================================================
