------------------------- MODULE JobAdmissionProofs -------------------------
(***************************************************************************)
(* Proofs about the daily quota in JobAdmission, for any number of         *)
(* requests, any caps, reset hours and edits, and any number of days.      *)
(***************************************************************************)
EXTENDS JobAdmission, FiniteSetTheorems, TLAPS

-----------------------------------------------------------------------------
(* What a request's phase says of its charge.                              *)

Uncharged == {"idle", "arrived", "counted", "checked", "resolved", "full"}

ChargeShape ==
    \A r \in Requests :
        /\ req[r].pc \in Uncharged => ~req[r].paid
        /\ req[r].pc = "locked" => req[r].paid
        /\ req[r].pc \in {"resolved", "locked"} => req[r].cap \in Limits

\* A counter's row is locked by one request at most.
RowLock ==
    \A q, r \in Requests :
        req[q].pc = "locked" /\ req[r].pc = "locked"
        /\ req[q].scope = req[r].scope /\ req[q].date = req[r].date
        => q = r

QuotaInv == TypeOK /\ ChargeShape /\ RowLock /\ UsedIsCharged

-----------------------------------------------------------------------------
(* Sets of charged requests.                                               *)

LEMMA ChargedIsFinite ==
  ASSUME NEW s, NEW d
  PROVE  /\ IsFiniteSet(Charged(s, d)) /\ Cardinality(Charged(s, d)) \in Nat
         /\ IsFiniteSet(Spent(s, d)) /\ Cardinality(Spent(s, d)) \in Nat
<1>1. Charged(s, d) \subseteq Requests /\ Spent(s, d) \subseteq Requests
  BY DEF Charged, Spent
<1> QED
  BY <1>1, AdmissionConstants, FS_Subset, FS_CardinalityType

\* One request changes: who is charged afterwards.
LEMMA ChargedAfter ==
  ASSUME TypeOK, NEW r \in Requests, NEW new, req' = [req EXCEPT ![r] = new],
         NEW s, NEW d
  PROVE  /\ Charged(s, d)' =
              IF new.paid /\ new.scope = s /\ new.date = d
              THEN Charged(s, d) \cup {r} ELSE Charged(s, d) \ {r}
         /\ Spent(s, d)' =
              IF new.paid /\ new.scope = s /\ new.date = d /\ new.pc # "locked"
              THEN Spent(s, d) \cup {r} ELSE Spent(s, d) \ {r}
<1>1. \A q \in Requests : req'[q] = IF q = r THEN new ELSE req[q]
  BY DEF TypeOK
<1> QED
  BY <1>1 DEF Charged, Spent

\* A step that neither takes nor drops a lock, and moves no charge.
QuietStep(r, new) ==
    /\ req' = [req EXCEPT ![r] = new]
    /\ new \in Request
    /\ UNCHANGED <<used>>
    /\ new.paid = req[r].paid
    /\ req[r].paid => new.scope = req[r].scope /\ new.date = req[r].date
    /\ new.pc = "locked" <=> req[r].pc = "locked"
    /\ new.pc \in Uncharged => ~new.paid
    /\ new.pc = "locked" => new.paid
    /\ new.pc \in {"resolved", "locked"} => new.cap \in Limits

LEMMA QuietCharge ==
  ASSUME QuotaInv, NEW r \in Requests, NEW new, QuietStep(r, new), TypeOK'
  PROVE  /\ QuotaInv'
         /\ \A s, d : Spent(s, d)' = Spent(s, d)
<1>0. TypeOK /\ r \in Requests /\ req[r] \in Request
  BY DEF QuotaInv, TypeOK
<1>1. \A q \in Requests : req'[q] = IF q = r THEN new ELSE req[q]
  BY <1>0 DEF QuietStep, TypeOK
<1>2. \A s, d : Charged(s, d)' = Charged(s, d) /\ Spent(s, d)' = Spent(s, d)
  BY <1>1 DEF QuietStep, Charged, Spent
<1>3. UsedIsCharged'
  BY <1>2 DEF QuietStep, QuotaInv, UsedIsCharged
<1>4. ChargeShape'
  BY <1>1 DEF QuietStep, QuotaInv, ChargeShape
<1>5. RowLock'
  BY <1>1 DEF QuietStep, QuotaInv, RowLock
<1> QED
  BY <1>2, <1>3, <1>4, <1>5 DEF QuotaInv

-----------------------------------------------------------------------------
(* The quiet steps: all of a request's but Upsert, Reserve, Refuse and the *)
(* death of a request whose transaction is open.                           *)

LEMMA NoRequestIsRequest ==
  NoRequest \in Request /\ NoRequest.paid = FALSE
BY AdmissionConstants
   DEF NoRequest, Request, Caps, Hour, Scopes, Dates, Time, Midnight

\* The period of a request is one of the dates.
LEMMA PeriodIsDate ==
  ASSUME NEW t \in Time, NEW h \in Hour
  PROVE  PeriodDate(t, h) \in Dates
<1>1. t.day \in 0 .. MaxDay
  BY DEF Time
<1> QED
  BY <1>1, AdmissionConstants DEF PeriodDate, Dates

\* A request that only moves to another phase.
LEMMA GotoQuiet ==
  ASSUME QuotaInv, NEW r \in Requests, NEW pc \in Running \cup Answers,
         Goto(r, pc), req[r].pc # "locked",
         pc \notin {"arrived", "resolved", "locked", "full"},
         pc \in Uncharged => ~req[r].paid
  PROVE  (\E new : QuietStep(r, new)) /\ TypeOK'
<1>1. TypeOK /\ req[r] \in Request
  BY DEF QuotaInv, TypeOK
<1> DEFINE new == [req[r] EXCEPT !.pc = pc]
<1>2. new \in Request /\ new.pc = pc /\ new.paid = req[r].paid
      /\ new.scope = req[r].scope /\ new.date = req[r].date
  BY <1>1 DEF Request
<1>3. req' = [req EXCEPT ![r] = new] /\ UNCHANGED used
  BY <1>1 DEF Goto, TypeOK
<1> HIDE DEF new
<1>4. QuietStep(r, new)
  BY <1>2, <1>3 DEF QuietStep
<1>5. TypeOK'
  BY <1>1, <1>2, <1>3 DEF Goto, TypeOK
<1> QED
  BY <1>4, <1>5

LEMMA ArriveQuiet ==
  ASSUME QuotaInv, NEW r \in Requests, Arrive(r)
  PROVE  (\E new : QuietStep(r, new)) /\ TypeOK'
<1>1. TypeOK /\ req[r].paid = FALSE /\ req[r].pc = "idle" /\ keyUsed \in Nat
      /\ cap["domain"] \in Caps /\ reset["domain"] \in Hour
  BY DEF QuotaInv, TypeOK, ChargeShape, Uncharged, Arrive, Scopes, Request
<1> DEFINE new == [NoRequest EXCEPT !.pc = "arrived", !.cap = cap["domain"],
                                    !.hour = reset["domain"], !.seen = keyUsed]
<1>2. new \in Request /\ new.pc = "arrived" /\ new.paid = FALSE
  <2> DEFINE c == cap["domain"]
             h == reset["domain"]
  <2>1. c \in Caps /\ h \in Hour
    BY <1>1
  <2> HIDE DEF c, h
  <2>2. [NoRequest EXCEPT !.pc = "arrived", !.cap = c, !.hour = h,
                          !.seen = keyUsed] \in Request
    BY <2>1, <1>1, NoRequestIsRequest DEF Request, Running
  <2> QED
    BY <2>2, NoRequestIsRequest DEF c, h, Request
<1>3. req' = [req EXCEPT ![r] = new] /\ UNCHANGED used
  BY DEF Arrive
<1> HIDE DEF new
<1>4. QuietStep(r, new)
  BY <1>1, <1>2, <1>3 DEF QuietStep
<1>5. TypeOK'
  BY <1>1, <1>2, <1>3 DEF Arrive, TypeOK
<1> QED
  BY <1>4, <1>5

LEMMA ResolveQuiet ==
  ASSUME QuotaInv, NEW r \in Requests, Resolve(r)
  PROVE  (\E new : QuietStep(r, new)) /\ TypeOK'
<1> DEFINE install == r \in Installed /\ cap["install"] # None
           scope == IF install THEN "install" ELSE "domain"
           limit == IF install THEN cap["install"] ELSE req[r].cap
           hour == IF install THEN reset["install"] ELSE req[r].hour
<1>1. TypeOK /\ req[r].paid = FALSE /\ req[r].pc = "checked" /\ req[r] \in Request
      /\ now \in Time
  BY DEF QuotaInv, TypeOK, ChargeShape, Uncharged, Resolve, Request
<1>2. scope \in Scopes /\ limit \in Caps /\ hour \in Hour
  BY <1>1 DEF TypeOK, Scopes, Request
<1>3. PeriodDate(now, hour) \in Dates
  BY <1>1, <1>2, PeriodIsDate
<1>4. req' = [req EXCEPT ![r] =
                 IF limit = None THEN [req[r] EXCEPT !.pc = "reserved"]
                 ELSE [req[r] EXCEPT !.pc = "resolved", !.cap = limit,
                                !.hour = hour, !.scope = scope,
                                !.date = PeriodDate(now, hour)]]
      /\ UNCHANGED <<now, cap, reset, used, keyUsed, resets, edits>>
  BY <1>1 DEF Resolve, TypeOK
<1> HIDE DEF scope, limit, hour
<1> DEFINE date == PeriodDate(now, hour)
           one == [req[r] EXCEPT !.pc = "reserved"]
           two == [req[r] EXCEPT !.pc = "resolved", !.cap = limit,
                       !.hour = hour, !.scope = scope, !.date = date]
           new == IF limit = None THEN one ELSE two
<1>5. one \in Request /\ one.pc = "reserved" /\ one.paid = req[r].paid
  BY <1>1 DEF Request, Running
<1>6. two \in Request /\ two.pc = "resolved" /\ two.paid = req[r].paid
      /\ two.cap = limit
  <2>1. date \in Dates
    BY <1>3
  <2> HIDE DEF date
  <2> QED
    BY <1>1, <1>2, <2>1 DEF Request, Running
<1>7. /\ new \in Request /\ new.paid = req[r].paid
      /\ new.pc \in {"reserved", "resolved"}
      /\ new.pc = "resolved" => new.cap \in Limits
  <2> HIDE DEF one, two
  <2> QED
    BY <1>2, <1>5, <1>6 DEF Caps
<1>8. req' = [req EXCEPT ![r] = new]
  BY <1>4
<1> HIDE DEF new
<1>9. QuietStep(r, new)
  BY <1>1, <1>4, <1>7, <1>8 DEF QuietStep
<1>10. TypeOK'
  BY <1>1, <1>4, <1>7, <1>8 DEF TypeOK
<1> QED
  BY <1>9, <1>10

LEMMA CreateQuiet ==
  ASSUME QuotaInv, NEW r \in Requests, Create(r)
  PROVE  (\E new : QuietStep(r, new)) /\ TypeOK'
<1>1. TypeOK /\ req[r] \in Request /\ now \in Time /\ resets \in Nat
      /\ req[r].pc = "reserved"
  BY DEF QuotaInv, TypeOK, Create
<1>2. CASE Goto(r, "refused")
  BY <1>1, <1>2, GotoQuiet DEF Answers, Uncharged
<1>3. CASE ~Goto(r, "refused")
  <2> DEFINE pc == IF r \in Keyed THEN "created" ELSE "accepted"
  <2>1. pc \in {"created", "accepted"}
    OBVIOUS
  <2>2. /\ req' = [req EXCEPT ![r] = [req[r] EXCEPT !.pc = pc, !.job = "live",
                                          !.at = now]]
        /\ UNCHANGED <<now, cap, reset, used, keyUsed, resets, edits>>
    BY <1>1, <1>3 DEF Create, TypeOK
  <2> HIDE DEF pc
  <2> DEFINE new == [req[r] EXCEPT !.pc = pc, !.job = "live", !.at = now]
  <2>3. new \in Request /\ new.pc = pc /\ new.paid = req[r].paid
        /\ new.scope = req[r].scope /\ new.date = req[r].date
    BY <1>1, <2>1 DEF Request, Running, Answers
  <2>4. req' = [req EXCEPT ![r] = new]
    BY <2>2
  <2> HIDE DEF new
  <2>5. QuietStep(r, new)
    BY <1>1, <2>1, <2>2, <2>3, <2>4 DEF QuietStep, Uncharged
  <2>6. TypeOK'
    BY <1>1, <2>2, <2>3, <2>4 DEF TypeOK
  <2> QED
    BY <2>5, <2>6
<1> QED
  BY <1>2, <1>3

LEMMA BumpQuiet ==
  ASSUME QuotaInv, NEW r \in Requests, Bump(r)
  PROVE  (\E new : QuietStep(r, new)) /\ TypeOK'
<1>1. TypeOK /\ req[r] \in Request /\ req[r].seen + 1 \in Nat
      /\ req[r].pc = "created"
  BY DEF QuotaInv, TypeOK, Bump, Request
<1> DEFINE new == [req[r] EXCEPT !.pc = "accepted"]
<1>2. new \in Request /\ new.pc = "accepted" /\ new.paid = req[r].paid
      /\ new.scope = req[r].scope /\ new.date = req[r].date
  BY <1>1 DEF Request, Answers
<1>3. req' = [req EXCEPT ![r] = new] /\ UNCHANGED used
  BY <1>1 DEF Bump, TypeOK
<1> HIDE DEF new
<1>4. QuietStep(r, new)
  BY <1>1, <1>2, <1>3 DEF QuietStep, Uncharged
<1>5. TypeOK'
  BY <1>1, <1>2, <1>3 DEF Bump, TypeOK
<1> QED
  BY <1>4, <1>5

LEMMA FinishQuiet ==
  ASSUME QuotaInv, NEW r \in Requests, Finish(r)
  PROVE  (\E new : QuietStep(r, new)) /\ TypeOK'
<1>1. TypeOK /\ req[r] \in Request /\ ChargeShape
  BY DEF QuotaInv, TypeOK
<1> DEFINE new == [req[r] EXCEPT !.job = "done"]
<1>2. new \in Request /\ new.pc = req[r].pc /\ new.paid = req[r].paid
      /\ new.scope = req[r].scope /\ new.date = req[r].date
      /\ new.cap = req[r].cap
  BY <1>1 DEF Request
<1>3. req' = [req EXCEPT ![r] = new]
      /\ UNCHANGED <<now, cap, reset, used, keyUsed, resets, edits>>
  BY <1>1 DEF Finish, TypeOK
<1> HIDE DEF new
<1>4. QuietStep(r, new)
  BY <1>1, <1>2, <1>3 DEF QuietStep, ChargeShape
<1>5. TypeOK'
  BY <1>1, <1>2, <1>3 DEF TypeOK
<1> QED
  BY <1>4, <1>5

LEMMA DieQuiet ==
  ASSUME QuotaInv, NEW r \in Requests, Die(r), req[r].pc # "locked"
  PROVE  (\E new : QuietStep(r, new)) /\ TypeOK'
<1>1. TypeOK /\ req[r] \in Request
  BY DEF QuotaInv, TypeOK
<1> DEFINE paid == req[r].paid /\ req[r].pc # "locked"
           new == [req[r] EXCEPT !.pc = "lost", !.paid = paid]
<1>2. paid = req[r].paid /\ paid \in BOOLEAN
  BY <1>1 DEF Request
<1>3. req' = [req EXCEPT ![r] = new]
      /\ UNCHANGED <<now, cap, reset, used, keyUsed, resets, edits>>
  <2>1. UNCHANGED <<now, cap, reset, used, keyUsed, resets, edits>>
    BY DEF Die
  <2>2. req' = [req EXCEPT ![r] = [req[r] EXCEPT !.pc = "lost",
                              !.paid = req[r].paid /\ req[r].pc # "locked"]]
    BY <1>1 DEF Die, TypeOK
  <2> QED
    BY <2>1, <2>2
<1> HIDE DEF paid
<1>4. new \in Request /\ new.pc = "lost" /\ new.paid = req[r].paid
      /\ new.scope = req[r].scope /\ new.date = req[r].date
  <2>1. new \in Request /\ new.pc = "lost"
    BY <1>1, <1>2 DEF Request, Answers
  <2>2. new.scope = req[r].scope /\ new.date = req[r].date
    BY <1>1 DEF Request
  <2>3. new.paid = paid
    BY <1>1 DEF Request
  <2> QED
    BY <2>1, <2>2, <2>3, <1>2
<1> HIDE DEF new
<1>5. QuietStep(r, new)
  BY <1>3, <1>4 DEF QuietStep, Uncharged
<1>6. TypeOK'
  BY <1>1, <1>3, <1>4 DEF TypeOK
<1> QED
  BY <1>5, <1>6

-----------------------------------------------------------------------------
(* The steps that charge, admit and give back.                             *)

LEMMA CountEffect ==
  ASSUME TypeOK, NEW r \in Requests, NEW n \in Int, Count(r, n),
         req[r].scope \in Scopes, req[r].date \in Dates,
         used[req[r].scope][req[r].date] + n \in Nat
  PROVE  /\ used' \in [Scopes -> [Dates -> Nat]]
         /\ \A s \in Scopes, d \in Dates :
              used'[s][d] = IF s = req[r].scope /\ d = req[r].date
                            THEN used[s][d] + n ELSE used[s][d]
<1> DEFINE s0 == req[r].scope
           d0 == req[r].date
<1>1. used' = [used EXCEPT ![s0][d0] = used[s0][d0] + n]
  BY DEF Count, TypeOK
<1>2. used \in [Scopes -> [Dates -> Nat]]
  BY DEF TypeOK
<1> QED
  BY <1>1, <1>2

LEMMA UpsertCharge ==
  ASSUME QuotaInv, NEW r \in Requests, Upsert(r)
  PROVE  QuotaInv' /\ \A s, d : Spent(s, d)' = Spent(s, d)
<1> DEFINE s0 == req[r].scope
           d0 == req[r].date
           new == [req[r] EXCEPT !.pc = "locked", !.paid = TRUE]
<1>1. TypeOK /\ req[r] \in Request /\ s0 \in Scopes /\ d0 \in Dates
      /\ req[r].pc = "resolved" /\ ~req[r].paid /\ req[r].cap \in Limits
      /\ used[s0][d0] \in Nat
  BY DEF QuotaInv, TypeOK, ChargeShape, Uncharged, Upsert, Request
<1>2. new \in Request /\ new.pc = "locked" /\ new.paid = TRUE
      /\ new.scope = s0 /\ new.date = d0 /\ new.cap = req[r].cap
  BY <1>1 DEF Request, Running
<1>3. req' = [req EXCEPT ![r] = new]
  BY <1>1 DEF Upsert, TypeOK
<1> HIDE DEF new
<1>4. /\ used' \in [Scopes -> [Dates -> Nat]]
      /\ \A s \in Scopes, d \in Dates :
           used'[s][d] = IF s = s0 /\ d = d0 THEN used[s][d] + 1
                         ELSE used[s][d]
  <2>1. Count(r, 1) /\ used[s0][d0] + 1 \in Nat
    BY <1>1 DEF Upsert
  <2> QED
    BY <1>1, <2>1, CountEffect
<1>5. TypeOK'
  BY <1>1, <1>2, <1>3, <1>4 DEF Upsert, TypeOK
<1>6. \A q \in Requests : req'[q] = IF q = r THEN new ELSE req[q]
  BY <1>1, <1>3 DEF TypeOK
<1>7. \A s, d : Spent(s, d)' = Spent(s, d)
  BY <1>1, <1>2, <1>6 DEF Spent, Charged
<1>8. UsedIsCharged'
  <2> SUFFICES ASSUME NEW s \in Scopes, NEW d \in Dates
               PROVE  used'[s][d] = Cardinality(Charged(s, d)')
    BY DEF UsedIsCharged
  <2>1. used[s][d] = Cardinality(Charged(s, d)) /\ r \notin Charged(s, d)
    BY <1>1 DEF QuotaInv, UsedIsCharged, Charged
  <2>2. CASE s = s0 /\ d = d0
    <3>1. Charged(s, d)' = Charged(s, d) \cup {r}
      BY <1>1, <1>2, <1>3, <2>2, ChargedAfter
    <3>2. Cardinality(Charged(s, d) \cup {r}) = Cardinality(Charged(s, d)) + 1
      BY <2>1, ChargedIsFinite, FS_AddElement
    <3> QED
      BY <1>4, <2>1, <2>2, <3>1, <3>2
  <2>3. CASE ~(s = s0 /\ d = d0)
    <3>1. Charged(s, d)' = Charged(s, d) \ {r}
      BY <1>2, <1>6, <2>3 DEF Charged
    <3>2. Charged(s, d) \ {r} = Charged(s, d)
      BY <2>1
    <3> QED
      BY <1>4, <2>1, <2>3, <3>1, <3>2
  <2> QED
    BY <2>2, <2>3
<1>9. ChargeShape'
  BY <1>1, <1>2, <1>6 DEF QuotaInv, ChargeShape, Uncharged
<1>10. RowLock'
  <2>1. \A q \in Requests : req[q].pc = "locked" =>
          req[q].scope # s0 \/ req[q].date # d0
    BY DEF Upsert, RowFree
  <2> QED
    BY <1>2, <1>6, <2>1 DEF QuotaInv, RowLock
<1> QED
  BY <1>5, <1>7, <1>8, <1>9, <1>10 DEF QuotaInv

\* A request that held the row and no longer counts: refused, or rolled back.
LEMMA BackCharge ==
  ASSUME QuotaInv, NEW r \in Requests, req[r].pc = "locked", Count(r, -1),
         UNCHANGED <<now, cap, reset, keyUsed, resets, edits>>,
         NEW new \in Request, req' = [req EXCEPT ![r] = new],
         new.pc \in {"full", "lost"}, new.paid = FALSE
  PROVE  QuotaInv' /\ \A s, d : Spent(s, d)' = Spent(s, d)
<1> DEFINE s0 == req[r].scope
           d0 == req[r].date
<1>1. TypeOK /\ req[r] \in Request /\ s0 \in Scopes /\ d0 \in Dates
      /\ req[r].paid /\ r \in Charged(s0, d0)
  BY DEF QuotaInv, TypeOK, ChargeShape, Request, Charged
<1>2. used[s0][d0] = Cardinality(Charged(s0, d0))
  BY <1>1 DEF QuotaInv, UsedIsCharged
<1>3. Cardinality(Charged(s0, d0) \ {r}) = Cardinality(Charged(s0, d0)) - 1
      /\ Cardinality(Charged(s0, d0) \ {r}) \in Nat
  BY <1>1, ChargedIsFinite, FS_RemoveElement, FS_CardinalityType
<1>4. /\ used' \in [Scopes -> [Dates -> Nat]]
      /\ \A s \in Scopes, d \in Dates :
           used'[s][d] = IF s = s0 /\ d = d0 THEN used[s][d] + (-1)
                         ELSE used[s][d]
  <2>1. used[s0][d0] + (-1) \in Nat
    BY <1>2, <1>3, ChargedIsFinite
  <2> QED
    BY <1>1, <2>1, CountEffect
<1>5. TypeOK'
  BY <1>1, <1>4 DEF TypeOK
<1>6. \A q \in Requests : req'[q] = IF q = r THEN new ELSE req[q]
  BY <1>1 DEF TypeOK
<1>7. \A s, d : Spent(s, d)' = Spent(s, d)
  BY <1>1, <1>6 DEF Spent, Charged
<1>8. UsedIsCharged'
  <2> SUFFICES ASSUME NEW s \in Scopes, NEW d \in Dates
               PROVE  used'[s][d] = Cardinality(Charged(s, d)')
    BY DEF UsedIsCharged
  <2>1. Charged(s, d)' = Charged(s, d) \ {r}
    BY <1>6 DEF Charged
  <2>2. CASE s = s0 /\ d = d0
    BY <1>2, <1>3, <1>4, <2>1, <2>2, ChargedIsFinite
  <2>3. CASE ~(s = s0 /\ d = d0)
    <3>1. Charged(s, d) \ {r} = Charged(s, d)
      BY <2>3 DEF Charged
    <3>2. used[s][d] = Cardinality(Charged(s, d))
      BY DEF QuotaInv, UsedIsCharged
    <3> QED
      BY <1>4, <2>1, <2>3, <3>1, <3>2
  <2> QED
    BY <2>2, <2>3
<1>9. ChargeShape'
  BY <1>6 DEF QuotaInv, ChargeShape, Uncharged
<1>10. RowLock'
  BY <1>6 DEF QuotaInv, RowLock
<1> QED
  BY <1>5, <1>7, <1>8, <1>9, <1>10 DEF QuotaInv

\* A request that is admitted: its counter had room before it came.
LEMMA ReserveCharge ==
  ASSUME QuotaInv, NEW r \in Requests, Reserve(r)
  PROVE  /\ QuotaInv'
         /\ \A s, d : Spent(s, d)' =
              IF s = req[r].scope /\ d = req[r].date
              THEN Spent(s, d) \cup {r} ELSE Spent(s, d)
         /\ r \notin Spent(req[r].scope, req[r].date)
         /\ Cardinality(Spent(req[r].scope, req[r].date)) < req[r].cap
<1> DEFINE s0 == req[r].scope
           d0 == req[r].date
           new == [req[r] EXCEPT !.pc = "reserved"]
<1>1. TypeOK /\ req[r] \in Request /\ s0 \in Scopes /\ d0 \in Dates
      /\ req[r].pc = "locked" /\ req[r].paid /\ req[r].cap \in Limits
  BY DEF QuotaInv, TypeOK, ChargeShape, Reserve, Request
<1>2. new \in Request /\ new.pc = "reserved" /\ new.paid = req[r].paid
      /\ new.scope = s0 /\ new.date = d0
  BY <1>1 DEF Request, Running
<1>3. req' = [req EXCEPT ![r] = new]
      /\ UNCHANGED <<now, cap, reset, used, keyUsed, resets, edits>>
  BY <1>1 DEF Reserve, Goto, TypeOK
<1> HIDE DEF new
<1>4. TypeOK'
  BY <1>1, <1>2, <1>3 DEF TypeOK
<1>5. \A q \in Requests : req'[q] = IF q = r THEN new ELSE req[q]
  BY <1>1, <1>3 DEF TypeOK
<1>6. \A s, d : Charged(s, d)' = Charged(s, d)
  BY <1>2, <1>5 DEF Charged
<1>7. UsedIsCharged'
  BY <1>3, <1>6 DEF QuotaInv, UsedIsCharged
<1>8. ChargeShape' /\ RowLock'
  BY <1>1, <1>2, <1>5 DEF QuotaInv, ChargeShape, RowLock, Uncharged
<1>9. \A s, d : Spent(s, d)' = IF s = s0 /\ d = d0 THEN Spent(s, d) \cup {r}
                               ELSE Spent(s, d)
  <2> SUFFICES ASSUME NEW s, NEW d
               PROVE  Spent(s, d)' = IF s = s0 /\ d = d0
                                     THEN Spent(s, d) \cup {r} ELSE Spent(s, d)
    OBVIOUS
  <2>1. r \notin Spent(s, d)
    BY <1>1 DEF Spent
  <2>2. CASE s = s0 /\ d = d0
    BY <1>1, <1>2, <1>5, <2>2 DEF Spent, Charged
  <2>3. CASE ~(s = s0 /\ d = d0)
    <3>1. Spent(s, d)' = Spent(s, d) \ {r}
      BY <1>2, <1>5, <2>3 DEF Spent, Charged
    <3> QED
      BY <2>1, <2>3, <3>1
  <2> QED
    BY <2>2, <2>3
<1>10. r \notin Spent(s0, d0) /\ Charged(s0, d0) = Spent(s0, d0) \cup {r}
  BY <1>1 DEF QuotaInv, RowLock, Spent, Charged
<1>11. used[s0][d0] = Cardinality(Spent(s0, d0)) + 1
  BY <1>1, <1>10, ChargedIsFinite, FS_AddElement DEF QuotaInv, UsedIsCharged
<1>12. Cardinality(Spent(s0, d0)) < req[r].cap
  <2>1. Cardinality(Spent(s0, d0)) \in Nat /\ req[r].cap \in Nat
    BY <1>1, ChargedIsFinite, AdmissionConstants
  <2>2. ~(used[s0][d0] > req[r].cap)
    BY DEF Reserve, OverCap
  <2> QED
    BY <1>11, <2>1, <2>2
<1> QED
  BY <1>4, <1>7, <1>8, <1>9, <1>10, <1>12 DEF QuotaInv

-----------------------------------------------------------------------------
(* Every step.                                                             *)

LEMMA TickTyped ==
  ASSUME TypeOK, Tick
  PROVE  now' \in Time
<1>1. now.day \in Int /\ now.hour \in Hour /\ now.day >= 0 /\ now'.day <= MaxDay
      /\ Hours \in Nat /\ MaxDay \in Nat
  BY AdmissionConstants DEF TypeOK, Time, Tick
<1>2. CASE now.hour + 1 < Hours
  <2>1. now' = [now EXCEPT !.hour = now.hour + 1]
    BY <1>2 DEF Tick
  <2>2. now.hour + 1 \in Hour
    BY <1>1, <1>2 DEF Hour
  <2> QED
    BY <2>1, <2>2 DEF TypeOK, Time
<1>3. CASE ~(now.hour + 1 < Hours)
  <2>1. now' = [day |-> now.day + 1, hour |-> 0]
    BY <1>3 DEF Tick
  <2> QED
    BY <1>1, <2>1, AdmissionConstants DEF Time, Hour
<1> QED
  BY <1>2, <1>3

LEMMA EnvironmentStep ==
  ASSUME QuotaInv, Tick \/ DailyReset \/ \E s \in Scopes : Edit(s)
  PROVE  QuotaInv' /\ \A s, d : Spent(s, d)' = Spent(s, d)
<1>1. TypeOK /\ UNCHANGED <<used, req>>
  BY DEF QuotaInv, Tick, DailyReset, Edit
<1>2. TypeOK'
  <2>1. CASE Tick
    BY <1>1, <2>1, TickTyped DEF Tick, TypeOK
  <2>2. CASE DailyReset
    BY <1>1, <2>2 DEF DailyReset, TypeOK
  <2>3. CASE \E s \in Scopes : Edit(s)
    <3>1. cap' \in [Scopes -> Caps] /\ reset' \in [Scopes -> Hour]
      BY <1>1, <2>3 DEF Edit, TypeOK
    <3> QED
      BY <1>1, <2>3, <3>1 DEF Edit, TypeOK
  <2> QED
    BY <2>1, <2>2, <2>3
<1>3. \A s, d : Charged(s, d)' = Charged(s, d) /\ Spent(s, d)' = Spent(s, d)
  BY <1>1 DEF Charged, Spent
<1> QED
  BY <1>1, <1>2, <1>3 DEF QuotaInv, ChargeShape, RowLock, UsedIsCharged

\* A step of a request admits it, or leaves what has been admitted alone.
LEMMA RequestStep ==
  ASSUME QuotaInv, NEW r \in Requests,
         Arrive(r) \/ Handle(r) \/ Die(r) \/ Finish(r), ~Reserve(r)
  PROVE  QuotaInv' /\ \A s, d : Spent(s, d)' = Spent(s, d)
<1>1. TypeOK /\ req[r] \in Request
  BY DEF QuotaInv, TypeOK
<1>2. CASE CountLive(r) \/ CountRecent(r)
  <2>1. PICK pc \in {"refused", "counted", "checked"} : Goto(r, pc)
    BY <1>2 DEF CountLive, CountRecent
  <2>2. req[r].pc \in {"arrived", "counted"}
    BY <1>2 DEF CountLive, CountRecent
  <2>3. ~req[r].paid
    BY <2>2 DEF QuotaInv, ChargeShape, Uncharged
  <2>4. pc \in Running \cup Answers
    BY DEF Running, Answers
  <2> QED
    BY <2>1, <2>2, <2>3, <2>4, GotoQuiet, QuietCharge
<1>3. CASE CheckKey(r)
  <2>1. PICK pc \in {"refused", "reserved"} : Goto(r, pc)
    BY <1>3 DEF CheckKey
  <2>2. req[r].pc = "arrived"
    BY <1>3 DEF CheckKey
  <2>3. pc \in Running \cup Answers /\ pc \notin Uncharged
    BY DEF Running, Answers, Uncharged
  <2> QED
    BY <2>1, <2>2, <2>3, GotoQuiet, QuietCharge
<1>4. CASE Arrive(r) \/ Resolve(r) \/ Create(r) \/ Bump(r) \/ Finish(r)
  BY <1>4, ArriveQuiet, ResolveQuiet, CreateQuiet, BumpQuiet, FinishQuiet,
     QuietCharge
<1>5. CASE Upsert(r)
  BY <1>5, UpsertCharge
<1>6. CASE Refuse(r)
  <2> DEFINE new == [req[r] EXCEPT !.pc = "full", !.paid = FALSE]
  <2>1. new \in Request /\ new.pc = "full" /\ new.paid = FALSE
    BY <1>1 DEF Request, Answers
  <2>2. req' = [req EXCEPT ![r] = new]
    BY <1>1, <1>6 DEF Refuse, TypeOK
  <2> HIDE DEF new
  <2> QED
    BY <1>6, <2>1, <2>2, BackCharge DEF Refuse, GiveBack
<1>7. CASE Die(r)
  <2>1. CASE req[r].pc # "locked"
    BY <1>7, <2>1, DieQuiet, QuietCharge
  <2>2. CASE req[r].pc = "locked"
    <3> DEFINE new == [req[r] EXCEPT !.pc = "lost", !.paid = FALSE]
    <3>1. new \in Request /\ new.pc = "lost" /\ new.paid = FALSE
      BY <1>1 DEF Request, Answers
    <3>2. req' = [req EXCEPT ![r] = [req[r] EXCEPT !.pc = "lost",
                                !.paid = req[r].paid /\ req[r].pc # "locked"]]
      BY <1>1, <1>7 DEF Die, TypeOK
    <3>3. (req[r].paid /\ req[r].pc # "locked") = FALSE
      BY <2>2
    <3>4. req' = [req EXCEPT ![r] = new]
      BY <3>2, <3>3, Zenon
    <3> HIDE DEF new
    <3> QED
      BY <1>7, <2>2, <3>1, <3>4, BackCharge DEF Die
  <2> QED
    BY <2>1, <2>2
<1> QED
  BY <1>2, <1>3, <1>4, <1>5, <1>6, <1>7 DEF Handle

LEMMA QuotaInit == Init => QuotaInv /\ \A s, d : Spent(s, d) = {}
<1> SUFFICES ASSUME Init PROVE QuotaInv /\ \A s, d : Spent(s, d) = {}
  OBVIOUS
<1>1. \A s, d : Charged(s, d) = {} /\ Spent(s, d) = {}
  BY NoRequestIsRequest DEF Init, Charged, Spent
<1>2. TypeOK
  BY NoRequestIsRequest, AdmissionConstants
  DEF Init, TypeOK, Time, Hour, Midnight
<1>3. UsedIsCharged
  BY <1>1, FS_EmptySet DEF Init, UsedIsCharged
<1>4. ChargeShape /\ RowLock
  BY DEF Init, ChargeShape, RowLock, NoRequest
<1> QED
  BY <1>1, <1>2, <1>3, <1>4 DEF QuotaInv

LEMMA QuotaStep ==
  ASSUME QuotaInv, [Next]_vars
  PROVE  /\ QuotaInv'
         /\ \/ \A s, d : Spent(s, d)' = Spent(s, d)
            \/ \E r \in Requests : Reserve(r)
<1>1. CASE UNCHANGED vars
  BY <1>1 DEF vars, QuotaInv, TypeOK, ChargeShape, RowLock, UsedIsCharged,
              Charged, Spent
<1>2. CASE Next
  BY <1>2, RequestStep, ReserveCharge, EnvironmentStep DEF Next
<1> QED
  BY <1>1, <1>2

LEMMA QuotaAlways == Spec => []QuotaInv
BY QuotaInit, QuotaStep, PTL DEF Spec

\* Types: in particular no counter is ever negative, although the decrement of
\* a refused request is not clamped.
THEOREM AdmissionTypes == Spec => []TypeOK
BY QuotaAlways, PTL DEF QuotaInv

\* The counters are exact: whichever requests run at the same time, are
\* refused, or die in the middle of their transaction.
THEOREM NoDoubleSpend == Spec => []UsedIsCharged
BY QuotaAlways, PTL DEF QuotaInv

-----------------------------------------------------------------------------
(* The cap, as long as nobody edits it.                                    *)

\* A request that has loaded a cap has loaded the one in force.
FreshCaps ==
    edits = 0 => \A r \in Requests :
        /\ req[r].pc \in {"arrived", "counted", "checked"} =>
              req[r].cap = cap["domain"]
        /\ req[r].pc \in {"resolved", "locked"} =>
              req[r].cap = cap[req[r].scope]

CapInv == QuotaInv /\ FreshCaps /\ NeverOverCap

\* Only an edit changes the caps.
LEMMA NoEditStep ==
  ASSUME TypeOK, [Next]_vars, edits' = 0
  PROVE  edits = 0 /\ cap' = cap
<1>1. ASSUME NEW r \in Requests, Arrive(r) \/ Handle(r) \/ Die(r) \/ Finish(r)
      PROVE  UNCHANGED <<cap, edits>>
  <2>1. CASE Arrive(r) \/ Die(r) \/ Finish(r)
    BY <2>1 DEF Arrive, Die, Finish
  <2>2. CASE CountLive(r) \/ CountRecent(r) \/ CheckKey(r) \/ Reserve(r)
    BY <2>2 DEF CountLive, CountRecent, CheckKey, Reserve, Goto
  <2>3. CASE Resolve(r) \/ Upsert(r) \/ Refuse(r) \/ Bump(r)
    BY <2>3 DEF Resolve, Upsert, Refuse, Bump
  <2>4. CASE Create(r)
    BY <2>4 DEF Create, Goto
  <2> QED
    BY <1>1, <2>1, <2>2, <2>3, <2>4 DEF Handle
<1>2. CASE Tick \/ DailyReset \/ UNCHANGED vars
  BY <1>2 DEF Tick, DailyReset, vars
<1>3. ASSUME NEW s \in Scopes, Edit(s)
      PROVE  FALSE
  BY <1>3 DEF Edit, TypeOK
<1> QED
  BY <1>1, <1>2, <1>3 DEF Next

LEMMA FreshStep ==
  ASSUME QuotaInv, FreshCaps, [Next]_vars
  PROVE  FreshCaps'
<1> SUFFICES ASSUME edits' = 0, NEW q \in Requests
             PROVE  /\ req'[q].pc \in {"arrived", "counted", "checked"} =>
                          req'[q].cap = cap'["domain"]
                    /\ req'[q].pc \in {"resolved", "locked"} =>
                          req'[q].cap = cap'[req'[q].scope]
  BY DEF FreshCaps
<1>1. TypeOK /\ req[q] \in Request
  BY DEF QuotaInv, TypeOK
<1>2. edits = 0 /\ cap' = cap
  BY <1>1, NoEditStep
<1>3. /\ req[q].pc \in {"arrived", "counted", "checked"} =>
            req[q].cap = cap["domain"]
      /\ req[q].pc \in {"resolved", "locked"} =>
            req[q].cap = cap[req[q].scope]
  BY <1>2 DEF FreshCaps
<1>4. CASE req'[q] = req[q]
  BY <1>2, <1>3, <1>4
<1>5. CASE req'[q] # req[q]
  <2>1. Arrive(q) \/ Handle(q) \/ Die(q) \/ Finish(q)
    <3>1. PICK r \in Requests : Arrive(r) \/ Handle(r) \/ Die(r) \/ Finish(r)
      BY <1>5 DEF Next, vars, Tick, DailyReset, Edit
    <3>2. r # q => req'[q] = req[q]
      BY <1>1, <3>1 DEF TypeOK, Handle, Arrive, CountLive, CountRecent,
         CheckKey, Resolve, Upsert, Reserve, Refuse, Create, Bump, Die, Finish,
         Goto
    <3> QED
      BY <1>5, <3>1, <3>2
  <2>2. CASE Arrive(q)
    <3>1. req'[q] = [NoRequest EXCEPT !.pc = "arrived", !.cap = cap["domain"],
                              !.hour = reset["domain"], !.seen = keyUsed]
      BY <1>1, <2>2 DEF Arrive, TypeOK
    <3>2. req'[q].pc = "arrived" /\ req'[q].cap = cap["domain"]
      BY <3>1 DEF NoRequest
    <3> QED
      BY <1>2, <3>2
  <2>3. CASE CountLive(q) \/ CountRecent(q)
    <3>1. PICK pc \in {"refused", "counted", "checked"} :
             req'[q] = [req[q] EXCEPT !.pc = pc]
      BY <1>1, <2>3 DEF CountLive, CountRecent, Goto, TypeOK
    <3>2. req[q].pc \in {"arrived", "counted"}
      BY <2>3 DEF CountLive, CountRecent
    <3>3. req'[q].pc = pc /\ req'[q].cap = req[q].cap
      BY <1>1, <3>1 DEF Request
    <3> QED
      BY <1>2, <1>3, <3>2, <3>3
  <2>4. CASE Resolve(q)
    <3>1. CASE req'[q] = [req[q] EXCEPT !.pc = "reserved"]
      BY <1>1, <3>1 DEF Request
    <3>2. CASE req'[q] # [req[q] EXCEPT !.pc = "reserved"]
      <4> DEFINE install == q \in Installed /\ cap["install"] # None
                 scope == IF install THEN "install" ELSE "domain"
                 limit == IF install THEN cap["install"] ELSE req[q].cap
                 hour == IF install THEN reset["install"] ELSE req[q].hour
      <4>1. req'[q] = [req[q] EXCEPT !.pc = "resolved", !.cap = limit,
                             !.hour = hour, !.scope = scope,
                             !.date = PeriodDate(now, hour)]
        BY <1>1, <2>4, <3>2 DEF Resolve, TypeOK
      <4>2. req[q].pc = "checked"
        BY <2>4 DEF Resolve
      <4>3. limit = cap[scope]
        BY <1>3, <4>2
      <4> HIDE DEF scope, limit, hour
      <4>4. req'[q].pc = "resolved" /\ req'[q].cap = limit
            /\ req'[q].scope = scope
        BY <1>1, <4>1 DEF Request
      <4> QED
        BY <1>2, <4>3, <4>4
    <3> QED
      BY <3>1, <3>2
  <2>5. CASE Upsert(q)
    <3>1. req'[q] = [req[q] EXCEPT !.pc = "locked", !.paid = TRUE]
      BY <1>1, <2>5 DEF Upsert, TypeOK
    <3>2. req'[q].pc = "locked" /\ req'[q].cap = req[q].cap
          /\ req'[q].scope = req[q].scope
      BY <1>1, <3>1 DEF Request
    <3> QED
      BY <1>2, <1>3, <2>5, <3>2 DEF Upsert
  <2>6. CASE Finish(q)
    <3>1. req'[q] = [req[q] EXCEPT !.job = "done"]
      BY <1>1, <2>6 DEF Finish, TypeOK
    <3>2. req'[q].pc = req[q].pc /\ req'[q].cap = req[q].cap
          /\ req'[q].scope = req[q].scope
      BY <1>1, <3>1 DEF Request
    <3> QED
      BY <1>2, <1>3, <3>2
  <2>7. CASE CheckKey(q) \/ Reserve(q) \/ Refuse(q) \/ Create(q) \/ Bump(q)
             \/ Die(q)
    <3>1. req'[q].pc \in {"refused", "reserved", "full", "created", "accepted",
                          "lost"}
      <4>1. CASE CheckKey(q) \/ Reserve(q)
        <5>1. \E pc \in {"refused", "reserved", "full"} : Goto(q, pc)
          BY <4>1 DEF CheckKey, Reserve
        <5> QED
          BY <1>1, <5>1 DEF Goto, TypeOK, Request
      <4>2. CASE Refuse(q) \/ Bump(q)
        BY <1>1, <4>2 DEF Refuse, Bump, TypeOK, Request
      <4>3. CASE Create(q)
        <5>1. CASE Goto(q, "refused")
          BY <1>1, <5>1 DEF Goto, TypeOK, Request
        <5>2. CASE ~Goto(q, "refused")
          <6> DEFINE pc == IF q \in Keyed THEN "created" ELSE "accepted"
          <6>1. req'[q] = [req[q] EXCEPT !.pc = pc, !.job = "live", !.at = now]
            BY <1>1, <4>3, <5>2 DEF Create, TypeOK
          <6>2. pc \in {"created", "accepted"}
            OBVIOUS
          <6> HIDE DEF pc
          <6> QED
            BY <1>1, <6>1, <6>2 DEF Request
        <5> QED
          BY <5>1, <5>2
      <4>4. CASE Die(q)
        BY <1>1, <4>4 DEF Die, TypeOK, Request
      <4> QED
        BY <2>7, <4>1, <4>2, <4>3, <4>4
    <3> QED
      BY <3>1
  <2> QED
    BY <2>1, <2>2, <2>3, <2>4, <2>5, <2>6, <2>7 DEF Handle
<1> QED
  BY <1>4, <1>5

\* An admitted request fits under the cap in force.
LEMMA CapStep ==
  ASSUME CapInv, [Next]_vars
  PROVE  CapInv'
<1>1. QuotaInv /\ FreshCaps /\ NeverOverCap /\ QuotaInv' /\ FreshCaps'
  BY QuotaStep, FreshStep DEF CapInv
<1>2. NeverOverCap'
  <2> SUFFICES ASSUME edits' = 0, NEW s \in Scopes, NEW d \in Dates,
                      cap'[s] # None
               PROVE  Cardinality(Spent(s, d)') <= cap'[s]
    BY DEF NeverOverCap
  <2>1. edits = 0 /\ cap' = cap
    BY <1>1, NoEditStep DEF QuotaInv
  <2>2. Cardinality(Spent(s, d)) <= cap[s]
    BY <1>1, <2>1 DEF NeverOverCap
  <2>3. CASE Spent(s, d)' = Spent(s, d)
    BY <2>1, <2>2, <2>3
  <2>4. CASE Spent(s, d)' # Spent(s, d)
    <3>1. PICK r \in Requests : Reserve(r)
      BY <1>1, <2>4, QuotaStep
    <3>2. /\ s = req[r].scope /\ Spent(s, d)' = Spent(s, d) \cup {r}
          /\ r \notin Spent(s, d) /\ Cardinality(Spent(s, d)) < req[r].cap
      BY <1>1, <2>4, <3>1, ReserveCharge
    <3>3. req[r].cap = cap[s] /\ cap[s] \in Nat
      <4>1. req[r].pc = "locked"
        BY <3>1 DEF Reserve
      <4>2. req[r].cap = cap[s]
        BY <1>1, <2>1, <3>2, <4>1 DEF FreshCaps
      <4>3. req[r].cap \in Limits
        BY <1>1, <4>1 DEF QuotaInv, ChargeShape
      <4> QED
        BY <4>2, <4>3, AdmissionConstants
    <3>4. Cardinality(Spent(s, d) \cup {r}) = Cardinality(Spent(s, d)) + 1
          /\ Cardinality(Spent(s, d)) \in Nat
      BY <3>2, ChargedIsFinite, FS_AddElement
    <3> QED
      BY <2>1, <3>2, <3>3, <3>4
  <2> QED
    BY <2>3, <2>4
<1> QED
  BY <1>1, <1>2 DEF CapInv

\* The cap holds for any number of concurrent requests, in every period.
THEOREM CapIsKept == Spec => []NeverOverCap
<1>1. Init => CapInv
  <2> SUFFICES ASSUME Init PROVE CapInv
    OBVIOUS
  <2>1. QuotaInv /\ \A s, d : Spent(s, d) = {}
    BY QuotaInit
  <2>2. FreshCaps
    BY DEF Init, FreshCaps, NoRequest
  <2>3. NeverOverCap
    <3>1. \A s \in Scopes : cap[s] # None => cap[s] \in Nat
      BY <2>1, AdmissionConstants DEF QuotaInv, TypeOK, Caps
    <3>2. \A s, d : Cardinality(Spent(s, d)) = 0
      BY <2>1, FS_EmptySet
    <3> QED
      BY <3>1, <3>2 DEF NeverOverCap
  <2> QED
    BY <2>1, <2>2, <2>3 DEF CapInv
<1>2. CapInv /\ [Next]_vars => CapInv'
  BY CapStep
<1> QED
  BY <1>1, <1>2, PTL DEF Spec, CapInv

-----------------------------------------------------------------------------
(* The counters implement the ledger, whatever is edited.                  *)

SpentTable == [s \in Scopes |-> [d \in Dates |-> Spent(s, d)]]

LEMMA LedgerStep ==
  ASSUME QuotaInv, [Next]_vars
  PROVE  [Ledger!LedgerNext]_SpentTable
<1>1. CASE \A s, d : Spent(s, d)' = Spent(s, d)
  BY <1>1 DEF SpentTable
<1>2. ASSUME NEW r \in Requests, Reserve(r)
      PROVE  Ledger!LedgerNext
  <2> DEFINE s0 == req[r].scope
             d0 == req[r].date
  <2>1. /\ \A s, d : Spent(s, d)' = IF s = s0 /\ d = d0
                                    THEN Spent(s, d) \cup {r} ELSE Spent(s, d)
        /\ r \notin Spent(s0, d0)
        /\ Cardinality(Spent(s0, d0)) < req[r].cap
    BY <1>2, ReserveCharge
  <2>2. s0 \in Scopes /\ d0 \in Dates /\ req[r].pc = "locked"
        /\ req[r].cap \in Limits
    BY <1>2 DEF QuotaInv, TypeOK, ChargeShape, Reserve, Request
  <2>3. Cardinality(SpentTable[s0][d0]) < TopCap
    <3>1. Cardinality(Spent(s0, d0)) \in Nat
      BY ChargedIsFinite
    <3>2. SpentTable[s0][d0] = Spent(s0, d0)
      BY <2>2 DEF SpentTable
    <3>3. req[r].cap \in Nat /\ req[r].cap <= TopCap /\ TopCap \in Nat
      BY <2>2, AdmissionConstants
    <3> QED
      BY <2>1, <3>1, <3>2, <3>3
  <2>4. \A s \in Scopes, d \in Dates : r \notin SpentTable[s][d]
    BY <2>2 DEF SpentTable, Spent
  <2>5. SpentTable' =
          [SpentTable EXCEPT ![s0][d0] = SpentTable[s0][d0] \cup {r}]
    <3>1. SpentTable' = [s \in Scopes |-> [d \in Dates |->
             IF s = s0 /\ d = d0 THEN Spent(s, d) \cup {r} ELSE Spent(s, d)]]
      BY <2>1 DEF SpentTable
    <3> QED
      BY <2>2, <3>1 DEF SpentTable
  <2>6. Ledger!Spend(r, s0, d0)
    BY <2>3, <2>4, <2>5
    DEF Ledger!Spend, Ledger!Cardinality, Cardinality, SpentTable
  <2> QED
    BY <2>2, <2>6 DEF Ledger!LedgerNext
<1> QED
  BY <1>1, <1>2, QuotaStep

\* Whatever the administrators edit and whichever requests die, each counter
\* admits a request once and never more than the highest cap.
THEOREM QuotaImplementsLedger == Spec => ImplementsLedger
<1>1. Init => Ledger!LedgerInit
  BY QuotaInit DEF Ledger!LedgerInit
<1>2. QuotaInv /\ [Next]_vars => [Ledger!LedgerNext]_SpentTable
  BY LedgerStep
<1> QED
  BY <1>1, <1>2, QuotaAlways, PTL
  DEF Spec, ImplementsLedger, Ledger!LedgerSpec, SpentTable

-----------------------------------------------------------------------------
(* Refusals.                                                               *)

\* A locked request's counter also counts those that have committed, and
\* nothing else.
LEMMA SpentBesideLock ==
  ASSUME QuotaInv, NEW r \in Requests, req[r].pc = "locked",
         NEW s, s = req[r].scope, NEW d, d = req[r].date
  PROVE  used[s][d] = Cardinality(Spent(s, d)) + 1
<1>1. s \in Scopes /\ d \in Dates /\ r \in Charged(s, d)
  BY DEF QuotaInv, TypeOK, Request, ChargeShape, Charged
<1>2. Spent(s, d) = Charged(s, d) \ {r}
  BY DEF QuotaInv, RowLock, Spent, Charged
<1>3. Cardinality(Charged(s, d) \ {r}) = Cardinality(Charged(s, d)) - 1
  BY <1>1, ChargedIsFinite, FS_RemoveElement
<1>4. used[s][d] = Cardinality(Charged(s, d))
  BY <1>1 DEF QuotaInv, UsedIsCharged
<1> QED
  BY <1>2, <1>3, <1>4, ChargedIsFinite

\* A request that waits for its commit is answered "full" by Refuse only.
LEMMA OnlyRefuseSaysFull ==
  ASSUME QuotaInv, [Next]_vars, NEW r \in Requests,
         req[r].pc = "locked", req'[r].pc = "full"
  PROVE  Refuse(r)
<1>1. req \in [Requests -> Request]
  BY DEF QuotaInv, TypeOK
<1>2. ASSUME NEW q \in Requests, Arrive(q) \/ Handle(q) \/ Die(q) \/ Finish(q)
      PROVE  q = r
  BY <1>1, <1>2
  DEF Arrive, Handle, Die, Finish, CountLive, CountRecent, CheckKey, Resolve,
      Upsert, Reserve, Refuse, Create, Bump, Goto
<1>3. CASE Arrive(r) \/ Handle(r) \/ Die(r) \/ Finish(r)
  BY <1>1, <1>3
  DEF Arrive, Handle, Die, Finish, CountLive, CountRecent, CheckKey, Resolve,
      Upsert, Reserve, Create, Bump, Goto, Request
<1>4. ~UNCHANGED req
  OBVIOUS
<1> QED
  BY <1>2, <1>3, <1>4 DEF Next, Tick, DailyReset, Edit, vars

\* A refused request found the cap reached by requests that have committed,
\* whoever else was being refused or rolled back at that time.
THEOREM RefusalsAreRight == Spec => RefusedOnlyWhenFull
<1> DEFINE Right == \A r \in Requests :
                      req[r].pc = "locked" /\ req'[r].pc = "full"
                      => Cardinality(Spent(req[r].scope, req[r].date)')
                           >= req[r].cap
<1>1. QuotaInv /\ [Next]_vars => [Right]_vars
  <2> SUFFICES ASSUME QuotaInv, [Next]_vars, NEW r \in Requests,
                      req[r].pc = "locked", req'[r].pc = "full"
               PROVE  Cardinality(Spent(req[r].scope, req[r].date)')
                        >= req[r].cap
    OBVIOUS
  <2>1. Refuse(r)
    BY OnlyRefuseSaysFull
  <2>2. PICK s, d : s = req[r].scope /\ d = req[r].date
    OBVIOUS
  <2>3. /\ req'[r].scope = s /\ req'[r].date = d
        /\ used[s][d] > req[r].cap /\ req[r].cap \in Nat
    BY <2>1, <2>2, AdmissionConstants
    DEF Refuse, OverCap, QuotaInv, TypeOK, ChargeShape, Request
  <2>4. used[s][d] = Cardinality(Spent(s, d)) + 1
    BY <2>1, <2>2, SpentBesideLock DEF Refuse
  <2>5. ~Reserve(r)
    BY <2>1 DEF Refuse, Reserve
  <2>6. Spent(s, d)' = Spent(s, d)
    BY <2>1, <2>5, RequestStep DEF Handle
  <2>7. Spent(req[r].scope, req[r].date)' = Spent(s, d)'
    BY <2>3
  <2>8. Cardinality(Spent(s, d)) \in Nat
    BY ChargedIsFinite
  <2>9. Cardinality(Spent(s, d)) >= req[r].cap
    BY <2>3, <2>4, <2>8
  <2> QED
    BY <2>6, <2>7, <2>9
<1> QED
  BY <1>1, QuotaAlways, PTL DEF Spec, RefusedOnlyWhenFull
=============================================================================
