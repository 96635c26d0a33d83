---------------------------- MODULE SessionProofs ----------------------------
(***************************************************************************)
(* Proofs about Session, for any accounts, roles, tool users, second       *)
(* factors, pages allowed to an account or a domain, entrances, retries    *)
(* and events.                                                             *)
(***************************************************************************)
EXTENDS Session, TLAPS

-----------------------------------------------------------------------------
(* What a call in flight may be, besides its type.                         *)

Codes == {"", "right", "bad", "new"}

\* /me answers for the account of the token it was asked with.
GetShape(k) ==
    /\ k.status = "ok" => k.token \in People /\ k.answer \in [id : {k.token}, role : Roles]
    /\ k.status = "401" => k.answer = "invalid"

\* A sign-in is never sent again, so it is handled at most once.
PostShape(k) ==
    /\ k.body \in [who : People, code : Codes]
    /\ k.status = "ok" => k.answer \in People
    /\ k.pc # "backoff"
    /\ k.served <= (IF k.pc = "sent" THEN 0 ELSE 1)

CallShape(k) ==
    /\ k \in [pc : {"sent", "backoff", "back"}, method : {"get", "post"},
              token : People \cup {None}, body : {k.body}, live : BOOLEAN,
              retryCount : 0..MAX_RETRIES, served : Nat,
              status : Statuses \cup {"none"}, answer : {k.answer}]
    /\ k.method = "get" => GetShape(k)
    /\ k.method = "post" => PostShape(k)

\* Only a form posts.
CallIn(c, k) ==
    \/ k = NoCall
    \/ k # NoCall /\ CallShape(k) /\ (c # "login" => k.method = "get")

\* A record of calls, one for each of the tab's effects and forms.
CallsIn(k) == k = [c \in Calls |-> k[c]] /\ \A c \in Calls : CallIn(c, k[c])

CallsInv == CallsIn(call)

\* The tab and the server; with CallsInv it is TypeOK.
TabType ==
    /\ loc \in Pages
    /\ token \in People \cup {None}
    /\ user = None \/ user \in [id : People, role : Roles]
    /\ config \in Sites \cup {None, DEFAULT} /\ site \in Sites
    /\ routeFor \in People \cup {None}
    /\ guard \in [on : BOOLEAN, verified : BOOLEAN]
    /\ needTotp \in People \cup {None}
    /\ role \in [People -> Roles] /\ valid \subseteq People /\ wasAdmin \subseteq People
    /\ events \in 0..MaxEvents

TypeInv == TabType /\ CallsInv

\* A refreshing call whose answer is still wanted.
Wanted(c) == ~Idle(c) /\ call[c].live

\* A sign-in is under way only in a tab without a token.
LoginSignedOut == ~Idle("login") => token = None

\* ProtectedRoute's call was made with the token of now, for a page that needs one.
RouteCurrent ==
    Wanted("route") =>
      /\ token # None /\ call["route"].token = token /\ routeFor = token
      /\ loc \notin Public

\* So was AdminGuard's, on the page that mounted it; the admin it answers for
\* was one since.
AdminCurrent ==
    Wanted("admin") =>
      /\ guard.on /\ call["admin"].token = token
      /\ call["admin"].status = "ok" /\ call["admin"].answer.role \in {"admin", "super_admin"}
           => call["admin"].answer.id \in wasAdmin

\* The answer of a superseded effect is wanted by nobody.
StaleUnwanted == ~Wanted("stale")

\* AdminGuard is mounted on its pages in a signed-in tab, and remembers who
\* has been admin since.
GuardCurrent ==
    /\ guard.on => token # None /\ loc \in Guarded /\ Admins(role) \subseteq wasAdmin
    /\ guard.verified => guard.on /\ token \in wasAdmin

SessionInv ==
    /\ SessionAgrees
    /\ LoginSignedOut
    /\ RouteCurrent
    /\ AdminCurrent
    /\ StaleUnwanted
    /\ GuardCurrent

-----------------------------------------------------------------------------
(* Addresses.                                                              *)

Configs == Sites \cup {None, DEFAULT}

\* No address is both a page to sign in from and one of the administrators'.
LEMMA GuardedNotPublic == \A p \in Guarded : p \notin Public
  BY DEF Public, Guarded, Login, Landing, AdminLogin, Register, AdminUsers

\* A tab is sent from sign-in to a page it may stay on.
LEMMA LandingIsPage ==
  ASSUME NEW c \in Configs
  PROVE  firstAllowedPath(c) \in Pages
<1> DEFINE P == LANDING_PREFERENCE
           liked == {i \in DOMAIN P : matchesAny(ToSet(c.allowed_pages), P[i])}
<1>1. CASE c = None \/ c.allow_all_pages \/ c.allowed_pages = <<>>
  BY <1>1 DEF firstAllowedPath, Pages, Dashboard
<1>2. CASE ~(c = None \/ c.allow_all_pages \/ c.allowed_pages = <<>>)
  <2>1. c \in Sites /\ c.allowed_pages \in Seq(Seq(STRING))
    BY <1>2, SessionAssumption DEF DomainConfig, Configs, DEFAULT
  <2>2. Head(c.allowed_pages) \in ToSet(c.allowed_pages)
    BY <2>1, <1>2 DEF ToSet
  <2>3. CASE liked # {}
    <3>1. \A i \in liked : i \in 1..8
      BY DEF LANDING_PREFERENCE
    <3>2. \E i \in liked : \A j \in liked : i =< j
      <4> HIDE DEF liked
      <4> QED
        BY <2>3, <3>1, SMTT(60)
    <3>3. Min(liked) \in DOMAIN P
      <4>1. Min(liked) \in liked
        <5> HIDE DEF liked
        <5> QED
          BY <3>2 DEF Min
      <4> QED
        BY <4>1
    <3>4. P[Min(liked)] \in ToSet(P)
      <4> HIDE DEF P, liked
      <4> QED
        BY <3>3 DEF ToSet
    <3> QED
      BY <1>2, <2>3, <3>4 DEF firstAllowedPath, Pages
  <2>4. CASE liked = {}
    BY <1>2, <2>1, <2>2, <2>4 DEF firstAllowedPath, Pages
  <2> QED
    BY <2>3, <2>4
<1> QED
  BY <1>1, <1>2

LEMMA TargetIsPage ==
  ASSUME loc \in Pages, config \in Configs
  PROVE  Target \in Pages
<1>1. firstAllowedPath(config) \in Pages
  BY LandingIsPage
<1>2. {Login, Landing, Kiosk, Dashboard, AdminUsers} \subseteq Pages
  BY DEF Pages, Public, Guarded
<1>3. ProtectedRoute \in Pages
  BY <1>1, <1>2 DEF ProtectedRoute
<1>4. LoginPage \in Pages
  BY <1>1, <1>2 DEF LoginPage, landingOf
<1>5. loc \in Public => PublicRoute \in Pages
  BY <1>1, <1>2, <1>4 DEF PublicRoute, Public
<1> QED
  BY <1>3, <1>5 DEF Target

-----------------------------------------------------------------------------
(* Calls.                                                                  *)

\* A call in flight has a phase of its own.
LEMMA InFlightIsCall ==
  ASSUME CallsInv, NEW c \in Calls, ~Idle(c)
  PROVE  call[c] # NoCall /\ CallShape(call[c]) /\ (c # "login" => call[c].method = "get")
  BY DEF CallsInv, CallsIn, CallIn, Idle, NoCall

LEMMA ShapeInFlight == \A k : CallShape(k) => k.pc # "idle" /\ k # NoCall
  BY DEF CallShape, NoCall

\* What the effects and forms ask for.
LEMMA NewGetShape ==
  ASSUME NEW p \in People \cup {None}
  PROVE  /\ CallShape(NewCall("get", p, "me"))
         /\ NewCall("get", p, "me").method = "get" /\ NewCall("get", p, "me").token = p
         /\ NewCall("get", p, "me").status = "none" /\ NewCall("get", p, "me").live
  BY SessionAssumption DEF CallShape, NewCall, GetShape

LEMMA NewPostShape ==
  ASSUME NEW p \in People, NEW code \in Codes
  PROVE  CallShape(NewCall("post", None, [who |-> p, code |-> code]))
  BY SessionAssumption DEF CallShape, NewCall, PostShape

\* An effect that is unmounted gives its answer up, and nothing else changes.
LEMMA GivenUp ==
  ASSUME NEW k, CallShape(k)
  PROVE  LET g == [k EXCEPT !.live = FALSE]
         IN CallShape(g) /\ g.method = k.method /\ ~g.live /\ g.pc = k.pc
<1> DEFINE g == [k EXCEPT !.live = FALSE]
<1>1. /\ g.pc = k.pc /\ g.method = k.method /\ g.token = k.token /\ g.body = k.body
      /\ g.live = FALSE /\ g.retryCount = k.retryCount /\ g.served = k.served
      /\ g.status = k.status /\ g.answer = k.answer
  BY DEF CallShape
<1>2. g \in [pc : {"sent", "backoff", "back"}, method : {"get", "post"},
            token : People \cup {None}, body : {k.body}, live : BOOLEAN,
            retryCount : 0..MAX_RETRIES, served : Nat,
            status : Statuses \cup {"none"}, answer : {k.answer}]
  BY DEF CallShape
<1> HIDE DEF g
<1>3. CallShape(g)
  BY <1>1, <1>2 DEF CallShape, GetShape, PostShape
<1> QED
  BY <1>1, <1>3 DEF g

\* One call changes, or appears.
LEMMA OneCall ==
  ASSUME CallsInv, NEW c \in Calls, NEW k, CallIn(c, k), call' = [call EXCEPT ![c] = k]
  PROVE  CallsInv' /\ call'[c] = k /\ \A d \in Calls : d # c => call'[d] = call[d]
  BY DEF CallsInv, CallsIn

LEMMA DoneCalls ==
  ASSUME CallsInv, NEW c \in Calls
  PROVE  /\ CallsIn(Done(c)) /\ Done(c)[c] = NoCall
         /\ \A d \in Calls : d # c => Done(c)[d] = call[d]
  BY DEF CallsInv, CallsIn, CallIn, Done

\* k is what is left of the calls in flight.
Left(k) == CallsIn(k) /\ \A d \in Calls : k[d] = call[d] \/ k[d] = NoCall

LEMMA LeftOver == CallsInv => Left(call) /\ \A c \in Calls : Left(Done(c))
  BY DoneCalls DEF Left, CallsInv

\* The call belongs to what leaving for p unmounts.
Mounted(c, p) == c \in {"admin", "login"} \/ (c = "route" /\ p \in Public)

\* Unmounting drops the answers wanted by what page p has no room for, and no
\* others.
LEMMA CallsAfterUnmount ==
  ASSUME CallsInv, NEW p, NEW k, Left(k), call' = unmounted(k, p)
  PROVE  /\ CallsInv'
         /\ \A d \in Calls : /\ ~Idle(d)' => ~Idle(d) /\ k[d] = call[d]
                             /\ Wanted(d)' => Wanted(d) /\ call'[d] = call[d] /\ ~Mounted(d, p)
<1>1. \A d \in Calls : k[d] # NoCall => CallShape(k[d]) /\ k[d].pc # "idle" /\ k[d] = call[d]
  BY ShapeInFlight DEF Left, CallsIn, CallIn
<1>2. \A d \in Calls :
        call'[d] = IF k[d].pc # "idle" /\ Mounted(d, p)
                   THEN [k[d] EXCEPT !.live = FALSE] ELSE k[d]
  BY DEF unmounted, Mounted
<1>3. call' = [d \in Calls |-> call'[d]]
  BY DEF unmounted
<1>4. ASSUME NEW d \in Calls, k[d] = NoCall
      PROVE  call'[d] = NoCall
  BY <1>2, <1>4 DEF NoCall
<1>5. ASSUME NEW d \in Calls, k[d] # NoCall, Mounted(d, p)
      PROVE  /\ CallIn(d, call'[d]) /\ call'[d].pc # "idle" /\ ~call'[d].live
             /\ k[d] = call[d] /\ call[d].pc # "idle"
  <2>1. call'[d] = [k[d] EXCEPT !.live = FALSE]
    BY <1>2, <1>5, <1>1
  <2>2. CallShape(k[d]) /\ (d # "login" => k[d].method = "get")
    BY <1>5 DEF Left, CallsIn, CallIn
  <2> QED
    BY <2>1, <2>2, <1>5, <1>1, GivenUp, ShapeInFlight DEF CallIn
<1>6. ASSUME NEW d \in Calls, k[d] # NoCall, ~Mounted(d, p)
      PROVE  /\ CallIn(d, call'[d]) /\ call'[d].pc # "idle" /\ call'[d] = k[d]
             /\ k[d] = call[d] /\ call[d].pc # "idle"
  BY <1>2, <1>6, <1>1 DEF Left, CallsIn
<1>7. CallsInv'
  BY <1>3, <1>4, <1>5, <1>6 DEF CallsInv, CallsIn, CallIn
<1>8. NoCall.pc = "idle"
  BY DEF NoCall
<1> QED
  BY <1>4, <1>5, <1>6, <1>7, <1>8 DEF Idle, Wanted

\* What is left of the calls goes on.
LEMMA CallsLeft ==
  ASSUME CallsInv, NEW k, Left(k), call' = k
  PROVE  /\ CallsInv'
         /\ \A d \in Calls : /\ ~Idle(d)' => ~Idle(d) /\ k[d] = call[d]
                             /\ Wanted(d)' => Wanted(d) /\ call'[d] = call[d]
<1>1. \A d \in Calls : k[d] # NoCall => CallShape(k[d]) /\ k[d].pc # "idle" /\ k[d] = call[d]
  BY ShapeInFlight DEF Left, CallsIn, CallIn
<1> QED
  BY <1>1 DEF Left, CallsInv, CallsIn, CallIn, Idle, Wanted, NoCall

\* Staying at an address either changes nothing that is mounted, or unmounts it.
LEMMA CallsAfterStay ==
  ASSUME CallsInv, NEW k, Left(k), NEW g, stays(k, g)
  PROVE  /\ CallsInv'
         /\ \A d \in Calls : /\ ~Idle(d)' => ~Idle(d) /\ k[d] = call[d]
                             /\ Wanted(d)' => Wanted(d) /\ call'[d] = call[d]
         /\ \/ guard' = g /\ UNCHANGED <<needTotp, wasAdmin>>
            \/ /\ guard' = NoGuard /\ wasAdmin' = {} /\ needTotp' = None
               /\ ~Wanted("admin")' /\ ~Wanted("login")'
<1>1. CASE shows'
  BY <1>1, CallsLeft DEF stays
<1>2. CASE ~shows'
  <2>1. call' = unmounted(k, loc) /\ guard' = NoGuard /\ wasAdmin' = {} /\ needTotp' = None
    BY <1>2 DEF stays, leaveGuard
  <2>2. Mounted("admin", loc) /\ Mounted("login", loc)
    BY DEF Mounted
  <2>3. "admin" \in Calls /\ "login" \in Calls
    BY SessionAssumption
  <2> QED
    BY <2>1, <2>2, <2>3, CallsAfterUnmount
<1> QED
  BY <1>1, <1>2

\* Moving on drops the answers wanted by what is unmounted, and no others.
LEMMA CallsAfterMove ==
  ASSUME CallsInv, NEW p, NEW k, Left(k), GoWith(k, p)
  PROVE  /\ CallsInv'
         /\ \A d \in Calls : /\ ~Idle(d)' => ~Idle(d) /\ k[d] = call[d]
                             /\ Wanted(d)' => Wanted(d) /\ call'[d] = call[d]
         /\ Wanted("admin")' => p = loc /\ guard' = guard /\ wasAdmin' = wasAdmin
         /\ Wanted("route")' => p \notin Public \/ p = loc
         /\ \/ guard' = NoGuard /\ wasAdmin' = {} /\ needTotp' = None /\ ~Wanted("login")'
            \/ p = loc /\ UNCHANGED <<guard, needTotp, wasAdmin>>
<1>0. "admin" \in Calls /\ "route" \in Calls /\ "login" \in Calls
  BY SessionAssumption
<1>1. CASE p = loc
  BY <1>0, <1>1, CallsAfterStay DEF GoWith
<1>2. CASE p # loc
  <2>1. call' = unmounted(k, p) /\ guard' = NoGuard /\ wasAdmin' = {} /\ needTotp' = None
    BY <1>2 DEF GoWith, leaveGuard
  <2> QED
    BY <1>0, <1>2, <2>1, CallsAfterUnmount DEF Mounted
<1> QED
  BY <1>1, <1>2

LEMMA TypesFollow == TypeInv => TypeOK
<1> SUFFICES ASSUME TypeInv PROVE TypeOK
  OBVIOUS
<1>1. ASSUME NEW c \in Calls, ~Idle(c)
      PROVE  /\ call[c].pc \in {"sent", "backoff", "back"}
             /\ call[c].retryCount \in 0..MAX_RETRIES
             /\ call[c].token \in People \cup {None}
  BY <1>1, InFlightIsCall DEF TypeInv, CallShape
<1> QED
  BY <1>1 DEF TypeInv, TabType, TypeOK

-----------------------------------------------------------------------------
(* Moving on.                                                              *)

LEMMA MoveTypes ==
  ASSUME TypeInv, NEW p \in Pages, NEW k, Left(k), GoWith(k, p)
  PROVE  /\ loc' \in Pages /\ routeFor' \in People \cup {None}
         /\ guard' \in [on : BOOLEAN, verified : BOOLEAN]
         /\ needTotp' \in People \cup {None} /\ wasAdmin' \subseteq People
<1>1. loc' = p /\ routeFor' = IF p \in Public THEN None ELSE routeFor
  BY DEF GoWith
<1>2. \/ guard' = NoGuard /\ wasAdmin' = {} /\ needTotp' = None
      \/ UNCHANGED <<guard, needTotp, wasAdmin>>
  BY CallsAfterMove DEF TypeInv
<1>3. NoGuard \in [on : BOOLEAN, verified : BOOLEAN]
  BY DEF NoGuard
<1> QED
  BY <1>1, <1>2, <1>3 DEF TypeInv, TabType

\* From page to page in a tab whose token stays.
LEMMA StaysSignedIn ==
  ASSUME TypeInv, SessionInv, NEW p \in Pages, NEW k, Left(k), GoWith(k, p),
         UNCHANGED <<token, role>>, SessionAgrees'
  PROVE  SessionInv'
<1>1. /\ \A d \in Calls : /\ ~Idle(d)' => ~Idle(d)
                          /\ Wanted(d)' => Wanted(d) /\ call'[d] = call[d]
      /\ Wanted("admin")' => p = loc /\ guard' = guard /\ wasAdmin' = wasAdmin
      /\ Wanted("route")' => p \notin Public \/ p = loc
  BY CallsAfterMove DEF TypeInv
<1>2. loc' = p /\ routeFor' = IF p \in Public THEN None ELSE routeFor
  BY DEF GoWith
<1>3. \/ p = loc /\ guard' = guard /\ wasAdmin' = wasAdmin
      \/ guard' = NoGuard /\ wasAdmin' = {}
  BY CallsAfterMove DEF TypeInv
<1>4. {"route", "admin", "login", "stale"} = Calls
  BY SessionAssumption
<1>5. LoginSignedOut' /\ StaleUnwanted'
  BY <1>1, <1>4 DEF SessionInv, LoginSignedOut, StaleUnwanted
<1>6. RouteCurrent'
  BY <1>1, <1>2, <1>4 DEF SessionInv, RouteCurrent
<1>7. AdminCurrent'
  BY <1>1, <1>2, <1>3, <1>4 DEF SessionInv, AdminCurrent
<1>8. GuardCurrent'
  BY <1>2, <1>3 DEF SessionInv, GuardCurrent, NoGuard, Admins
<1> QED
  BY <1>5, <1>6, <1>7, <1>8 DEF SessionInv

\* Signed out, to a page for everyone.
LEMMA GoesSignedOut ==
  ASSUME TypeInv, SessionInv, NEW p \in Public, NEW k, Left(k), GoWith(k, p), clear,
         role' = role
  PROVE  SessionInv'
<1>1. /\ \A d \in Calls : Wanted(d)' => Wanted(d) /\ call'[d] = call[d]
      /\ Wanted("admin")' => p = loc
      /\ Wanted("route")' => p \notin Public \/ p = loc
  BY CallsAfterMove DEF TypeInv
<1>2. guard.on \/ guard.verified => loc # p
  BY GuardedNotPublic DEF SessionInv, GuardCurrent
<1>3. guard' = NoGuard \/ (p = loc /\ guard' = guard)
  BY CallsAfterMove DEF TypeInv
<1>4. {"route", "admin", "login", "stale"} = Calls
  BY SessionAssumption
<1>5. token' = None /\ SessionAgrees' /\ LoginSignedOut' /\ StaleUnwanted'
  BY <1>1, <1>4 DEF SessionInv, LoginSignedOut, StaleUnwanted, SessionAgrees, clear
<1>6. ~Wanted("route")'
  BY <1>1, <1>4 DEF SessionInv, RouteCurrent
<1>7. ~Wanted("admin")'
  BY <1>1, <1>2, <1>4 DEF SessionInv, AdminCurrent
<1>8. GuardCurrent'
  BY <1>2, <1>3 DEF GuardCurrent, NoGuard
<1> QED
  BY <1>5, <1>6, <1>7, <1>8 DEF SessionInv, RouteCurrent, AdminCurrent

\* Signed in, to wherever the role leads.
LEMMA GoesSignedIn ==
  ASSUME TypeInv, SessionInv, NEW p \in Pages, ~Idle("login"), GoWith(Done("login"), p),
         token' # None, SessionAgrees', role' = role
  PROVE  SessionInv'
<1>1. {"route", "admin", "login", "stale"} = Calls
  BY SessionAssumption
<1>2. Left(Done("login")) /\ Done("login")["login"] = NoCall
  BY <1>1, LeftOver, DoneCalls DEF TypeInv
<1>3. /\ \A d \in Calls : /\ Wanted(d)' => Wanted(d)
                          /\ ~Idle(d)' => Done("login")[d] = call[d] /\ ~Idle(d)
      /\ token = None
  BY <1>2, CallsAfterMove DEF TypeInv, SessionInv, LoginSignedOut
<1>4. Idle("login")'
  BY <1>1, <1>2, <1>3 DEF Idle, NoCall
<1>5. ~Wanted("route")' /\ ~Wanted("admin")' /\ ~Wanted("stale")'
  BY <1>1, <1>3 DEF SessionInv, RouteCurrent, AdminCurrent, GuardCurrent, StaleUnwanted
<1>6. ~guard.on /\ ~guard.verified
  BY <1>3 DEF SessionInv, GuardCurrent
<1>7. GuardCurrent'
  <2>1. guard' = NoGuard \/ guard' = guard
    BY <1>2, CallsAfterMove DEF TypeInv
  <2> QED
    BY <1>6, <2>1 DEF NoGuard, GuardCurrent
<1> QED
  BY <1>4, <1>5, <1>7 DEF SessionInv, LoginSignedOut, RouteCurrent, AdminCurrent, StaleUnwanted

\* A page loaded anew has no calls and no guard.
LEMMA LoadedAnew ==
  ASSUME TypeInv, SessionInv, NEW p \in Pages, LoadPage(p), UNCHANGED server,
         events' \in 0..MaxEvents, UNCHANGED store \/ clear
  PROVE  TypeInv' /\ SessionInv'
<1>1. CallsInv' /\ \A c \in Calls : Idle(c)'
  BY DEF LoadPage, CallsInv, CallsIn, CallIn, NoCall, Idle
<1>2. TabType'
  BY DEF LoadPage, leaveGuard, NoGuard, server, store, clear, TypeInv, TabType
<1>3. SessionAgrees'
  BY DEF store, clear, SessionInv, SessionAgrees
<1>4. ~guard'.on /\ ~guard'.verified
  BY DEF LoadPage, leaveGuard, NoGuard
<1> QED
  BY <1>1, <1>2, <1>3, <1>4, SessionAssumption
  DEF TypeInv, SessionInv, LoginSignedOut, RouteCurrent, AdminCurrent, StaleUnwanted,
      GuardCurrent, Wanted

-----------------------------------------------------------------------------
(* The life of one call.                                                   *)

LEMMA AnsweredShape ==
  ASSUME NEW o, CallShape(o), o.pc = "sent", NEW handled \in BOOLEAN,
         NEW status \in Statuses, NEW answer,
         o.method = "get" =>
           /\ status = "ok" => o.token \in People /\ answer \in [id : {o.token}, role : Roles]
           /\ status = "401" => answer = "invalid",
         o.method = "post" /\ status = "ok" => answer \in People
  PROVE  LET k == answers(o, handled, status, answer)
         IN /\ CallShape(k) /\ k.live = o.live /\ k.token = o.token /\ k.method = o.method
            /\ k.status = status /\ k.answer = answer
<1> DEFINE k == answers(o, handled, status, answer)
<1>1. /\ k.pc = "back" /\ k.method = o.method /\ k.token = o.token /\ k.body = o.body
      /\ k.live = o.live /\ k.retryCount = o.retryCount
      /\ k.status = status /\ k.answer = answer
      /\ k.served = IF handled /\ o.method \notin SAFE_METHODS THEN o.served + 1 ELSE o.served
  BY DEF CallShape, answers
<1>2. k.served \in Nat
  BY <1>1 DEF CallShape
<1>3. k \in [pc : {"sent", "backoff", "back"}, method : {"get", "post"},
            token : People \cup {None}, body : {o.body}, live : BOOLEAN,
            retryCount : 0..MAX_RETRIES, served : Nat,
            status : Statuses \cup {"none"}, answer : {answer}]
  BY <1>2 DEF CallShape, answers
<1>4. o.method = "post" => k.served <= 1
  BY <1>1 DEF CallShape, PostShape
<1> HIDE DEF k
<1>5. CallShape(k)
  BY <1>1, <1>3, <1>4 DEF CallShape, GetShape, PostShape
<1> QED
  BY <1>1, <1>5 DEF k

\* Only what may be sent again waits to be sent again.
LEMMA CountsShape ==
  ASSUME NEW o, CallShape(o), o.pc = "back", o.status # "ok", ~Rejected(o)
  PROVE  /\ CallShape(counts(o)) /\ counts(o).live = o.live /\ counts(o).token = o.token
         /\ counts(o).method = o.method /\ counts(o).status # "ok"
<1>1. o.method = "get" /\ o.status = "gateway" /\ o.retryCount + 1 \in 0..MAX_RETRIES
  BY SessionAssumption DEF CallShape, Rejected, isRetryable, methodAllowsRetry, SAFE_METHODS
<1> DEFINE k == counts(o)
<1>2. /\ k.pc = "backoff" /\ k.method = o.method /\ k.token = o.token /\ k.body = o.body
      /\ k.live = o.live /\ k.status = o.status /\ k.answer = o.answer
  BY DEF CallShape, counts
<1>3. k \in [pc : {"sent", "backoff", "back"}, method : {"get", "post"},
            token : People \cup {None}, body : {o.body}, live : BOOLEAN,
            retryCount : 0..MAX_RETRIES, served : Nat,
            status : Statuses \cup {"none"}, answer : {o.answer}]
  BY <1>1 DEF CallShape, counts
<1> HIDE DEF k
<1>4. CallShape(k)
  BY <1>1, <1>2, <1>3 DEF CallShape, GetShape, PostShape
<1> QED
  BY <1>1, <1>2, <1>4 DEF k

LEMMA RepeatedShape ==
  ASSUME NEW o, CallShape(o), o.pc = "backoff", token \in People \cup {None}
  PROVE  LET k == repeats(o, token, None)
         IN /\ CallShape(k) /\ k.live = o.live /\ k.method = o.method /\ k.status = "none"
            /\ k.token = IF token = None THEN o.token ELSE token
<1> DEFINE k == repeats(o, token, None)
<1>1. /\ k.pc = "sent" /\ k.method = o.method /\ k.body = o.body
      /\ k.token = IF token = None THEN o.token ELSE token
      /\ k.live = o.live /\ k.status = "none" /\ k.answer = "none"
  BY DEF CallShape, repeats
<1>2. k \in [pc : {"sent", "backoff", "back"}, method : {"get", "post"},
            token : People \cup {None}, body : {o.body}, live : BOOLEAN,
            retryCount : 0..MAX_RETRIES, served : Nat,
            status : Statuses \cup {"none"}, answer : {"none"}]
  BY DEF CallShape, repeats
<1>3. o.method = "get"
  BY DEF CallShape, PostShape
<1> HIDE DEF k
<1>4. CallShape(k)
  BY <1>1, <1>2, <1>3 DEF CallShape, GetShape
<1> QED
  BY <1>1, <1>4 DEF k

\* A call goes on while the tab stays as it is.
LEMMA CallGoesOn ==
  ASSUME TypeInv, SessionInv, UNCHANGED <<page, store, role>>,
         NEW c \in Calls, ~Idle(c), NEW k, CallShape(k), k.method = call[c].method,
         call' = [call EXCEPT ![c] = k], k.live = call[c].live,
         k.token = call[c].token \/ (token # None /\ k.token = token),
         c = "admin" /\ k.live /\ k.status = "ok" /\ k.answer.role \in {"admin", "super_admin"}
           => k.answer.id \in wasAdmin
  PROVE  CallsInv' /\ SessionInv'
<1>1. CallIn(c, k) /\ k.pc # "idle"
  BY InFlightIsCall, ShapeInFlight DEF CallIn, TypeInv
<1>2. CallsInv' /\ call'[c] = k /\ \A d \in Calls : d # c => call'[d] = call[d]
  BY <1>1, OneCall DEF TypeInv
<1>3. \A d \in Calls : (Idle(d)' <=> Idle(d)) /\ (Wanted(d)' <=> Wanted(d))
  BY <1>1, <1>2 DEF Idle, Wanted
<1>4. {"route", "admin", "login", "stale"} = Calls
  BY SessionAssumption
<1>5. SessionAgrees' /\ LoginSignedOut' /\ StaleUnwanted' /\ GuardCurrent'
  BY <1>3, <1>4 DEF SessionInv, SessionAgrees, LoginSignedOut, StaleUnwanted, GuardCurrent,
                    page, store, Admins
<1>6. RouteCurrent'
  BY <1>2, <1>3, <1>4 DEF SessionInv, RouteCurrent, page, store, Wanted
<1>7. AdminCurrent'
  BY <1>2, <1>3, <1>4 DEF SessionInv, AdminCurrent, page, store, Wanted
<1> QED
  BY <1>2, <1>5, <1>6, <1>7 DEF SessionInv

LEMMA ServeKeeps ==
  ASSUME TypeInv, SessionInv, NEW c \in Calls, Serve(c)
  PROVE  TypeInv' /\ SessionInv'
<1> DEFINE o == call[c]
<1>1. o.pc = "sent" /\ ~Idle(c) /\ UNCHANGED <<page, store, config, role, site, events>>
  BY DEF Serve, Idle
<1>2. CallShape(o) /\ (c # "login" => o.method = "get")
  BY <1>1, InFlightIsCall DEF TypeInv
<1>3. ASSUME NEW handled \in BOOLEAN, NEW status \in Statuses, NEW answer,
             Reply(c, handled, status, answer),
             o.method = "get" =>
               /\ status = "ok" => o.token \in valid /\ answer = Me(o.token)
               /\ status = "401" => answer = "invalid",
             o.method = "post" /\ status = "ok" => answer \in People,
             valid' \subseteq People
      PROVE  TypeInv' /\ SessionInv'
  <2> DEFINE k == answers(o, handled, status, answer)
  <2>1. call' = [call EXCEPT ![c] = k]
    BY <1>3 DEF Reply
  <2>2. ASSUME o.method = "get", status = "ok"
        PROVE  /\ o.token \in People /\ answer \in [id : {o.token}, role : Roles]
               /\ answer.id = o.token /\ answer.role = role[o.token]
    BY <1>3, <2>2 DEF Me, TypeInv, TabType
  <2>3. /\ CallShape(k) /\ k.live = o.live /\ k.token = o.token /\ k.method = o.method
        /\ k.status = status /\ k.answer = answer
    <3> HIDE DEF o, k
    <3> QED
      BY <1>1, <1>2, <1>3, <2>2, AnsweredShape DEF k
  <2> HIDE DEF k
  <2>4. ASSUME c = "admin", k.live, k.status = "ok", k.answer.role \in {"admin", "super_admin"}
        PROVE  k.answer.id \in wasAdmin
    <3>1. o.live /\ o.method = "get" /\ Wanted("admin")
      BY <1>1, <1>2, <2>3, <2>4 DEF Wanted
    <3>2. Admins(role) \subseteq wasAdmin
      BY <3>1 DEF SessionInv, AdminCurrent, GuardCurrent
    <3> QED
      BY <3>1, <3>2, <2>2, <2>3, <2>4 DEF Admins
  <2>5. CallsInv' /\ SessionInv'
    BY <1>1, <2>1, <2>3, <2>4, CallGoesOn
  <2> QED
    BY <1>1, <1>3, <2>5 DEF TypeInv, TabType, page, store
<1>4. CASE answerMe(c)
  <2>1. o.method = "get" /\ valid' = valid /\ valid \subseteq People
    BY <1>4 DEF answerMe, TypeInv, TabType
  <2>2. CASE o.token \in valid /\ Reply(c, TRUE, "ok", Me(o.token))
    BY <1>3, <2>1, <2>2 DEF Statuses
  <2>3. CASE Reply(c, TRUE, "401", "invalid")
    BY <1>3, <2>1, <2>3 DEF Statuses
  <2>4. CASE Reply(c, TRUE, "403", "wrong_scope_tool_user")
    BY <1>3, <2>1, <2>4 DEF Statuses
  <2> QED
    BY <1>4, <2>2, <2>3, <2>4 DEF answerMe
<1>5. CASE answerSignIn(c)
  <2>1. o.method = "post" /\ o.body.who \in People /\ valid \subseteq People
    BY <1>2, <1>5 DEF answerSignIn, TypeInv, TabType, CallShape, PostShape
  <2>2. ASSUME NEW answer, Reply(c, TRUE, "401", answer), valid' = valid
        PROVE  TypeInv' /\ SessionInv'
    BY <1>3, <2>1, <2>2 DEF Statuses
  <2>3. CASE Reply(c, TRUE, "ok", o.body.who) /\ valid' = valid \cup {o.body.who}
    BY <1>3, <2>1, <2>3 DEF Statuses
  <2> QED
    BY <1>5, <2>2, <2>3 DEF answerSignIn
<1>6. CASE fails(c)
  <2>1. PICK handled \in BOOLEAN : Reply(c, handled, "gateway", "none")
    BY <1>6 DEF fails
  <2>2. valid' \subseteq People
    BY <1>6 DEF fails, TypeInv, TabType
  <2> QED
    BY <1>3, <2>1, <2>2 DEF Statuses
<1> QED
  BY <1>4, <1>5, <1>6 DEF Serve

LEMMA RetryKeeps ==
  ASSUME TypeInv, SessionInv, NEW c \in Calls, retry(c) \/ resend(c)
  PROVE  TypeInv' /\ SessionInv'
<1>1. UNCHANGED <<page, store, config, server, events>>
  BY DEF retry, resend
<1>2. CASE retry(c)
  <2>1. call[c].pc = "back" /\ call[c].status # "ok" /\ ~Rejected(call[c])
    BY <1>2 DEF retry, Retry
  <2>2. ~Idle(c) /\ CallShape(call[c])
    BY <2>1, InFlightIsCall DEF Idle, TypeInv
  <2>3. call' = [call EXCEPT ![c] = counts(call[c])]
    BY <1>2 DEF retry, Retry
  <2>4. CallsInv' /\ SessionInv'
    BY <1>1, <2>1, <2>2, <2>3, CountsShape, CallGoesOn DEF server
  <2> QED
    BY <1>1, <2>4 DEF TypeInv, TabType, page, store, server
<1>3. CASE resend(c)
  <2>1. call[c].pc = "backoff" /\ call' = [call EXCEPT ![c] = repeats(call[c], token, None)]
    BY <1>3 DEF resend, Resend
  <2>2. ~Idle(c) /\ CallShape(call[c])
    BY <2>1, InFlightIsCall DEF Idle, TypeInv
  <2>3. LET k == repeats(call[c], token, None)
        IN /\ CallShape(k) /\ k.live = call[c].live /\ k.method = call[c].method
           /\ k.status = "none" /\ k.token = IF token = None THEN call[c].token ELSE token
    BY <2>1, <2>2, RepeatedShape DEF TypeInv, TabType
  <2>4. CallsInv' /\ SessionInv'
    BY <1>1, <2>1, <2>2, <2>3, CallGoesOn DEF server
  <2> QED
    BY <1>1, <2>4 DEF TypeInv, TabType, page, store, server
<1> QED
  BY <1>2, <1>3

-----------------------------------------------------------------------------
(* Answers.                                                                *)

\* A call ends where it was made; AdminGuard may have verified an admin.
LEMMA CallEnds ==
  ASSUME TypeInv, SessionInv, NEW c \in Calls, call' = Done(c),
         UNCHANGED <<loc, routeFor, token, role, wasAdmin>>, SessionAgrees',
         guard'.on = guard.on,
         guard'.verified => guard.verified \/ (guard.on /\ token \in wasAdmin)
  PROVE  CallsInv' /\ SessionInv'
<1>1. CallsInv' /\ call'[c] = NoCall /\ \A d \in Calls : d # c => call'[d] = call[d]
  BY DoneCalls DEF TypeInv, CallsInv
<1>2. NoCall.pc = "idle"
  BY DEF NoCall
<1>3. \A d \in Calls : /\ ~Idle(d)' => ~Idle(d) /\ call'[d] = call[d]
                       /\ Wanted(d)' => Wanted(d) /\ call'[d] = call[d]
  BY <1>1, <1>2 DEF Idle, Wanted
<1>4. {"route", "admin", "login", "stale"} = Calls
  BY SessionAssumption
<1>5. /\ ~Idle("login")' => ~Idle("login")
      /\ Wanted("stale")' => Wanted("stale")
      /\ Wanted("route")' => Wanted("route") /\ call'["route"] = call["route"]
      /\ Wanted("admin")' => Wanted("admin") /\ call'["admin"] = call["admin"]
  BY <1>3, <1>4
<1>6. LoginSignedOut' /\ StaleUnwanted'
  BY <1>5 DEF SessionInv, LoginSignedOut, StaleUnwanted
<1>7. RouteCurrent'
  BY <1>5 DEF SessionInv, RouteCurrent
<1>8. AdminCurrent'
  BY <1>5 DEF SessionInv, AdminCurrent
<1>9. GuardCurrent'
  BY DEF SessionInv, GuardCurrent, Admins
<1> QED
  BY <1>1, <1>6, <1>7, <1>8, <1>9 DEF SessionInv

\* The tab stays where it is while a configuration or an answer comes in.
LEMMA StayKeeps ==
  ASSUME TypeInv, SessionInv, NEW k, Left(k), NEW g, stays(k, g),
         UNCHANGED <<loc, routeFor, token, role>>, SessionAgrees',
         g \in [on : BOOLEAN, verified : BOOLEAN], g.on = guard.on,
         g.verified => guard.verified \/ (guard.on /\ token \in wasAdmin)
  PROVE  /\ CallsInv' /\ SessionInv'
         /\ guard' \in [on : BOOLEAN, verified : BOOLEAN]
         /\ needTotp' \in People \cup {None} /\ wasAdmin' \subseteq People
<1>1. /\ CallsInv'
      /\ \A d \in Calls : /\ ~Idle(d)' => ~Idle(d)
                          /\ Wanted(d)' => Wanted(d) /\ call'[d] = call[d]
      /\ \/ guard' = g /\ UNCHANGED <<needTotp, wasAdmin>>
         \/ /\ guard' = NoGuard /\ wasAdmin' = {} /\ needTotp' = None
            /\ ~Wanted("admin")'
  BY CallsAfterStay DEF TypeInv
<1>2. {"route", "admin", "login", "stale"} = Calls
  BY SessionAssumption
<1>3. LoginSignedOut' /\ StaleUnwanted'
  BY <1>1, <1>2 DEF SessionInv, LoginSignedOut, StaleUnwanted
<1>4. RouteCurrent'
  BY <1>1, <1>2 DEF SessionInv, RouteCurrent
<1>5. AdminCurrent'
  BY <1>1, <1>2 DEF SessionInv, AdminCurrent
<1>6. GuardCurrent'
  BY <1>1 DEF SessionInv, GuardCurrent, Admins, NoGuard
<1>7. /\ guard' \in [on : BOOLEAN, verified : BOOLEAN]
      /\ needTotp' \in People \cup {None} /\ wasAdmin' \subseteq People
  <2>1. NoGuard \in [on : BOOLEAN, verified : BOOLEAN]
    BY DEF NoGuard
  <2> QED
    BY <1>1, <2>1 DEF TypeInv, TabType
<1> QED
  BY <1>1, <1>3, <1>4, <1>5, <1>6, <1>7 DEF SessionInv

\* A form's call, in a tab without a token.
LEMMA FormCall ==
  ASSUME TypeInv, SessionInv, UNCHANGED <<page, store, role>>, token = None,
         NEW k, CallShape(k), call' = [call EXCEPT !["login"] = k]
  PROVE  CallsInv' /\ SessionInv'
<1>1. {"route", "admin", "login", "stale"} = Calls
  BY SessionAssumption
<1>2. CallIn("login", k)
  BY ShapeInFlight DEF CallIn
<1>3. CallsInv' /\ \A d \in Calls : d # "login" => call'[d] = call[d]
  BY <1>1, <1>2, OneCall DEF TypeInv
<1>4. \A d \in Calls : d # "login" => (Wanted(d)' <=> Wanted(d))
  BY <1>3 DEF Wanted, Idle
<1>5. SessionAgrees' /\ LoginSignedOut' /\ StaleUnwanted' /\ GuardCurrent'
  BY <1>1, <1>4 DEF SessionInv, SessionAgrees, LoginSignedOut, StaleUnwanted, GuardCurrent,
                    page, store, Admins
<1>6. RouteCurrent' /\ AdminCurrent'
  BY <1>1, <1>3, <1>4 DEF SessionInv, RouteCurrent, AdminCurrent, page, store
<1> QED
  BY <1>3, <1>5, <1>6 DEF SessionInv

\* An answer that is taken is the account's whose token the tab holds.
LEMMA TakenIsOwn ==
  ASSUME TypeInv, SessionInv, NEW c \in {"route", "admin", "stale"}, ~Idle(c),
         takesAnswer(call[c])
  PROVE  /\ c # "stale" /\ token \in People
         /\ call[c].answer \in [id : People, role : Roles] /\ call[c].answer.id = token
<1>1. c \in Calls /\ Wanted(c) /\ call[c].status = "ok"
  BY SessionAssumption DEF takesAnswer, Wanted
<1>2. GetShape(call[c])
  BY <1>1, InFlightIsCall DEF TypeInv, CallShape
<1>3. /\ call[c].token \in People
      /\ call[c].answer \in [id : {call[c].token}, role : Roles]
  BY <1>1, <1>2 DEF GetShape
<1>4. c # "stale" /\ call[c].token = token
  BY <1>1 DEF SessionInv, StaleUnwanted, RouteCurrent, AdminCurrent
<1> QED
  BY <1>3, <1>4

LEMMA RouteAnswerKeeps ==
  ASSUME TypeInv, SessionInv, NEW c \in {"route", "stale"}, ~Idle(c), routeAnswered(c),
         UNCHANGED <<server, events>>
  PROVE  TypeInv' /\ SessionInv'
<1>1. /\ c \in Calls /\ stays(Done(c), guard)
      /\ UNCHANGED <<loc, routeFor, token, config, server, events>>
      /\ user' = IF takesAnswer(call[c]) THEN call[c].answer ELSE user
  BY SessionAssumption DEF routeAnswered
<1>2. SessionAgrees' /\ (user' = None \/ user' \in [id : People, role : Roles])
  <2>1. CASE takesAnswer(call[c])
    BY <1>1, <2>1, TakenIsOwn, SessionAssumption DEF SessionAgrees
  <2>2. CASE ~takesAnswer(call[c])
    BY <1>1, <2>2 DEF SessionInv, SessionAgrees, TypeInv, TabType
  <2> QED
    BY <2>1, <2>2
<1>3. Left(Done(c)) /\ guard \in [on : BOOLEAN, verified : BOOLEAN]
  BY <1>1, LeftOver DEF TypeInv, TabType
<1>4. /\ CallsInv' /\ SessionInv' /\ guard' \in [on : BOOLEAN, verified : BOOLEAN]
      /\ needTotp' \in People \cup {None} /\ wasAdmin' \subseteq People
  BY <1>1, <1>2, <1>3, StayKeeps DEF server
<1> QED
  BY <1>1, <1>2, <1>4 DEF TypeInv, TabType, server

LEMMA AdminAnswerKeeps ==
  ASSUME TypeInv, SessionInv, NEW c \in {"admin", "stale"}, ~Idle(c), adminAnswered(c),
         UNCHANGED <<server, events>>
  PROVE  TypeInv' /\ SessionInv'
<1> DEFINE k == call[c]
<1>1. c \in Calls /\ Left(Done(c))
  BY SessionAssumption, LeftOver DEF TypeInv
<1>2. CASE takesAnswer(k)
  <2>1. user' = k.answer /\ UNCHANGED <<token, config>>
    BY <1>2 DEF adminAnswered
  <2>2. /\ c = "admin" /\ token \in People
        /\ k.answer \in [id : People, role : Roles] /\ k.answer.id = token
    BY <1>2, TakenIsOwn
  <2>3. SessionAgrees'
    BY <2>1, <2>2, SessionAssumption DEF SessionAgrees
  <2>4. CASE k.answer.role \in {"admin", "super_admin"}
    <3> DEFINE g == [guard EXCEPT !.verified = TRUE]
    <3>1. stays(Done(c), g) /\ UNCHANGED <<loc, routeFor>>
      BY <1>2, <2>4 DEF adminAnswered
    <3>2. guard.on /\ token \in wasAdmin
      BY <1>2, <2>2, <2>4 DEF SessionInv, AdminCurrent, Wanted, takesAnswer
    <3>3. g \in [on : BOOLEAN, verified : BOOLEAN] /\ g.on = guard.on
      BY DEF TypeInv, TabType
    <3> HIDE DEF g
    <3>4. /\ CallsInv' /\ SessionInv' /\ guard' \in [on : BOOLEAN, verified : BOOLEAN]
          /\ needTotp' \in People \cup {None} /\ wasAdmin' \subseteq People
      BY <1>1, <2>1, <2>3, <3>1, <3>2, <3>3, StayKeeps DEF server
    <3> QED
      BY <2>1, <2>2, <3>1, <3>4 DEF TypeInv, TabType, server
  <2>5. CASE k.answer.role \notin {"admin", "super_admin"}
    <3>1. GoWith(Done(c), Dashboard)
      BY <1>2, <2>5 DEF adminAnswered
    <3>2. Dashboard \in Pages
      BY DEF Pages
    <3>3. CallsInv' /\ SessionInv'
      BY <1>1, <2>1, <2>3, <3>1, <3>2, StaysSignedIn, CallsAfterMove DEF server, TypeInv
    <3> QED
      BY <1>1, <2>1, <2>2, <3>1, <3>2, <3>3, MoveTypes DEF TypeInv, TabType, server
  <2> QED
    BY <2>4, <2>5
<1>3. CASE ~takesAnswer(k) /\ k.status = "401"
  <2>1. clear /\ GoWith(Done(c), Login) /\ UNCHANGED config
    BY <1>3 DEF adminAnswered
  <2>2. Login \in Public /\ Login \in Pages
    BY DEF Public, Pages
  <2>3. CallsInv' /\ SessionInv'
    BY <1>1, <2>1, <2>2, GoesSignedOut, CallsAfterMove DEF server, TypeInv
  <2> QED
    BY <1>1, <2>1, <2>2, <2>3, MoveTypes DEF TypeInv, TabType, server, clear
<1>4. CASE ~takesAnswer(k) /\ k.status # "401"
  <2>1. call' = Done(c) /\ UNCHANGED <<page, store, config>>
    BY <1>4 DEF adminAnswered
  <2>2. CallsInv' /\ SessionInv'
    <3>1. SessionAgrees'
      BY <2>1 DEF SessionInv, SessionAgrees, store
    <3> QED
      BY <1>1, <2>1, <3>1, CallEnds DEF page, store, server
  <2> QED
    BY <2>1, <2>2 DEF TypeInv, TabType, page, store, server
<1> QED
  BY <1>2, <1>3, <1>4

LEMMA SignInKeeps ==
  ASSUME TypeInv, SessionInv, ~Idle("login"), signInAnswered, UNCHANGED <<server, events>>
  PROVE  TypeInv' /\ SessionInv'
<1> DEFINE k == call["login"]
<1>1. "login" \in Calls /\ CallShape(k) /\ token = None /\ user = None
  BY SessionAssumption, InFlightIsCall
  DEF TypeInv, SessionInv, LoginSignedOut, SessionAgrees
<1>2. CASE k.status = "ok" /\ k.method = "post"
  <2> DEFINE g == NewCall("get", k.answer, "me")
             n == [g EXCEPT !.live = k.live]
  <2>1. call' = [call EXCEPT !["login"] = n] /\ UNCHANGED <<page, store, config>>
    BY <1>2 DEF signInAnswered
  <2>2. k.answer \in People /\ k.live \in BOOLEAN
    BY <1>1, <1>2 DEF CallShape, PostShape
  <2>3. CallShape(g)
    BY <2>2, NewGetShape
  <2>4. CallShape(n)
    <3> HIDE DEF k
    <3>1. n.live = k.live /\ n.method = "get" /\ n.status = "none"
      BY DEF NewCall
    <3>2. n \in [pc : {"sent", "backoff", "back"}, method : {"get", "post"},
                token : People \cup {None}, body : {"me"}, live : BOOLEAN,
                retryCount : 0..MAX_RETRIES, served : Nat,
                status : Statuses \cup {"none"}, answer : {"none"}]
      BY <2>2, <2>3 DEF NewCall, CallShape
    <3>3. n.body = "me" /\ n.answer = "none"
      BY <3>2
    <3> HIDE DEF n
    <3> QED
      BY <3>1, <3>2, <3>3 DEF CallShape, GetShape
  <2> HIDE DEF n
  <2>5. CallsInv' /\ SessionInv'
    BY <1>1, <2>1, <2>4, FormCall DEF server
  <2> QED
    BY <2>1, <2>5 DEF TypeInv, TabType, page, store, server
<1>3. CASE k.status = "ok" /\ k.method = "get"
  <2>1. k.token \in People /\ k.answer \in [id : {k.token}, role : Roles]
    BY <1>1, <1>3 DEF CallShape, GetShape
  <2>2. token' = k.token /\ user' = k.answer /\ UNCHANGED config
    BY <1>3 DEF signInAnswered
  <2>3. PICK p \in {landingOf([tool |-> k.answer.id \in ToolUsers]),
                    IF k.answer.id \in ToolUsers THEN Kiosk
                    ELSE IF k.answer.role # "user" THEN Dashboard
                    ELSE firstAllowedPath(config)} : GoWith(Done("login"), p)
    BY <1>3 DEF signInAnswered
  <2>4. p \in Pages
    <3>1. firstAllowedPath(config) \in Pages /\ Kiosk \in Pages /\ Dashboard \in Pages
      BY LandingIsPage DEF Pages, TypeInv, TabType, Configs
    <3> QED
      BY <2>3, <3>1 DEF landingOf
  <2>5. token' # None /\ SessionAgrees' /\ user' \in [id : People, role : Roles]
    BY <2>1, <2>2, SessionAssumption DEF SessionAgrees
  <2>6. CallsInv' /\ SessionInv'
    BY <1>1, <2>3, <2>4, <2>5, GoesSignedIn, LeftOver, CallsAfterMove DEF TypeInv, server
  <2> QED
    BY <1>1, <2>1, <2>2, <2>3, <2>4, <2>5, <2>6, MoveTypes, LeftOver
    DEF TypeInv, TabType, server
<1>4. CASE k.status # "ok"
  <2>1. /\ call' = Done("login") /\ UNCHANGED <<loc, routeFor, guard, wasAdmin, store, config>>
        /\ needTotp' = IF /\ k.live /\ loc # Register
                          /\ k.status = "401" /\ k.answer \in {"totp_required", "totp_invalid"}
                       THEN k.body.who ELSE needTotp
    BY <1>4 DEF signInAnswered
  <2>2. needTotp' \in People \cup {None}
    <3>1. k.status = "401" /\ k.answer \in {"totp_required", "totp_invalid"}
            => k.body.who \in People
      BY <1>1 DEF CallShape, GetShape, PostShape
    <3> QED
      BY <2>1, <3>1 DEF TypeInv, TabType
  <2>3. SessionAgrees'
    BY <2>1 DEF SessionInv, SessionAgrees, store
  <2>4. CallsInv' /\ SessionInv'
    BY <1>1, <2>1, <2>3, CallEnds DEF store, server
  <2> QED
    BY <2>1, <2>2, <2>4 DEF TypeInv, TabType, store, server
<1> QED
  BY <1>2, <1>3, <1>4 DEF signInAnswered

LEMMA ReceiveKeeps ==
  ASSUME TypeInv, SessionInv, NEW c \in Calls, Receive(c)
  PROVE  TypeInv' /\ SessionInv'
<1>1. ~Idle(c) /\ UNCHANGED <<server, events>>
  BY DEF Receive, Idle
<1>2. CASE endsSession(call[c])
  <2>1. LoadPage(Login) /\ clear /\ Login \in Pages
    BY <1>2 DEF Receive, bounce, Pages, Public
  <2> QED
    BY <1>1, <2>1, LoadedAnew DEF TypeInv, TabType
<1>3. CASE ~endsSession(call[c])
  <2>1. CASE c = "login"
    BY <1>1, <1>3, <2>1, SignInKeeps DEF Receive
  <2>2. CASE c = "admin"
    BY <1>1, <1>3, <2>2, AdminAnswerKeeps DEF Receive
  <2>3. CASE c = "route"
    BY <1>1, <1>3, <2>3, RouteAnswerKeeps DEF Receive
  <2>4. CASE c = "stale"
    <3>1. routeAnswered(c) \/ adminAnswered(c)
      BY <1>3, <2>4 DEF Receive
    <3> QED
      BY <1>1, <2>4, <3>1, RouteAnswerKeeps, AdminAnswerKeeps
  <2> QED
    BY <2>1, <2>2, <2>3, <2>4, SessionAssumption
<1> QED
  BY <1>2, <1>3

-----------------------------------------------------------------------------
(* Every step.                                                             *)

\* Types after a move within the loaded page.
LEMMA MoveKeepsTypes ==
  ASSUME TypeInv, NEW p \in Pages, GoWith(call, p), UNCHANGED <<config, server>>,
         token' \in People \cup {None}, user' = None \/ user' \in [id : People, role : Roles],
         events' \in 0..MaxEvents
  PROVE  TypeInv'
<1>1. CallsInv' /\ Left(call)
  BY LeftOver, CallsAfterMove DEF TypeInv
<1> QED
  BY <1>1, MoveTypes DEF TypeInv, TabType, server

LEMMA EventTypes == TypeInv /\ Event => events' \in 0..MaxEvents
  BY SessionAssumption DEF TypeInv, TabType, Event

LEMMA NavigationKeeps ==
  ASSUME TypeInv, SessionInv, Redirect \/ navigate \/ Reload \/ onLogout
  PROVE  TypeInv' /\ SessionInv'
<1>1. Left(call)
  BY LeftOver DEF TypeInv
<1>2. CASE Redirect
  <2>1. Target \in Pages
    BY TargetIsPage DEF TypeInv, TabType, Configs
  <2>2. GoWith(call, Target) /\ UNCHANGED <<store, config, server, events>>
    BY <1>2 DEF Redirect
  <2>3. SessionAgrees'
    BY <2>2 DEF SessionInv, SessionAgrees, store
  <2>4. SessionInv'
    BY <1>1, <2>1, <2>2, <2>3, StaysSignedIn DEF store, server
  <2>5. TypeInv'
    BY <2>1, <2>2, MoveKeepsTypes DEF TypeInv, TabType, store
  <2> QED
    BY <2>4, <2>5
<1>3. CASE navigate
  <2>1. PICK p \in {Landing, Login, Register} \cup visibleNav(me, config) : GoWith(call, p)
    BY <1>3 DEF navigate
  <2>2. p \in Pages
    BY <2>1 DEF Pages, Public, visibleNav
  <2>3. Event /\ UNCHANGED <<store, config, server>>
    BY <1>3 DEF navigate
  <2>4. SessionAgrees'
    BY <2>3 DEF SessionInv, SessionAgrees, store
  <2>5. SessionInv'
    BY <1>1, <2>1, <2>2, <2>3, <2>4, StaysSignedIn DEF store, server
  <2>6. TypeInv'
    BY <2>1, <2>2, <2>3, MoveKeepsTypes, EventTypes DEF TypeInv, TabType, store
  <2> QED
    BY <2>5, <2>6
<1>4. CASE Reload
  BY <1>4, LoadedAnew, EventTypes DEF Reload, Pages
<1>5. CASE onLogout
  <2>1. PICK p \in {Login, Landing} : GoWith(call, p)
    BY <1>5 DEF onLogout
  <2>2. p \in Public /\ p \in Pages
    BY DEF Public, Pages
  <2>3. Event /\ clear /\ UNCHANGED <<config, server>>
    BY <1>5 DEF onLogout
  <2>4. SessionInv'
    BY <1>1, <2>1, <2>2, <2>3, GoesSignedOut DEF server
  <2>5. TypeInv'
    BY <2>1, <2>2, <2>3, MoveKeepsTypes, EventTypes DEF clear
  <2> QED
    BY <2>4, <2>5
<1> QED
  BY <1>2, <1>3, <1>4, <1>5

\* What AdminGuard or ProtectedRoute asked before is wanted no more when the
\* effect runs again, so what is set aside is not.
LEMMA AskKeeps ==
  ASSUME TypeInv, NEW c \in {"route", "admin"}, token # None, ~Wanted(c), ask(c, GetMe)
  PROVE  /\ CallsInv' /\ call'[c] = GetMe /\ ~Idle(c)'
         /\ ~Wanted("stale") => ~Wanted("stale")'
         /\ \A d \in Calls : d \notin {c, "stale"} => call'[d] = call[d]
<1>1. {"route", "admin", "login", "stale"} = Calls
  BY SessionAssumption
<1>2. CallShape(GetMe) /\ GetMe.method = "get" /\ GetMe.pc # "idle"
  BY NewGetShape, ShapeInFlight DEF GetMe, TypeInv, TabType
<1>3. CallIn(c, GetMe)
  BY <1>2, ShapeInFlight DEF CallIn
<1>4. CASE Idle(c)
  <2>1. call' = [call EXCEPT ![c] = GetMe]
    BY <1>4 DEF ask
  <2>2. /\ CallsInv' /\ call'[c] = GetMe
        /\ \A d \in Calls : d # c => call'[d] = call[d]
    BY <1>1, <1>3, <2>1, OneCall DEF TypeInv
  <2> QED
    BY <1>1, <1>2, <2>2 DEF Idle, Wanted
<1>5. CASE ~Idle(c)
  <2>1. call' = [call EXCEPT !["stale"] = call[c], ![c] = GetMe]
    BY <1>5 DEF ask
  <2>2. /\ call' = [d \in Calls |-> call'[d]]
        /\ call'["stale"] = call[c] /\ call'[c] = GetMe
        /\ \A d \in Calls : d \notin {c, "stale"} => call'[d] = call[d]
    BY <1>1, <2>1 DEF TypeInv, CallsInv, CallsIn
  <2>3. CallIn("stale", call[c])
    BY <1>1, <1>5, InFlightIsCall DEF TypeInv, CallIn
  <2>4. CallsInv'
    BY <1>1, <1>3, <2>2, <2>3 DEF TypeInv, CallsInv, CallsIn
  <2> QED
    BY <1>2, <1>5, <2>2, <2>4 DEF Idle, Wanted
<1> QED
  BY <1>4, <1>5

LEMMA EffectKeeps ==
  ASSUME TypeInv, SessionInv, refreshMe \/ mountGuard
  PROVE  TypeInv' /\ SessionInv'
<1>1. {"route", "admin", "login", "stale"} = Calls
  BY SessionAssumption
<1>2. GetMe.token = token /\ GetMe.status = "none" /\ GetMe.pc = "sent"
  BY DEF GetMe, NewCall
<1>3. CASE refreshMe
  <2>1. /\ loc \notin Public /\ token # None /\ routeFor # token /\ routeFor' = token
        /\ ask("route", GetMe)
        /\ UNCHANGED <<loc, guard, needTotp, wasAdmin, store, config, server, events>>
    BY <1>3 DEF refreshMe
  <2>2. ~Wanted("route")
    BY <2>1 DEF SessionInv, RouteCurrent
  <2>3. /\ CallsInv' /\ call'["route"] = GetMe /\ ~Wanted("stale")'
        /\ call'["admin"] = call["admin"] /\ call'["login"] = call["login"]
    BY <1>1, <2>1, <2>2, AskKeeps DEF SessionInv, StaleUnwanted
  <2>4. RouteCurrent'
    BY <1>2, <2>1, <2>3 DEF RouteCurrent, store
  <2>5. AdminCurrent' /\ LoginSignedOut'
    BY <2>1, <2>3 DEF SessionInv, AdminCurrent, LoginSignedOut, Wanted, Idle, store
  <2>6. SessionAgrees' /\ GuardCurrent'
    BY <2>1 DEF SessionInv, SessionAgrees, GuardCurrent, Admins, store, server
  <2> QED
    BY <2>1, <2>3, <2>4, <2>5, <2>6
    DEF SessionInv, StaleUnwanted, TypeInv, TabType, store, server
<1>4. CASE mountGuard
  <2>1. /\ token # None /\ loc \in Guarded /\ ~guard.on
        /\ guard' = [on |-> TRUE, verified |-> FALSE] /\ wasAdmin' = Admins(role)
        /\ ask("admin", GetMe)
        /\ UNCHANGED <<loc, routeFor, needTotp, store, config, server, events>>
    BY <1>4 DEF mountGuard, Open
  <2>2. ~Wanted("admin")
    BY <2>1 DEF SessionInv, AdminCurrent
  <2>3. /\ CallsInv' /\ call'["admin"] = GetMe /\ ~Wanted("stale")'
        /\ call'["route"] = call["route"] /\ call'["login"] = call["login"]
    BY <1>1, <2>1, <2>2, AskKeeps DEF SessionInv, StaleUnwanted
  <2>4. RouteCurrent' /\ LoginSignedOut'
    BY <2>1, <2>3 DEF SessionInv, RouteCurrent, LoginSignedOut, Wanted, Idle, store
  <2>5. AdminCurrent'
    BY <1>2, <2>1, <2>3 DEF AdminCurrent, store
  <2>6. GuardCurrent'
    BY <2>1 DEF GuardCurrent, Admins, store, server
  <2>7. SessionAgrees'
    BY <2>1 DEF SessionInv, SessionAgrees, store
  <2>8. TabType'
    BY <2>1 DEF TypeInv, TabType, store, server, Admins
  <2> QED
    BY <2>3, <2>4, <2>5, <2>6, <2>7, <2>8 DEF SessionInv, StaleUnwanted, TypeInv
<1> QED
  BY <1>3, <1>4

LEMMA FormKeeps ==
  ASSUME TypeInv, SessionInv, NEW p \in People, NEW code \in {"", "right", "bad"},
         submitRegister(p) \/ submitLogin(p, code)
  PROVE  TypeInv' /\ SessionInv'
<1>1. /\ Event /\ token = None /\ UNCHANGED <<page, store, config, server>>
      /\ \E x \in Codes :
           call' = [call EXCEPT !["login"] = NewCall("post", None, [who |-> p, code |-> x])]
  BY DEF submitRegister, submitLogin, RegisterOpen, FormOpen, Codes
<1>2. CallsInv' /\ SessionInv'
  BY <1>1, NewPostShape, FormCall DEF server
<1> QED
  BY <1>1, <1>2, EventTypes DEF TypeInv, TabType, page, store, server

\* Neither a configuration nor what the server does changes a call.
LEMMA OutsideKeeps ==
  ASSUME TypeInv, SessionInv,
         \/ load
         \/ \E p \in Changing, r \in Roles : setRole(p, r)
         \/ \E t \in People : expire(t)
         \/ \E s \in Sites : editSite(s)
  PROVE  TypeInv' /\ SessionInv'
<1>1. ASSUME UNCHANGED <<call, page, store, role>> PROVE CallsInv' /\ SessionInv'
  BY <1>1 DEF TypeInv, CallsInv, CallsIn, SessionInv, SessionAgrees, LoginSignedOut,
              RouteCurrent, AdminCurrent, StaleUnwanted, GuardCurrent, Wanted, Idle, Admins,
              page, store
<1>2. CASE load
  <2>1. /\ stays(call, guard) /\ UNCHANGED <<loc, routeFor, store, server>>
        /\ config' \in Sites \cup {None, DEFAULT} /\ events' \in 0..MaxEvents
    BY <1>2, EventTypes DEF load, TypeInv, TabType
  <2>2. Left(call) /\ guard \in [on : BOOLEAN, verified : BOOLEAN] /\ SessionAgrees'
    BY <2>1, LeftOver DEF TypeInv, TabType, SessionInv, SessionAgrees, store
  <2>3. /\ CallsInv' /\ SessionInv' /\ guard' \in [on : BOOLEAN, verified : BOOLEAN]
        /\ needTotp' \in People \cup {None} /\ wasAdmin' \subseteq People
    BY <2>1, <2>2, StayKeeps DEF store, server
  <2> QED
    BY <2>1, <2>3 DEF TypeInv, TabType, store, server
<1>3. ASSUME NEW p \in Changing, NEW r \in Roles, setRole(p, r) PROVE TypeInv' /\ SessionInv'
  <2>1. /\ role' \in [People -> Roles] /\ Admins(role') \subseteq People
        /\ wasAdmin' = IF guard.on THEN wasAdmin \cup Admins(role') ELSE wasAdmin
        /\ UNCHANGED <<call, loc, routeFor, guard, needTotp, store, config, valid, site>>
    BY <1>3 DEF setRole, TypeInv, TabType, Admins
  <2>2. CallsInv' /\ TabType'
    BY <1>3, <2>1, EventTypes DEF setRole, TypeInv, TabType, CallsInv, CallsIn, store
  <2>3. wasAdmin \subseteq wasAdmin'
    BY <2>1
  <2>4. SessionAgrees' /\ LoginSignedOut' /\ RouteCurrent' /\ StaleUnwanted'
    BY <2>1 DEF SessionInv, SessionAgrees, LoginSignedOut, RouteCurrent, StaleUnwanted,
                Wanted, Idle, store
  <2>5. AdminCurrent'
    BY <2>1, <2>3 DEF SessionInv, AdminCurrent, Wanted, Idle, store
  <2>6. GuardCurrent'
    <3>1. Admins(role)' = Admins(role')
      BY DEF Admins
    <3> QED
      BY <2>1, <2>3, <3>1 DEF SessionInv, GuardCurrent, store
  <2> QED
    BY <2>2, <2>4, <2>5, <2>6 DEF TypeInv, SessionInv
<1>4. CASE \E t \in People : expire(t)
  BY <1>1, <1>4, EventTypes DEF expire, page, store, TypeInv, TabType
<1>5. CASE \E s \in Sites : editSite(s)
  BY <1>1, <1>5, EventTypes DEF editSite, page, store, TypeInv, TabType
<1> QED
  BY <1>2, <1>3, <1>4, <1>5

LEMMA SessionStep == TypeInv /\ SessionInv /\ [Next]_vars => TypeInv' /\ SessionInv'
<1> SUFFICES ASSUME TypeInv, SessionInv, [Next]_vars PROVE TypeInv' /\ SessionInv'
  OBVIOUS
<1>1. CASE Redirect \/ navigate \/ Reload \/ onLogout
  BY <1>1, NavigationKeeps
<1>2. CASE refreshMe \/ mountGuard
  BY <1>2, EffectKeeps
<1>3. CASE \E p \in People : submitRegister(p) \/ \E k \in {"", "right", "bad"} : submitLogin(p, k)
  BY <1>3, FormKeeps
<1>4. ASSUME NEW c \in Calls, CallStep(c) PROVE TypeInv' /\ SessionInv'
  BY <1>4, ServeKeeps, ReceiveKeeps, RetryKeeps DEF CallStep
<1>5. CASE load \/ (\E p \in Changing, r \in Roles : setRole(p, r))
           \/ (\E t \in People : expire(t)) \/ (\E s \in Sites : editSite(s))
  BY <1>5, OutsideKeeps
<1>6. CASE UNCHANGED vars
  BY <1>6 DEF vars, page, store, server, TypeInv, TabType, CallsInv, CallsIn, SessionInv,
              SessionAgrees, LoginSignedOut, RouteCurrent, AdminCurrent, StaleUnwanted,
              GuardCurrent, Wanted, Idle, Admins
<1> QED
  BY <1>1, <1>2, <1>3, <1>4, <1>5, <1>6 DEF Next

LEMMA SessionInit == Init => TypeInv /\ SessionInv
<1> SUFFICES ASSUME Init PROVE TypeInv /\ SessionInv
  OBVIOUS
<1>1. CallsInv /\ \A c \in Calls : Idle(c)
  BY DEF Init, CallsInv, CallsIn, CallIn, Idle, NoCall
<1>2. TabType
  BY SessionAssumption DEF Init, TabType, Pages, NoGuard
<1> QED
  BY <1>1, <1>2, SessionAssumption
  DEF Init, TypeInv, SessionInv, SessionAgrees, LoginSignedOut, RouteCurrent, AdminCurrent,
      StaleUnwanted, GuardCurrent, Wanted, NoGuard

LEMMA SessionAlways == Spec => [](TypeInv /\ SessionInv)
  BY SessionInit, SessionStep, PTL DEF Spec

\* The tab is always at an entrance, a page of the program or one of the
\* domain's, and no call is retried more often than the client allows.
THEOREM SessionTypes == Spec => []TypeOK
  BY SessionAlways, TypesFollow, PTL

\* The stored user is the token's, in whatever order sign-ins, sign-outs,
\* answers of /me, redirects and reloads come (store.ts, ProtectedRoute.tsx).
THEOREM UserIsTokens == Spec => []SessionAgrees
<1>1. SessionInv => SessionAgrees
  BY DEF SessionInv
<1> QED
  BY <1>1, SessionAlways, PTL

\* AdminGuard shows its page to no account that was not admin at the server
\* while the page was open.
THEOREM AdminPageIsVerified == Spec => []AdminSeenByAdmin
<1>1. SessionInv => AdminSeenByAdmin
  BY DEF SessionInv, GuardCurrent, AdminSeenByAdmin, AdminShown
<1> QED
  BY <1>1, SessionAlways, PTL

\* With any number of retries, a sign-in or a registration is handled once.
THEOREM SignInHandledOnce == Spec => []PostedOnce
<1>1. TypeInv => PostedOnce
  <2> SUFFICES ASSUME TypeInv, NEW c \in Calls, ~Idle(c), call[c].method \notin SAFE_METHODS
               PROVE  call[c].served <= 1
    BY DEF PostedOnce
  <2>1. CallShape(call[c])
    BY InFlightIsCall DEF TypeInv
  <2>2. call[c].method = "post"
    BY <2>1 DEF CallShape, SAFE_METHODS
  <2> QED
    BY <2>1, <2>2 DEF CallShape, PostShape
<1> QED
  BY <1>1, SessionAlways, PTL

-----------------------------------------------------------------------------
(* The form for the second factor.                                         *)

FormPages == {Login, AdminLogin, Register}

\* A sign-in whose answer is wanted was made by the form that is shown, and a
\* second factor is asked for where it was, with the credentials of that form.
FormCurrent ==
    /\ Wanted("login") => loc \in FormPages /\ shows
    /\ needTotp # None => loc \in {Login, AdminLogin} /\ shows
    /\ Wanted("login") /\ needTotp # None /\ call["login"].method = "post" =>
         call["login"].body.who = needTotp

\* The form stays, and its call with it.
LEMMA FormStays ==
  ASSUME FormCurrent, UNCHANGED <<loc, store, config>>,
         needTotp' = needTotp \/ needTotp' = None,
         Wanted("login")' => /\ Wanted("login")
                             /\ call'["login"].method = "post" =>
                                  /\ call["login"].method = "post"
                                  /\ call'["login"].body = call["login"].body
  PROVE  FormCurrent'
<1>1. shows' = shows
  BY DEF shows, PublicOpen, Open, Blocked, me, store
<1> QED
  BY <1>1 DEF FormCurrent, FormPages

\* The tab stays, or goes, and takes down what is not shown.
LEMMA FormStaysShown ==
  ASSUME FormCurrent, CallsInv, NEW k, Left(k), NEW g, stays(k, g), loc' = loc
  PROVE  FormCurrent'
<1>1. /\ Wanted("login")' => Wanted("login") /\ call'["login"] = call["login"]
      /\ needTotp' = needTotp \/ needTotp' = None
  BY CallsAfterStay, SessionAssumption
<1>2. CASE shows'
  BY <1>1, <1>2 DEF FormCurrent, FormPages
<1>3. CASE ~shows'
  <2>1. needTotp' = None /\ call' = unmounted(k, loc)
    BY <1>3 DEF stays
  <2>2. ~Wanted("login")'
    BY <2>1, CallsAfterUnmount, SessionAssumption DEF Mounted
  <2> QED
    BY <2>1, <2>2 DEF FormCurrent
<1> QED
  BY <1>2, <1>3

LEMMA FormMoves ==
  ASSUME FormCurrent, CallsInv, NEW p, NEW k, Left(k), GoWith(k, p)
  PROVE  FormCurrent'
<1>1. CASE p = loc
  BY <1>1, FormStaysShown DEF GoWith
<1>2. CASE p # loc
  <2>1. needTotp' = None /\ call' = unmounted(k, p)
    BY <1>2 DEF GoWith
  <2>2. ~Wanted("login")'
    BY <2>1, CallsAfterUnmount, SessionAssumption DEF Mounted
  <2> QED
    BY <2>1, <2>2 DEF FormCurrent
<1> QED
  BY <1>1, <1>2

LEMMA FormReloads == \A p : LoadPage(p) => FormCurrent'
  BY SessionAssumption DEF LoadPage, FormCurrent, Wanted, Idle, NoCall

LEMMA SignInAsksFor ==
  ASSUME NEW p, NEW code
  PROVE  NewCall("post", None, [who |-> p, code |-> code]).body.who = p
BY DEF NewCall

LEMMA FormSubmits ==
  ASSUME TypeInv, FormCurrent, NEW p \in People, NEW code \in {"", "right", "bad"},
         submitRegister(p) \/ submitLogin(p, code)
  PROVE  FormCurrent'
<1>1. /\ UNCHANGED <<page, store, config>> /\ FormPages \subseteq Public
      /\ "login" \in Calls
  BY SessionAssumption DEF submitRegister, submitLogin, FormPages, Public
<1>2. shows' = shows /\ loc' = loc /\ needTotp' = needTotp
  BY <1>1 DEF shows, PublicOpen, Open, Blocked, me, store, page
<1>3. Login # Register /\ AdminLogin # Login /\ AdminLogin # Register
  BY DEF Login, Register, AdminLogin
<1>4. CASE submitRegister(p)
  <2>1. loc = Register /\ shows /\ needTotp = None
    BY <1>3, <1>4 DEF submitRegister, RegisterOpen, shows, FormCurrent
  <2> QED
    BY <1>2, <2>1 DEF FormCurrent, FormPages
<1>5. CASE submitLogin(p, code)
  <2>1. loc \in {Login, AdminLogin} /\ shows /\ (needTotp # None => needTotp = p)
    BY <1>1, <1>3, <1>5 DEF submitLogin, FormOpen, shows, Public
  <2>2. call'["login"] = NewCall("post", None, [who |-> p, code |-> code])
    BY <1>1, <1>5 DEF submitLogin, TypeInv, CallsInv, CallsIn
  <2>3. call'["login"].body.who = p
    BY <2>2, SignInAsksFor
  <2> QED
    BY <1>2, <2>1, <2>3 DEF FormCurrent, FormPages
<1> QED
  BY <1>4, <1>5

\* The server, the proxy and the retries change no call's caller or body.
LEMMA FormWaits ==
  ASSUME TypeInv, SessionInv, FormCurrent, NEW c \in Calls, Serve(c) \/ retry(c) \/ resend(c)
  PROVE  FormCurrent'
<1>1. UNCHANGED <<page, store, config>> /\ "login" \in Calls
  BY SessionAssumption DEF Serve, retry, resend
<1>2. ~Idle(c) /\ CallShape(call[c])
  <2>1. ~Idle(c)
    BY DEF Serve, retry, resend, Retry, Resend, Idle
  <2> QED
    BY <2>1, InFlightIsCall DEF TypeInv
<1>3. PICK k : /\ call' = [call EXCEPT ![c] = k]
               /\ k.live = call[c].live /\ k.method = call[c].method /\ k.body = call[c].body
               /\ k.pc # "idle"
  <2>1. ASSUME NEW handled \in BOOLEAN, NEW status, NEW answer,
               Reply(c, handled, status, answer)
        PROVE  \E k : /\ call' = [call EXCEPT ![c] = k]
                      /\ k.live = call[c].live /\ k.method = call[c].method
                      /\ k.body = call[c].body /\ k.pc # "idle"
    <3> DEFINE k == answers(call[c], handled, status, answer)
    <3>1. call' = [call EXCEPT ![c] = k]
      BY <2>1 DEF Reply
    <3>2. /\ k.live = call[c].live /\ k.method = call[c].method
          /\ k.body = call[c].body /\ k.pc = "back"
      BY <1>2 DEF CallShape, answers
    <3> QED
      BY <3>1, <3>2
  <2>2. CASE Serve(c)
    BY <2>1, <2>2 DEF Serve, answerMe, answerSignIn, fails
  <2>3. CASE retry(c)
    <3> DEFINE k == counts(call[c])
    <3>1. call' = [call EXCEPT ![c] = k]
      BY <2>3 DEF retry, Retry
    <3>2. /\ k.live = call[c].live /\ k.method = call[c].method
          /\ k.body = call[c].body /\ k.pc = "backoff"
      BY <1>2 DEF CallShape, counts
    <3> QED
      BY <3>1, <3>2
  <2>4. CASE resend(c)
    <3> DEFINE k == repeats(call[c], token, None)
    <3>1. call' = [call EXCEPT ![c] = k]
      BY <2>4 DEF resend, Resend
    <3>2. /\ k.live = call[c].live /\ k.method = call[c].method
          /\ k.body = call[c].body /\ k.pc = "sent"
      BY <1>2 DEF CallShape, repeats
    <3> QED
      BY <3>1, <3>2
  <2> QED
    BY <2>2, <2>3, <2>4
<1>4. call'["login"] = IF c = "login" THEN k ELSE call["login"]
  BY <1>1, <1>3 DEF TypeInv, CallsInv, CallsIn
<1> QED
  BY <1>1, <1>2, <1>3, <1>4, FormStays DEF page, Wanted, Idle

\* The form is answered: it goes on to /me, signs in, asks for the code or fails.
LEMMA FormAnswered ==
  ASSUME TypeInv, SessionInv, FormCurrent, ~Idle("login"), signInAnswered
  PROVE  FormCurrent'
<1> DEFINE k == call["login"]
<1>1. "login" \in Calls /\ CallShape(k) /\ Left(Done("login")) /\ CallsInv
  BY SessionAssumption, InFlightIsCall, LeftOver DEF TypeInv
<1>2. CASE k.status = "ok" /\ k.method = "post"
  <2> DEFINE g == [NewCall("get", k.answer, "me") EXCEPT !.live = k.live]
  <2>1. call' = [call EXCEPT !["login"] = g] /\ UNCHANGED <<page, store, config>>
    BY <1>2 DEF signInAnswered
  <2>2. call'["login"] = g
    BY <1>1, <2>1 DEF CallsInv, CallsIn
  <2>3. g.live = k.live /\ g.method = "get"
    BY DEF NewCall
  <2> HIDE DEF g
  <2>4. Wanted("login")' => Wanted("login") /\ call'["login"].method # "post"
    BY <2>2, <2>3 DEF Wanted
  <2> QED
    BY <2>1, <2>4, FormStays DEF page
<1>3. CASE k.status = "ok" /\ k.method = "get"
  <2>1. \E p : GoWith(Done("login"), p)
    BY <1>3 DEF signInAnswered
  <2> QED
    BY <1>1, <2>1, FormMoves
<1>4. CASE k.status # "ok"
  <2>1. /\ call' = Done("login") /\ UNCHANGED <<loc, store, config>>
        /\ needTotp' = IF /\ k.live /\ loc # Register
                          /\ k.status = "401" /\ k.answer \in {"totp_required", "totp_invalid"}
                       THEN k.body.who ELSE needTotp
    BY <1>4 DEF signInAnswered
  <2>2. ~Wanted("login")'
    BY <1>1, <2>1, DoneCalls DEF Wanted, Idle, NoCall
  <2>3. shows' = shows
    BY <2>1 DEF shows, PublicOpen, Open, Blocked, me, store
  <2>4. needTotp' # None => loc \in {Login, AdminLogin} /\ shows
    <3>1. CASE k.live /\ loc # Register
      BY <2>1, <3>1 DEF FormCurrent, FormPages, Wanted
    <3>2. CASE ~(k.live /\ loc # Register)
      BY <2>1, <3>2 DEF FormCurrent
    <3> QED
      BY <3>1, <3>2
  <2> QED
    BY <2>1, <2>2, <2>3, <2>4 DEF FormCurrent
<1> QED
  BY <1>2, <1>3, <1>4 DEF signInAnswered

LEMMA FormReceives ==
  ASSUME TypeInv, SessionInv, FormCurrent, NEW c \in Calls, Receive(c)
  PROVE  FormCurrent'
<1>1. ~Idle(c) /\ Left(Done(c)) /\ CallsInv
  BY LeftOver DEF Receive, Idle, TypeInv
<1>2. CASE endsSession(call[c])
  BY <1>2, FormReloads DEF Receive, bounce
<1>3. CASE ~endsSession(call[c]) /\ c = "login"
  BY <1>1, <1>3, FormAnswered DEF Receive
<1>4. CASE routeAnswered(c)
  BY <1>1, <1>4, FormStaysShown DEF routeAnswered
<1>5. CASE adminAnswered(c)
  <2>1. \/ \E g : stays(Done(c), g) /\ loc' = loc
        \/ \E p : GoWith(Done(c), p)
        \/ call' = Done(c) /\ UNCHANGED <<page, store, config>>
    BY <1>5 DEF adminAnswered
  <2>2. CASE call' = Done(c) /\ UNCHANGED <<page, store, config>>
    <3>1. Wanted("login")' => Wanted("login") /\ call'["login"] = call["login"]
      BY <1>1, <2>2, CallsLeft, SessionAssumption
    <3> QED
      BY <2>2, <3>1, FormStays DEF page
  <2> QED
    BY <1>1, <2>1, <2>2, FormStaysShown, FormMoves
<1> QED
  BY <1>2, <1>3, <1>4, <1>5, SessionAssumption DEF Receive

LEMMA FormStep == TypeInv /\ SessionInv /\ FormCurrent /\ [Next]_vars => FormCurrent'
<1> SUFFICES ASSUME TypeInv, SessionInv, FormCurrent, [Next]_vars PROVE FormCurrent'
  OBVIOUS
<1>0. CallsInv /\ Left(call) /\ {"route", "admin", "login", "stale"} = Calls
  BY LeftOver, SessionAssumption DEF TypeInv
<1>1. CASE Redirect \/ navigate \/ Reload \/ onLogout
  <2>1. \/ \E p : GoWith(call, p)
        \/ \E p : LoadPage(p)
    BY <1>1 DEF Redirect, navigate, Reload, onLogout
  <2> QED
    BY <1>0, <2>1, FormMoves, FormReloads
<1>2. CASE load
  BY <1>0, <1>2, FormStaysShown DEF load
<1>3. CASE refreshMe \/ mountGuard
  <2>1. /\ UNCHANGED <<loc, needTotp, store, config>>
        /\ \/ token # None /\ ~Wanted("route") /\ ask("route", GetMe)
           \/ token # None /\ ~Wanted("admin") /\ ask("admin", GetMe)
    BY <1>3 DEF refreshMe, mountGuard, Open, SessionInv, RouteCurrent, AdminCurrent
  <2>2. call'["login"] = call["login"]
    BY <1>0, <2>1, AskKeeps
  <2> QED
    BY <2>1, <2>2, FormStays DEF Wanted, Idle
<1>4. CASE \E p \in People : submitRegister(p) \/ \E k \in {"", "right", "bad"} : submitLogin(p, k)
  BY <1>4, FormSubmits
<1>5. CASE \E c \in Calls : CallStep(c)
  BY <1>5, FormWaits, FormReceives DEF CallStep
<1>6. CASE \/ \E p \in Changing, r \in Roles : setRole(p, r)
           \/ \E t \in People : expire(t)
           \/ \E s \in Sites : editSite(s)
           \/ UNCHANGED vars
  <2>1. UNCHANGED <<call, loc, needTotp, store, config>>
    BY <1>6 DEF setRole, expire, editSite, vars, page
  <2> QED
    BY <2>1, FormStays DEF Wanted, Idle
<1> QED
  BY <1>1, <1>2, <1>3, <1>4, <1>5, <1>6 DEF Next

LEMMA FormAlways == Spec => [](TypeInv /\ SessionInv /\ FormCurrent)
<1>1. Init => FormCurrent
  BY SessionAssumption DEF Init, FormCurrent, Wanted, Idle, NoCall
<1> QED
  BY <1>1, SessionInit, SessionStep, FormStep, PTL DEF Spec

\* Asked for a second factor, the login page forgets the credentials through no
\* answer but the one that signs them in: not the 401 of a wrong code, although
\* the interceptor sees it first, and not a late answer to an earlier session's
\* call (LoginPage.tsx, axios.ts).
THEOREM AnswersKeepSecondForm == Spec => SecondFormKept
<1>1. ASSUME TypeInv, SessionInv, FormCurrent, NEW c \in Calls, loc = Login, token = None,
             needTotp # None, Receive(c)
      PROVE  needTotp' = needTotp \/ token' # None
  <2>1. ~Idle(c) /\ Login \in Public /\ user = None /\ ~endsSession(call[c])
    BY <1>1 DEF Receive, Idle, Public, SessionInv, SessionAgrees, endsSession, Login, Root
  <2>2. CASE c = "login"
    <3> DEFINE k == call["login"]
    <3>1. signInAnswered /\ CallShape(k)
      BY <1>1, <2>1, <2>2, InFlightIsCall DEF Receive, TypeInv
    <3>2. CASE k.status = "ok" /\ k.method = "post"
      BY <3>1, <3>2 DEF signInAnswered, page
    <3>3. CASE k.status = "ok" /\ k.method = "get"
      BY <3>1, <3>3, SessionAssumption DEF signInAnswered, CallShape, GetShape
    <3>4. CASE k.status # "ok"
      <4>1. needTotp' = IF /\ k.live /\ loc # Register
                           /\ k.status = "401" /\ k.answer \in {"totp_required", "totp_invalid"}
                        THEN k.body.who ELSE needTotp
        BY <3>1, <3>4 DEF signInAnswered
      <4>2. k.method = "get" /\ k.status = "401" => k.answer = "invalid"
        BY <3>1 DEF CallShape, GetShape
      <4>3. k.live /\ k.method = "post" => k.body.who = needTotp
        BY <1>1, <2>1, <2>2 DEF FormCurrent, Wanted
      <4>4. k.method \in {"get", "post"}
        BY <3>1 DEF CallShape
      <4> QED
        BY <4>1, <4>2, <4>3, <4>4
    <3> QED
      BY <3>1, <3>2, <3>3, <3>4 DEF signInAnswered
  <2>3. CASE c # "login"
    <3>1. routeAnswered(c) \/ adminAnswered(c)
      BY <1>1, <2>1, <2>3, SessionAssumption DEF Receive
    <3>2. ~takesAnswer(call[c])
      <4>1. ~Wanted(c)
        BY <1>1, <2>1, <2>3, GuardedNotPublic, SessionAssumption
        DEF SessionInv, RouteCurrent, AdminCurrent, StaleUnwanted, GuardCurrent
      <4> QED
        BY <2>1, <4>1 DEF Wanted, takesAnswer
    <3>3. CASE UNCHANGED <<page, store, config>>
      BY <3>3 DEF page
    <3>4. CASE user' = None /\ config' = config /\ loc' = loc /\ \E g : stays(Done(c), g)
      <4>1. shows' = shows
        BY <1>1, <2>1, <3>4 DEF shows, PublicOpen, Blocked, me
      <4>2. shows
        BY <1>1 DEF FormCurrent
      <4> QED
        BY <3>4, <4>1, <4>2 DEF stays
    <3>5. \/ UNCHANGED <<page, store, config>>
          \/ user' = None /\ config' = config /\ loc' = loc /\ \E g : stays(Done(c), g)
      <4>1. CASE routeAnswered(c)
        BY <2>1, <3>2, <4>1 DEF routeAnswered
      <4>2. CASE adminAnswered(c)
        BY <1>1, <2>1, <3>2, <4>2 DEF adminAnswered, clear, GoWith
      <4> QED
        BY <3>1, <4>1, <4>2
    <3> QED
      BY <3>3, <3>4, <3>5
  <2> QED
    BY <2>2, <2>3
<1>2. TypeInv /\ SessionInv /\ FormCurrent =>
        \A c \in Calls : loc = Login /\ token = None /\ needTotp # None /\ Receive(c) =>
          needTotp' = needTotp \/ token' # None
  BY <1>1
<1> QED
  BY <1>2, FormAlways, PTL DEF SecondFormKept
-----------------------------------------------------------------------------
(* Redirects come to an end: the safety half of RedirectsSettle.  Each one *)
(* is a step down a ladder, from no session over the pages to sign in from *)
(* to the pages of the session, as long as no domain sends people on to a  *)
(* page they are sent away from.                                           *)

\* The page a domain prefers is none to sign in from, no administrators' page
\* and none that stands for another one.
PreferredPagesStay ==
    \A c \in Configs : firstAllowedPath(c) \notin Public \cup Guarded \cup {Root, AdminHub}

\* How far address p is from where this session comes to rest.
Distance(p) ==
    IF p \in {Landing, Register} THEN 6
    ELSE IF p \in Public THEN 5
    ELSE IF token = None THEN 7
    ELSE IF isToolUser(me) THEN IF p = Kiosk THEN 0 ELSE 1
    ELSE IF p \in {Root, AdminHub} THEN 4
    ELSE IF p \in Guarded THEN 3
    ELSE IF p = firstAllowedPath(config) THEN 1 ELSE 2

RedirectsComeCloser == [][Redirect => Distance(loc)' < Distance(loc)]_vars

LEMMA PagesDiffer ==
  /\ Dashboard \notin Public \cup Guarded \cup {Root, AdminHub, Kiosk}
  /\ Kiosk \notin Public \cup Guarded \cup {Root, AdminHub}
  /\ AdminUsers \in Guarded /\ AdminUsers \notin Public \cup {Root, AdminHub}
  /\ Root \notin Public /\ AdminHub \notin Public
  /\ Landing # Login /\ Register # Login /\ AdminLogin \notin {Landing, Register}
  BY DEF Dashboard, Kiosk, AdminUsers, Public, Guarded, Root, AdminHub, Landing, Login,
         AdminLogin, Register

\* From a page behind ProtectedRoute.
LEMMA ProtectedComesCloser ==
  ASSUME PreferredPagesStay, TypeInv, loc \notin Public, ProtectedRoute # loc
  PROVE  Distance(ProtectedRoute) < Distance(loc)
<1> DEFINE F == firstAllowedPath(config)
<1>1. F \notin Public \cup Guarded \cup {Root, AdminHub}
  BY DEF PreferredPagesStay, TypeInv, TabType, Configs
<1>2. ~Blocked
  BY DEF ProtectedRoute
<1>3. CASE token = None
  <2>1. ProtectedRoute \in {Login, Landing}
    BY <1>2, <1>3 DEF ProtectedRoute
  <2> QED
    BY <2>1, <1>3, PagesDiffer DEF Distance, Public
<1>4. CASE token # None /\ isToolUser(me)
  <2>1. ProtectedRoute = Kiosk
    BY <1>2, <1>4 DEF ProtectedRoute
  <2> QED
    BY <2>1, <1>4, PagesDiffer DEF Distance, Public
<1>5. CASE token # None /\ ~isToolUser(me)
  <2>1. \/ ProtectedRoute = F /\ loc # F
        \/ loc = Root /\ ProtectedRoute = Dashboard
        \/ loc = AdminHub /\ ProtectedRoute = AdminUsers
        \/ loc \in Guarded /\ ProtectedRoute = Dashboard
    BY <1>2, <1>5 DEF ProtectedRoute
  <2>2. \A p : p \notin Public =>
          Distance(p) = IF p \in {Root, AdminHub} THEN 4 ELSE IF p \in Guarded THEN 3
                        ELSE IF p = F THEN 1 ELSE 2
    BY <1>5 DEF Distance, Public
  <2> HIDE DEF F
  <2> QED
    BY <2>1, <2>2, <1>1, PagesDiffer
<1> QED
  BY <1>3, <1>4, <1>5

\* From a page behind PublicRouteGuard.
LEMMA PublicComesCloser ==
  ASSUME PreferredPagesStay, TypeInv, SessionInv, loc \in Public, PublicRoute # loc
  PROVE  Distance(PublicRoute) < Distance(loc)
<1> DEFINE F == firstAllowedPath(config)
<1>1. F \notin Public
  BY DEF PreferredPagesStay, TypeInv, TabType, Configs
<1>2. \/ loc \in {Landing, Register} /\ PublicRoute = Login
      \/ token # None /\ PublicRoute \in {F, Kiosk}
  BY PagesDiffer DEF PublicRoute, LoginPage, landingOf, Public
<1>3. \A p : p \notin Public /\ token # None => Distance(p) <= 4
  BY DEF Distance, Public
<1>4. Distance(loc) = IF loc \in {Landing, Register} THEN 6 ELSE 5
  BY DEF Distance
<1>5. Distance(Login) = 5
  BY PagesDiffer DEF Distance, Public
<1>6. CASE loc \in {Landing, Register} /\ PublicRoute = Login
  BY <1>4, <1>5, <1>6
<1>7. CASE token # None /\ PublicRoute \in {F, Kiosk}
  <2>1. PublicRoute \notin Public
    BY <1>1, <1>7, PagesDiffer
  <2>2. Distance(PublicRoute) <= 4 /\ Distance(PublicRoute) \in 0..7
    BY <1>3, <1>7, <2>1 DEF Distance
  <2> QED
    BY <1>4, <2>2
<1> QED
  BY <1>2, <1>6, <1>7

\* Between two things that happen, the guards redirect at most seven times: no
\* two of them send one another round in circles (ProtectedRoute.tsx,
\* PublicRouteGuard.tsx, AdminGuard.tsx, LoginPage.tsx).
THEOREM RedirectsEnd ==
  ASSUME PreferredPagesStay
  PROVE  Spec => RedirectsComeCloser
<1>1. TypeInv /\ SessionInv /\ Redirect => Distance(loc)' < Distance(loc)
  <2> SUFFICES ASSUME TypeInv, SessionInv, Redirect PROVE Distance(loc)' < Distance(loc)
    OBVIOUS
  <2>1. Target # loc /\ loc' = Target /\ UNCHANGED <<store, config>>
    BY DEF Redirect, GoWith
  <2>2. Distance(loc)' = Distance(Target)
    BY <2>1 DEF Distance, me, store
  <2>3. CASE loc \in Public
    BY <2>1, <2>2, <2>3, PublicComesCloser DEF Target
  <2>4. CASE loc \notin Public
    BY <2>1, <2>2, <2>4, ProtectedComesCloser DEF Target
  <2> QED
    BY <2>3, <2>4
<1> QED
  BY <1>1, SessionAlways, PTL DEF RedirectsComeCloser, Spec
=============================================================================
