------------------------------ MODULE Session -------------------------------
(***************************************************************************)
(* One browser tab from sign-in to sign-out: the auth store, the domain    *)
(* store, the route guards that read them while they are refreshed, and    *)
(* the calls of ApiClient that refresh them (src/frontend/src/core/auth,   *)
(* core/domain, components/layout, modules/auth, AdminGuard).  Redirects   *)
(* are steps of their own: between two of them an answer may arrive.       *)
(*                                                                         *)
(* Bounds: MaxEvents things that happen by themselves (clicks, reloads,    *)
(* changes at the server, failed loads of the configuration); at most one  *)
(* sign-in in flight and one superseded call followed.                     *)
(***************************************************************************)
EXTENDS Access, ApiClient, FiniteSets

CONSTANTS People, RoleOf, EffOf, ToolUsers, Totp,  \* accounts; a token is named by its account
          Changing,      \* accounts whose role an administrator may change
          Sites,         \* configurations of the domain
          Entrances,     \* addresses a page load may start from
          MaxEvents

ASSUME SessionAssumption ==
  /\ None \notin People \cup [id : People, role : Roles]
  /\ ToolUsers \cup Totp \cup Changing \subseteq People
  /\ RoleOf \in [People -> Roles]
  /\ Calls = {"route", "admin", "login", "stale"}
  /\ Sites \subseteq DomainConfig
  /\ MAX_RETRIES \in Nat /\ MaxEvents \in Nat

VARIABLES loc,            \* location.pathname
          token, user,    \* the auth store (kept in localStorage)
          config,         \* the domain store, None until loaded
          routeFor,       \* the token ProtectedRoute's effect last ran for
          guard,          \* AdminGuard: mounted, verified
          needTotp,       \* LoginPage: the credentials kept for the second form
          role, valid,    \* the server: roles of the accounts, tokens it accepts
          site,           \* the server: the domain's configuration
          wasAdmin,       \* accounts that were admin since AdminGuard was mounted
          events

store == <<token, user>>
page == <<loc, routeFor, guard, needTotp, wasAdmin>>
server == <<role, valid, site>>
vars == <<call, page, store, config, server, events>>

Root == <<>>                          Landing == <<"landing">>
Login == <<"login">>                  AdminLogin == <<"admin", "login">>
Register == <<"register">>            Dashboard == <<"dashboard">>
Kiosk == <<"create-video-pro">>       AdminHub == <<"admin">>
AdminUsers == <<"admin", "users">>

Public == {Landing, Login, AdminLogin, Register}
\* The pages whose component wraps itself in AdminGuard.
Guarded == {AdminUsers} \cup {<<"admin", p>> : p \in {"roles", "plans", "billing", "domains"}}

NoGuard == [on |-> FALSE, verified |-> FALSE]
Admins(r) == {p \in People : r[p] \in {"admin", "super_admin"}}

\* The record /me answers, and what the guards read of the one that is stored.
Me(p) == [id |-> p, role |-> role[p]]
me == IF user = None THEN None
      ELSE [role |-> user.role, tool |-> user.id \in ToolUsers, eff |-> EffOf[user.id],
            features |-> {}]

\* Where a tab can ever be: an entrance, a page of the program or of a domain.
Pages ==
  Entrances \cup Public \cup Guarded \cup {Kiosk, Dashboard} \cup ToSet(LANDING_PREFERENCE)
    \cup {n.to : n \in NAV} \cup UNION {ToSet(s.allowed_pages) : s \in Sites}

TypeOK ==
  /\ loc \in Pages
  /\ token \in People \cup {None}
  /\ user = None \/ user \in [id : People, role : Roles]
  /\ config \in Sites \cup {None, DEFAULT} /\ site \in Sites
  /\ routeFor \in People \cup {None}
  /\ guard \in [on : BOOLEAN, verified : BOOLEAN]
  /\ needTotp \in People \cup {None}
  /\ role \in [People -> Roles] /\ valid \subseteq People /\ wasAdmin \subseteq People
  /\ \A c \in Calls : Idle(c) \/ /\ call[c].pc \in {"sent", "backoff", "back"}
                                 /\ call[c].retryCount \in 0..MAX_RETRIES
                                 /\ call[c].token \in People \cup {None}
  /\ events \in 0..MaxEvents

Init ==
  /\ loc \in Entrances
  /\ token = None /\ user = None /\ config = None
  /\ routeFor = None /\ guard = NoGuard /\ needTotp = None
  /\ role = RoleOf /\ valid = {} /\ site \in Sites /\ wasAdmin = {}
  /\ call = [c \in Calls |-> NoCall] /\ events = 0

Event == events < MaxEvents /\ events' = events + 1

-----------------------------------------------------------------------------
\* What the address shows, and where the guards send it on.

Blocked == effectiveMaintenance(config) /\ ~isAnyAdmin(me)

\* ProtectedRoute renders its children.
Open == /\ loc \notin Public /\ ~Blocked /\ token # None
        /\ IF isToolUser(me) THEN loc = Kiosk ELSE userCanSeePath(me, loc, config)

AdminShown == Open /\ loc \in Guarded /\ isAnyAdmin(me) /\ guard.verified

\* Mutant: a tool user's own page is checked like any other.
ProtectedRouteNoKiosk ==
  IF Blocked THEN loc
  ELSE IF token = None THEN IF config # None /\ ~config.allow_landing THEN Login ELSE Landing
  ELSE IF isToolUser(me) /\ loc # Kiosk THEN Kiosk
  ELSE IF ~userCanSeePath(me, loc, config)
  THEN LET target == firstAllowedPath(config)
       IN IF target # loc /\ isPageAllowed(config, target) THEN target ELSE loc
  ELSE loc

ProtectedRoute ==
  IF Blocked THEN loc
  ELSE IF token = None THEN IF config # None /\ ~config.allow_landing THEN Login ELSE Landing
  ELSE IF isToolUser(me) THEN Kiosk
  ELSE IF ~userCanSeePath(me, loc, config)
  THEN LET target == firstAllowedPath(config)
       IN IF target # loc /\ isPageAllowed(config, target) THEN target ELSE loc
  ELSE IF loc = Root THEN Dashboard
  ELSE IF loc = AdminHub THEN AdminUsers
  ELSE IF loc \in Guarded /\ ~isAnyAdmin(me) THEN Dashboard
  ELSE loc

\* PublicRouteGuard lets the page through, replaces it by a panel, or redirects.
PublicOpen(flag) ==
  config # None => ~Blocked /\ config.status # "disabled" /\ config[flag]
PublicAway(flag) ==
  config # None /\ ~Blocked /\ config.status # "disabled" /\ ~config[flag]

landingOf(u) == IF u # None /\ u.tool THEN Kiosk ELSE firstAllowedPath(config)

LoginPage == IF token # None THEN landingOf(me) ELSE loc

PublicRoute ==
  CASE loc = Landing    -> IF PublicAway("allow_landing") THEN Login ELSE loc
    [] loc = Register   -> IF PublicAway("allow_register") THEN Login
                           ELSE IF PublicOpen("allow_register") /\ token # None
                           THEN firstAllowedPath(config) ELSE loc
    [] loc = Login      -> IF PublicOpen("allow_login") THEN LoginPage ELSE loc
    [] loc = AdminLogin -> LoginPage

Target == IF loc \in Public THEN PublicRoute ELSE ProtectedRoute

-----------------------------------------------------------------------------
\* Leaving a page unmounts what it mounted: effects set their `cancelled`, the
\* sign-in of a form that is gone goes on.

\* Mutant: no clean-up.
unmountedNever(k, p) == k

unmounted(k, p) ==
  [c \in Calls |->
     IF k[c].pc # "idle" /\ (c \in {"admin", "login"} \/ (c = "route" /\ p \in Public))
     THEN [k[c] EXCEPT !.live = FALSE] ELSE k[c]]

\* Mutant: AdminGuard stays mounted from page to page.
leaveGuardKept == guard' = guard /\ wasAdmin' = {}

leaveGuard == guard' = NoGuard /\ wasAdmin' = {}

\* The guards let the page of this address be rendered.
shows ==
  IF loc = Login THEN PublicOpen("allow_login")
  ELSE IF loc = Register THEN PublicOpen("allow_register")
  ELSE loc \in Public \/ Open

\* The tab stays at its address, with the calls k and AdminGuard as g; a page
\* that maintenance or a panel now replaces is unmounted there.
stays(k, g) ==
  IF shows' THEN call' = k /\ guard' = g /\ UNCHANGED <<needTotp, wasAdmin>>
  ELSE call' = unmounted(k, loc) /\ leaveGuard /\ needTotp' = None

\* The address becomes p, with the calls k in flight.
GoWith(k, p) ==
  /\ loc' = p
  /\ IF p = loc THEN stays(k, guard)
     ELSE call' = unmounted(k, p) /\ leaveGuard /\ needTotp' = None
  /\ routeFor' = IF p \in Public THEN None ELSE routeFor

Redirect ==
  /\ UNCHANGED <<store, config, server, events>>
  /\ Target # loc /\ GoWith(call, Target)

\* A new page: everything in memory is lost, the auth store is not.
LoadPage(p) ==
  /\ loc' = p /\ config' = None /\ routeFor' = None /\ needTotp' = None
  /\ leaveGuard /\ call' = [c \in Calls |-> NoCall]

clear == token' = None /\ user' = None

\* clear(); location.href = "/login".
bounce == LoadPage(Login) /\ clear

navigate ==
  /\ Event /\ Target = loc
  /\ UNCHANGED <<store, config, server>>
  /\ \E p \in IF loc \in Public THEN {Landing, Login, Register}
              ELSE IF Open /\ ~isToolUser(me) THEN visibleNav(me, config) ELSE {} :
       p # loc /\ GoWith(call, p)

Reload == Event /\ (\E p \in Entrances : LoadPage(p)) /\ UNCHANGED <<store, server>>

\* AppShell: the store is cleared and "/login" navigated to, while the guard of
\* the page that is still shown sends it away itself.
onLogout ==
  /\ Event /\ Open /\ ~isToolUser(me)
  /\ clear /\ UNCHANGED <<config, server>>
  /\ \E p \in {Login, IF config # None /\ ~config.allow_landing THEN Login ELSE Landing} :
       GoWith(call, p)

\* At boot and every 20 s; a failure opens everything.
load ==
  /\ \/ config' = site /\ UNCHANGED events
     \/ Event /\ config' = DEFAULT
  /\ UNCHANGED <<loc, routeFor, store, server>>
  /\ stays(call, guard)

-----------------------------------------------------------------------------
\* The effects that refresh the user.
ask(c, k) ==
  call' = IF Idle(c) THEN [call EXCEPT ![c] = k] ELSE [call EXCEPT !["stale"] = call[c], ![c] = k]

GetMe == NewCall("get", token, "me")

\* [token] changed, or ProtectedRoute was mounted.
refreshMe ==
  /\ loc \notin Public /\ token # None /\ routeFor # token
  /\ routeFor' = token /\ ask("route", GetMe)
  /\ UNCHANGED <<loc, guard, needTotp, wasAdmin, store, config, server, events>>

mountGuard ==
  /\ Open /\ loc \in Guarded /\ ~guard.on
  /\ guard' = [on |-> TRUE, verified |-> FALSE] /\ wasAdmin' = Admins(role)
  /\ ask("admin", GetMe)
  /\ UNCHANGED <<loc, routeFor, needTotp, store, config, server, events>>

\* The forms.
FormOpen == \/ loc = Login /\ config # None /\ PublicOpen("allow_login") /\ token = None
            \/ loc = AdminLogin /\ token = None

submitLogin(p, code) ==
  /\ Event /\ FormOpen /\ Idle("login")
  /\ IF code = "" THEN needTotp = None ELSE needTotp = p
  /\ call' = [call EXCEPT !["login"] = NewCall("post", None, [who |-> p, code |-> code])]
  /\ UNCHANGED <<page, store, config, server>>

RegisterOpen == loc = Register /\ PublicOpen("allow_register") /\ token = None

submitRegister(p) ==
  /\ Event /\ RegisterOpen /\ Idle("login")
  /\ call' = [call EXCEPT !["login"] = NewCall("post", None, [who |-> p, code |-> "new"])]
  /\ UNCHANGED <<page, store, config, server>>

-----------------------------------------------------------------------------
\* The server.  A sign-in makes a token; /me answers for a token it accepts.
answerMe(c) ==
  /\ call[c].method = "get"
  /\ \/ call[c].token \in valid /\ Reply(c, TRUE, "ok", Me(call[c].token))
     \/ call[c].token \notin valid /\ Reply(c, TRUE, "401", "invalid")
     \/ call[c].token \in ToolUsers /\ Reply(c, TRUE, "403", "wrong_scope_tool_user")
  /\ UNCHANGED valid

\* Wrong credentials and second factors are 401, an account that is taken, out of
\* place or tried too often is another refusal: to the client the same as the
\* failure below.
answerSignIn(c) ==
  /\ call[c].method = "post"
  /\ LET who == call[c].body.who
         code == call[c].body.code
     IN \/ code # "new" /\ Reply(c, TRUE, "401", "wrong") /\ UNCHANGED valid
        \/ /\ who \in Totp /\ code # "new" /\ code # "right"
           /\ Reply(c, TRUE, "401", IF code = "" THEN "totp_required" ELSE "totp_invalid")
           /\ UNCHANGED valid
        \/ /\ who \notin Totp \/ code \in {"new", "right"}
           /\ Reply(c, TRUE, "ok", who) /\ valid' = valid \cup {who}

\* A request that is lost, or whose answer is.
fails(c) ==
  /\ \E handled \in BOOLEAN : Reply(c, handled, "gateway", "none")
  /\ UNCHANGED valid

Serve(c) ==
  /\ call[c].pc = "sent"
  /\ answerMe(c) \/ answerSignIn(c) \/ fails(c)
  /\ UNCHANGED <<page, store, config, role, site, events>>

-----------------------------------------------------------------------------
\* Answers.
Done(c) == [call EXCEPT ![c] = NoCall]

\* Mutant: what is spared is the call of a form, not the page of the form.
endsSessionByCall(k) == k.status \in {"401", "403"} /\ k.method = "get"

\* The response interceptor; 403 stands for the codes of a wrong scope.
endsSession(k) ==
  /\ k.status = "401" \/ (k.status = "403" /\ k.method = "get")
  /\ loc = Root \/ Head(loc) # "login"

\* Mutant: a cancelled effect takes its answer.
takesAnswerAlways(k) == k.status = "ok"

takesAnswer(k) == k.status = "ok" /\ k.live

\* ProtectedRoute: the answer is the user; an error leaves what is cached.
routeAnswered(c) ==
  /\ user' = IF takesAnswer(call[c]) THEN call[c].answer ELSE user
  /\ UNCHANGED <<loc, routeFor, token, config>>
  /\ stays(Done(c), guard)

\* AdminGuard: also who is no admin is stored and sent away; its catch clears
\* the store whether or not it was cancelled.
adminAnswered(c) ==
  LET k == call[c] IN
  \/ /\ takesAnswer(k) /\ user' = k.answer /\ UNCHANGED <<token, config>>
     /\ IF k.answer.role \in {"admin", "super_admin"}
        THEN /\ UNCHANGED <<loc, routeFor>>
             /\ stays(Done(c), [guard EXCEPT !.verified = TRUE])
        ELSE GoWith(Done(c), Dashboard)
  \/ /\ ~takesAnswer(k) /\ k.status = "401"
     /\ clear /\ UNCHANGED config /\ GoWith(Done(c), Login)
  \/ /\ ~takesAnswer(k) /\ k.status # "401" /\ call' = Done(c)
     /\ UNCHANGED <<page, store, config>>

\* LoginPage and RegisterPage: the token, then /me with it, then both are
\* stored and the user sent to the page of the role.
signInAnswered ==
  LET k == call["login"] IN
  \/ /\ k.status = "ok" /\ k.method = "post"
     /\ call' = [call EXCEPT !["login"] = [NewCall("get", k.answer, "me") EXCEPT !.live = k.live]]
     /\ UNCHANGED <<page, store, config>>
  \/ /\ k.status = "ok" /\ k.method = "get"
     /\ token' = k.token /\ user' = k.answer /\ UNCHANGED config
     /\ LET u == [tool |-> k.answer.id \in ToolUsers]
        IN \E p \in {landingOf(u), IF u.tool THEN Kiosk
                                   ELSE IF k.answer.role # "user" THEN Dashboard
                                   ELSE firstAllowedPath(config)} :
             GoWith(Done("login"), p)
  \/ /\ k.status # "ok" /\ call' = Done("login")
     /\ needTotp' = IF /\ k.live /\ loc # Register
                       /\ k.status = "401" /\ k.answer \in {"totp_required", "totp_invalid"}
                    THEN k.body.who ELSE needTotp
     /\ UNCHANGED <<loc, routeFor, guard, wasAdmin, store, config>>

\* A superseded effect of either kind.
Receive(c) ==
  /\ call[c].pc = "back" /\ (call[c].status = "ok" \/ Rejected(call[c]))
  /\ IF endsSession(call[c]) THEN bounce
     ELSE CASE c = "login" -> signInAnswered
            [] c = "admin" -> adminAnswered(c)
            [] c = "route" -> routeAnswered(c)
            [] c = "stale" -> routeAnswered(c) \/ adminAnswered(c)
  /\ UNCHANGED <<server, events>>

retry(c) == Retry(c) /\ UNCHANGED <<page, store, config, server, events>>
resend(c) == Resend(c, token, None) /\ UNCHANGED <<page, store, config, server, events>>

-----------------------------------------------------------------------------
\* The server's own changes.
setRole(p, r) ==
  /\ Event /\ role[p] # r /\ role' = [role EXCEPT ![p] = r]
  /\ wasAdmin' = IF guard.on THEN wasAdmin \cup Admins(role') ELSE wasAdmin
  /\ UNCHANGED <<call, loc, routeFor, guard, needTotp, store, config, valid, site>>

expire(t) ==
  /\ Event /\ t \in valid /\ valid' = valid \ {t}
  /\ UNCHANGED <<call, page, store, config, role, site>>

editSite(s) ==
  /\ Event /\ s # site /\ site' = s
  /\ UNCHANGED <<call, page, store, config, role, valid>>

CallStep(c) == Serve(c) \/ Receive(c) \/ retry(c) \/ resend(c)

Next ==
  \/ Redirect \/ navigate \/ Reload \/ onLogout \/ load
  \/ refreshMe \/ mountGuard
  \/ \E p \in People : submitRegister(p) \/ \E k \in {"", "right", "bad"} : submitLogin(p, k)
  \/ \E c \in Calls : CallStep(c)
  \/ \E p \in Changing, r \in Roles : setRole(p, r)
  \/ \E t \in People : expire(t)
  \/ \E s \in Sites : editSite(s)

Spec == Init /\ [][Next]_vars

\* React renders, and the browser ends every request with an answer or an error.
FairSpec == Spec /\ WF_vars(Redirect) /\ \A c \in Calls : WF_vars(CallStep(c))

-----------------------------------------------------------------------------
(* Properties *)

\* The stored user is the one the token belongs to, whatever /me is late: an
\* answer that was asked for before a sign-out or for another page is dropped.
SessionAgrees == IF token = None THEN user = None ELSE user # None /\ user.id = token

\* An admin page is shown only to an account that was admin at the server at
\* some moment since this page was opened, whatever the stored role says
\* ("Verifies admin role via fresh /me", AdminGuard.tsx:8).
AdminSeenByAdmin == AdminShown => token \in wasAdmin

\* However often calls are repeated, what is posted is handled once.
PostedOnce ==
  \A c \in Calls : ~Idle(c) /\ call[c].method \notin SAFE_METHODS => call[c].served <= 1

\* Asked for a second factor, the login page keeps the credentials until they
\* sign in: no answer, neither the 401 of a wrong code nor a late one to a call
\* of an earlier session, makes it forget them (LoginPage.tsx:60-61: the form
\* for the code comes without losing e-mail and password).  A domain that
\* closes its login, a reload and another page do.
SecondFormKept ==
  [][\A c \in Calls :
       loc = Login /\ token = None /\ needTotp # None /\ Receive(c) =>
         needTotp' = needTotp \/ token' # None]_vars

\* The guards do not send one another round in circles.
RedirectsSettle == Target # loc ~> Target = loc
=============================================================================
