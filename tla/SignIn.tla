------------------------------- MODULE SignIn -------------------------------
(***************************************************************************)
(* A visitor's way through RequireAuthenticated (auth/middleware.go) and the  *)
(* OIDC sign-in (AuthorizeHandler and CallbackHandler of auth/handler.go,     *)
(* auth/oidc.go).                                                             *)
(*                                                                         *)
(* A browser has tabs that share its state cookie and its session.  Several   *)
(* tabs may be in the middle of a sign-in; a callback URL may be opened twice, *)
(* or in another browser than the one that began (an app that hands the link  *)
(* to the system's browser).  The session is one value per browser here; how  *)
(* overlapping requests read and write it is in module Sessions.              *)
(***************************************************************************)
EXTENDS Integers, FiniteSets, SequencesExt

CONSTANTS
    Browsers, Tabs,
    Layouts,            \* the ways in which tabs belong to browsers
    Users, NoUser,
    Members,            \* the tenants of each user
    NoTenant,
    Nonces,             \* what generateState draws from
    Configs,            \* MiddlewareConfig as passed to RequireAuthenticated
    Home                \* the page visitors ask for

ASSUME LayoutAssumption == Layouts \subseteq [Tabs -> Browsers]
ASSUME MembersAssumption == \A u \in Users : NoTenant \notin Members[u]
ASSUME NoneAssumption == NoUser \notin Users
MiddlewareConfig == [mode : {"", "api", "ui"}, picker : Seq(STRING),
                     allow : SUBSET [path : Seq(STRING), wild : BOOLEAN]]
ASSUME ConfigsAssumption == Configs \subseteq MiddlewareConfig
\* A value is drawn again once nothing refers to it, so that this bounds what is in
\* use at a time and not how many sign-ins there are.
ASSUME FreshAssumption == IsFiniteSet(Nonces) /\ Cardinality(Nonces) > Cardinality(Tabs)

\* generateState: 24 random bytes do not collide, so the browser for which a value was
\* generated is part of it here.  An authorization request yields one code at most,
\* which is therefore named by the state of the request.
States == Browsers \X Nonces
NoState == <<>>
BrowserOfState(s) == s[1]

Tenants == UNION {Members[u] : u \in Users}

VARIABLES
    config,     \* the middleware's configuration, with its defaults
    browserOf,  \* the browser of each tab
    cookie,     \* the state cookie of each browser
    session,    \* its session: user, active tenant, (history) browser and user of its sign-in
    tab         \* each tab: what it is about to do, for which path, in which sign-in

vars == <<config, browserOf, cookie, session, tab>>

\* A sign-in: its state; the user who authenticated at the provider, from when on it
\* has a code; whether the provider has taken that code.
NoFlow == [state |-> NoState, user |-> NoUser, spent |-> FALSE]
NoSession == [user |-> NoUser, tenant |-> NoTenant, from |-> <<>>]
Visiting(path) == [at |-> "visit", path |-> path, flow |-> NoFlow, redirects |-> 0]

\* A browser gives up after so many redirects of the gate in a row.
MaxRedirects == 2

-----------------------------------------------------------------------------
(* Configuration of the middleware.  A path is a sequence of segments and a   *)
(* pattern with wild = TRUE is a path followed by "/*".  <<>> and "" stand    *)
(* for a field left empty.                                                 *)

DefaultTenantPickerPath == <<"auth", "tenants">>
DefaultTenantSelectPath == <<"auth", "tenant", "select">>
DefaultAllow(paths) == {[path |-> p, wild |-> FALSE] : p \in paths}

\* Mutant: the picker is missing from the default list.
WithDefaultsSelectOnly(c) ==
    [c EXCEPT !.picker = IF @ = <<>> THEN DefaultTenantPickerPath ELSE @,
              !.mode = IF @ = "" THEN "api" ELSE @,
              !.allow = IF @ = {} THEN DefaultAllow({DefaultTenantSelectPath}) ELSE @]
\* The default list names the default picker, also when another one is configured.
WithDefaults(c) ==
    [c EXCEPT !.picker = IF @ = <<>> THEN DefaultTenantPickerPath ELSE @,
              !.mode = IF @ = "" THEN "api" ELSE @,
              !.allow = IF @ = {} THEN DefaultAllow({DefaultTenantPickerPath,
                                                     DefaultTenantSelectPath})
                        ELSE @]

IsTenantOptionalPath(path, allow) ==
    \E p \in allow : IF p.wild THEN IsStrictPrefix(p.path, path) ELSE path = p.path

Init ==
    /\ config \in {WithDefaults(c) : c \in Configs}
    /\ browserOf \in Layouts
    /\ cookie = [b \in Browsers |-> NoState]
    /\ session = [b \in Browsers |-> NoSession]
    /\ tab = [t \in Tabs |-> Visiting(Home)]

-----------------------------------------------------------------------------

Session(t) == session[browserOf[t]]
Cookie(t) == cookie[browserOf[t]]
At(t, place) == tab[t].at = place
Go(t, place) == tab' = [tab EXCEPT ![t].at = place]
Show(t, path) == tab' = [tab EXCEPT ![t] = [Visiting(path) EXCEPT !.at = "shown"]]
Redirect(t, path) == tab' = [tab EXCEPT ![t] = Visiting(path)]

\* The values generated for t's browser that nobody holds; t leaves its own sign-in.
FreshStates(t) == {s \in {browserOf[t]} \X Nonces :
                      /\ Cookie(t) # s
                      /\ \A other \in Tabs \ {t} : tab[other].flow.state # s}

\* RequireAuthenticated around the application's pages.  ModeAPI answers 401 and 409.
RequireAuthenticated(t) ==
    /\ At(t, "visit")
    /\ LET path == tab[t].path
           refuse == config.mode = "api" /\ Go(t, "error")
           allowed == Session(t).tenant # NoTenant \/ IsTenantOptionalPath(path, config.allow)
       IN \/ Session(t).user = NoUser /\ (refuse \/ (config.mode = "ui" /\ Go(t, "login")))
          \/ /\ Session(t).user # NoUser /\ ~allowed
             /\ \/ refuse
                \/ config.mode = "ui" /\ tab[t].redirects = MaxRedirects /\ Go(t, "error")
                \/ /\ config.mode = "ui" /\ tab[t].redirects < MaxRedirects
                   /\ tab' = [tab EXCEPT ![t].path = config.picker, ![t].redirects = @ + 1]
          \/ Session(t).user # NoUser /\ allowed /\ Show(t, path)
    /\ UNCHANGED <<config, browserOf, cookie, session>>

\* AuthorizeHandler: the response sets the cookie, over that of another tab, and
\* sends the browser to the provider.  It is open to visitors who are signed in, and is
\* where a client goes that was answered 401.
Authorize(t) ==
    /\ At(t, "login") \/ At(t, "shown") \/ At(t, "error")
    /\ \/ \E s \in FreshStates(t) :
             /\ cookie' = [cookie EXCEPT ![browserOf[t]] = s]
             /\ tab' = [tab EXCEPT ![t].at = "provider", ![t].flow = [NoFlow EXCEPT !.state = s]]
       \/ Go(t, "error") /\ UNCHANGED cookie
    /\ UNCHANGED <<config, browserOf, session>>

\* The provider authenticates somebody and redirects to the callback URL.
Authenticate(t, u) ==
    /\ At(t, "provider")
    /\ tab' = [tab EXCEPT ![t].at = "callback", ![t].flow = [@ EXCEPT !.user = u]]
    /\ UNCHANGED <<config, browserOf, cookie, session>>

\* Mutant: a missing cookie is tolerated.
CallbackTolerant(t) ==
    /\ At(t, "callback")
    /\ Go(t, IF Cookie(t) \in {tab[t].flow.state, NoState} THEN "exchange" ELSE "error")
    /\ UNCHANGED <<config, browserOf, cookie, session>>
\* CallbackHandler: the state of the URL against the cookie that came with it.  The
\* cookie is cleared by the response, so it outlives this check.
Callback(t) ==
    /\ At(t, "callback")
    /\ Go(t, IF Cookie(t) = tab[t].flow.state THEN "exchange" ELSE "error")
    /\ UNCHANGED <<config, browserOf, cookie, session>>

\* The answer to a callback that passed the state check clears the cookie, whichever
\* it is by now.
Answer(t, place) ==
    /\ Go(t, place)
    /\ cookie' = [cookie EXCEPT ![browserOf[t]] = NoState]

\* Exchange: the provider takes a code once, from whichever tab; the call may fail,
\* also after that.
Exchange(t) ==
    /\ At(t, "exchange")
    /\ \/ /\ ~tab[t].flow.spent
          /\ \E place \in {"claims", "error"} :
                /\ tab' = [x \in Tabs |->
                             [tab[x] EXCEPT !.at = IF x = t THEN place ELSE @,
                                            !.flow = IF @.state = tab[t].flow.state
                                                     THEN [@ EXCEPT !.spent = TRUE] ELSE @]]
                /\ cookie' = IF place = "claims" THEN cookie
                             ELSE [cookie EXCEPT ![browserOf[t]] = NoState]
       \/ Answer(t, "error")
    /\ UNCHANGED <<config, browserOf, session>>

\* Mutant: the subject of the user info is taken without a look at the ID token.
ResolveSubjectFromUserInfo(idToken, userInfo) == IF userInfo = NoUser THEN idToken ELSE userInfo
\* resolveSubjectFromClaims: a user info without subject is accepted.
ResolveSubject(idToken, userInfo) ==
    IF userInfo \in {NoUser, idToken} THEN idToken ELSE NoUser

\* The end of CallbackHandler.  Without a tenant a browser is sent to the picker
\* (handleTenantSelectionRequired), a client that takes no HTML gets a 409.
SignInAs(t, u) ==
    LET m == Members[u]
        tenant == IF Cardinality(m) = 1 THEN CHOOSE x \in m : TRUE ELSE NoTenant
    IN IF m = {} THEN Answer(t, "error") /\ UNCHANGED session
       ELSE /\ session' = [session EXCEPT ![browserOf[t]] =
                              [user |-> u, tenant |-> tenant,
                               from |-> <<BrowserOfState(tab[t].flow.state), tab[t].flow.user>>]]
            /\ cookie' = [cookie EXCEPT ![browserOf[t]] = NoState]
            /\ \/ tenant # NoTenant /\ Redirect(t, Home)
               \/ tenant = NoTenant /\ (Redirect(t, config.picker) \/ Go(t, "error"))

\* The ID token names the user who authenticated; the user info endpoint may name
\* nobody or somebody else.  Any of the calls may fail.
Claims(t) ==
    /\ At(t, "claims")
    /\ \/ Answer(t, "error") /\ UNCHANGED session
       \/ \E info \in Users \cup {NoUser} :
            LET u == ResolveSubject(tab[t].flow.user, info)
            IN IF u = NoUser THEN Answer(t, "error") /\ UNCHANGED session
               ELSE SignInAs(t, u)
    /\ UNCHANGED <<config, browserOf>>

\* Mutant: the tenant of the request is stored without a look at the memberships.
SelectTenantUnchecked(t) ==
    /\ At(t, "shown")
    /\ \/ \E m \in Tenants :
             /\ Session(t).user # NoUser
             /\ session' = [session EXCEPT ![browserOf[t]].tenant = m]
             /\ Redirect(t, Home)
       \/ Go(t, "error") /\ UNCHANGED session
    /\ UNCHANGED <<config, browserOf, cookie>>
\* SelectTenantHandler, for the session there is by now: another tab may have signed
\* out, or signed in somebody else, since the page was shown.  A tenant that is not
\* the user's is refused, and the lookup may fail.
SelectTenant(t) ==
    /\ At(t, "shown")
    /\ \/ \E m \in Tenants :
             /\ Session(t).user # NoUser /\ m \in Members[Session(t).user]
             /\ session' = [session EXCEPT ![browserOf[t]].tenant = m]
             /\ Redirect(t, Home)
       \/ Go(t, "error") /\ UNCHANGED session
    /\ UNCHANGED <<config, browserOf, cookie>>

\* LogoutHandler.  The provider's page, if there is one, leads back here as well.
Logout(t) ==
    /\ At(t, "shown")
    /\ \/ session' = [session EXCEPT ![browserOf[t]] = NoSession] /\ Redirect(t, Home)
       \/ Go(t, "error") /\ UNCHANGED session
    /\ UNCHANGED <<config, browserOf, cookie>>

\* The user starts again, loads a failed callback once more, or opens the callback
\* URL of another tab.
Revisit(t) ==
    /\ At(t, "shown") \/ At(t, "error") \/ At(t, "login") \/ At(t, "provider")
    /\ Redirect(t, Home)
    /\ UNCHANGED <<config, browserOf, cookie, session>>

Reload(t) ==
    /\ At(t, "error") /\ tab[t].flow.user # NoUser
    /\ Go(t, "callback")
    /\ UNCHANGED <<config, browserOf, cookie, session>>

OpenLink(t, other) ==
    /\ At(t, "shown") \/ At(t, "error")
    /\ tab[other].flow.user # NoUser
    /\ tab' = [tab EXCEPT ![t] = [tab[other] EXCEPT !.at = "callback"]]
    /\ UNCHANGED <<config, browserOf, cookie, session>>

\* The state cookie lives for an hour.
Expire(b) ==
    /\ cookie[b] # NoState
    /\ cookie' = [cookie EXCEPT ![b] = NoState]
    /\ UNCHANGED <<config, browserOf, session, tab>>

Next ==
    \/ \E t \in Tabs :
          \/ RequireAuthenticated(t) \/ Callback(t) \/ Exchange(t) \/ Claims(t)
          \/ Authorize(t) \/ SelectTenant(t) \/ Logout(t) \/ Revisit(t) \/ Reload(t)
          \/ \E u \in Users : Authenticate(t, u)
          \/ \E other \in Tabs \ {t} : OpenLink(t, other)
    \/ \E b \in Browsers : Expire(b)

Spec == Init /\ [][Next]_vars

-----------------------------------------------------------------------------
(* Properties.                                                             *)

\* Tabs, sessions and cookies keep their shape, and a session's tenant is one of its
\* user's, although sign-ins, sign-outs and selections of several tabs overlap.
TypeOK ==
    /\ config \in {WithDefaults(c) : c \in Configs}
    /\ browserOf \in Layouts
    /\ cookie \in [Browsers -> States \cup {NoState}]
    /\ \A t \in Tabs :
          /\ tab[t].at \in {"visit", "shown", "login", "provider", "callback", "exchange",
                            "claims", "error"}
          /\ tab[t].path \in {Home, config.picker}
          /\ \/ tab[t].flow = NoFlow
             \/ tab[t].flow.state \in States /\ (tab[t].flow.user \in Users \/ At(t, "provider"))
    /\ \A b \in Browsers :
          \/ session[b] = NoSession
          \/ /\ session[b].user \in Users
             /\ session[b].tenant \in Members[session[b].user] \cup {NoTenant}

\* A session belongs to the user who authenticated at the provider, in a sign-in that
\* this same browser began, although callback URLs are opened twice and elsewhere.
SignInIsOwn ==
    \A b \in Browsers : session[b].user # NoUser =>
        session[b].from = <<b, session[b].user>>

\* A code is sent to the provider only by the browser whose sign-in it completes:
\* opening the link in another browser costs nothing, the right one can still finish.
CodeIsSpentAtHome ==
    \A t \in Tabs : tab[t].at \in {"exchange", "claims"} => BrowserOfState(tab[t].flow.state) = browserOf[t]

\* The configurations whose tenant picker is itself behind the gate: a list of one's own
\* that leaves it out, and a picker of one's own with the default list, which is not "the
\* tenant picker and select paths" then but two fixed paths (middleware.go:46, 68).
PickerIsShut(c) ==
    IF c.allow = {} THEN c.picker \notin {<<>>, DefaultTenantPickerPath, DefaultTenantSelectPath}
    ELSE LET picker == IF c.picker = <<>> THEN DefaultTenantPickerPath ELSE c.picker
         IN ~IsTenantOptionalPath(picker, c.allow)

\* RequireAuthenticated redirects a visit a second time only under these: otherwise the
\* picker can be shown to whoever is sent there, also when another tab signs in or out
\* between the redirect and the request that follows it.
LoopsOnlyAtShutPicker ==
    \A t \in Tabs : tab[t].redirects > 1 =>
        \E c \in Configs : WithDefaults(c) = config /\ PickerIsShut(c)
=============================================================================
