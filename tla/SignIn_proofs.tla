--------------------------- MODULE SignIn_proofs ---------------------------
(***************************************************************************)
(* Whose sign-in a session comes from, for any number of browsers, tabs,     *)
(* users, tenants and configurations.                                        *)
(***************************************************************************)
EXTENDS SignIn, TLAPS

Places == {"visit", "shown", "login", "provider", "callback", "exchange", "claims", "error"}
Flows == [state : States \cup {NoState}, user : Users \cup {NoUser}, spent : BOOLEAN]
SessionRecords == [user : Users \cup {NoUser}, tenant : Tenants \cup {NoTenant},
                   from : {<<>>} \cup (Browsers \X (Users \cup {NoUser}))]
TabRecords(c) == [at : Places, path : {Home, c.picker}, flow : Flows, redirects : Nat]

\* The shape of the state, as far as the argument needs it.
Shape ==
    /\ browserOf \in [Tabs -> Browsers]
    /\ cookie \in [Browsers -> States \cup {NoState}]
    /\ tab \in [Tabs -> TabRecords(config)]
    /\ session \in [Browsers -> SessionRecords]

\* The state cookie of a browser was generated for it.
CookieInv == \A b \in Browsers : cookie[b] # NoState => BrowserOfState(cookie[b]) = b

\* A tab that is in a sign-in, or keeps the link of one, has its state.
FlowInv ==
    \A t \in Tabs : \/ tab[t].flow.user # NoUser
                    \/ tab[t].at \in {"provider", "callback", "exchange", "claims"}
                    => tab[t].flow.state \in States

Inv == Shape /\ CookieInv /\ FlowInv /\ CodeIsSpentAtHome /\ SignInIsOwn

\* An empty cookie is no state, and a state names the browser it was generated for.
LEMMA StateFacts ==
    /\ NoState \notin States
    /\ \A b \in Browsers : \A s \in {b} \X Nonces : s \in States /\ BrowserOfState(s) = b
BY DEF States, NoState, BrowserOfState

\* In the beginning there are no sign-ins.
LEMMA InitInv == Init => Inv
<1> SUFFICES ASSUME Init PROVE Inv
    OBVIOUS
<1>1. Shape
    BY LayoutAssumption
       DEF Init, Shape, TabRecords, SessionRecords, Places, Flows, Visiting, NoFlow, NoSession
<1>2. CookieInv /\ FlowInv /\ CodeIsSpentAtHome /\ SignInIsOwn
    BY DEF Init, CookieInv, FlowInv, CodeIsSpentAtHome, SignInIsOwn, Visiting, NoFlow, NoSession
<1> QED BY <1>1, <1>2 DEF Inv

\* A tab that goes to a place outside the callback, or stays out of it, keeps everything.
LEMMA GoInv ==
    ASSUME Inv, NEW t \in Tabs, NEW place \in Places,
           Go(t, place), UNCHANGED <<config, browserOf>>,
           place \in {"exchange", "claims"} =>
               /\ tab[t].flow.state \in States
               /\ BrowserOfState(tab[t].flow.state) = browserOf[t],
           place \in {"provider", "callback"} => tab[t].flow.state \in States
    PROVE  /\ tab' \in [Tabs -> TabRecords(config')]
           /\ FlowInv' /\ CodeIsSpentAtHome'
BY DEF Inv, Shape, FlowInv, CodeIsSpentAtHome, Go, TabRecords

\* So does one that asks for or shows a page.
LEMMA VisitInv ==
    ASSUME Inv, NEW t \in Tabs, NEW path \in {Home, config.picker},
           NEW place \in {"visit", "shown"},
           tab' = [tab EXCEPT ![t] = [Visiting(path) EXCEPT !.at = place]],
           UNCHANGED <<config, browserOf>>
    PROVE  /\ tab' \in [Tabs -> TabRecords(config')]
           /\ FlowInv' /\ CodeIsSpentAtHome'
<1>1. [Visiting(path) EXCEPT !.at = place]
         = [at |-> place, path |-> path, flow |-> NoFlow, redirects |-> 0]
    BY DEF Visiting
<1>2. NoFlow \in Flows /\ NoFlow.user = NoUser
    BY DEF NoFlow, Flows
<1> QED BY <1>1, <1>2 DEF Inv, Shape, FlowInv, CodeIsSpentAtHome, TabRecords, Places

LEMMA RedirectInv ==
    ASSUME Inv, NEW t \in Tabs, NEW path \in {Home, config.picker},
           Redirect(t, path), UNCHANGED <<config, browserOf>>
    PROVE  /\ tab' \in [Tabs -> TabRecords(config')]
           /\ FlowInv' /\ CodeIsSpentAtHome'
<1>1. Visiting(path) = [Visiting(path) EXCEPT !.at = "visit"]
    BY DEF Visiting
<1> QED BY <1>1, VisitInv DEF Redirect

\* Clearing the cookie of a browser is always safe.
LEMMA ClearInv ==
    ASSUME Inv, NEW b \in Browsers, cookie' = [cookie EXCEPT ![b] = NoState]
    PROVE  cookie' \in [Browsers -> States \cup {NoState}] /\ CookieInv'
BY DEF Inv, Shape, CookieInv

\* Every step keeps the invariant.
LEMMA StepInv == Inv /\ [Next]_vars => Inv'
<1> SUFFICES ASSUME Inv, [Next]_vars PROVE Inv'
    OBVIOUS
<1> USE StateFacts
<1>t. \A t \in Tabs : browserOf[t] \in Browsers /\ tab[t].flow \in Flows
    BY DEF Inv, Shape, TabRecords
<1>1. ASSUME NEW t \in Tabs, RequireAuthenticated(t) PROVE Inv'
    <2>0. UNCHANGED <<config, browserOf, cookie, session>>
        BY <1>1 DEF RequireAuthenticated
    <2>1. tab[t].path \in {Home, config.picker}
        BY DEF Inv, Shape, TabRecords
    <2>2. /\ tab' \in [Tabs -> TabRecords(config')]
          /\ FlowInv' /\ CodeIsSpentAtHome'
        <3>1. CASE Go(t, "error") \/ Go(t, "login")
            BY <2>0, <3>1, GoInv DEF Places
        <3>2. CASE tab' = [tab EXCEPT ![t].path = config.picker, ![t].redirects = @ + 1]
            BY <1>1, <2>0, <3>2
               DEF Inv, Shape, FlowInv, CodeIsSpentAtHome, TabRecords
        <3>3. CASE Show(t, tab[t].path)
            BY <2>0, <2>1, <3>3, VisitInv DEF Show
        <3> QED BY <1>1, <3>1, <3>2, <3>3 DEF RequireAuthenticated
    <2> QED BY <2>0, <2>2 DEF Inv, Shape, CookieInv, SignInIsOwn
<1>2. ASSUME NEW t \in Tabs, Callback(t) PROVE Inv'
    <2>0. UNCHANGED <<config, browserOf, cookie, session>>
        BY <1>2 DEF Callback
    <2>1. tab[t].flow.state \in States
        BY <1>2 DEF Callback, At, Inv, FlowInv
    <2>2. CASE Cookie(t) = tab[t].flow.state /\ Go(t, "exchange")
        <3>1. BrowserOfState(tab[t].flow.state) = browserOf[t]
            BY <1>t, <2>1, <2>2 DEF Cookie, Inv, CookieInv
        <3> QED BY <2>0, <2>1, <2>2, <3>1, GoInv DEF Places, Inv, Shape, CookieInv, SignInIsOwn
    <2>3. CASE Go(t, "error")
        BY <2>0, <2>3, GoInv DEF Places, Inv, Shape, CookieInv, SignInIsOwn
    <2> QED BY <1>2, <2>2, <2>3 DEF Callback
<1>3. ASSUME NEW t \in Tabs, Exchange(t) PROVE Inv'
    <2>0. UNCHANGED <<config, browserOf, session>>
        BY <1>3 DEF Exchange
    <2>1. CASE Answer(t, "error")
        BY <1>t, <2>0, <2>1, GoInv, ClearInv DEF Answer, Places, Inv, Shape, SignInIsOwn
    <2>2. ASSUME NEW place \in {"claims", "error"},
                 tab' = [x \in Tabs |->
                           [tab[x] EXCEPT !.at = IF x = t THEN place ELSE @,
                                          !.flow = IF @.state = tab[t].flow.state
                                                   THEN [@ EXCEPT !.spent = TRUE] ELSE @]],
                 cookie' = IF place = "claims" THEN cookie
                           ELSE [cookie EXCEPT ![browserOf[t]] = NoState]
          PROVE  Inv'
        <3>1. \A x \in Tabs : /\ tab'[x].flow.state = tab[x].flow.state
                              /\ tab'[x].flow.user = tab[x].flow.user
                              /\ tab'[x].at = IF x = t THEN place ELSE tab[x].at
                              /\ tab'[x] \in TabRecords(config)
            <4> SUFFICES ASSUME NEW x \in Tabs
                         PROVE  /\ tab'[x].flow.state = tab[x].flow.state
                                /\ tab'[x].flow.user = tab[x].flow.user
                                /\ tab'[x].at = IF x = t THEN place ELSE tab[x].at
                                /\ tab'[x] \in TabRecords(config)
                OBVIOUS
            <4> DEFINE f == IF tab[x].flow.state = tab[t].flow.state
                            THEN [tab[x].flow EXCEPT !.spent = TRUE] ELSE tab[x].flow
            <4>1. /\ f \in Flows /\ f.state = tab[x].flow.state /\ f.user = tab[x].flow.user
                BY <1>t DEF Flows
            <4>2. tab'[x] = [tab[x] EXCEPT !.at = IF x = t THEN place ELSE tab[x].at, !.flow = f]
                BY <2>2
            <4>3. tab[x] \in TabRecords(config)
                BY DEF Inv, Shape
            <4> HIDE DEF f
            <4> QED BY <4>1, <4>2, <4>3 DEF TabRecords, Places
        <3>2. tab[t].at = "exchange"
            BY <1>3 DEF Exchange, At
        <3>3. FlowInv' /\ CodeIsSpentAtHome'
            BY <2>0, <3>1, <3>2 DEF Inv, FlowInv, CodeIsSpentAtHome
        <3>4. cookie' \in [Browsers -> States \cup {NoState}] /\ CookieInv'
            BY <1>t, <2>2, ClearInv DEF Inv, Shape, CookieInv
        <3>5. tab' \in [Tabs -> TabRecords(config')]
            BY <2>0, <2>2, <3>1
        <3> QED BY <2>0, <3>3, <3>4, <3>5 DEF Inv, Shape, SignInIsOwn
    <2> QED BY <1>3, <2>1, <2>2 DEF Exchange
<1>4. ASSUME NEW t \in Tabs, Claims(t) PROVE Inv'
    <2>0. UNCHANGED <<config, browserOf>> /\ tab[t].at = "claims"
        BY <1>4 DEF Claims, At
    <2>1. CASE Answer(t, "error") /\ UNCHANGED session
        BY <1>t, <2>0, <2>1, GoInv, ClearInv DEF Answer, Places, Inv, Shape, SignInIsOwn
    <2>2. ASSUME NEW info \in Users \cup {NoUser},
                 ResolveSubject(tab[t].flow.user, info) # NoUser,
                 SignInAs(t, ResolveSubject(tab[t].flow.user, info))
          PROVE  Inv'
        <3> DEFINE u == tab[t].flow.user
        <3>1. ResolveSubject(u, info) = u
            BY <2>2 DEF ResolveSubject
        <3>2. BrowserOfState(tab[t].flow.state) = browserOf[t]
            BY <2>0 DEF Inv, CodeIsSpentAtHome
        <3>c. u \in Users
            BY <1>t, <2>2, <3>1 DEF Flows
        <3>a. CASE Answer(t, "error") /\ UNCHANGED session
            BY <2>1, <3>a
        <3>b. CASE ~(Answer(t, "error") /\ UNCHANGED session)
          <4>3. PICK tenant \in Tenants \cup {NoTenant} :
                 /\ session' = [session EXCEPT ![browserOf[t]] =
                                   [user |-> u, tenant |-> tenant, from |-> <<browserOf[t], u>>]]
                 /\ cookie' = [cookie EXCEPT ![browserOf[t]] = NoState]
                 /\ Redirect(t, Home) \/ Redirect(t, config.picker) \/ Go(t, "error")
            BY <2>2, <3>1, <3>2, <3>b, <3>c DEF SignInAs, Tenants
          <4>4. session' \in [Browsers -> SessionRecords] /\ SignInIsOwn'
            BY <1>t, <2>0, <3>c, <4>3 DEF Inv, Shape, SignInIsOwn, SessionRecords
          <4>5. /\ tab' \in [Tabs -> TabRecords(config')]
                /\ FlowInv' /\ CodeIsSpentAtHome'
            BY <2>0, <4>3, GoInv, RedirectInv DEF Places
          <4> QED BY <1>t, <2>0, <4>3, <4>4, <4>5, ClearInv DEF Inv, Shape
        <3> QED BY <3>a, <3>b
    <2> QED BY <1>4, <2>1, <2>2 DEF Claims
<1>5. ASSUME NEW t \in Tabs, Authorize(t) PROVE Inv'
    <2>0. UNCHANGED <<config, browserOf, session>>
        BY <1>5 DEF Authorize
    <2>1. CASE Go(t, "error") /\ UNCHANGED cookie
        BY <2>0, <2>1, GoInv DEF Places, Inv, Shape, CookieInv, SignInIsOwn
    <2>2. CASE ~(Go(t, "error") /\ UNCHANGED cookie)
        <3>1. PICK s \in FreshStates(t) :
                 /\ cookie' = [cookie EXCEPT ![browserOf[t]] = s]
                 /\ tab' = [tab EXCEPT ![t].at = "provider", ![t].flow = [NoFlow EXCEPT !.state = s]]
            BY <1>5, <2>2 DEF Authorize
        <3>2. s \in States /\ BrowserOfState(s) = browserOf[t]
            BY <1>t DEF FreshStates
        <3>3. cookie' \in [Browsers -> States \cup {NoState}] /\ CookieInv'
            BY <1>t, <3>1, <3>2 DEF Inv, Shape, CookieInv
        <3>4. [NoFlow EXCEPT !.state = s] \in Flows /\ [NoFlow EXCEPT !.state = s].state = s
            BY <3>2 DEF NoFlow, Flows
        <3>5. tab' \in [Tabs -> TabRecords(config')] /\ FlowInv' /\ CodeIsSpentAtHome'
            <4> DEFINE f == [NoFlow EXCEPT !.state = s]
            <4>1. f \in Flows /\ f.state = s
                BY <3>4
            <4>2. tab' = [tab EXCEPT ![t].at = "provider", ![t].flow = f]
                BY <3>1
            <4> HIDE DEF f
            <4>3. \A x \in Tabs : /\ tab'[x] \in TabRecords(config)
                                  /\ x # t => tab'[x] = tab[x]
                                  /\ tab'[t].at = "provider" /\ tab'[t].flow.state = s
                BY <4>1, <4>2 DEF Inv, Shape, TabRecords, Places
            <4>4. tab' \in [Tabs -> TabRecords(config')]
                BY <2>0, <4>2, <4>3 DEF Inv, Shape
            <4>5. FlowInv' /\ CodeIsSpentAtHome'
                BY <2>0, <3>2, <4>3 DEF Inv, FlowInv, CodeIsSpentAtHome
            <4> QED BY <4>4, <4>5
        <3> QED BY <2>0, <3>3, <3>5 DEF Inv, Shape, SignInIsOwn
    <2> QED BY <2>1, <2>2
<1>6. ASSUME NEW t \in Tabs, SelectTenant(t) PROVE Inv'
    <2>0. UNCHANGED <<config, browserOf, cookie>>
        BY <1>6 DEF SelectTenant
    <2>1. session' \in [Browsers -> SessionRecords] /\ SignInIsOwn'
        BY <1>6, <1>t DEF SelectTenant, Inv, Shape, SignInIsOwn, SessionRecords
    <2>2. tab' \in [Tabs -> TabRecords(config')] /\ FlowInv' /\ CodeIsSpentAtHome'
        BY <1>6, <2>0, GoInv, RedirectInv DEF SelectTenant, Places
    <2> QED BY <2>0, <2>1, <2>2 DEF Inv, Shape, CookieInv
<1>7. ASSUME NEW t \in Tabs, Logout(t) PROVE Inv'
    <2>0. UNCHANGED <<config, browserOf, cookie>>
        BY <1>7 DEF Logout
    <2>1. session' \in [Browsers -> SessionRecords] /\ SignInIsOwn'
        BY <1>7, <1>t DEF Logout, Inv, Shape, SignInIsOwn, NoSession, SessionRecords
    <2>2. tab' \in [Tabs -> TabRecords(config')] /\ FlowInv' /\ CodeIsSpentAtHome'
        BY <1>7, <2>0, GoInv, RedirectInv DEF Logout, Places
    <2> QED BY <2>0, <2>1, <2>2 DEF Inv, Shape, CookieInv
<1>8. ASSUME NEW t \in Tabs, Revisit(t) PROVE Inv'
    BY <1>8, RedirectInv DEF Revisit, Inv, Shape, CookieInv, SignInIsOwn
<1>9. ASSUME NEW t \in Tabs, Reload(t) PROVE Inv'
    <2>1. tab[t].flow.state \in States
        BY <1>9 DEF Reload, Inv, FlowInv
    <2> QED BY <1>9, <2>1, GoInv DEF Reload, Places, Inv, Shape, CookieInv, SignInIsOwn
<1>10. ASSUME NEW t \in Tabs, NEW u \in Users, Authenticate(t, u) PROVE Inv'
    <2>0. UNCHANGED <<config, browserOf, cookie, session>>
        BY <1>10 DEF Authenticate
    <2>1. tab[t].at = "provider" /\ tab[t].flow.state \in States
        BY <1>10 DEF Authenticate, At, Inv, FlowInv
    <2> DEFINE f == [tab[t].flow EXCEPT !.user = u]
    <2>a. f \in Flows /\ f.state = tab[t].flow.state
        BY <1>t DEF Flows
    <2>b. tab' = [tab EXCEPT ![t].at = "callback", ![t].flow = f]
        BY <1>10 DEF Authenticate, Inv, Shape, TabRecords
    <2> HIDE DEF f
    <2>2. \A x \in Tabs : /\ tab'[x] \in TabRecords(config)
                          /\ tab'[x].flow.state = tab[x].flow.state
                          /\ x # t => tab'[x] = tab[x]
                          /\ tab'[t].at = "callback"
        BY <2>a, <2>b DEF Inv, Shape, TabRecords, Places
    <2>3. tab' \in [Tabs -> TabRecords(config')]
        BY <1>10, <2>0, <2>2 DEF Authenticate, Inv, Shape
    <2>4. FlowInv' /\ CodeIsSpentAtHome'
        BY <2>0, <2>1, <2>2 DEF Inv, FlowInv, CodeIsSpentAtHome
    <2> QED BY <2>0, <2>3, <2>4 DEF Inv, Shape, CookieInv, SignInIsOwn
<1>11. ASSUME NEW t \in Tabs, NEW other \in Tabs, OpenLink(t, other) PROVE Inv'
    <2>1. tab[other].flow.state \in States
        BY <1>11 DEF OpenLink, Inv, FlowInv
    <2>2. tab' \in [Tabs -> TabRecords(config')] /\ FlowInv' /\ CodeIsSpentAtHome'
        BY <1>11, <2>1
           DEF OpenLink, Inv, Shape, FlowInv, CodeIsSpentAtHome, TabRecords, Places
    <2> QED BY <1>11, <2>2 DEF OpenLink, Inv, Shape, CookieInv, SignInIsOwn
<1>12. ASSUME NEW b \in Browsers, Expire(b) PROVE Inv'
    BY <1>12, ClearInv DEF Expire, Inv, Shape, FlowInv, CodeIsSpentAtHome, SignInIsOwn
<1>13. CASE UNCHANGED vars
    BY <1>13 DEF vars, Inv, Shape, CookieInv, FlowInv, CodeIsSpentAtHome, SignInIsOwn
<1> QED BY <1>1, <1>2, <1>3, <1>4, <1>5, <1>6, <1>7, <1>8, <1>9, <1>10, <1>11, <1>12, <1>13
        DEF Next

\* CallbackHandler and AuthorizeHandler: whoever opens which callback how often, a
\* session is of the user who authenticated in a sign-in that its own browser began.
THEOREM OwnSignIn == Spec => []SignInIsOwn
<1>1. Inv => SignInIsOwn
    BY DEF Inv
<1> QED BY InitInv, StepInv, <1>1, PTL DEF Spec

\* The state check of CallbackHandler: no browser spends the code of another's sign-in.
THEOREM CodesSpentAtHome == Spec => []CodeIsSpentAtHome
<1>1. Inv => CodeIsSpentAtHome
    BY DEF Inv
<1> QED BY InitInv, StepInv, <1>1, PTL DEF Spec

-----------------------------------------------------------------------------
\* What TypeOK says of the sign-in of a tab and of a session.
FlowOK == \A t \in Tabs : \/ tab[t].flow = NoFlow
                          \/ tab[t].flow.state \in States /\ (tab[t].flow.user \in Users \/ At(t, "provider"))
SessionOK == \A b \in Browsers : \/ session[b] = NoSession
                                 \/ /\ session[b].user \in Users
                                    /\ session[b].tenant \in Members[session[b].user] \cup {NoTenant}
ConfigOK == config \in {WithDefaults(c) : c \in Configs} /\ browserOf \in Layouts

LEMMA TypeParts == Inv => (TypeOK <=> ConfigOK /\ FlowOK /\ SessionOK)
<1>1. Inv => /\ cookie \in [Browsers -> States \cup {NoState}]
             /\ \A t \in Tabs : tab[t].at \in Places /\ tab[t].path \in {Home, config.picker}
    BY DEF Inv, Shape, TabRecords
<1> QED BY <1>1 DEF TypeOK, ConfigOK, FlowOK, SessionOK, Places

\* The tabs that a step leaves alone keep their sign-ins.
LEMMA GoFlow ==
    ASSUME Inv, FlowOK, NEW t \in Tabs, NEW place, Go(t, place), ~At(t, "provider")
    PROVE  FlowOK'
<1>1. \A x \in Tabs : tab'[x].flow = tab[x].flow /\ (x # t => tab'[x].at = tab[x].at)
    BY DEF Go, Inv, Shape, TabRecords
<1> QED BY <1>1 DEF FlowOK, At

LEMMA PageFlow ==
    ASSUME Inv, FlowOK, NEW t \in Tabs, NEW path, Redirect(t, path) \/ Show(t, path)
    PROVE  FlowOK'
<1>1. Visiting(path).flow = NoFlow /\ [Visiting(path) EXCEPT !.at = "shown"].flow = NoFlow
    BY DEF Visiting
<1>2. tab'[t].flow = NoFlow /\ \A x \in Tabs \ {t} : tab'[x] = tab[x]
    BY <1>1 DEF Redirect, Show, Inv, Shape
<1> QED BY <1>2 DEF FlowOK, At

\* A sign-in that a tab takes up, at the provider or with a user who authenticated there.
LEMMA TakeFlow ==
    ASSUME Inv, FlowOK, NEW t \in Tabs, \A x \in Tabs \ {t} : tab'[x] = tab[x],
           tab'[t].flow.state \in States, tab'[t].flow.user \in Users \/ tab'[t].at = "provider"
    PROVE  FlowOK'
BY DEF FlowOK, At

LEMMA StepFlow == Inv /\ FlowOK /\ [Next]_vars => FlowOK'
<1> SUFFICES ASSUME Inv, FlowOK, [Next]_vars PROVE FlowOK'
    OBVIOUS
<1>t. \A t \in Tabs : tab[t].flow \in Flows /\ tab[t] \in TabRecords(config)
    BY DEF Inv, Shape, TabRecords
<1>1. ASSUME NEW t \in Tabs, RequireAuthenticated(t) PROVE FlowOK'
    <2>1. CASE Go(t, "error") \/ Go(t, "login")
        BY <1>1, <2>1, GoFlow DEF RequireAuthenticated, At
    <2>2. CASE tab' = [tab EXCEPT ![t].path = config.picker, ![t].redirects = @ + 1]
        <3>1. \A x \in Tabs : tab'[x].flow = tab[x].flow /\ tab'[x].at = tab[x].at
            BY <2>2 DEF Inv, Shape, TabRecords
        <3> QED BY <3>1 DEF FlowOK, At
    <2>3. CASE Show(t, tab[t].path)
        BY <2>3, PageFlow
    <2> QED BY <1>1, <2>1, <2>2, <2>3 DEF RequireAuthenticated
<1>2. ASSUME NEW t \in Tabs, Callback(t) PROVE FlowOK'
    BY <1>2, GoFlow DEF Callback, At
<1>3. ASSUME NEW t \in Tabs, Exchange(t) PROVE FlowOK'
    <2>1. CASE Answer(t, "error")
        BY <1>3, <2>1, GoFlow DEF Exchange, Answer, At
    <2>2. ASSUME NEW place \in {"claims", "error"},
                 tab' = [x \in Tabs |->
                           [tab[x] EXCEPT !.at = IF x = t THEN place ELSE @,
                                          !.flow = IF @.state = tab[t].flow.state
                                                   THEN [@ EXCEPT !.spent = TRUE] ELSE @]]
          PROVE  FlowOK'
        <3>1. tab[t].flow.state \in States /\ tab[t].at = "exchange"
            BY <1>3 DEF Exchange, At, Inv, FlowInv
        <3>2. ASSUME NEW x \in Tabs
              PROVE  /\ tab'[x].flow.state = tab[x].flow.state
                     /\ tab'[x].flow.user = tab[x].flow.user
                     /\ tab[x].flow.state # tab[t].flow.state => tab'[x].flow = tab[x].flow
                     /\ x # t => tab'[x].at = tab[x].at
            <4> DEFINE f == IF tab[x].flow.state = tab[t].flow.state
                            THEN [tab[x].flow EXCEPT !.spent = TRUE] ELSE tab[x].flow
            <4>1. /\ f.state = tab[x].flow.state /\ f.user = tab[x].flow.user
                  /\ tab[x].flow.state # tab[t].flow.state => f = tab[x].flow
                BY <1>t DEF Flows
            <4>2. tab'[x] = [tab[x] EXCEPT !.at = IF x = t THEN place ELSE tab[x].at, !.flow = f]
                BY <2>2
            <4> HIDE DEF f
            <4>3. tab'[x].flow = f /\ (x # t => tab'[x].at = tab[x].at)
                BY <1>t, <4>2 DEF TabRecords
            <4> QED BY <4>1, <4>3
        <3>3. NoFlow.state \notin States
            BY StateFacts DEF NoFlow
        <3> QED BY <3>1, <3>2, <3>3 DEF FlowOK, At
    <2> QED BY <1>3, <2>1, <2>2 DEF Exchange
<1>4. ASSUME NEW t \in Tabs, Claims(t) PROVE FlowOK'
    <2>1. ~At(t, "provider")
        BY <1>4 DEF Claims, At
    <2>2. \/ \E place \in {"error"} : Go(t, place)
          \/ \E path \in {Home, config.picker} : Redirect(t, path)
        <3>1. \A u : SignInAs(t, u) => \/ Go(t, "error")
                                       \/ Redirect(t, Home) \/ Redirect(t, config.picker)
            BY DEF SignInAs, Answer
        <3> QED BY <1>4, <3>1 DEF Claims, Answer
    <2> QED BY <2>1, <2>2, GoFlow, PageFlow
<1>5. ASSUME NEW t \in Tabs, Authorize(t) PROVE FlowOK'
    <2>1. CASE Go(t, "error")
        BY <1>5, <2>1, GoFlow DEF Authorize, At
    <2>2. ASSUME NEW s \in FreshStates(t),
                 tab' = [tab EXCEPT ![t].at = "provider", ![t].flow = [NoFlow EXCEPT !.state = s]]
          PROVE  FlowOK'
        <3>1. s \in States
            BY StateFacts DEF FreshStates, Inv, Shape
        <3> DEFINE f == [NoFlow EXCEPT !.state = s]
        <3>2. f.state = s
            BY DEF NoFlow
        <3>3. tab' = [tab EXCEPT ![t].at = "provider", ![t].flow = f]
            BY <2>2
        <3> HIDE DEF f
        <3>4. /\ tab'[t].flow = f /\ tab'[t].at = "provider"
              /\ \A x \in Tabs \ {t} : tab'[x] = tab[x]
            BY <3>3 DEF Inv, Shape, TabRecords
        <3> QED BY <3>1, <3>2, <3>4, TakeFlow
    <2> QED BY <1>5, <2>1, <2>2 DEF Authorize
<1>6. ASSUME NEW t \in Tabs, SelectTenant(t) \/ Logout(t) \/ Revisit(t) PROVE FlowOK'
    <2>1. Redirect(t, Home) \/ (~At(t, "provider") /\ Go(t, "error"))
        BY <1>6 DEF SelectTenant, Logout, Revisit, At
    <2> QED BY <2>1, GoFlow, PageFlow
<1>7. ASSUME NEW t \in Tabs, Reload(t) PROVE FlowOK'
    BY <1>7, GoFlow DEF Reload, At
<1>8. ASSUME NEW t \in Tabs, NEW u \in Users, Authenticate(t, u) PROVE FlowOK'
    <2>1. tab[t].flow.state \in States
        BY <1>8 DEF Authenticate, At, Inv, FlowInv
    <2> DEFINE f == [tab[t].flow EXCEPT !.user = u]
    <2>2. f.state = tab[t].flow.state /\ f.user = u
        BY <1>t DEF Flows
    <2>3. tab' = [tab EXCEPT ![t].at = "callback", ![t].flow = f]
        BY <1>8, <1>t DEF Authenticate, Inv, Shape, TabRecords
    <2> HIDE DEF f
    <2>4. tab'[t].flow = f /\ \A x \in Tabs \ {t} : tab'[x] = tab[x]
        BY <2>3 DEF Inv, Shape, TabRecords
    <2> QED BY <2>1, <2>2, <2>4, TakeFlow
<1>9. ASSUME NEW t \in Tabs, NEW other \in Tabs, OpenLink(t, other) PROVE FlowOK'
    <2>1. tab[other].flow.state \in States /\ tab[other].flow.user \in Users
        BY <1>9, <1>t DEF OpenLink, Inv, FlowInv, Flows
    <2>2. tab'[t].flow = tab[other].flow /\ \A x \in Tabs \ {t} : tab'[x] = tab[x]
        BY <1>9, <1>t DEF OpenLink, Inv, Shape, TabRecords
    <2> QED BY <2>1, <2>2, TakeFlow
<1>10. CASE UNCHANGED tab
    BY <1>10 DEF FlowOK, At
<1> QED BY <1>1, <1>2, <1>3, <1>4, <1>5, <1>6, <1>7, <1>8, <1>9, <1>10 DEF Next, Expire, vars

LEMMA StepSession == Inv /\ SessionOK /\ [Next]_vars => SessionOK'
<1> SUFFICES ASSUME Inv, SessionOK, [Next]_vars PROVE SessionOK'
    OBVIOUS
<1>t. \A t \in Tabs : browserOf[t] \in Browsers /\ tab[t].flow \in Flows
    BY DEF Inv, Shape, TabRecords
<1>1. ASSUME NEW t \in Tabs, NEW u \in Users, SignInAs(t, u) PROVE SessionOK'
    <2> DEFINE tenant == IF Cardinality(Members[u]) = 1 THEN CHOOSE x \in Members[u] : TRUE ELSE NoTenant
    <2>1. CASE UNCHANGED session
        BY <2>1 DEF SessionOK
    <2>2. CASE session' # session
        <3>1. /\ Members[u] # {}
              /\ session' = [session EXCEPT ![browserOf[t]] =
                               [user |-> u, tenant |-> tenant,
                                from |-> <<BrowserOfState(tab[t].flow.state), tab[t].flow.user>>]]
            BY <1>1, <2>2 DEF SignInAs
        <3>2. tenant \in Members[u] \cup {NoTenant}
            BY <3>1
        <3> HIDE DEF tenant
        <3>3. /\ session'[browserOf[t]].user = u /\ session'[browserOf[t]].tenant = tenant
              /\ \A b \in Browsers \ {browserOf[t]} : session'[b] = session[b]
            BY <1>t, <3>1 DEF Inv, Shape
        <3> QED BY <3>2, <3>3 DEF SessionOK
    <2> QED BY <2>1, <2>2
<1>2. ASSUME NEW t \in Tabs, Claims(t) PROVE SessionOK'
    <2>1. CASE UNCHANGED session
        BY <2>1 DEF SessionOK
    <2>2. ASSUME NEW info \in Users \cup {NoUser}, ResolveSubject(tab[t].flow.user, info) # NoUser,
                 SignInAs(t, ResolveSubject(tab[t].flow.user, info))
          PROVE  SessionOK'
        <3>1. ResolveSubject(tab[t].flow.user, info) \in Users
            BY <1>t, <2>2 DEF ResolveSubject, Flows
        <3> QED BY <1>1, <2>2, <3>1
    <2> QED BY <1>2, <2>1, <2>2 DEF Claims
<1>3. ASSUME NEW t \in Tabs, SelectTenant(t) PROVE SessionOK'
    <2>1. CASE UNCHANGED session
        BY <2>1 DEF SessionOK
    <2>2. ASSUME NEW m \in Tenants, Session(t).user # NoUser, m \in Members[Session(t).user],
                 session' = [session EXCEPT ![browserOf[t]].tenant = m]
          PROVE  SessionOK'
        <3>1. session[browserOf[t]].user \in Users /\ m \in Members[session[browserOf[t]].user]
            BY <1>t, <2>2 DEF Session, SessionOK, NoSession
        <3>2. /\ session'[browserOf[t]].user = session[browserOf[t]].user
              /\ session'[browserOf[t]].tenant = m
              /\ \A b \in Browsers \ {browserOf[t]} : session'[b] = session[b]
            BY <1>t, <2>2 DEF Inv, Shape, SessionRecords
        <3> QED BY <3>1, <3>2 DEF SessionOK
    <2> QED BY <1>3, <2>1, <2>2 DEF SelectTenant
<1>4. ASSUME NEW t \in Tabs, Logout(t) PROVE SessionOK'
    <2>1. UNCHANGED session \/ session' = [session EXCEPT ![browserOf[t]] = NoSession]
        BY <1>4 DEF Logout
    <2> QED BY <1>t, <2>1 DEF SessionOK, Inv, Shape
<1>5. CASE UNCHANGED session
    BY <1>5 DEF SessionOK
<1> QED BY <1>2, <1>3, <1>4, <1>5
        DEF Next, RequireAuthenticated, Callback, Exchange, Authorize, Revisit, Reload, Authenticate,
            OpenLink, Expire, vars

LEMMA InitType == Init => ConfigOK /\ FlowOK /\ SessionOK
BY DEF Init, ConfigOK, FlowOK, SessionOK, Visiting

LEMMA StepConfig == ConfigOK /\ [Next]_vars => ConfigOK'
BY DEF ConfigOK, Next, RequireAuthenticated, Callback, Exchange, Claims, Authorize, SelectTenant, Logout,
       Revisit, Reload, Authenticate, OpenLink, Expire, vars

\* CallbackHandler, SelectTenantHandler and LogoutHandler: the tenant of a session is
\* always one of its user's, however sign-ins and selections of several tabs overlap, and
\* a tab with a callback URL has the state and the user of one sign-in.
THEOREM TypeCorrectness == Spec => []TypeOK
<1>1. Init => Inv /\ ConfigOK /\ FlowOK /\ SessionOK
    BY InitInv, InitType
<1>2. Inv /\ ConfigOK /\ FlowOK /\ SessionOK /\ [Next]_vars
          => (Inv /\ ConfigOK /\ FlowOK /\ SessionOK)'
    BY StepInv, StepConfig, StepFlow, StepSession
<1>3. Inv /\ ConfigOK /\ FlowOK /\ SessionOK => TypeOK
    BY TypeParts
<1> QED BY <1>1, <1>2, <1>3, PTL DEF Spec

-----------------------------------------------------------------------------
\* A picker that is not shut can be shown without a tenant, whatever withDefaults fills in.
LEMMA OpenPicker ==
    ASSUME NEW c \in Configs, ~PickerIsShut(c)
    PROVE  IsTenantOptionalPath(WithDefaults(c).picker, WithDefaults(c).allow)
<1> DEFINE d == WithDefaults(c)
<1>1. c \in MiddlewareConfig
    BY ConfigsAssumption
<1>2. /\ d.picker = IF c.picker = <<>> THEN DefaultTenantPickerPath ELSE c.picker
      /\ d.allow = IF c.allow = {} THEN DefaultAllow({DefaultTenantPickerPath, DefaultTenantSelectPath})
                   ELSE c.allow
    BY <1>1 DEF WithDefaults, MiddlewareConfig
<1> HIDE DEF d
<1>3. CASE c.allow = {}
    <2>1. d.picker \in {DefaultTenantPickerPath, DefaultTenantSelectPath}
        BY <1>2, <1>3 DEF PickerIsShut
    <2>2. [path |-> d.picker, wild |-> FALSE] \in d.allow
        BY <1>2, <1>3, <2>1 DEF DefaultAllow
    <2>3. \E p \in d.allow : p.path = d.picker /\ p.wild = FALSE
        BY <2>2
    <2> QED BY <2>3 DEF IsTenantOptionalPath, d
<1>4. CASE c.allow # {}
    BY <1>2, <1>4 DEF PickerIsShut, d
<1> QED BY <1>3, <1>4

\* A tab that was redirected asks for the picker.
LoopInv ==
    /\ \A t \in Tabs : tab[t].redirects > 0 => tab[t].path = config.picker
    /\ LoopsOnlyAtShutPicker

LEMMA StepLoop ==
    ASSUME Inv, ConfigOK, LoopInv, [Next]_vars
    PROVE  LoopInv'
<1>t. \A t \in Tabs : tab[t] \in TabRecords(config)
    BY DEF Inv, Shape
<1>c. config' = config
    BY DEF Next, RequireAuthenticated, Callback, Exchange, Claims, Authorize, SelectTenant, Logout,
           Revisit, Reload, Authenticate, OpenLink, Expire, vars
<1>1. ASSUME \A t \in Tabs : \/ tab'[t].redirects = tab[t].redirects /\ tab'[t].path = tab[t].path
                             \/ tab'[t].redirects = 0
      PROVE  LoopInv'
    <2> SUFFICES ASSUME NEW t \in Tabs
                 PROVE  /\ tab'[t].redirects > 0 => tab'[t].path = config.picker
                        /\ tab'[t].redirects > 1 => \E c \in Configs : WithDefaults(c) = config /\ PickerIsShut(c)
        BY <1>c DEF LoopInv, LoopsOnlyAtShutPicker
    <2>1. CASE tab'[t].redirects = 0
        BY <2>1
    <2>2. CASE tab'[t].redirects = tab[t].redirects /\ tab'[t].path = tab[t].path
        BY <2>2 DEF LoopInv, LoopsOnlyAtShutPicker
    <2> QED BY <1>1, <2>1, <2>2
<1>2. ASSUME NEW t \in Tabs, NEW place, Go(t, place) PROVE LoopInv'
    BY <1>1, <1>2, <1>t DEF Go, TabRecords, Inv, Shape
<1>3. ASSUME NEW t \in Tabs, NEW path, Redirect(t, path) \/ Show(t, path) PROVE LoopInv'
    <2>1. Visiting(path).redirects = 0 /\ [Visiting(path) EXCEPT !.at = "shown"].redirects = 0
        BY DEF Visiting
    <2>2. tab'[t].redirects = 0 /\ \A x \in Tabs \ {t} : tab'[x] = tab[x]
        BY <1>3, <2>1 DEF Redirect, Show, Inv, Shape
    <2> QED BY <1>1, <2>2
<1>4. ASSUME NEW t \in Tabs, RequireAuthenticated(t) PROVE LoopInv'
    <2>1. CASE Go(t, "error") \/ Go(t, "login") \/ Show(t, tab[t].path)
        BY <1>2, <1>3, <2>1
    <2>2. CASE /\ config.mode = "ui" /\ ~IsTenantOptionalPath(tab[t].path, config.allow)
               /\ tab' = [tab EXCEPT ![t].path = config.picker, ![t].redirects = @ + 1]
        <3>1. /\ tab'[t].redirects = tab[t].redirects + 1 /\ tab'[t].path = config.picker
              /\ \A x \in Tabs \ {t} : tab'[x] = tab[x]
            BY <1>t, <2>2 DEF TabRecords, Inv, Shape
        <3>2. PICK c \in Configs : config = WithDefaults(c)
            BY DEF ConfigOK
        <3>3. tab[t].redirects > 0 => PickerIsShut(c)
            BY <2>2, <3>2, OpenPicker DEF LoopInv
        <3>4. tab[t].redirects \in Nat
            BY <1>t DEF TabRecords
        <3>5. tab'[t].redirects > 1 => WithDefaults(c) = config /\ PickerIsShut(c)
            BY <3>1, <3>2, <3>3, <3>4
        <3> QED BY <1>c, <3>1, <3>5 DEF LoopInv, LoopsOnlyAtShutPicker
    <2> QED BY <1>4, <2>1, <2>2 DEF RequireAuthenticated
<1>5. ASSUME NEW t \in Tabs, Callback(t) \/ Claims(t) \/ SelectTenant(t) \/ Logout(t) \/ Revisit(t) \/ Reload(t)
      PROVE  LoopInv'
    <2>1. CASE Claims(t)
        <3>1. \A u : SignInAs(t, u) => \/ Go(t, "error")
                                       \/ Redirect(t, Home) \/ Redirect(t, config.picker)
            BY DEF SignInAs, Answer
        <3> QED BY <1>2, <1>3, <2>1, <3>1 DEF Claims, Answer
    <2>2. CASE Callback(t) \/ SelectTenant(t) \/ Logout(t) \/ Revisit(t) \/ Reload(t)
        BY <1>2, <1>3, <2>2 DEF Callback, SelectTenant, Logout, Revisit, Reload
    <2> QED BY <1>5, <2>1, <2>2
<1>6. ASSUME NEW t \in Tabs, Exchange(t) PROVE LoopInv'
    <2>1. CASE Answer(t, "error")
        BY <1>2, <2>1 DEF Answer
    <2>2. ASSUME NEW place \in {"claims", "error"},
                 tab' = [x \in Tabs |->
                           [tab[x] EXCEPT !.at = IF x = t THEN place ELSE @,
                                          !.flow = IF @.state = tab[t].flow.state
                                                   THEN [@ EXCEPT !.spent = TRUE] ELSE @]]
          PROVE  LoopInv'
        <3>1. ASSUME NEW x \in Tabs
              PROVE  tab'[x].redirects = tab[x].redirects /\ tab'[x].path = tab[x].path
            <4> DEFINE f == IF tab[x].flow.state = tab[t].flow.state
                            THEN [tab[x].flow EXCEPT !.spent = TRUE] ELSE tab[x].flow
            <4>1. tab'[x] = [tab[x] EXCEPT !.at = IF x = t THEN place ELSE tab[x].at, !.flow = f]
                BY <2>2
            <4> HIDE DEF f
            <4> QED BY <1>t, <4>1 DEF TabRecords
        <3> QED BY <1>1, <3>1
    <2> QED BY <1>6, <2>1, <2>2 DEF Exchange
<1>7. ASSUME NEW t \in Tabs, NEW place, NEW f, tab' = [tab EXCEPT ![t].at = place, ![t].flow = f]
      PROVE  LoopInv'
    BY <1>1, <1>7, <1>t DEF TabRecords, Inv, Shape
<1>8. ASSUME NEW t \in Tabs, Authorize(t) PROVE LoopInv'
    BY <1>2, <1>7, <1>8 DEF Authorize
<1>9. ASSUME NEW t \in Tabs, NEW u \in Users, Authenticate(t, u) PROVE LoopInv'
    <2> DEFINE f == [tab[t].flow EXCEPT !.user = u]
    <2>1. tab' = [tab EXCEPT ![t].at = "callback", ![t].flow = f]
        BY <1>9, <1>t DEF Authenticate, Inv, Shape, TabRecords
    <2> QED BY <1>7, <2>1
<1>10. ASSUME NEW t \in Tabs, NEW other \in Tabs, OpenLink(t, other) PROVE LoopInv'
    <2>1. /\ tab'[t].redirects = tab[other].redirects /\ tab'[t].path = tab[other].path
          /\ \A x \in Tabs \ {t} : tab'[x] = tab[x]
        BY <1>10, <1>t DEF OpenLink, Inv, Shape, TabRecords
    <2> QED BY <1>c, <2>1 DEF LoopInv, LoopsOnlyAtShutPicker
<1>11. CASE UNCHANGED tab
    BY <1>1, <1>11
<1> QED BY <1>4, <1>5, <1>6, <1>8, <1>9, <1>10, <1>11 DEF Next, Expire, vars

\* RequireAuthenticated: whatever is configured and whatever other tabs do to the session
\* between a redirect and the request that follows it, nobody is redirected twice unless
\* the configuration is one of the two kinds that put the picker itself behind the gate.
THEOREM LoopsAreConfigured == Spec => []LoopsOnlyAtShutPicker
<1>1. Init => Inv /\ ConfigOK /\ LoopInv
    <2>1. Init => LoopInv
        BY DEF Init, LoopInv, LoopsOnlyAtShutPicker, Visiting
    <2> QED BY <2>1, InitInv, InitType
<1>2. Inv /\ ConfigOK /\ LoopInv /\ [Next]_vars => (Inv /\ ConfigOK /\ LoopInv)'
    BY StepInv, StepConfig, StepLoop
<1>3. LoopInv => LoopsOnlyAtShutPicker
    BY DEF LoopInv
<1> QED BY <1>1, <1>2, <1>3, PTL DEF Spec
=============================================================================
