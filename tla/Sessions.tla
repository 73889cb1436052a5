------------------------------ MODULE Sessions ------------------------------
(***************************************************************************)
(* The session a login leaves behind and what the handlers of               *)
(* auth/handler.go and auth/password/handler.go and the middleware           *)
(* RequireAuthenticated make of it.                                          *)
(*                                                                         *)
(* session.Manager wraps the scs library.  LoadAndSave reads the whole       *)
(* session of the request's cookie before the handler runs and writes the    *)
(* whole of it back with the response, if it was modified; Destroy deletes   *)
(* it at once.  The requests of a browser may overlap, and every response    *)
(* may be overtaken or lost.  Sessions do not expire here.                   *)
(*                                                                         *)
(* What the password store and the OIDC provider decide (module             *)
(* PasswordStore, and external) is a choice here.                            *)
(***************************************************************************)
EXTENDS Integers, FiniteSets

CONSTANTS
    Users, NoUser,
    Tenants, NoTenant,
    Members,        \* the tenants each user belongs to
    Browsers,
    Procs,          \* concurrent requests
    Tokens,         \* session tokens (bound on the sessions ever stored)
    NoToken,        \* no cookie
    Ops,            \* the routes that clients call
    Faults          \* "commit", "destroy": calls of the session store that may fail

ASSUME MembersAssumption == Members \in [Users -> SUBSET Tenants]
ASSUME NoneAssumption == NoUser \notin Users /\ NoTenant \notin Tenants /\ NoToken \notin Tokens
ASSUME OpsAssumption == Ops \subseteq {"login", "callback", "select", "logout",
                                       "oidcLogout", "change", "app"}
ASSUME FaultsAssumption == Faults \subseteq {"commit", "destroy"}
ASSUME ProcsAssumption == IsFiniteSet(Procs) /\ IsFiniteSet(Tokens)

VARIABLES
    store,      \* the sessions table: a row for every token
    cookie,     \* the session cookie of each browser
    pc, req,    \* control state and request of each process
    sd,         \* the session data in its context
    resp,       \* its answer
    ended,      \* history: tokens whose logout has been answered
    raced       \* history: tokens destroyed while another request held their data

history == <<ended, raced>>
vars == <<store, cookie, pc, req, sd, resp, ended, raced>>

\* The values of a session: SessionClaims (user, active tenant) and id_token,
\* which stands for the user it was issued to.
Values == [user : Users \cup {NoUser}, tenant : Tenants \cup {NoTenant},
           idToken : Users \cup {NoUser}]
NoValues == [user |-> NoUser, tenant |-> NoTenant, idToken |-> NoUser]

Routes ==
    [op : {"login", "callback"}, by : Browsers, user : Users]
    \cup [op : {"select"}, by : Browsers, tenant : Tenants]
    \cup [op : {"logout", "oidcLogout", "change"}, by : Browsers]
    \cup [op : {"app"}, by : Browsers, tenantOptional : BOOLEAN]
Requests == {r \in Routes : r.op \in Ops}

NoData == [token |-> NoToken, values |-> NoValues]
NoRequest == [sent |-> [op |-> "none"], cookie |-> NoToken]

Init ==
    /\ store = [t \in Tokens |-> [status |-> "unused", values |-> NoValues]]
    /\ cookie = [b \in Browsers |-> NoToken]
    /\ pc = [p \in Procs |-> "idle"]
    /\ req = [p \in Procs |-> NoRequest]
    /\ sd = [p \in Procs |-> NoData]
    /\ resp = [p \in Procs |-> "none"]
    /\ ended = {}
    /\ raced = {}

-----------------------------------------------------------------------------
(* scs.                                                                    *)

Live(t) == t \in Tokens /\ store[t].status = "live"

\* The requests that hold data of token t and may still write it.
Holders(t) == {p \in Procs : pc[p] \in {"handle", "commit"} /\ sd[p].token = t}

\* Tokens are drawn at random: TokenBudget keeps one for every login under way.
LoggingIn == {p \in Procs : /\ pc[p] \in {"handle", "commit"}
                            /\ req[p].sent.op \in {"login", "callback"}}
TokenBudget ==
    Cardinality({t \in Tokens : store[t].status = "unused"}) > Cardinality(LoggingIn)

\* A request arrives with the cookie its browser has (or had: responses that set
\* or expire the cookie may be late or lost), and LoadAndSave reads the session.
\* A cookie whose session is gone gives an empty session with no token.
Load(p, r) ==
    /\ pc[p] = "idle"
    /\ r.op \in {"login", "callback"} => TokenBudget
    /\ LET t == cookie[r.by] IN
       /\ req' = [req EXCEPT ![p] = [sent |-> r, cookie |-> t]]
       /\ sd' = [sd EXCEPT ![p] = IF Live(t)
                                  THEN [token |-> t, values |-> store[t].values]
                                  ELSE NoData]
    /\ pc' = [pc EXCEPT ![p] = "handle"]
    /\ UNCHANGED <<store, cookie, resp, history>>

\* Answer without touching the session.
Reply(p, status) ==
    /\ pc' = [pc EXCEPT ![p] = "answered"]
    /\ resp' = [resp EXCEPT ![p] = status]
    /\ UNCHANGED <<store, sd, history>>

\* session.Put: the data are written back with the response.
Put(p, values, status) ==
    /\ sd' = [sd EXCEPT ![p].values = values]
    /\ pc' = [pc EXCEPT ![p] = "commit"]
    /\ resp' = [resp EXCEPT ![p] = status]
    /\ UNCHANGED <<store, history>>

\* session.Destroy: the row is deleted at once and the cookie expired.
Destroy(p, status) ==
    /\ LET t == sd[p].token IN
       /\ store' = IF t = NoToken THEN store
                   ELSE [store EXCEPT ![t] = [status |-> "deleted", values |-> NoValues]]
       /\ raced' = raced \cup {s \in {t} \cap Tokens : Holders(s) \ {p} # {}}
    /\ sd' = [sd EXCEPT ![p] = NoData]
    /\ pc' = [pc EXCEPT ![p] = "answered"]
    /\ resp' = [resp EXCEPT ![p] = status]
    /\ UNCHANGED ended

\* Mutant: the cookie is set although the session could not be stored.
CommitIgnoringError(p) ==
    /\ pc[p] = "commit"
    /\ \E t \in Tokens :
          /\ IF sd[p].token = NoToken THEN store[t].status = "unused" ELSE t = sd[p].token
          /\ \/ store' = [store EXCEPT ![t] = [status |-> "live", values |-> sd[p].values]]
             \/ "commit" \in Faults /\ UNCHANGED store
          /\ sd' = [sd EXCEPT ![p].token = t]
    /\ pc' = [pc EXCEPT ![p] = "answered"]
    /\ UNCHANGED <<cookie, req, resp, history>>
\* The write back is an upsert: a row deleted in the meantime comes back.
Commit(p) ==
    /\ pc[p] = "commit"
    /\ \/ \E t \in Tokens :
             /\ IF sd[p].token = NoToken THEN store[t].status = "unused"
                                         ELSE t = sd[p].token
             /\ store' = [store EXCEPT ![t] = [status |-> "live", values |-> sd[p].values]]
             /\ sd' = [sd EXCEPT ![p].token = t]
             /\ UNCHANGED resp
       \/ /\ "commit" \in Faults
          /\ resp' = [resp EXCEPT ![p] = "500"]
          /\ sd' = [sd EXCEPT ![p] = NoData]
          /\ UNCHANGED store
    /\ pc' = [pc EXCEPT ![p] = "answered"]
    /\ UNCHANGED <<cookie, req, history>>

-----------------------------------------------------------------------------
(* Handlers.                                                               *)

At(p, op) == pc[p] = "handle" /\ req[p].sent.op = op
Claims(p) == sd[p].values
Authenticated(p) == Claims(p).user # NoUser

\* A single membership is selected at once.
TenantAtLogin(u) ==
    IF Cardinality(Members[u]) = 1 THEN CHOOSE t \in Members[u] : TRUE ELSE NoTenant

\* LoginHandler: the id token of an earlier OIDC login stays in the session.
Login(p) ==
    /\ At(p, "login")
    /\ \/ Reply(p, "401")
       \/ LET u == req[p].sent.user IN
          Put(p, [Claims(p) EXCEPT !.user = u, !.tenant = TenantAtLogin(u)], "200")
    /\ UNCHANGED <<cookie, req>>

\* CallbackHandler, once state, code and subject are accepted.
Callback(p) ==
    /\ At(p, "callback")
    /\ \/ Reply(p, "401")
       \/ LET u == req[p].sent.user IN
          \/ Members[u] = {} /\ Reply(p, "403")
          \/ /\ Members[u] # {}
             /\ Put(p, [user |-> u, tenant |-> TenantAtLogin(u), idToken |-> u],
                    IF TenantAtLogin(u) = NoTenant THEN "409" ELSE "303")
    /\ UNCHANGED <<cookie, req>>

\* Mutant: any tenant may be selected.
SelectUnchecked(p) ==
    /\ At(p, "select")
    /\ \/ ~Authenticated(p) /\ Reply(p, "401")
       \/ /\ Authenticated(p)
          /\ Put(p, [Claims(p) EXCEPT !.tenant = req[p].sent.tenant], "204")
    /\ UNCHANGED <<cookie, req>>
SelectTenant(p) ==
    /\ At(p, "select")
    /\ \/ ~Authenticated(p) /\ Reply(p, "401")
       \/ LET t == req[p].sent.tenant IN
          /\ Authenticated(p)
          /\ \/ t \notin Members[Claims(p).user] /\ Reply(p, "403")
             \/ t \in Members[Claims(p).user]
                /\ Put(p, [Claims(p) EXCEPT !.tenant = t], "204")
    /\ UNCHANGED <<cookie, req>>

\* Mutant: the claims are cleared and the session is kept.
LogoutClearsKey(p) ==
    /\ At(p, "logout")
    /\ \/ ~Authenticated(p) /\ Reply(p, "401")
       \/ Authenticated(p) /\ Put(p, NoValues, "204")
    /\ UNCHANGED <<cookie, req>>
\* LogoutHandler of the password handler.
Logout(p) ==
    /\ At(p, "logout")
    /\ \/ ~Authenticated(p) /\ Reply(p, "401")
       \/ Authenticated(p) /\ Destroy(p, "204")
       \/ Authenticated(p) /\ "destroy" \in Faults /\ Reply(p, "500")
    /\ UNCHANGED <<cookie, req>>

\* LogoutHandler of the OIDC handler does not ask for claims.
OidcLogout(p) ==
    /\ At(p, "oidcLogout")
    /\ \/ Destroy(p, "303")
       \/ "destroy" \in Faults /\ Reply(p, "500")
    /\ UNCHANGED <<cookie, req>>

\* ChangePasswordHandler: refused by the store, or changed; an error of Destroy
\* is ignored.
ChangePassword(p) ==
    /\ At(p, "change")
    /\ \/ ~Authenticated(p) /\ Reply(p, "401")
       \/ Authenticated(p) /\ Reply(p, "400")
       \/ Authenticated(p) /\ Destroy(p, "200")
       \/ Authenticated(p) /\ "destroy" \in Faults /\ Reply(p, "200")
    /\ UNCHANGED <<cookie, req>>

\* RequireAuthenticated, then the application's handler.
RequireAuthenticated(p) ==
    /\ At(p, "app")
    /\ Reply(p, IF ~Authenticated(p) THEN "401"
                ELSE IF Claims(p).tenant = NoTenant /\ ~req[p].sent.tenantOptional THEN "409"
                ELSE "200")
    /\ UNCHANGED <<cookie, req>>

\* The response reaches the browser: Set-Cookie after a commit, an expired
\* cookie after a destroy, nothing otherwise.
Wrote(p) == /\ req[p].sent.op \in {"login", "callback", "select"}
            /\ resp[p] \in {"200", "204", "303", "409"}
Expired(p) == /\ req[p].sent.op \in {"logout", "oidcLogout", "change"}
              /\ resp[p] \in {"200", "204", "303"}
              /\ sd[p] = NoData
SetCookie(p) ==
    [cookie EXCEPT ![req[p].sent.by] =
        IF Wrote(p) THEN sd[p].token ELSE IF Expired(p) THEN NoToken ELSE @]

\* A logout that was answered with success, or a change of password that
\* destroyed the session (ChangePasswordHandler does not report that it failed to).
LoggedOut(p) ==
    \/ req[p].sent.op = "logout" /\ resp[p] = "204"
    \/ req[p].sent.op = "oidcLogout" /\ resp[p] = "303"
    \/ req[p].sent.op = "change" /\ resp[p] = "200" /\ sd[p] = NoData

\* The response arrives, or is lost.
Deliver(p) ==
    /\ pc[p] = "answered"
    /\ cookie' \in {cookie, SetCookie(p)}
    /\ ended' = ended \cup {t \in {req[p].cookie} \cap Tokens : LoggedOut(p)}
    /\ pc' = [pc EXCEPT ![p] = "idle"]
    /\ req' = [req EXCEPT ![p] = NoRequest]
    /\ sd' = [sd EXCEPT ![p] = NoData]
    /\ resp' = [resp EXCEPT ![p] = "none"]
    /\ UNCHANGED <<store, raced>>

Handle(p) == \/ Login(p) \/ Callback(p) \/ SelectTenant(p) \/ Logout(p)
             \/ OidcLogout(p) \/ ChangePassword(p) \/ RequireAuthenticated(p)

Next == \E p \in Procs : \/ \E r \in Requests : Load(p, r)
                         \/ Handle(p) \/ Commit(p) \/ Deliver(p)

Spec == Init /\ [][Next]_vars

-----------------------------------------------------------------------------
(* Properties.                                                             *)

\* Rows, cookies and requests keep their shape, and a cookie names a session
\* that was stored.
Data == [token : Tokens \cup {NoToken}, values : Values]
TypeOK ==
    /\ store \in [Tokens -> [status : {"unused", "live", "deleted"}, values : Values]]
    /\ cookie \in [Browsers -> Tokens \cup {NoToken}]
    /\ pc \in [Procs -> {"idle", "handle", "commit", "answered"}]
    /\ req \in [Procs -> [sent : Requests, cookie : Tokens \cup {NoToken}] \cup {NoRequest}]
    /\ sd \in [Procs -> Data]
    /\ resp \in [Procs -> {"none", "200", "204", "303", "400", "401", "403", "409", "500"}]
    /\ ended \subseteq Tokens /\ raced \subseteq Tokens
    /\ \A b \in Browsers : cookie[b] # NoToken => store[cookie[b]].status # "unused"

\* The active tenant of a session is a tenant of the session's user, also when
\* logins and tenant selections on one session overlap: SelectTenantHandler
\* checks the claims it loaded and writes back those same claims.
Consistent(values) ==
    values.tenant # NoTenant => values.user \in Users /\ values.tenant \in Members[values.user]
TenantIsOwn ==
    /\ \A t \in Tokens : Consistent(store[t].values)
    /\ \A p \in Procs : Consistent(sd[p].values)

\* After a logout or a change of password the session is gone for good, unless
\* another request had already loaded it when it was destroyed.
LogoutIsFinal == \A t \in ended : Live(t) => t \in raced

\* password/handler.go:239-241: Destroy makes that "the cookie token is
\* immediately invalidated"; the token is not "still usable".
LogoutEndsSession == \A t \in ended : ~Live(t)
=============================================================================
