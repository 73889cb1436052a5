-------------------------- MODULE Sessions_proofs --------------------------
(* Proofs about Sessions, for every value of its constants.                  *)
EXTENDS Sessions, TLAPS, FiniteSetTheorems

Statuses == {"none", "200", "204", "303", "400", "401", "403", "409", "500"}

(* A session that was logged out stays gone: its row is deleted, or another  *)
(* request held its data when it was destroyed.                              *)
Gone(t) == t \in raced \/ store[t].status = "deleted"

(* A token that a cookie, a request or its data names was stored.            *)
Stored(t) == t \in Tokens => store[t].status # "unused"
NamesStored == \A p \in Procs : Stored(req[p].cookie) /\ Stored(sd[p].token)

(* Only a token that was raced has a deleted row that a request may bring    *)
(* back.                                                                     *)
DeletedIsLost == \A t \in Tokens : store[t].status = "deleted" /\ t \notin raced => Holders(t) = {}

(* The data a handler works on are those of the request's cookie, unless     *)
(* that session was already gone when the request arrived.                   *)
OwnData ==
    \A p \in Procs :
       pc[p] = "handle" => \/ sd[p].token = req[p].cookie
                           \/ sd[p].token = NoToken /\ (req[p].cookie \in Tokens => Gone(req[p].cookie))

(* Only handlers that never log out write the session back, and a logout is  *)
(* answered when the session of its cookie is gone.                          *)
LogoutInv ==
    \A p \in Procs :
       /\ pc[p] \notin {"idle"} => req[p].sent \in Requests
       /\ pc[p] = "commit" => req[p].sent.op \in {"login", "callback", "select"}
       /\ pc[p] = "answered" /\ LoggedOut(p) /\ req[p].cookie \in Tokens => Gone(req[p].cookie)

EndedIsGone == \A t \in ended : Gone(t)

(* The inductive invariant.                                                  *)
Inv == TypeOK /\ TenantIsOwn /\ NamesStored /\ DeletedIsLost /\ OwnData /\ LogoutInv /\ EndedIsGone

(* What requests and session data are made of.                               *)
LEMMA RequestFields ==
    ASSUME NEW r \in Requests
    PROVE  /\ r.by \in Browsers
           /\ r.op \in {"login", "callback"} => r.user \in Users
           /\ r.op = "select" => r.tenant \in Tenants
           /\ r.op \in {"login", "callback", "select", "logout", "oidcLogout", "change", "app"}
BY DEF Requests, Routes

LEMMA NoneIsData ==
    /\ NoValues \in Values /\ Consistent(NoValues)
    /\ NoData \in Data /\ NoData.token = NoToken /\ NoData.values = NoValues
    /\ NoValues.user = NoUser
BY DEF NoValues, Values, Consistent, NoData, Data

(* The tenant that is selected at login is one of the user's.                *)
LEMMA LoginTenant ==
    ASSUME NEW u \in Users
    PROVE  /\ TenantAtLogin(u) \in Members[u] \cup {NoTenant}
           /\ TenantAtLogin(u) \in Tenants \cup {NoTenant}
<1>1. Members[u] \subseteq Tenants
  BY MembersAssumption
<1>2. CASE Cardinality(Members[u]) = 1 /\ Members[u] # {}
  BY <1>1, <1>2 DEF TenantAtLogin
<1>3. CASE Cardinality(Members[u]) = 1 /\ Members[u] = {}
  BY <1>3, FS_EmptySet
<1>4. CASE Cardinality(Members[u]) # 1
  BY <1>4 DEF TenantAtLogin
<1> QED BY <1>2, <1>3, <1>4

(* Every handler ends in one of three ways.                                  *)
Replies(p) == \E status \in Statuses :
    /\ Reply(p, status)
    /\ ~(req[p].sent.op = "logout" /\ status = "204")
    /\ ~(req[p].sent.op = "oidcLogout" /\ status = "303")
    /\ ~(req[p].sent.op = "change" /\ status = "200" /\ sd[p] = NoData)
Puts(p) == \E values \in Values, status \in Statuses :
    /\ Put(p, values, status)
    /\ Consistent(values)
    /\ req[p].sent.op \in {"login", "callback", "select"}
Destroys(p) == \E status \in Statuses : Destroy(p, status)

LEMMA HandleKinds ==
    ASSUME Inv, NEW p \in Procs, Handle(p)
    PROVE  /\ pc[p] = "handle" /\ UNCHANGED <<cookie, req>>
           /\ Replies(p) \/ Puts(p) \/ Destroys(p)
<1>1. pc[p] = "handle" /\ UNCHANGED <<cookie, req>>
  BY DEF Handle, Login, Callback, SelectTenant, Logout, OidcLogout, ChangePassword,
     RequireAuthenticated, At
<1> DEFINE r == req[p].sent
           v == sd[p].values
<1>2. r \in Requests /\ v \in Values /\ Consistent(v)
  BY <1>1 DEF Inv, LogoutInv, TypeOK, Data, TenantIsOwn
<1>3. Authenticated(p) => sd[p] # NoData
  BY NoneIsData DEF Authenticated, Claims
<1> HIDE DEF r, v
<1>4. CASE Login(p)
  <2>1. r.user \in Users /\ r.op = "login"
    BY <1>2, <1>4, RequestFields DEF Login, At, r
  <2> DEFINE w == [v EXCEPT !.user = r.user, !.tenant = TenantAtLogin(r.user)]
  <2>2. w \in Values /\ w.user = r.user /\ w.tenant = TenantAtLogin(r.user)
    BY <1>2, <2>1, LoginTenant DEF Values
  <2>3. Consistent(w)
    BY <2>1, <2>2, LoginTenant DEF Consistent
  <2>4. Reply(p, "401") \/ Put(p, w, "200")
    BY <1>4 DEF Login, Claims, r, v
  <2>5. CASE Reply(p, "401")
    BY <1>1, <2>5 DEF Replies, Statuses
  <2>6. CASE Put(p, w, "200")
    <3> HIDE DEF w
    <3> QED BY <1>1, <2>1, <2>2, <2>3, <2>6 DEF Puts, Statuses, r
  <2> QED BY <2>4, <2>5, <2>6
<1>5. CASE Callback(p)
  <2>1. r.user \in Users /\ r.op = "callback"
    BY <1>2, <1>5, RequestFields DEF Callback, At, r
  <2> DEFINE w == [user |-> r.user, tenant |-> TenantAtLogin(r.user), idToken |-> r.user]
  <2>2. w \in Values /\ w.user = r.user /\ w.tenant = TenantAtLogin(r.user)
    BY <2>1, LoginTenant DEF Values
  <2>3. Consistent(w)
    BY <2>1, <2>2, LoginTenant DEF Consistent
  <2>4. \/ Reply(p, "401") \/ Reply(p, "403")
        \/ Put(p, w, "409") \/ Put(p, w, "303")
    BY <1>5 DEF Callback, r
  <2>5. CASE Reply(p, "401") \/ Reply(p, "403")
    BY <1>1, <2>1, <2>5 DEF Replies, Statuses, r
  <2>6. CASE Put(p, w, "409") \/ Put(p, w, "303")
    <3> HIDE DEF w
    <3> QED BY <1>1, <2>1, <2>2, <2>3, <2>6 DEF Puts, Statuses, r
  <2> QED BY <2>4, <2>5, <2>6
<1>6. CASE SelectTenant(p)
  <2>1. r.tenant \in Tenants /\ r.op = "select"
    BY <1>2, <1>6, RequestFields DEF SelectTenant, At, r
  <2> DEFINE w == [v EXCEPT !.tenant = r.tenant]
  <2>2. \/ Reply(p, "401") \/ Reply(p, "403")
        \/ v.user # NoUser /\ r.tenant \in Members[v.user] /\ Put(p, w, "204")
    BY <1>6 DEF SelectTenant, Claims, Authenticated, r, v
  <2>3. CASE Reply(p, "401") \/ Reply(p, "403")
    BY <1>1, <2>1, <2>3 DEF Replies, Statuses, r
  <2>4. CASE v.user # NoUser /\ r.tenant \in Members[v.user] /\ Put(p, w, "204")
    <3>1. w \in Values /\ w.user = v.user /\ w.tenant = r.tenant /\ v.user \in Users
      BY <1>2, <2>1, <2>4 DEF Values
    <3>2. Consistent(w)
      BY <2>4, <3>1 DEF Consistent
    <3> HIDE DEF w
    <3> QED BY <1>1, <2>1, <2>4, <3>1, <3>2 DEF Puts, Statuses, r
  <2> QED BY <2>2, <2>3, <2>4
<1>7. CASE Logout(p)
  <2>1. \/ Reply(p, "401") \/ Reply(p, "500") \/ Destroy(p, "204")
    BY <1>7 DEF Logout
  <2> QED BY <1>1, <1>7, <2>1 DEF Replies, Destroys, Statuses
<1>8. CASE OidcLogout(p)
  BY <1>1, <1>8 DEF OidcLogout, Replies, Destroys, Statuses
<1>9. CASE ChangePassword(p)
  <2>1. \/ Reply(p, "401") \/ Reply(p, "400") \/ Destroy(p, "200")
        \/ sd[p] # NoData /\ Reply(p, "200")
    BY <1>3, <1>9 DEF ChangePassword
  <2>2. req[p].sent.op = "change"
    BY <1>9 DEF ChangePassword, At
  <2> QED BY <1>1, <2>1, <2>2 DEF Replies, Destroys, Statuses
<1>10. CASE RequireAuthenticated(p)
  <2>1. req[p].sent.op = "app" /\ (Reply(p, "401") \/ Reply(p, "409") \/ Reply(p, "200"))
    BY <1>10 DEF RequireAuthenticated, At
  <2> QED BY <1>1, <2>1 DEF Replies, Statuses
<1> QED BY <1>1, <1>4, <1>5, <1>6, <1>7, <1>8, <1>9, <1>10 DEF Handle
(* What has gone stays gone, and what was stored is not unused again, when   *)
(* rows change only in these ways.                                           *)
LEMMA Persistent ==
    ASSUME TypeOK, NEW t \in Tokens, raced \subseteq raced',
           \/ store'[t] = store[t]
           \/ store'[t].status = "deleted"
           \/ store'[t].status = "live" /\ (store[t].status = "deleted" => t \in raced)
    PROVE  (Gone(t) => Gone(t)') /\ (Stored(t) => Stored(t)')
BY DEF Gone, Stored, TypeOK

LEMMA InitInv == ASSUME Init PROVE Inv
<1>1. TypeOK
  BY NoneIsData DEF Init, TypeOK, Data
<1>2. TenantIsOwn
  BY NoneIsData DEF Init, TenantIsOwn
<1>3. NamesStored
  BY NoneIsData, NoneAssumption DEF Init, NamesStored, Stored, NoRequest
<1>4. DeletedIsLost /\ OwnData /\ LogoutInv /\ EndedIsGone
  BY DEF Init, DeletedIsLost, OwnData, LogoutInv, EndedIsGone
<1> QED BY <1>1, <1>2, <1>3, <1>4 DEF Inv

LEMMA LoadInv ==
    ASSUME Inv, NEW p \in Procs, NEW r \in Requests, Load(p, r)
    PROVE  Inv'
<1> DEFINE t == cookie[r.by]
           d == IF Live(t) THEN [token |-> t, values |-> store[t].values] ELSE NoData
<1>1. /\ pc' = [pc EXCEPT ![p] = "handle"]
      /\ req' = [req EXCEPT ![p] = [sent |-> r, cookie |-> t]]
      /\ sd' = [sd EXCEPT ![p] = d]
      /\ UNCHANGED <<store, cookie, resp, ended, raced>>
  BY DEF Load, history
<1>2. t \in Tokens \cup {NoToken} /\ Stored(t)
  BY RequestFields, NoneAssumption DEF Inv, TypeOK, Stored
<1>3. /\ d \in Data /\ Consistent(d.values)
      /\ (d.token = t /\ Live(t)) \/ (d.token = NoToken /\ ~Live(t))
  BY <1>2, NoneIsData DEF Inv, TypeOK, Data, TenantIsOwn, Live
<1> HIDE DEF t, d
<1>4. TypeOK'
  BY <1>1, <1>2, <1>3 DEF Inv, TypeOK
<1>5. TenantIsOwn'
  BY <1>1, <1>3 DEF Inv, TypeOK, TenantIsOwn
<1>6. NamesStored'
  BY <1>1, <1>2, <1>3, NoneAssumption DEF Inv, TypeOK, NamesStored, Stored
<1>7. DeletedIsLost'
  BY <1>1, <1>3, NoneAssumption DEF Inv, TypeOK, DeletedIsLost, Holders, Live
<1>8. OwnData'
  BY <1>1, <1>2, <1>3 DEF Inv, TypeOK, OwnData, Gone, Live, Stored
<1>9. LogoutInv'
  BY <1>1 DEF Inv, TypeOK, LogoutInv, LoggedOut, Gone
<1>10. EndedIsGone'
  BY <1>1 DEF Inv, EndedIsGone, Gone
<1> QED BY <1>4, <1>5, <1>6, <1>7, <1>8, <1>9, <1>10 DEF Inv

LEMMA RepliesInv ==
    ASSUME Inv, NEW p \in Procs, Replies(p), pc[p] = "handle", UNCHANGED <<cookie, req>>
    PROVE  Inv'
<1>1. PICK status \in Statuses :
        /\ Reply(p, status)
        /\ ~(req[p].sent.op = "logout" /\ status = "204")
        /\ ~(req[p].sent.op = "oidcLogout" /\ status = "303")
        /\ ~(req[p].sent.op = "change" /\ status = "200" /\ sd[p] = NoData)
  BY DEF Replies
<1>2. /\ pc' = [pc EXCEPT ![p] = "answered"]
      /\ resp' = [resp EXCEPT ![p] = status]
      /\ UNCHANGED <<store, cookie, req, sd, ended, raced>>
  BY <1>1 DEF Reply, history
<1>3. TypeOK'
  BY <1>2 DEF Inv, TypeOK, Statuses
<1>4. TenantIsOwn' /\ NamesStored'
  BY <1>2 DEF Inv, TenantIsOwn, NamesStored, Stored
<1>5. DeletedIsLost' /\ OwnData' /\ EndedIsGone'
  BY <1>2 DEF Inv, TypeOK, DeletedIsLost, Holders, OwnData, EndedIsGone, Gone
<1>6. LogoutInv'
  BY <1>1, <1>2 DEF Inv, TypeOK, LogoutInv, LoggedOut, Gone
<1> QED BY <1>3, <1>4, <1>5, <1>6 DEF Inv

LEMMA PutsInv ==
    ASSUME Inv, NEW p \in Procs, Puts(p), pc[p] = "handle", UNCHANGED <<cookie, req>>
    PROVE  Inv'
<1>1. PICK v \in Values, status \in Statuses :
        /\ Put(p, v, status)
        /\ Consistent(v)
        /\ req[p].sent.op \in {"login", "callback", "select"}
  BY DEF Puts
<1> DEFINE d == [sd[p] EXCEPT !.values = v]
<1>2. d \in Data /\ d.values = v /\ d.token = sd[p].token
  BY DEF Inv, TypeOK, Data
<1>3. /\ pc' = [pc EXCEPT ![p] = "commit"]
      /\ sd' = [sd EXCEPT ![p] = d]
      /\ resp' = [resp EXCEPT ![p] = status]
      /\ UNCHANGED <<store, cookie, req, ended, raced>>
  BY <1>1 DEF Put, history
<1> HIDE DEF d
<1>4. TypeOK'
  BY <1>2, <1>3 DEF Inv, TypeOK, Statuses
<1>5. TenantIsOwn' /\ NamesStored'
  BY <1>1, <1>2, <1>3 DEF Inv, TypeOK, TenantIsOwn, NamesStored, Stored
<1>6. DeletedIsLost' /\ OwnData' /\ EndedIsGone'
  BY <1>2, <1>3 DEF Inv, TypeOK, DeletedIsLost, Holders, OwnData, EndedIsGone, Gone
<1>7. LogoutInv'
  BY <1>1, <1>3 DEF Inv, TypeOK, LogoutInv, LoggedOut, Gone
<1> QED BY <1>4, <1>5, <1>6, <1>7 DEF Inv
LEMMA DestroysInv ==
    ASSUME Inv, NEW p \in Procs, Destroys(p), pc[p] = "handle", UNCHANGED <<cookie, req>>
    PROVE  Inv'
<1>1. PICK status \in Statuses : Destroy(p, status)
  BY DEF Destroys
<1> DEFINE t == sd[p].token
           gone == [status |-> "deleted", values |-> NoValues]
<1>2. /\ store' = IF t = NoToken THEN store ELSE [store EXCEPT ![t] = gone]
      /\ raced' = raced \cup {s \in {t} \cap Tokens : Holders(s) \ {p} # {}}
      /\ sd' = [sd EXCEPT ![p] = NoData]
      /\ pc' = [pc EXCEPT ![p] = "answered"]
      /\ resp' = [resp EXCEPT ![p] = status]
      /\ UNCHANGED <<cookie, req, ended>>
  BY <1>1 DEF Destroy
<1>3. t \in Tokens \cup {NoToken}
  BY DEF Inv, TypeOK, Data
<1>4. /\ gone \in [status : {"unused", "live", "deleted"}, values : Values]
      /\ gone.status = "deleted" /\ Consistent(gone.values)
  BY NoneIsData
<1> HIDE DEF t, gone
<1>5. \A s \in Tokens : store'[s] = store[s] \/ (store'[s] = gone /\ s = t)
  BY <1>2, <1>3 DEF Inv, TypeOK
<1>6. raced \subseteq raced' /\ raced' \subseteq Tokens
  BY <1>2 DEF Inv, TypeOK
<1>7. \A s \in Tokens : (Gone(s) => Gone(s)') /\ (Stored(s) => Stored(s)')
  BY <1>4, <1>5, <1>6, Persistent DEF Inv
<1>8. TypeOK'
  <2>1. store' \in [Tokens -> [status : {"unused", "live", "deleted"}, values : Values]]
    BY <1>2, <1>3, <1>4 DEF Inv, TypeOK
  <2>2. \A b \in Browsers : cookie'[b] # NoToken => store'[cookie'[b]].status # "unused"
    BY <1>2, <1>4, <1>5 DEF Inv, TypeOK
  <2> QED BY <2>1, <2>2, <1>2, <1>6, NoneIsData DEF Inv, TypeOK, Statuses
<1>9. TenantIsOwn'
  BY <1>2, <1>4, <1>5, NoneIsData DEF Inv, TypeOK, TenantIsOwn
<1>10. NamesStored'
  <2> SUFFICES ASSUME NEW q \in Procs
               PROVE  Stored(req[q].cookie)' /\ Stored(sd[q].token)'
    BY DEF NamesStored
  <2>1. Stored(req[q].cookie) /\ Stored(sd[q].token)
    BY DEF Inv, NamesStored
  <2>2. Stored(req[q].cookie)'
    BY <2>1, <1>2, <1>7 DEF Stored
  <2>3. Stored(sd[q].token)'
    BY <2>1, <1>2, <1>7, NoneIsData, NoneAssumption DEF Inv, TypeOK, Stored
  <2> QED BY <2>2, <2>3
<1>11. DeletedIsLost'
  <2> SUFFICES ASSUME NEW s \in Tokens, store'[s].status = "deleted", s \notin raced'
               PROVE  Holders(s)' = {}
    BY DEF DeletedIsLost
  <2>1. Holders(s)' \subseteq Holders(s) \ {p}
    BY <1>2 DEF Inv, TypeOK, Holders
  <2>2. CASE s = t
    BY <1>2, <2>1, <2>2
  <2>3. CASE s # t
    BY <1>5, <1>6, <2>1, <2>3 DEF Inv, DeletedIsLost
  <2> QED BY <2>2, <2>3
<1>12. OwnData'
  BY <1>2, <1>7 DEF Inv, TypeOK, OwnData
<1>13. LogoutInv'
  <2>1. req[p].cookie \in Tokens => Gone(req[p].cookie)'
    <3>1. CASE t = req[p].cookie
      BY <1>2, <1>4, <3>1, NoneAssumption DEF Inv, TypeOK, Gone
    <3>2. CASE t # req[p].cookie
      BY <1>7, <3>2 DEF Inv, OwnData, t
    <3> QED BY <3>1, <3>2
  <2>2. ASSUME NEW q \in Procs, q # p, pc[q] = "answered", LoggedOut(q)'
        PROVE  LoggedOut(q)
    BY <1>2, <2>2 DEF Inv, TypeOK, LoggedOut
  <2> QED BY <1>2, <1>7, <2>1, <2>2 DEF Inv, TypeOK, LogoutInv
<1>14. EndedIsGone'
  BY <1>2, <1>7 DEF Inv, TypeOK, EndedIsGone
<1> QED BY <1>8, <1>9, <1>10, <1>11, <1>12, <1>13, <1>14 DEF Inv

LEMMA CommitInv ==
    ASSUME Inv, NEW p \in Procs, Commit(p)
    PROVE  Inv'
<1>1. /\ pc[p] = "commit"
      /\ pc' = [pc EXCEPT ![p] = "answered"]
      /\ UNCHANGED <<cookie, req, ended, raced>>
  BY DEF Commit, history
<1>a. req[p].sent.op \in {"login", "callback", "select"}
  BY <1>1 DEF Inv, LogoutInv
<1>2. CASE resp' = [resp EXCEPT ![p] = "500"] /\ sd' = [sd EXCEPT ![p] = NoData] /\ UNCHANGED store
  <2>1. TypeOK'
    BY <1>1, <1>2, NoneIsData DEF Inv, TypeOK
  <2>2. TenantIsOwn' /\ NamesStored'
    BY <1>1, <1>2, NoneIsData, NoneAssumption DEF Inv, TypeOK, TenantIsOwn, NamesStored, Stored
  <2>3. DeletedIsLost' /\ OwnData' /\ EndedIsGone'
    BY <1>1, <1>2 DEF Inv, TypeOK, DeletedIsLost, Holders, OwnData, EndedIsGone, Gone
  <2>4. LogoutInv'
    BY <1>1, <1>a, <1>2 DEF Inv, TypeOK, LogoutInv, LoggedOut, Gone
  <2> QED BY <2>1, <2>2, <2>3, <2>4 DEF Inv
<1>3. ASSUME NEW t \in Tokens,
             IF sd[p].token = NoToken THEN store[t].status = "unused" ELSE t = sd[p].token,
             store' = [store EXCEPT ![t] = [status |-> "live", values |-> sd[p].values]],
             sd' = [sd EXCEPT ![p].token = t], UNCHANGED resp
      PROVE  Inv'
  <2> DEFINE row == [status |-> "live", values |-> sd[p].values]
             d == [sd[p] EXCEPT !.token = t]
  <2>1. /\ row \in [status : {"unused", "live", "deleted"}, values : Values]
        /\ row.status = "live" /\ Consistent(row.values)
        /\ d \in Data /\ d.token = t /\ Consistent(d.values)
    BY DEF Inv, TypeOK, Data, TenantIsOwn
  <2>2. store' = [store EXCEPT ![t] = row] /\ sd' = [sd EXCEPT ![p] = d]
    BY <1>3
  <2> HIDE DEF row, d
  <2>3. store[t].status = "deleted" => t \in raced
    <3>1. CASE sd[p].token = NoToken
      BY <1>3, <3>1
    <3>2. CASE sd[p].token # NoToken
      BY <1>1, <1>3, <3>2 DEF Inv, DeletedIsLost, Holders
    <3> QED BY <3>1, <3>2
  <2>4. \A s \in Tokens : (Gone(s) => Gone(s)') /\ (Stored(s) => Stored(s)')
    BY <1>1, <2>1, <2>2, <2>3, Persistent DEF Inv, TypeOK
  <2>5. TypeOK'
    <3>1. /\ store' \in [Tokens -> [status : {"unused", "live", "deleted"}, values : Values]]
          /\ sd' \in [Procs -> Data]
      BY <2>1, <2>2 DEF Inv, TypeOK
    <3>2. pc' \in [Procs -> {"idle", "handle", "commit", "answered"}]
      BY <1>1 DEF Inv, TypeOK
    <3>3. \A b \in Browsers : cookie[b] # NoToken => store'[cookie[b]].status # "unused"
      BY <2>1, <2>2 DEF Inv, TypeOK
    <3> QED BY <1>1, <1>3, <3>1, <3>2, <3>3 DEF Inv, TypeOK
  <2>6. TenantIsOwn'
    BY <2>1, <2>2 DEF Inv, TypeOK, TenantIsOwn
  <2>7. NamesStored'
    <3> SUFFICES ASSUME NEW q \in Procs
                 PROVE  Stored(req[q].cookie)' /\ Stored(sd[q].token)'
      BY DEF NamesStored
    <3>1. Stored(req[q].cookie) /\ Stored(sd[q].token)
      BY DEF Inv, NamesStored
    <3>2. Stored(req[q].cookie)'
      BY <3>1, <1>1, <2>4 DEF Stored
    <3>3. Stored(sd[q].token)'
      BY <3>1, <2>1, <2>2, <2>4 DEF Inv, TypeOK, Stored
    <3> QED BY <3>2, <3>3
  <2>8. DeletedIsLost'
    <3> SUFFICES ASSUME NEW s \in Tokens, store'[s].status = "deleted", s \notin raced'
                 PROVE  Holders(s)' = {}
      BY DEF DeletedIsLost
    <3>1. s # t /\ store[s].status = "deleted" /\ s \notin raced
      BY <1>1, <2>1, <2>2 DEF Inv, TypeOK
    <3>2. Holders(s)' \subseteq Holders(s)
      BY <1>1, <2>2 DEF Inv, TypeOK, Holders
    <3> QED BY <3>1, <3>2 DEF Inv, DeletedIsLost
  <2>9. OwnData'
    BY <1>1, <2>2, <2>4 DEF Inv, TypeOK, OwnData
  <2>10. LogoutInv'
    <3>1. ASSUME NEW q \in Procs, q # p, LoggedOut(q)'
          PROVE  LoggedOut(q)
      BY <1>1, <1>3, <2>2, <3>1 DEF Inv, TypeOK, LoggedOut
    <3>2. ~LoggedOut(p)'
      BY <1>1, <1>a DEF LoggedOut
    <3> QED BY <1>1, <2>4, <3>1, <3>2 DEF Inv, TypeOK, LogoutInv
  <2>11. EndedIsGone'
    BY <1>1, <2>4 DEF Inv, TypeOK, EndedIsGone
  <2> QED BY <2>5, <2>6, <2>7, <2>8, <2>9, <2>10, <2>11 DEF Inv
<1> QED BY <1>2, <1>3 DEF Commit

LEMMA DeliverInv ==
    ASSUME Inv, NEW p \in Procs, Deliver(p)
    PROVE  Inv'
<1>1. /\ pc[p] = "answered"
      /\ cookie' \in {cookie, SetCookie(p)}
      /\ ended' = ended \cup {t \in {req[p].cookie} \cap Tokens : LoggedOut(p)}
      /\ pc' = [pc EXCEPT ![p] = "idle"]
      /\ req' = [req EXCEPT ![p] = NoRequest]
      /\ sd' = [sd EXCEPT ![p] = NoData]
      /\ resp' = [resp EXCEPT ![p] = "none"]
      /\ UNCHANGED <<store, raced>>
  BY DEF Deliver
<1>2. \A b \in Browsers : cookie'[b] \in {cookie[b], sd[p].token, NoToken}
  BY <1>1 DEF Inv, TypeOK, SetCookie
<1>3. sd[p].token \in Tokens \cup {NoToken} /\ Stored(sd[p].token)
  BY DEF Inv, TypeOK, Data, NamesStored
<1>4. TypeOK'
  <2>1. cookie' \in [Browsers -> Tokens \cup {NoToken}]
    BY <1>1, <1>2, <1>3 DEF Inv, TypeOK, SetCookie
  <2>2. \A b \in Browsers : cookie'[b] # NoToken => store'[cookie'[b]].status # "unused"
    BY <1>1, <1>2, <1>3 DEF Inv, TypeOK, Stored
  <2>3. ended' \subseteq Tokens
    BY <1>1 DEF Inv, TypeOK
  <2> QED BY <1>1, <2>1, <2>2, <2>3, NoneIsData DEF Inv, TypeOK
<1>5. TenantIsOwn' /\ NamesStored'
  BY <1>1, NoneIsData, NoneAssumption DEF Inv, TypeOK, TenantIsOwn, NamesStored, Stored, NoRequest
<1>6. DeletedIsLost' /\ OwnData'
  BY <1>1 DEF Inv, TypeOK, DeletedIsLost, Holders, OwnData, Gone
<1>7. LogoutInv'
  BY <1>1 DEF Inv, TypeOK, LogoutInv, LoggedOut, Gone
<1>8. EndedIsGone'
  BY <1>1 DEF Inv, LogoutInv, EndedIsGone, Gone
<1> QED BY <1>4, <1>5, <1>6, <1>7, <1>8 DEF Inv

LEMMA NextInv == ASSUME Inv, [Next]_vars PROVE Inv'
<1>1. ASSUME NEW p \in Procs, NEW r \in Requests, Load(p, r) PROVE Inv'
  BY <1>1, LoadInv
<1>2. ASSUME NEW p \in Procs, Handle(p) PROVE Inv'
  BY <1>2, HandleKinds, RepliesInv, PutsInv, DestroysInv
<1>3. ASSUME NEW p \in Procs, Commit(p) PROVE Inv'
  BY <1>3, CommitInv
<1>4. ASSUME NEW p \in Procs, Deliver(p) PROVE Inv'
  BY <1>4, DeliverInv
<1>5. CASE UNCHANGED vars
  BY <1>5 DEF vars, Inv, TypeOK, TenantIsOwn, NamesStored, Stored, DeletedIsLost, Holders,
     OwnData, LogoutInv, LoggedOut, EndedIsGone, Gone
<1> QED BY <1>1, <1>2, <1>3, <1>4, <1>5 DEF Next

LEMMA Invariance == Spec => []Inv
<1>1. Init => Inv
  BY InitInv
<1>2. Inv /\ [Next]_vars => Inv'
  BY NextInv
<1> QED BY <1>1, <1>2, PTL DEF Spec

(* Rows, cookies, requests and answers keep their shape, and a cookie only   *)
(* ever names a session that was stored, whatever responses are lost.        *)
THEOREM TypeCorrectness == Spec => []TypeOK
<1>1. Inv => TypeOK
  BY DEF Inv
<1> QED BY <1>1, Invariance, PTL

(* The active tenant of every stored session, and of the data every handler  *)
(* works on, is a tenant of that session's user.                             *)
THEOREM OwnTenant == Spec => []TenantIsOwn
<1>1. Inv => TenantIsOwn
  BY DEF Inv
<1> QED BY <1>1, Invariance, PTL

(* After an answered logout or change of password the session is not live    *)
(* again, unless another request held its data when it was destroyed.        *)
THEOREM LogoutFinality == Spec => []LogoutIsFinal
<1>1. Inv => LogoutIsFinal
  BY DEF Inv, EndedIsGone, Gone, LogoutIsFinal, Live
<1> QED BY <1>1, Invariance, PTL
=============================================================================
