------------------------ MODULE PasswordStore_proofs ------------------------
(* Proofs about PasswordStore, for every value of its constants.            *)
EXTENDS PasswordStore, TLAPS, FiniteSetTheorems

LoginSteps == LoginTx \cup {"lookup", "begin", "rehash"}
ChangeSteps == {"changeFetch", "changeUser", "changeUpdate", "changeInvalidate"}
ResetSteps == {"resetConsume", "resetUser", "resetUpdate"}
VerifySteps == {"verifyConsume", "verifyUpdate"}

(* What ties a request's control state s to the request r and to what it has *)
(* read, m; a is its answer.                                                 *)
Coherent(s, r, m, a) ==
    /\ s \in LoginSteps => r \in LoginRequests
    /\ s \in ChangeSteps => r \in ChangeRequests
    /\ s \in ResetSteps => r \in ResetRequests
    /\ s \in VerifySteps => r \in VerifyRequests
    /\ s = "forgotLookup" => r \in ForgotRequests
    /\ s \in LoginTx \cup {"begin", "rehash"} => m.user \in Users /\ m.user = r.user
    /\ s # "idle" => a = "none"

RequestInv == \A p \in Procs : Coherent(pc[p], req[p], mem[p], resp[p])

LEMMA RequestFields ==
    ASSUME NEW r \in Requests
    PROVE  /\ r.op \in AllOps
           /\ r.op = "login" => r \in LoginRequests
           /\ r.op = "change" => r \in ChangeRequests /\ r.user \in Users
           /\ r.op = "forgot" => r \in ForgotRequests
           /\ r.op = "reset" => r \in ResetRequests
           /\ r.op = "resend" => r \in ResendRequests /\ r.user \in Users
           /\ r.op = "verify" => r \in VerifyRequests
BY DEF Requests, AllOps, LoginRequests, ChangeRequests, ForgotRequests, ResetRequests,
   ResendRequests, VerifyRequests

(* A step of one request leaves the others alone.                            *)
LEMMA OneRequest ==
    ASSUME RequestsOK, RequestInv, NEW p \in Procs,
           NEW s \in Steps \cup {"idle"}, NEW r \in Requests \cup {NoRequest},
           NEW m \in Mem, NEW x \in Tx, NEW a \in Statuses \cup {"none"},
           pc' = [pc EXCEPT ![p] = s], req' = [req EXCEPT ![p] = r],
           mem' = [mem EXCEPT ![p] = m], tx' = [tx EXCEPT ![p] = x],
           resp' = [resp EXCEPT ![p] = a],
           x.open <=> s \in LoginTx, Coherent(s, r, m, a)
    PROVE  RequestsOK' /\ RequestInv'
<1>1. RequestsOK'
  BY DEF RequestsOK
<1>2. RequestInv'
  BY DEF RequestsOK, RequestInv
<1> QED BY <1>1, <1>2

LEMMA ReplyControl ==
    ASSUME RequestsOK, RequestInv, NEW p \in Procs, NEW status \in Statuses,
           Reply(p, status), req' = req
    PROVE  RequestsOK' /\ RequestInv'
<1>1. NoMem \in Mem /\ NoTx \in Tx /\ ~NoTx.open
  BY LockoutAssumption DEF NoMem, Mem, NoTx, Tx
<1>2. Coherent("idle", req[p], NoMem, status) /\ "idle" \notin LoginTx
  BY DEF Coherent, LoginSteps, LoginTx, ChangeSteps, ResetSteps, VerifySteps
<1>3. req' = [req EXCEPT ![p] = req[p]] /\ req[p] \in Requests \cup {NoRequest}
  BY DEF RequestsOK
<1> QED BY <1>1, <1>2, <1>3, OneRequest DEF Reply

LEMMA GotoControl ==
    ASSUME RequestsOK, RequestInv, NEW p \in Procs, NEW s \in Steps,
           NEW m \in Mem, NEW x \in Tx,
           Goto(p, s), req' = req, pc[p] # "idle",
           mem' = [mem EXCEPT ![p] = m], tx' = [tx EXCEPT ![p] = x],
           x.open <=> s \in LoginTx, Coherent(s, req[p], m, "none")
    PROVE  RequestsOK' /\ RequestInv'
<1>1. resp[p] = "none"
  BY DEF RequestInv, Coherent
<1>2. RequestsOK'
  BY DEF RequestsOK, Goto
<1>3. RequestInv'
  BY <1>1 DEF RequestsOK, RequestInv, Goto
<1> QED BY <1>2, <1>3

LEMMA StayControl ==
    ASSUME RequestsOK, RequestInv, NEW p \in Procs, NEW s \in Steps,
           Goto(p, s), UNCHANGED <<req, mem, tx>>, pc[p] # "idle",
           s \in LoginTx <=> pc[p] \in LoginTx, Coherent(s, req[p], mem[p], "none")
    PROVE  RequestsOK' /\ RequestInv'
<1>1. resp[p] = "none"
  BY DEF RequestInv, Coherent
<1>2. RequestsOK'
  BY DEF RequestsOK, Goto
<1>3. RequestInv'
  BY <1>1 DEF RequestsOK, RequestInv, Goto
<1> QED BY <1>2, <1>3

(* What the writes of the tables preserve.                                   *)
LEMMA SetHashType ==
    ASSUME TablesOK, NEW u, NEW pw \in Passwords, SetHash(u, Hash(pw)),
           UNCHANGED <<verified, fails, tok>>
    PROVE  TablesOK'
BY DEF TablesOK, SetHash, Hash, Hashes

LEMMA InvalidateType ==
    ASSUME TablesOK, NEW u, NEW type \in TokenTypes, Invalidate(u, type),
           UNCHANGED <<cred, verified, fails>>
    PROVE  TablesOK'
BY DEF TablesOK, Invalidate, TokenRows

LEMMA InsertType ==
    ASSUME TablesOK, NEW t \in Tokens, NEW u \in Users \cup {NoUser}, NEW type \in TokenTypes,
           Insert(t, u, type), UNCHANGED <<cred, verified, fails>>
    PROVE  TablesOK'
BY ExpiryAssumption DEF TablesOK, Insert, TokenRows

LEMMA UnchangedTables == ASSUME TablesOK, UNCHANGED tables PROVE TablesOK'
BY DEF TablesOK, tables

(* A request that remembers which user it is about.                           *)
LEMMA UserMem ==
    ASSUME NEW m \in Mem, NEW u \in Users
    PROVE  [m EXCEPT !.user = u] \in Mem /\ [m EXCEPT !.user = u].user = u
BY DEF Mem

LEMMA StartType ==
    ASSUME TypeOK, RequestInv, NEW p \in Procs, NEW r \in Requests, Start(p, r)
    PROVE  TypeOK' /\ RequestInv'
<1>1. TablesOK'
  BY UnchangedTables DEF TypeOK, Start
<1> DEFINE m == IF r.op \in {"change", "resend"} THEN [mem[p] EXCEPT !.user = r.user]
                ELSE mem[p]
<1>a. mem \in [Procs -> Mem]
  BY DEF TypeOK, RequestsOK
<1>b. m \in Mem
  BY <1>a, RequestFields, UserMem
<1>c. mem' = [mem EXCEPT ![p] = m]
  BY <1>a DEF Start
<1>2. m \in Mem /\ mem' = [mem EXCEPT ![p] = m]
  BY <1>b, <1>c
<1>3. FirstStep(r.op) \in Steps /\ FirstStep(r.op) \notin LoginTx
  BY RequestFields DEF FirstStep, AllOps, Steps, LoginTx, Issuing
<1>4. tx[p] \in Tx /\ ~tx[p].open /\ tx' = [tx EXCEPT ![p] = tx[p]]
  BY DEF Start, TypeOK, RequestsOK, LoginTx
<1>5. Coherent(FirstStep(r.op), r, m, "none")
  BY RequestFields DEF Coherent, FirstStep, AllOps, LoginSteps, LoginTx, ChangeSteps,
     ResetSteps, VerifySteps
<1> HIDE DEF m
<1>6. /\ pc' = [pc EXCEPT ![p] = FirstStep(r.op)]
      /\ req' = [req EXCEPT ![p] = r]
      /\ resp' = [resp EXCEPT ![p] = "none"]
  BY DEF Start
<1>7. RequestsOK /\ FirstStep(r.op) \in Steps \cup {"idle"} /\ r \in Requests \cup {NoRequest}
  BY <1>3 DEF TypeOK
<1>8. tx[p].open <=> FirstStep(r.op) \in LoginTx
  BY <1>3, <1>4
<1>9. RequestsOK' /\ RequestInv'
  BY <1>2, <1>4, <1>5, <1>6, <1>7, <1>8, OneRequest
<1> QED BY <1>1, <1>9 DEF TypeOK

(* What Authenticate keeps of the user it looks up.                          *)
LookedUp(m, u, v) == [m EXCEPT !.user = u, !.verified = v]

LEMMA LookupMem ==
    ASSUME NEW m \in Mem, NEW u \in Users, NEW v \in BOOLEAN
    PROVE  LookedUp(m, u, v) \in Mem /\ LookedUp(m, u, v).user = u
BY DEF Mem, LookedUp

LEMMA LoginLookupType ==
    ASSUME TypeOK, RequestInv, NEW p \in Procs, LoginLookup(p)
    PROVE  TypeOK' /\ RequestInv'
<1>1. TablesOK'
  BY DEF TypeOK, TablesOK, LoginLookup, tables
<1>2. CASE req[p].user = NoUser
  BY <1>1, <1>2, ReplyControl, UsersAssumption DEF TypeOK, LoginLookup, Statuses
<1>3. CASE req[p].user \in Users
  <2> DEFINE m == LookedUp(mem[p], req[p].user, verified[req[p].user])
  <2>a. verified[req[p].user] \in BOOLEAN
    BY <1>3 DEF TypeOK, TablesOK
  <2>b. m \in Mem /\ m.user = req[p].user
    <3>1. mem[p] \in Mem
      BY DEF TypeOK, RequestsOK
    <3> QED BY <1>3, <2>a, <3>1, LookupMem, Zenon
  <2>c. mem' = [mem EXCEPT ![p] = m]
    BY <1>3, UsersAssumption DEF TypeOK, RequestsOK, LoginLookup, LookedUp
  <2>d. tx' = [tx EXCEPT ![p] = tx[p]] /\ tx[p] \in Tx /\ Goto(p, "begin") /\ req' = req
    BY <1>3, UsersAssumption DEF TypeOK, RequestsOK, LoginLookup
  <2>1. m \in Mem /\ mem' = [mem EXCEPT ![p] = m] /\ tx' = [tx EXCEPT ![p] = tx[p]]
        /\ tx[p] \in Tx /\ Goto(p, "begin") /\ m.user = req[p].user /\ req' = req
    BY <2>b, <2>c, <2>d
  <2>2. pc[p] = "lookup" /\ ~tx[p].open
    BY DEF LoginLookup, At, TypeOK, RequestsOK, LoginTx
  <2>3. "begin" \in Steps /\ "begin" \notin LoginTx
    BY DEF Steps, LoginTx, Issuing
  <2>4. Coherent("begin", req[p], m, "none")
    BY <1>3, <2>1, <2>2 DEF RequestInv, Coherent, LoginSteps, LoginTx, ChangeSteps, ResetSteps, VerifySteps
  <2> HIDE DEF m
  <2> QED BY <1>1, <2>1, <2>2, <2>3, <2>4, GotoControl DEF TypeOK
<1> QED BY <1>2, <1>3 DEF LoginLookup

LEMMA LoginBeginType ==
    ASSUME TypeOK, RequestInv, NEW p \in Procs, LoginBegin(p)
    PROVE  TypeOK' /\ RequestInv'
<1> DEFINE x == [open |-> TRUE, aborted |-> FALSE, age |-> 0]
<1>1. TablesOK' /\ pc[p] = "begin" /\ req' = req /\ Goto(p, "count")
      /\ tx' = [tx EXCEPT ![p] = x]
  BY UnchangedTables DEF TypeOK, LoginBegin, At
<1>2. x \in Tx /\ x.open
  BY LockoutAssumption DEF Tx
<1>3. mem[p] \in Mem /\ mem' = [mem EXCEPT ![p] = mem[p]]
  BY DEF TypeOK, RequestsOK, LoginBegin
<1>4. "count" \in Steps /\ "count" \in LoginTx
  BY DEF Steps, LoginTx
<1>5. Coherent("count", req[p], mem[p], "none")
  BY <1>1 DEF RequestInv, Coherent, LoginSteps, LoginTx, ChangeSteps, ResetSteps, VerifySteps
<1> HIDE DEF x
<1> QED BY <1>1, <1>2, <1>3, <1>4, <1>5, GotoControl DEF TypeOK

LEMMA CountRecentFailedAttemptsType ==
    ASSUME TypeOK, RequestInv, NEW p \in Procs, CountRecentFailedAttempts(p)
    PROVE  TypeOK' /\ RequestInv'
<1>1. TablesOK' /\ pc[p] = "count" /\ req' = req
  BY UnchangedTables DEF TypeOK, CountRecentFailedAttempts, At, InTx
<1>2. ASSUME NEW status \in Statuses, Reply(p, status) PROVE TypeOK' /\ RequestInv'
  BY <1>1, <1>2, ReplyControl DEF TypeOK
<1>3. CASE Goto(p, "fetch") /\ UNCHANGED <<mem, tx>>
  <2>1. "fetch" \in Steps /\ ("fetch" \in LoginTx <=> pc[p] \in LoginTx)
    BY <1>1 DEF Steps, Issuing, LoginTx
  <2>2. Coherent("fetch", req[p], mem[p], "none")
    BY <1>1 DEF RequestInv, Coherent, LoginSteps, LoginTx, ChangeSteps, ResetSteps, VerifySteps
  <2> QED BY <1>1, <1>3, <2>1, <2>2, StayControl DEF TypeOK
<1> QED BY <1>2, <1>3 DEF CountRecentFailedAttempts, Statuses

LEMMA GetPasswordCredentialType ==
    ASSUME TypeOK, RequestInv, NEW p \in Procs, GetPasswordCredential(p)
    PROVE  TypeOK' /\ RequestInv'
<1>1. TablesOK' /\ pc[p] = "fetch" /\ req' = req /\ mem[p].user \in Users
  BY UnchangedTables DEF TypeOK, GetPasswordCredential, InTx, RequestInv, Coherent, LoginTx
<1>2. CASE cred[mem[p].user] = NoHash
  BY <1>1, <1>2, ReplyControl DEF TypeOK, GetPasswordCredential, Statuses
<1>3. CASE cred[mem[p].user] # NoHash
  <2> DEFINE m == [mem[p] EXCEPT !.hash = cred[mem[p].user]]
  <2>a. cred[mem[p].user] \in Hashes \cup {NoHash}
    BY <1>1 DEF TypeOK, TablesOK
  <2>b. m \in Mem /\ m.user = mem[p].user
    BY <2>a DEF TypeOK, RequestsOK, Mem
  <2>c. mem' = [mem EXCEPT ![p] = m]
    BY <1>3 DEF TypeOK, RequestsOK, GetPasswordCredential
  <2>d. tx' = [tx EXCEPT ![p] = tx[p]] /\ tx[p] \in Tx /\ tx[p].open /\ Goto(p, "record")
    BY <1>3 DEF TypeOK, RequestsOK, GetPasswordCredential, InTx
  <2>1. /\ m \in Mem /\ m.user = mem[p].user /\ mem' = [mem EXCEPT ![p] = m]
        /\ tx' = [tx EXCEPT ![p] = tx[p]] /\ tx[p] \in Tx /\ tx[p].open
        /\ Goto(p, "record")
    BY <2>b, <2>c, <2>d
  <2>2. "record" \in Steps /\ "record" \in LoginTx
    BY DEF Steps, LoginTx
  <2>3. Coherent("record", req[p], m, "none")
    BY <1>1, <2>1 DEF RequestInv, Coherent, LoginSteps, LoginTx, ChangeSteps, ResetSteps, VerifySteps
  <2> HIDE DEF m
  <2> QED BY <1>1, <2>1, <2>2, <2>3, GotoControl DEF TypeOK
<1> QED BY <1>2, <1>3

LEMMA RecordLoginAttemptType ==
    ASSUME TypeOK, RequestInv, NEW p \in Procs, RecordLoginAttempt(p)
    PROVE  TypeOK' /\ RequestInv'
<1>1. TablesOK' /\ pc[p] = "record" /\ req' = req /\ Goto(p, AfterRecord(p))
  BY UnchangedTables DEF TypeOK, RecordLoginAttempt, InTx
<1>2. PICK failed \in BOOLEAN :
        tx' = [tx EXCEPT ![p].aborted = failed]
  BY DEF RecordLoginAttempt
<1> DEFINE x == [tx[p] EXCEPT !.aborted = failed]
<1>b. tx[p] \in Tx /\ tx[p].open
  BY DEF TypeOK, RequestsOK, RecordLoginAttempt, InTx
<1>c. x \in Tx /\ x.open
  BY <1>b DEF Tx
<1>3. x \in Tx /\ x.open /\ tx' = [tx EXCEPT ![p] = x]
  BY <1>2, <1>c DEF TypeOK, RequestsOK
<1>4. mem[p] \in Mem /\ mem' = [mem EXCEPT ![p] = mem[p]]
  BY DEF TypeOK, RequestsOK, RecordLoginAttempt
<1>5. AfterRecord(p) \in Steps /\ AfterRecord(p) \in LoginTx
  BY DEF Steps, LoginTx, AfterRecord
<1>6. Coherent(AfterRecord(p), req[p], mem[p], "none")
  BY <1>1 DEF RequestInv, Coherent, LoginSteps, LoginTx, ChangeSteps, ResetSteps, VerifySteps, AfterRecord
<1> HIDE DEF x
<1> QED BY <1>1, <1>3, <1>4, <1>5, <1>6, GotoControl DEF TypeOK

LEMMA UpdateLastLoginAtType ==
    ASSUME TypeOK, RequestInv, NEW p \in Procs, UpdateLastLoginAt(p)
    PROVE  TypeOK' /\ RequestInv'
<1>1. TablesOK' /\ pc[p] = "lastLogin" /\ req' = req /\ Goto(p, "commit200")
  BY UnchangedTables DEF TypeOK, UpdateLastLoginAt, InTx
<1>2. PICK failed \in BOOLEAN :
        tx' = [tx EXCEPT ![p].aborted = @ \/ failed]
  BY DEF UpdateLastLoginAt
<1> DEFINE x == [tx[p] EXCEPT !.aborted = @ \/ failed]
<1>b. tx[p] \in Tx /\ tx[p].open
  BY DEF TypeOK, RequestsOK, UpdateLastLoginAt, InTx
<1>c. x \in Tx /\ x.open
  BY <1>b DEF Tx
<1>3. x \in Tx /\ x.open /\ tx' = [tx EXCEPT ![p] = x]
  BY <1>2, <1>c DEF TypeOK, RequestsOK
<1>4. mem[p] \in Mem /\ mem' = [mem EXCEPT ![p] = mem[p]]
  BY DEF TypeOK, RequestsOK, UpdateLastLoginAt
<1>5. "commit200" \in Steps /\ "commit200" \in LoginTx
  BY DEF Steps, LoginTx
<1>6. Coherent("commit200", req[p], mem[p], "none")
  BY <1>1 DEF RequestInv, Coherent, LoginSteps, LoginTx, ChangeSteps, ResetSteps, VerifySteps
<1> HIDE DEF x
<1> QED BY <1>1, <1>3, <1>4, <1>5, <1>6, GotoControl DEF TypeOK

LEMMA CommitMismatchType ==
    ASSUME TypeOK, RequestInv, NEW p \in Procs, CommitMismatch(p)
    PROVE  TypeOK' /\ RequestInv'
<1>a. tx[p].age \in 0..Window
  BY DEF TypeOK, RequestsOK, Tx
<1>b. ASSUME RecordFailure(mem[p].user, tx[p].age) PROVE fails' \in [Users -> [Rows -> 0..Window]]
  <2>1. PICK r \in Rows : fails' = [fails EXCEPT ![mem[p].user][r] = tx[p].age]
    BY <1>b DEF RecordFailure
  <2>2. fails' \in [Users -> [Rows -> 0..Window]]
    BY <1>a, <2>1 DEF TypeOK, TablesOK
  <2> QED BY <2>2
<1>1. TablesOK'
  BY <1>b DEF TypeOK, TablesOK, CommitMismatch
<1> QED BY <1>1, ReplyControl DEF TypeOK, CommitMismatch, Statuses

LEMMA CommitUnverifiedType ==
    ASSUME TypeOK, RequestInv, NEW p \in Procs, CommitUnverified(p)
    PROVE  TypeOK' /\ RequestInv'
BY UnchangedTables, ReplyControl DEF TypeOK, CommitUnverified, Statuses

LEMMA CommitLoginType ==
    ASSUME TypeOK, RequestInv, NEW p \in Procs, CommitLogin(p)
    PROVE  TypeOK' /\ RequestInv'
<1>1. TablesOK' /\ pc[p] = "commit200" /\ req' = req
  BY UnchangedTables DEF TypeOK, CommitLogin, InTx
<1>2. ASSUME NEW status \in Statuses, Reply(p, status) PROVE TypeOK' /\ RequestInv'
  BY <1>1, <1>2, ReplyControl DEF TypeOK
<1>3. CASE Goto(p, "rehash") /\ tx' = [tx EXCEPT ![p] = NoTx] /\ UNCHANGED mem
  <2>1. NoTx \in Tx /\ ~NoTx.open
    BY LockoutAssumption DEF NoTx, Tx
  <2>2. mem[p] \in Mem /\ mem' = [mem EXCEPT ![p] = mem[p]]
    BY <1>3 DEF TypeOK, RequestsOK
  <2>3. "rehash" \in Steps /\ "rehash" \notin LoginTx
    BY DEF Steps, LoginTx, Issuing
  <2>4. Coherent("rehash", req[p], mem[p], "none")
    BY <1>1 DEF RequestInv, Coherent, LoginSteps, LoginTx, ChangeSteps, ResetSteps, VerifySteps
  <2> QED BY <1>1, <1>3, <2>1, <2>2, <2>3, <2>4, GotoControl DEF TypeOK
<1> QED BY <1>2, <1>3 DEF CommitLogin, Statuses

LEMMA RehashType ==
    ASSUME TypeOK, RequestInv, NEW p \in Procs, Rehash(p)
    PROVE  TypeOK' /\ RequestInv'
<1>1. req[p].pw \in Passwords
  BY DEF Rehash, At, RequestInv, Coherent, LoginSteps, LoginRequests
<1>2. TablesOK'
  BY <1>1, SetHashType, UnchangedTables DEF TypeOK, Rehash, tables
<1> QED BY <1>2, ReplyControl DEF TypeOK, Rehash, Statuses

LEMMA ChangeFetchType ==
    ASSUME TypeOK, RequestInv, NEW p \in Procs, ChangeFetch(p)
    PROVE  TypeOK' /\ RequestInv'
<1>1. TablesOK' /\ pc[p] = "changeFetch" /\ req' = req
  BY UnchangedTables DEF TypeOK, ChangeFetch, At, InTx
<1>2. ASSUME NEW status \in Statuses, Reply(p, status) PROVE TypeOK' /\ RequestInv'
  BY <1>1, <1>2, ReplyControl DEF TypeOK
<1>3. CASE Goto(p, "changeUser") /\ UNCHANGED <<mem, tx>>
  <2>1. "changeUser" \in Steps /\ ("changeUser" \in LoginTx <=> pc[p] \in LoginTx)
    BY <1>1 DEF Steps, Issuing, LoginTx
  <2>2. Coherent("changeUser", req[p], mem[p], "none")
    BY <1>1 DEF RequestInv, Coherent, LoginSteps, LoginTx, ChangeSteps, ResetSteps, VerifySteps
  <2> QED BY <1>1, <1>3, <2>1, <2>2, StayControl DEF TypeOK
<1> QED BY <1>2, <1>3 DEF ChangeFetch, Statuses

LEMMA ChangeUserType ==
    ASSUME TypeOK, RequestInv, NEW p \in Procs, ChangeUser(p)
    PROVE  TypeOK' /\ RequestInv'
<1>1. TablesOK' /\ pc[p] = "changeUser" /\ req' = req
  BY UnchangedTables DEF TypeOK, ChangeUser, At, InTx
<1>2. ASSUME NEW status \in Statuses, Reply(p, status) PROVE TypeOK' /\ RequestInv'
  BY <1>1, <1>2, ReplyControl DEF TypeOK
<1>3. CASE Goto(p, "changeUpdate") /\ UNCHANGED <<mem, tx>>
  <2>1. "changeUpdate" \in Steps /\ ("changeUpdate" \in LoginTx <=> pc[p] \in LoginTx)
    BY <1>1 DEF Steps, Issuing, LoginTx
  <2>2. Coherent("changeUpdate", req[p], mem[p], "none")
    BY <1>1 DEF RequestInv, Coherent, LoginSteps, LoginTx, ChangeSteps, ResetSteps, VerifySteps
  <2> QED BY <1>1, <1>3, <2>1, <2>2, StayControl DEF TypeOK
<1> QED BY <1>2, <1>3 DEF ChangeUser, Statuses

LEMMA ResetUserType ==
    ASSUME TypeOK, RequestInv, NEW p \in Procs, ResetUser(p)
    PROVE  TypeOK' /\ RequestInv'
<1>1. TablesOK' /\ pc[p] = "resetUser" /\ req' = req
  BY UnchangedTables DEF TypeOK, ResetUser, At, InTx
<1>2. ASSUME NEW status \in Statuses, Reply(p, status) PROVE TypeOK' /\ RequestInv'
  BY <1>1, <1>2, ReplyControl DEF TypeOK
<1>3. CASE Goto(p, "resetUpdate") /\ UNCHANGED <<mem, tx>>
  <2>1. "resetUpdate" \in Steps /\ ("resetUpdate" \in LoginTx <=> pc[p] \in LoginTx)
    BY <1>1 DEF Steps, Issuing, LoginTx
  <2>2. Coherent("resetUpdate", req[p], mem[p], "none")
    BY <1>1 DEF RequestInv, Coherent, LoginSteps, LoginTx, ChangeSteps, ResetSteps, VerifySteps
  <2> QED BY <1>1, <1>3, <2>1, <2>2, StayControl DEF TypeOK
<1> QED BY <1>2, <1>3 DEF ResetUser, Statuses

LEMMA ChangeUpdateType ==
    ASSUME TypeOK, RequestInv, NEW p \in Procs, ChangeUpdate(p)
    PROVE  TypeOK' /\ RequestInv'
<1>1. pc[p] = "changeUpdate" /\ req' = req /\ req[p].new \in Passwords
  BY DEF ChangeUpdate, At, RequestInv, Coherent, ChangeSteps, ChangeRequests
<1>2. TablesOK'
  BY <1>1, SetHashType DEF TypeOK, ChangeUpdate
<1>3. CASE Goto(p, "changeInvalidate") /\ UNCHANGED <<mem, tx>>
  <2>1. "changeInvalidate" \in Steps /\ ("changeInvalidate" \in LoginTx <=> pc[p] \in LoginTx)
    BY <1>1 DEF Steps, Issuing, LoginTx
  <2>2. Coherent("changeInvalidate", req[p], mem[p], "none")
    BY <1>1 DEF RequestInv, Coherent, LoginSteps, LoginTx, ChangeSteps, ResetSteps, VerifySteps
  <2> QED BY <1>1, <1>2, <1>3, <2>1, <2>2, StayControl DEF TypeOK
<1>4. CASE Reply(p, "500")
  BY <1>1, <1>2, <1>4, ReplyControl DEF TypeOK, Statuses
<1> QED BY <1>3, <1>4 DEF ChangeUpdate

LEMMA ChangeInvalidateType ==
    ASSUME TypeOK, RequestInv, NEW p \in Procs, ChangeInvalidate(p)
    PROVE  TypeOK' /\ RequestInv'
<1>1. TablesOK'
  BY InvalidateType, UnchangedTables DEF TypeOK, ChangeInvalidate, TokenTypes, tables
<1> QED BY <1>1, ReplyControl DEF TypeOK, ChangeInvalidate, Statuses

LEMMA ForgotLookupType ==
    ASSUME TypeOK, RequestInv, NEW p \in Procs, ForgotLookup(p)
    PROVE  TypeOK' /\ RequestInv'
<1>1. TablesOK' /\ pc[p] = "forgotLookup" /\ req' = req
  BY UnchangedTables DEF TypeOK, ForgotLookup, At
<1>2. CASE Reply(p, "200")
  BY <1>1, <1>2, ReplyControl DEF TypeOK, Statuses
<1>3. CASE /\ req[p].user \in Users /\ Goto(p, "forgotInvalidate")
           /\ mem' = [mem EXCEPT ![p].user = req[p].user] /\ UNCHANGED tx
  <2> DEFINE m == [mem[p] EXCEPT !.user = req[p].user]
  <2>1. /\ m \in Mem /\ mem' = [mem EXCEPT ![p] = m]
        /\ tx' = [tx EXCEPT ![p] = tx[p]] /\ tx[p] \in Tx /\ ~tx[p].open
    <3>1. mem \in [Procs -> Mem]
      BY DEF TypeOK, RequestsOK
    <3>2. m \in Mem /\ mem' = [mem EXCEPT ![p] = m]
      BY <1>3, <3>1, UserMem
    <3>3. tx' = [tx EXCEPT ![p] = tx[p]] /\ tx[p] \in Tx /\ ~tx[p].open
      BY <1>1, <1>3 DEF TypeOK, RequestsOK, LoginTx
    <3> QED BY <3>2, <3>3
  <2>2. "forgotInvalidate" \in Steps /\ "forgotInvalidate" \notin LoginTx
    BY DEF Steps, LoginTx, Issuing
  <2>3. Coherent("forgotInvalidate", req[p], m, "none")
    BY DEF Coherent, LoginSteps, LoginTx, ChangeSteps, ResetSteps, VerifySteps
  <2> HIDE DEF m
  <2> QED BY <1>1, <1>3, <2>1, <2>2, <2>3, GotoControl DEF TypeOK
<1> QED BY <1>2, <1>3 DEF ForgotLookup

(* InitiatePasswordReset and InitiateEmailVerification share their statements. *)
LEMMA InvalidateThenGotoType ==
    ASSUME TypeOK, RequestInv, NEW p \in Procs, NEW type \in TokenTypes,
           NEW step \in Issuing, NEW next \in {"forgotInsert", "resendInsert"},
           InvalidateThenGoto(p, step, type, next)
    PROVE  TypeOK' /\ RequestInv'
<1>1. TablesOK'
  BY InvalidateType, UnchangedTables DEF TypeOK, InvalidateThenGoto, tables
<1>2. pc[p] \in Issuing /\ Goto(p, next) /\ UNCHANGED <<req, mem, tx>>
  BY DEF InvalidateThenGoto, At
<1>3. pc[p] # "idle" /\ next \in Steps /\ (next \in LoginTx <=> pc[p] \in LoginTx)
  BY <1>2 DEF Steps, LoginTx, Issuing
<1>4. Coherent(next, req[p], mem[p], "none")
  BY DEF Coherent, LoginSteps, LoginTx, ChangeSteps, ResetSteps, VerifySteps
<1> QED BY <1>1, <1>2, <1>3, <1>4, StayControl DEF TypeOK

LEMMA InsertAndReplyType ==
    ASSUME TypeOK, RequestInv, NEW p \in Procs, NEW type \in TokenTypes, NEW step,
           InsertAndReply(p, step, type)
    PROVE  TypeOK' /\ RequestInv'
<1>1. mem[p].user \in Users \cup {NoUser}
  BY DEF TypeOK, RequestsOK, Mem
<1>2. TablesOK'
  BY <1>1, InsertType DEF TypeOK, InsertAndReply
<1> QED BY <1>2, ReplyControl DEF TypeOK, InsertAndReply, Outcome, Statuses

LEMMA ConsumeAuthTokenType ==
    ASSUME TypeOK, RequestInv, NEW p \in Procs, NEW type \in TokenTypes,
           NEW step \in {"resetConsume", "verifyConsume"},
           NEW next \in {"resetUser", "verifyUpdate"},
           step = "resetConsume" <=> next = "resetUser",
           ConsumeAuthToken(p, step, type, next)
    PROVE  TypeOK' /\ RequestInv'
<1>1. pc[p] = step /\ req' = req /\ req[p].tok \in Tokens
  BY DEF ConsumeAuthToken, At, RequestInv, Coherent, ResetSteps, VerifySteps,
     ResetRequests, VerifyRequests
<1>2. TablesOK'
  BY <1>1 DEF TypeOK, TablesOK, ConsumeAuthToken, TokenRows
<1>3. ASSUME NEW status \in Statuses, Reply(p, status) PROVE TypeOK' /\ RequestInv'
  BY <1>1, <1>2, <1>3, ReplyControl DEF TypeOK
<1>4. CASE /\ Goto(p, next) /\ UNCHANGED tx
           /\ mem' = [mem EXCEPT ![p].user = tok[req[p].tok].user]
  <2> DEFINE m == [mem[p] EXCEPT !.user = tok[req[p].tok].user]
  <2>a. tok[req[p].tok].user \in Users \cup {NoUser}
    BY <1>1 DEF TypeOK, TablesOK, TokenRows
  <2>b. m \in Mem
    BY <2>a DEF TypeOK, RequestsOK, Mem
  <2>1. /\ m \in Mem /\ mem' = [mem EXCEPT ![p] = m]
        /\ tx' = [tx EXCEPT ![p] = tx[p]] /\ tx[p] \in Tx /\ ~tx[p].open
    BY <1>1, <1>4, <2>b DEF TypeOK, RequestsOK, LoginTx
  <2>2. next \in Steps /\ next \notin LoginTx
    BY DEF Steps, LoginTx, Issuing
  <2>3. Coherent(next, req[p], m, "none")
    BY <1>1 DEF RequestInv, Coherent, LoginSteps, LoginTx, ChangeSteps, ResetSteps, VerifySteps
  <2>4. pc[p] # "idle"
    BY <1>1
  <2> HIDE DEF m
  <2> QED BY <1>1, <1>2, <1>4, <2>1, <2>2, <2>3, <2>4, GotoControl DEF TypeOK
<1> QED BY <1>3, <1>4 DEF ConsumeAuthToken, Statuses

LEMMA ResetUpdateType ==
    ASSUME TypeOK, RequestInv, NEW p \in Procs, ResetUpdate(p)
    PROVE  TypeOK' /\ RequestInv'
<1>1. req[p].new \in Passwords
  BY DEF ResetUpdate, At, RequestInv, Coherent, ResetSteps, ResetRequests
<1>2. TablesOK'
  BY <1>1, SetHashType DEF TypeOK, ResetUpdate
<1> QED BY <1>2, ReplyControl DEF TypeOK, ResetUpdate, Outcome, Statuses

LEMMA VerifyUpdateType ==
    ASSUME TypeOK, RequestInv, NEW p \in Procs, VerifyUpdate(p)
    PROVE  TypeOK' /\ RequestInv'
<1>1. TablesOK'
  BY DEF TypeOK, TablesOK, VerifyUpdate
<1> QED BY <1>1, ReplyControl DEF TypeOK, VerifyUpdate, Outcome, Statuses

LEMMA StatementFailsType ==
    ASSUME TypeOK, RequestInv, NEW p \in Procs, StatementFails(p)
    PROVE  TypeOK' /\ RequestInv'
BY UnchangedTables, ReplyControl DEF TypeOK, StatementFails, Statuses

LEMMA TickType ==
    ASSUME TypeOK, RequestInv, Tick
    PROVE  TypeOK' /\ RequestInv'
<1>a. ASSUME NEW n \in 0..Window PROVE Older(n) \in 0..Window
  BY LockoutAssumption DEF Older
<1>b. fails' \in [Users -> [Rows -> 0..Window]]
  BY <1>a DEF TypeOK, TablesOK, Tick
<1>c. tok' \in [Tokens -> TokenRows]
  <2>1. ASSUME NEW k \in TokenRows, k.ttl > 0
        PROVE  [k EXCEPT !.ttl = @ - 1] \in TokenRows
    <3>1. k.ttl - 1 \in Nat
      BY <2>1 DEF TokenRows
    <3> QED BY <3>1 DEF TokenRows
  <2> QED BY <2>1 DEF TypeOK, TablesOK, Tick
<1>1. TablesOK'
  BY <1>b, <1>c DEF TypeOK, TablesOK, Tick
<1>2. RequestsOK'
  BY LockoutAssumption DEF TypeOK, RequestsOK, Tick, Older, Tx
<1>3. RequestInv'
  BY DEF RequestInv, Tick
<1> QED BY <1>1, <1>2, <1>3 DEF TypeOK

LEMMA TypeInit == Init => TypeOK /\ RequestInv
<1> SUFFICES ASSUME Init PROVE TypeOK /\ RequestInv
  OBVIOUS
<1>1. TablesOK
  BY LockoutAssumption DEF Init, TablesOK, TokenRows, NoToken, TokenTypes
<1>2. RequestsOK
  BY LockoutAssumption DEF Init, RequestsOK, NoMem, Mem, NoTx, Tx, LoginTx
<1>3. RequestInv
  BY DEF Init, RequestInv, Coherent, LoginSteps, LoginTx, ChangeSteps, ResetSteps, VerifySteps
<1> QED BY <1>1, <1>2, <1>3 DEF TypeOK

LEMMA StepType ==
    ASSUME TypeOK, RequestInv, NEW p \in Procs, Step(p)
    PROVE  TypeOK' /\ RequestInv'
<1>1. CASE Login(p)
  BY <1>1, LoginLookupType, LoginBeginType, CountRecentFailedAttemptsType,
     GetPasswordCredentialType, RecordLoginAttemptType, UpdateLastLoginAtType,
     CommitMismatchType, CommitUnverifiedType, CommitLoginType, RehashType DEF Login
<1>2. CASE ChangePassword(p)
  BY <1>2, ChangeFetchType, ChangeUserType, ChangeUpdateType, ChangeInvalidateType
  DEF ChangePassword
<1>3. CASE InitiatePasswordReset(p)
  BY <1>3, ForgotLookupType, InvalidateThenGotoType, InsertAndReplyType
  DEF InitiatePasswordReset, ForgotInvalidate, ForgotInsert, TokenTypes, Issuing
<1>4. CASE CompletePasswordReset(p)
  BY <1>4, ConsumeAuthTokenType, ResetUserType, ResetUpdateType
  DEF CompletePasswordReset, ResetConsume, TokenTypes
<1>5. CASE InitiateEmailVerification(p)
  BY <1>5, InvalidateThenGotoType, InsertAndReplyType
  DEF InitiateEmailVerification, ResendInvalidate, ResendInsert, TokenTypes, Issuing
<1>6. CASE VerifyEmail(p)
  BY <1>6, ConsumeAuthTokenType, VerifyUpdateType
  DEF VerifyEmail, VerifyConsume, TokenTypes
<1>7. CASE StatementFails(p)
  BY <1>7, StatementFailsType
<1> QED BY <1>1, <1>2, <1>3, <1>4, <1>5, <1>6, <1>7 DEF Step

LEMMA TypeNext == TypeOK /\ RequestInv /\ [Next]_vars => TypeOK' /\ RequestInv'
<1> SUFFICES ASSUME TypeOK, RequestInv, [Next]_vars PROVE TypeOK' /\ RequestInv'
  OBVIOUS
<1>1. CASE Next
  BY <1>1, StartType, StepType, TickType DEF Next
<1>2. CASE UNCHANGED vars
  BY <1>2 DEF vars, TypeOK, TablesOK, RequestsOK, RequestInv
<1> QED BY <1>1, <1>2

\* Every reachable state of the password store is well-typed, and a transaction
\* is open exactly between Begin and Commit of Authenticate: no early return
\* leaks its connection.
THEOREM TypeCorrectness == Spec => []TypeOK
<1>1. Init => TypeOK /\ RequestInv
  BY TypeInit
<1>2. TypeOK /\ RequestInv /\ [Next]_vars => (TypeOK /\ RequestInv)'
  BY TypeNext
<1> QED BY <1>1, <1>2, PTL DEF Spec

-----------------------------------------------------------------------------
(* The lockout bound.  It is inductive together with the bound on the open    *)
(* transactions: a transaction is admitted when fewer than MaxAttempts         *)
(* failures are recent, and at most MaxConns transactions are in flight.       *)

PoolInv == Cardinality(OpenTx) <= MaxConns

(* A step that adds no failure, no transaction and nobody past the check.      *)
Quiet == /\ fails' = fails
         /\ OpenTx' \subseteq OpenTx
         /\ \A u \in Users : InFlight(u)' \subseteq InFlight(u)

LEMMA FiniteSets ==
    /\ IsFiniteSet(OpenTx) /\ Cardinality(OpenTx) \in Nat
    /\ \A u \in Users : /\ IsFiniteSet(InFlight(u)) /\ Cardinality(InFlight(u)) \in Nat
                        /\ IsFiniteSet(RecentFailures(u)) /\ FailedCount(u) \in Nat
<1>1. OpenTx \subseteq Procs
  BY DEF OpenTx
<1>2. \A u \in Users : InFlight(u) \subseteq Procs /\ RecentFailures(u) \subseteq Rows
  BY DEF InFlight, RecentFailures
<1> QED BY <1>1, <1>2, ProcsAssumption, RowsAssumption, FS_Subset, FS_CardinalityType
        DEF FailedCount

LEMMA QuietStep ==
    ASSUME TypeOK, TypeOK', NEW p \in Procs, NEW s,
           pc' = [pc EXCEPT ![p] = s],
           s \in LoginTx => pc[p] \in LoginTx,
           s \in Admitted => pc[p] \in Admitted /\ mem'[p].user = mem[p].user,
           \A q \in Procs \ {p} : mem'[q] = mem[q],
           fails' = fails
    PROVE  Quiet
<1>1. OpenTx' \subseteq OpenTx
  <2> SUFFICES ASSUME NEW q \in Procs, tx'[q].open PROVE tx[q].open
    BY DEF OpenTx
  <2>1. pc'[q] \in LoginTx
    BY DEF TypeOK, RequestsOK
  <2>2. pc[q] \in LoginTx
    BY <2>1 DEF TypeOK, RequestsOK
  <2> QED BY <2>2 DEF TypeOK, RequestsOK
<1>2. ASSUME NEW u \in Users PROVE InFlight(u)' \subseteq InFlight(u)
  BY DEF TypeOK, RequestsOK, InFlight
<1> QED BY <1>1, <1>2 DEF Quiet

LEMMA QuietReply ==
    ASSUME TypeOK, TypeOK', NEW p \in Procs, NEW status, Reply(p, status), fails' = fails
    PROVE  Quiet
<1>1. "idle" \notin LoginTx /\ "idle" \notin Admitted
  BY DEF LoginTx, Admitted
<1>2. \A q \in Procs \ {p} : mem'[q] = mem[q]
  BY DEF Reply, TypeOK, RequestsOK
<1> QED BY <1>1, <1>2, QuietStep DEF Reply

LEMMA QuietPreserves ==
    ASSUME PoolInv, LockoutOvershoot, Quiet
    PROVE  PoolInv' /\ LockoutOvershoot'
<1>1. PoolInv'
  <2>1. Cardinality(OpenTx') <= Cardinality(OpenTx) /\ Cardinality(OpenTx') \in Nat
    BY FiniteSets, FS_Subset, FS_CardinalityType DEF Quiet
  <2> QED BY <2>1, FiniteSets, PoolAssumption DEF PoolInv
<1>2. ASSUME NEW u \in Users
      PROVE  FailedCount(u)' + Cardinality(InFlight(u)') <= MaxAttempts - 1 + MaxConns
  <2>1. FailedCount(u)' = FailedCount(u)
    BY DEF Quiet, FailedCount, RecentFailures
  <2>2. /\ Cardinality(InFlight(u)') <= Cardinality(InFlight(u))
        /\ Cardinality(InFlight(u)') \in Nat
    BY FiniteSets, FS_Subset, FS_CardinalityType DEF Quiet
  <2> QED BY <2>1, <2>2, FiniteSets, PoolAssumption, LockoutAssumption DEF LockoutOvershoot
<1> QED BY <1>1, <1>2 DEF LockoutOvershoot

LEMMA BeginLockout ==
    ASSUME TypeOK, TypeOK', PoolInv, LockoutOvershoot, NEW p \in Procs, LoginBegin(p)
    PROVE  PoolInv' /\ LockoutOvershoot'
<1>1. PoolInv'
  <2>1. OpenTx' \subseteq OpenTx \cup {p}
    BY DEF LoginBegin, OpenTx, TypeOK, RequestsOK
  <2>2. IsFiniteSet(OpenTx \cup {p}) /\ Cardinality(OpenTx \cup {p}) <= MaxConns
    BY FiniteSets, FS_AddElement, PoolAssumption DEF LoginBegin, At, FreeConn
  <2> QED BY <2>1, <2>2, FS_Subset, FS_CardinalityType, PoolAssumption DEF PoolInv
<1>2. ASSUME NEW u \in Users
      PROVE  FailedCount(u)' = FailedCount(u) /\ InFlight(u)' = InFlight(u)
  <2>1. FailedCount(u)' = FailedCount(u)
    BY DEF LoginBegin, tables, FailedCount, RecentFailures
  <2>2. pc[p] \notin Admitted /\ pc'[p] \notin Admitted /\ mem' = mem
    BY DEF LoginBegin, At, Goto, TypeOK, RequestsOK, Admitted, LoginTx
  <2>3. InFlight(u)' = InFlight(u)
    BY <2>2 DEF LoginBegin, Goto, TypeOK, RequestsOK, InFlight
  <2> QED BY <2>1, <2>3
<1> QED BY <1>1, <1>2 DEF LockoutOvershoot

(* The check admits p with at most MaxAttempts - 1 recent failures, and all the *)
(* transactions in flight are open.                                            *)
LEMMA CountLockout ==
    ASSUME TypeOK, TypeOK', RequestInv, PoolInv, LockoutOvershoot,
           NEW p \in Procs, CountRecentFailedAttempts(p)
    PROVE  PoolInv' /\ LockoutOvershoot'
<1>1. CASE Reply(p, "423")
  <2>1. fails' = fails
    BY DEF CountRecentFailedAttempts, tables
  <2> QED BY <1>1, <2>1, QuietReply, QuietPreserves
<1>2. CASE /\ ~IsLockedOut(FailedCount(mem[p].user))
           /\ Goto(p, "fetch") /\ UNCHANGED <<mem, tx>>
  <2>1. OpenTx' = OpenTx
    BY <1>2 DEF OpenTx
  <2>2. ASSUME NEW u \in Users
        PROVE  FailedCount(u)' + Cardinality(InFlight(u)') <= MaxAttempts - 1 + MaxConns
    <3>1. FailedCount(u)' = FailedCount(u)
      BY DEF CountRecentFailedAttempts, tables, FailedCount, RecentFailures
    <3>2. CASE mem[p].user = u
      <4>1. FailedCount(u) <= MaxAttempts - 1
        BY <1>2, <3>2, FiniteSets, LockoutAssumption DEF IsLockedOut
      <4>2. InFlight(u)' \subseteq OpenTx'
        BY DEF InFlight, OpenTx, TypeOK, RequestsOK, Admitted
      <4>3. Cardinality(InFlight(u)') <= MaxConns /\ Cardinality(InFlight(u)') \in Nat
        BY <2>1, <4>2, FiniteSets, FS_Subset, FS_CardinalityType, PoolAssumption DEF PoolInv
      <4> QED BY <3>1, <4>1, <4>3, FiniteSets, LockoutAssumption, PoolAssumption
    <3>3. CASE mem[p].user # u
      <4>1. InFlight(u)' = InFlight(u)
        BY <1>2, <3>3 DEF InFlight, Goto, TypeOK, RequestsOK
      <4> QED BY <3>1, <4>1 DEF LockoutOvershoot
    <3> QED BY <3>2, <3>3
  <2> QED BY <2>1, <2>2 DEF PoolInv, LockoutOvershoot
<1> QED BY <1>1, <1>2 DEF CountRecentFailedAttempts

(* A committed failure takes the place of its transaction.                     *)
LEMMA MismatchLockout ==
    ASSUME TypeOK, TypeOK', RequestInv, PoolInv, LockoutOvershoot,
           NEW p \in Procs, CommitMismatch(p)
    PROVE  PoolInv' /\ LockoutOvershoot'
<1>1. CASE UNCHANGED fails
  BY <1>1, QuietReply, QuietPreserves DEF CommitMismatch
<1>2. CASE RecordFailure(mem[p].user, tx[p].age)
  <2> DEFINE u == mem[p].user
  <2>1. u \in Users /\ p \in InFlight(u)
    BY DEF CommitMismatch, InTx, RequestInv, Coherent, LoginTx, InFlight, Admitted
  <2>2. PICK r \in Rows : fails' = [fails EXCEPT ![u][r] = tx[p].age]
    BY <1>2 DEF RecordFailure
  <2>3. PoolInv'
    <3>1. OpenTx' \subseteq OpenTx
      BY DEF CommitMismatch, Reply, NoTx, OpenTx, TypeOK, RequestsOK
    <3> QED BY <3>1, FiniteSets, FS_Subset, FS_CardinalityType, PoolAssumption DEF PoolInv
  <2>4. ASSUME NEW v \in Users
        PROVE  FailedCount(v)' + Cardinality(InFlight(v)') <= MaxAttempts - 1 + MaxConns
    <3>1. InFlight(v)' = InFlight(v) \ {p}
      BY DEF CommitMismatch, Reply, InFlight, TypeOK, RequestsOK, LoginTx, Admitted
    <3>2. CASE v = u
      <4>1. RecentFailures(v)' \subseteq RecentFailures(v) \cup {r}
        BY <2>1, <2>2, <3>2 DEF RecentFailures, TypeOK, TablesOK
      <4>2. /\ IsFiniteSet(RecentFailures(v) \cup {r})
            /\ Cardinality(RecentFailures(v) \cup {r}) <= FailedCount(v) + 1
        <5> DEFINE S == RecentFailures(v)
        <5>1. IsFiniteSet(S) /\ Cardinality(S) \in Nat /\ FailedCount(v) = Cardinality(S)
          BY FiniteSets DEF FailedCount
        <5> HIDE DEF S
        <5>2. /\ IsFiniteSet(S \cup {r})
              /\ \/ Cardinality(S \cup {r}) = Cardinality(S)
                 \/ Cardinality(S \cup {r}) = Cardinality(S) + 1
          BY <5>1, FS_AddElement, Zenon
        <5> QED BY <5>1, <5>2 DEF S
      <4>3. FailedCount(v)' <= FailedCount(v) + 1 /\ FailedCount(v)' \in Nat
        BY <4>1, <4>2, FiniteSets, FS_Subset, FS_CardinalityType DEF FailedCount
      <4>4. Cardinality(InFlight(v)') = Cardinality(InFlight(v)) - 1
        BY <2>1, <3>1, <3>2, FiniteSets, FS_RemoveElement
      <4> QED BY <4>3, <4>4, FiniteSets, LockoutAssumption, PoolAssumption DEF LockoutOvershoot
    <3>3. CASE v # u
      <4>1. FailedCount(v)' = FailedCount(v)
        BY <2>2, <3>3 DEF FailedCount, RecentFailures, TypeOK, TablesOK
      <4>2. /\ Cardinality(InFlight(v)') <= Cardinality(InFlight(v))
            /\ Cardinality(InFlight(v)') \in Nat
        BY <3>1, FiniteSets, FS_Subset, FS_CardinalityType
      <4> QED BY <4>1, <4>2, FiniteSets, LockoutAssumption, PoolAssumption DEF LockoutOvershoot
    <3> QED BY <3>2, <3>3
  <2> QED BY <2>3, <2>4 DEF LockoutOvershoot
<1> QED BY <1>1, <1>2 DEF CommitMismatch

LEMMA TickLockout ==
    ASSUME TypeOK, PoolInv, LockoutOvershoot, Tick
    PROVE  PoolInv' /\ LockoutOvershoot'
<1>1. OpenTx' = OpenTx
  BY DEF Tick, OpenTx, TypeOK, RequestsOK, Tx
<1>2. ASSUME NEW u \in Users
      PROVE  FailedCount(u)' + Cardinality(InFlight(u)') <= MaxAttempts - 1 + MaxConns
  <2>1. InFlight(u)' = InFlight(u)
    BY DEF Tick, InFlight
  <2>2. ASSUME NEW r \in Rows, fails'[u][r] < Window PROVE fails[u][r] < Window
    BY <2>2, LockoutAssumption DEF Tick, Older, TypeOK, TablesOK
  <2>3. RecentFailures(u)' \subseteq RecentFailures(u)
    BY <2>2 DEF RecentFailures
  <2>4. FailedCount(u)' <= FailedCount(u) /\ FailedCount(u)' \in Nat
    BY <2>3, FiniteSets, FS_Subset, FS_CardinalityType DEF FailedCount
  <2> QED BY <2>1, <2>4, FiniteSets, LockoutAssumption, PoolAssumption DEF LockoutOvershoot
<1> QED BY <1>1, <1>2 DEF PoolInv, LockoutOvershoot

LEMMA StartQuiet ==
    ASSUME TypeOK, TypeOK', NEW p \in Procs, NEW r \in Requests, Start(p, r)
    PROVE  Quiet
<1>1. FirstStep(r.op) \notin LoginTx /\ FirstStep(r.op) \notin Admitted
  BY RequestFields DEF FirstStep, AllOps, LoginTx, Admitted
<1>2. \A q \in Procs \ {p} : mem'[q] = mem[q]
  BY DEF Start, TypeOK, RequestsOK
<1>3. fails' = fails /\ pc' = [pc EXCEPT ![p] = FirstStep(r.op)]
  BY DEF Start, tables
<1> QED BY <1>1, <1>2, <1>3, QuietStep

(* The other statements of Authenticate move on inside or out of the transaction. *)
LEMMA LoginQuiet ==
    ASSUME TypeOK, TypeOK', RequestInv, NEW p \in Procs,
           \/ LoginLookup(p) \/ GetPasswordCredential(p) \/ RecordLoginAttempt(p)
           \/ UpdateLastLoginAt(p) \/ CommitUnverified(p) \/ CommitLogin(p) \/ Rehash(p)
    PROVE  Quiet
<1>1. fails' = fails
  BY DEF LoginLookup, GetPasswordCredential, RecordLoginAttempt, UpdateLastLoginAt,
     CommitUnverified, CommitLogin, Rehash, tables
<1>2. ASSUME NEW status, Reply(p, status) PROVE Quiet
  BY <1>1, <1>2, QuietReply
<1>3. ASSUME NEW s, pc' = [pc EXCEPT ![p] = s], s \in {"begin", "rehash"},
             \A q \in Procs \ {p} : mem'[q] = mem[q]
      PROVE  Quiet
  <2>1. s \notin LoginTx /\ s \notin Admitted
    BY <1>3 DEF LoginTx, Admitted
  <2> QED BY <1>1, <1>3, <2>1, QuietStep
<1>4. ASSUME NEW s \in Admitted, pc' = [pc EXCEPT ![p] = s], pc[p] \in Admitted,
             \A q \in Procs : mem'[q].user = mem[q].user,
             \A q \in Procs \ {p} : mem'[q] = mem[q]
      PROVE  Quiet
  <2>1. pc[p] \in LoginTx
    BY <1>4 DEF Admitted
  <2> QED BY <1>1, <1>4, <2>1, QuietStep
<1>5. CASE LoginLookup(p)
  <2>1. CASE Reply(p, "401")
    BY <1>2, <2>1
  <2>2. CASE Goto(p, "begin") /\ mem' = [mem EXCEPT ![p].user = req[p].user,
                                                   ![p].verified = verified[req[p].user]]
    BY <1>3, <2>2 DEF Goto, TypeOK, RequestsOK
  <2> QED BY <1>5, <2>1, <2>2 DEF LoginLookup
<1>6. CASE GetPasswordCredential(p)
  <2>1. CASE Reply(p, "401")
    BY <1>2, <2>1
  <2>2. CASE Goto(p, "record") /\ mem' = [mem EXCEPT ![p].hash = cred[mem[p].user]]
    <3>1. "record" \in Admitted /\ pc[p] \in Admitted
      BY <1>6 DEF GetPasswordCredential, InTx, Admitted, LoginTx
    <3>2. \A q \in Procs : mem'[q].user = mem[q].user
      BY <2>2 DEF TypeOK, RequestsOK, Mem
    <3>3. \A q \in Procs \ {p} : mem'[q] = mem[q]
      BY <2>2 DEF TypeOK, RequestsOK
    <3> QED BY <1>4, <2>2, <3>1, <3>2, <3>3 DEF Goto
  <2> QED BY <1>6, <2>1, <2>2 DEF GetPasswordCredential
<1>7. CASE RecordLoginAttempt(p)
  <2>1. AfterRecord(p) \in Admitted /\ pc[p] \in Admitted /\ mem' = mem
    BY <1>7 DEF RecordLoginAttempt, InTx, AfterRecord, Admitted, LoginTx
  <2> QED BY <1>4, <1>7, <2>1 DEF RecordLoginAttempt, Goto
<1>8. CASE UpdateLastLoginAt(p)
  <2>1. "commit200" \in Admitted /\ pc[p] \in Admitted /\ mem' = mem
    BY <1>8 DEF UpdateLastLoginAt, InTx, Admitted, LoginTx
  <2> QED BY <1>4, <1>8, <2>1 DEF UpdateLastLoginAt, Goto
<1>9. CASE CommitUnverified(p)
  BY <1>2, <1>9 DEF CommitUnverified
<1>10. CASE CommitLogin(p)
  <2>1. CASE Goto(p, "rehash") /\ UNCHANGED mem
    BY <1>3, <2>1 DEF Goto
  <2> QED BY <1>2, <1>10, <2>1 DEF CommitLogin
<1>11. CASE Rehash(p)
  BY <1>2, <1>11 DEF Rehash
<1> QED BY <1>5, <1>6, <1>7, <1>8, <1>9, <1>10, <1>11

(* No other operation opens a transaction.                                    *)
LEMMA OthersQuiet ==
    ASSUME TypeOK, TypeOK', NEW p \in Procs,
           \/ ChangePassword(p) \/ InitiatePasswordReset(p) \/ CompletePasswordReset(p)
           \/ InitiateEmailVerification(p) \/ VerifyEmail(p) \/ StatementFails(p)
    PROVE  Quiet
<1>1. fails' = fails
  BY DEF ChangePassword, InitiatePasswordReset, CompletePasswordReset,
     InitiateEmailVerification, VerifyEmail, StatementFails, ChangeFetch, ChangeUser,
     ChangeUpdate, ChangeInvalidate, ForgotLookup, ForgotInvalidate, ForgotInsert,
     ResetConsume, ResetUser, ResetUpdate, ResendInvalidate, ResendInsert, VerifyConsume,
     VerifyUpdate, InvalidateThenGoto, InsertAndReply, ConsumeAuthToken, tables
<1>2. ASSUME NEW status, Reply(p, status) PROVE Quiet
  BY <1>1, <1>2, QuietReply
<1>3. ASSUME NEW s \in Steps \ LoginTx, Goto(p, s),
             \A q \in Procs \ {p} : mem'[q] = mem[q]
      PROVE  Quiet
  <2>1. s \notin LoginTx /\ s \notin Admitted
    BY DEF Admitted
  <2> QED BY <1>1, <1>3, <2>1, QuietStep DEF Goto
<1>4. {"changeUser", "changeUpdate", "changeInvalidate", "forgotInvalidate", "forgotInsert",
       "resetUser", "resetUpdate", "resendInsert", "verifyUpdate"} \subseteq Steps \ LoginTx
  BY DEF Steps, LoginTx, Issuing
<1>5. CASE ChangePassword(p)
  BY <1>2, <1>3, <1>4, <1>5 DEF ChangePassword, ChangeFetch, ChangeUser, ChangeUpdate,
     ChangeInvalidate
<1>6. CASE InitiatePasswordReset(p)
  <2>1. CASE ForgotLookup(p)
    <3>1. CASE Goto(p, "forgotInvalidate") /\ mem' = [mem EXCEPT ![p].user = req[p].user]
      BY <1>3, <1>4, <3>1 DEF TypeOK, RequestsOK
    <3> QED BY <1>2, <2>1, <3>1 DEF ForgotLookup
  <2>2. CASE ForgotInvalidate(p)
    BY <1>3, <1>4, <2>2 DEF ForgotInvalidate, InvalidateThenGoto
  <2>3. CASE ForgotInsert(p)
    BY <1>2, <2>3 DEF ForgotInsert, InsertAndReply
  <2> QED BY <1>6, <2>1, <2>2, <2>3 DEF InitiatePasswordReset
<1>7. ASSUME NEW step, NEW type, NEW next \in {"resetUser", "verifyUpdate"},
             ConsumeAuthToken(p, step, type, next)
      PROVE  Quiet
  <2>1. CASE Goto(p, next) /\ mem' = [mem EXCEPT ![p].user = tok[req[p].tok].user]
    BY <1>3, <1>4, <2>1 DEF TypeOK, RequestsOK
  <2> QED BY <1>2, <1>7, <2>1 DEF ConsumeAuthToken
<1>8. CASE CompletePasswordReset(p)
  BY <1>2, <1>3, <1>4, <1>7, <1>8 DEF CompletePasswordReset, ResetConsume, ResetUser,
     ResetUpdate
<1>9. CASE InitiateEmailVerification(p)
  BY <1>2, <1>3, <1>4, <1>9 DEF InitiateEmailVerification, ResendInvalidate, ResendInsert,
     InvalidateThenGoto, InsertAndReply
<1>10. CASE VerifyEmail(p)
  BY <1>2, <1>7, <1>10 DEF VerifyEmail, VerifyConsume, VerifyUpdate
<1>11. CASE StatementFails(p)
  BY <1>2, <1>11 DEF StatementFails
<1> QED BY <1>5, <1>6, <1>8, <1>9, <1>10, <1>11

LEMMA LockoutNext ==
    ASSUME TypeOK, TypeOK', RequestInv, PoolInv, LockoutOvershoot, [Next]_vars
    PROVE  PoolInv' /\ LockoutOvershoot'
<1>1. ASSUME NEW p \in Procs, Step(p) PROVE PoolInv' /\ LockoutOvershoot'
  <2>1. CASE Login(p)
    BY <2>1, BeginLockout, CountLockout, MismatchLockout, LoginQuiet, QuietPreserves DEF Login
  <2>2. CASE ~Login(p)
    BY <1>1, <2>2, OthersQuiet, QuietPreserves DEF Step
  <2> QED BY <2>1, <2>2
<1>2. CASE Next
  BY <1>1, <1>2, StartQuiet, QuietPreserves, TickLockout DEF Next
<1>3. CASE UNCHANGED vars
  BY <1>3 DEF vars, PoolInv, OpenTx, LockoutOvershoot, FailedCount, RecentFailures, InFlight
<1> QED BY <1>2, <1>3

LEMMA LockoutInit == Init => PoolInv /\ LockoutOvershoot
<1> SUFFICES ASSUME Init PROVE PoolInv /\ LockoutOvershoot
  OBVIOUS
<1>1. OpenTx = {}
  BY DEF Init, OpenTx, NoTx
<1>2. ASSUME NEW u \in Users PROVE RecentFailures(u) = {} /\ InFlight(u) = {}
  BY LockoutAssumption DEF Init, RecentFailures, InFlight, Admitted, LoginTx
<1> QED BY <1>1, <1>2, FS_EmptySet, LockoutAssumption, PoolAssumption
        DEF PoolInv, LockoutOvershoot, FailedCount

\* A user never has more than MaxAttempts - 1 + MaxConns failures in the lockout
\* window, attempts in flight included, however many requests Authenticate
\* serves concurrently and whichever statements fail.
THEOREM LockoutBound == Spec => []LockoutOvershoot
<1> DEFINE IInv == TypeOK /\ RequestInv /\ PoolInv /\ LockoutOvershoot
<1>1. Init => IInv
  BY TypeInit, LockoutInit
<1>2. IInv /\ [Next]_vars => IInv'
  BY TypeNext, LockoutNext
<1>3. IInv => LockoutOvershoot
  OBVIOUS
<1> QED BY <1>1, <1>2, <1>3, PTL DEF Spec
=============================================================================
