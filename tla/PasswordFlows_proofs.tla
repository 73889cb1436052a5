------------------------ MODULE PasswordFlows_proofs ------------------------
(* More proofs about PasswordStore: what a request that is under way, or was  *)
(* answered, may rely on in the tables, whatever other requests do.           *)
EXTENDS PasswordStore_proofs

Fetched == {"record", "lastLogin", "commit401", "commit403", "commit200", "rehash"}
Accepted == {"lastLogin", "commit200", "rehash"}
Consumed == {"resetUser", "resetUpdate", "verifyUpdate"}

(* The tables only move one way: an address stays verified, a credential and   *)
(* a current hash stay, a token keeps its user and type and stays consumed.    *)
Monotone ==
    /\ \A u \in Users : /\ verified[u] = TRUE => verified'[u] = TRUE
                        /\ cred[u] # NoHash => cred'[u] # NoHash
                        /\ cred[u].current = TRUE => cred'[u].current = TRUE
    /\ \A t \in Tokens : tok[t].status = "consumed" =>
          /\ tok'[t].status = "consumed"
          /\ tok'[t].user = tok[t].user
          /\ tok'[t].type = tok[t].type

(* What a request at step s, with request r, memory m and answer a relies on.  *)
UnderWay(s, r, m) ==
    /\ s \in Issuing => r.op \in {"forgot", "resend"}
    /\ s \in LoginTx \cup {"begin", "rehash"} => (m.verified = TRUE => verified[m.user] = TRUE)
    /\ s \in Fetched => /\ cred[m.user] # NoHash
                        /\ m.hash.current = TRUE => cred[m.user].current = TRUE
    /\ s \in Accepted => /\ Match(r.pw, m.hash)
                         /\ RequireEmailVerification => m.verified = TRUE
    /\ s \in Consumed => tok[r.tok].status = "consumed"
    /\ s = "verifyUpdate" => /\ tok[r.tok].user = m.user
                             /\ tok[r.tok].type = "email_verification"
Answered(r, a) ==
    /\ r.op = "login" /\ a = "200" =>
          /\ r.user \in Users
          /\ RequireEmailVerification => verified[r.user] = TRUE
          /\ "rehash" \notin Faults => cred[r.user].current = TRUE
    /\ r.op \in {"reset", "verify"} /\ a \in {"200", "policy"} =>
          tok[r.tok].status = "consumed"

FlowInv == \A p \in Procs : UnderWay(pc[p], req[p], mem[p]) /\ Answered(req[p], resp[p])

(* The tables.                                                                 *)
LEMMA UnchangedMonotone == ASSUME UNCHANGED <<cred, verified, tok>> PROVE Monotone
BY DEF Monotone

LEMMA SetHashMonotone ==
    ASSUME TypeOK, NEW u, NEW pw \in Passwords, SetHash(u, Hash(pw)), UNCHANGED <<verified, tok>>
    PROVE  Monotone
<1>1. Hash(pw) # NoHash /\ Hash(pw).current = TRUE /\ NoHash.current # TRUE
  BY DEF Hash, NoHash
<1>2. ASSUME NEW v \in Users PROVE cred'[v] \in {cred[v], Hash(pw)} /\ (cred[v] = NoHash => cred'[v] = NoHash)
  BY DEF SetHash, TypeOK, TablesOK
<1>3. ASSUME NEW v \in Users
      PROVE  /\ cred[v] # NoHash => cred'[v] # NoHash
             /\ cred[v].current = TRUE => cred'[v].current = TRUE
  BY <1>1, <1>2
<1> QED BY <1>3 DEF Monotone

LEMMA InvalidateMonotone ==
    ASSUME TypeOK, NEW u, NEW type, Invalidate(u, type), UNCHANGED <<cred, verified>>
    PROVE  Monotone
BY DEF Monotone, Invalidate, Live

LEMMA InsertMonotone ==
    ASSUME TypeOK, NEW t \in Tokens, NEW u, NEW type, Insert(t, u, type), UNCHANGED <<cred, verified>>
    PROVE  Monotone
BY DEF Monotone, Insert, TypeOK, TablesOK

LEMMA ConsumeMonotone ==
    ASSUME TypeOK, NEW t \in Tokens, tok' = [tok EXCEPT ![t].status = "consumed"],
           UNCHANGED <<cred, verified>>
    PROVE  Monotone
BY DEF Monotone, TypeOK, TablesOK, TokenRows

LEMMA TickMonotone == ASSUME TypeOK, Tick PROVE Monotone
BY DEF Monotone, TypeOK, TablesOK, TokenRows, Tick

LEMMA VerifyMonotone ==
    ASSUME TypeOK, NEW u, verified' = [verified EXCEPT ![u] = TRUE], UNCHANGED <<cred, tok>>
    PROVE  Monotone
BY DEF Monotone, TypeOK, TablesOK

(* Nothing that a request relies on is taken away by another one.              *)
LEMMA RequestTokens ==
    ASSUME NEW r \in Requests \cup {NoRequest}
    PROVE  r.op \in {"reset", "verify"} => r.tok \in Tokens
BY RequestFields DEF ResetRequests, VerifyRequests, NoRequest

LEMMA Undisturbed ==
    ASSUME TypeOK, RequestInv, FlowInv, Monotone, NEW q \in Procs,
           pc'[q] = pc[q], req'[q] = req[q], mem'[q] = mem[q], resp'[q] = resp[q]
    PROVE  UnderWay(pc[q], req[q], mem[q])' /\ Answered(req[q], resp[q])'
<1> DEFINE s == pc[q]
           r == req[q]
           m == mem[q]
<1>1. UnderWay(s, r, m) /\ Answered(r, resp[q])
  BY DEF FlowInv
<1>2. /\ s \in LoginTx \cup {"begin", "rehash"} => m.user \in Users
      /\ s \in ResetSteps \cup VerifySteps => r.tok \in Tokens
  BY DEF RequestInv, Coherent, ResetRequests, VerifyRequests
<1>3. r.op \in {"reset", "verify"} => r.tok \in Tokens
  BY RequestTokens DEF TypeOK, RequestsOK
<1>4. /\ Fetched \subseteq LoginTx \cup {"begin", "rehash"}
      /\ Consumed \subseteq ResetSteps \cup VerifySteps
      /\ "verifyUpdate" \in Consumed
  BY DEF Fetched, Consumed, LoginTx, ResetSteps, VerifySteps
<1>5. UnderWay(pc[q], req[q], mem[q])'
  BY <1>1, <1>2, <1>4 DEF UnderWay, Monotone, Match
<1>6. Answered(req[q], resp[q])'
  BY <1>1, <1>3 DEF Answered, Monotone
<1> QED BY <1>5, <1>6

LEMMA OneFlow ==
    ASSUME TypeOK, RequestInv, FlowInv, Monotone, NEW p \in Procs,
           \A q \in Procs \ {p} : /\ pc'[q] = pc[q] /\ req'[q] = req[q]
                                  /\ mem'[q] = mem[q] /\ resp'[q] = resp[q],
           UnderWay(pc[p], req[p], mem[p])', Answered(req[p], resp[p])'
    PROVE  FlowInv'
<1> SUFFICES ASSUME NEW q \in Procs
             PROVE  UnderWay(pc[q], req[q], mem[q])' /\ Answered(req[q], resp[q])'
  BY DEF FlowInv
<1>1. CASE q = p
  BY <1>1
<1>2. CASE q # p
  BY <1>2, Undisturbed
<1> QED BY <1>1, <1>2

(* A request that returns.                                                     *)
LEMMA ReplyFlow ==
    ASSUME TypeOK, RequestInv, FlowInv, Monotone, NEW p \in Procs, NEW status,
           Reply(p, status), req' = req, Answered(req[p], status)'
    PROVE  FlowInv'
<1>1. /\ pc'[p] = "idle" /\ resp'[p] = status
      /\ \A q \in Procs \ {p} : /\ pc'[q] = pc[q] /\ req'[q] = req[q]
                                /\ mem'[q] = mem[q] /\ resp'[q] = resp[q]
  BY DEF Reply, TypeOK, RequestsOK
<1>2. UnderWay(pc[p], req[p], mem[p])'
  BY <1>1 DEF UnderWay, Issuing, LoginTx, Fetched, Accepted, Consumed
<1>3. Answered(req[p], resp[p])'
  BY <1>1 DEF Answered
<1> QED BY <1>1, <1>2, <1>3, OneFlow

LEMMA RefusalFlow ==
    ASSUME TypeOK, RequestInv, FlowInv, Monotone, NEW p \in Procs, NEW status,
           status \notin {"200", "policy"}, Reply(p, status), req' = req
    PROVE  FlowInv'
<1>1. Answered(req[p], status)'
  BY DEF Answered
<1> QED BY <1>1, ReplyFlow

(* An answer that says nothing about a login or a token.                       *)
LEMMA OtherReplyFlow ==
    ASSUME TypeOK, RequestInv, FlowInv, Monotone, NEW p \in Procs, NEW status,
           req[p].op \notin {"login", "reset", "verify"}, Reply(p, status), req' = req
    PROVE  FlowInv'
<1>1. Answered(req[p], status)'
  BY DEF Answered
<1> QED BY <1>1, ReplyFlow

(* A request that goes on.                                                     *)
LEMMA GotoFlow ==
    ASSUME TypeOK, RequestInv, FlowInv, Monotone, NEW p \in Procs, NEW s,
           pc[p] # "idle", Goto(p, s), req' = req,
           \A q \in Procs \ {p} : mem'[q] = mem[q], UnderWay(s, req[p], mem[p])'
    PROVE  FlowInv'
<1>1. /\ pc'[p] = s /\ resp'[p] = "none"
      /\ \A q \in Procs \ {p} : /\ pc'[q] = pc[q] /\ req'[q] = req[q]
                                /\ mem'[q] = mem[q] /\ resp'[q] = resp[q]
  BY DEF Goto, TypeOK, RequestsOK, RequestInv, Coherent
<1>2. UnderWay(pc[p], req[p], mem[p])'
  BY <1>1 DEF UnderWay
<1>3. Answered(req[p], resp[p])'
  BY <1>1 DEF Answered
<1> QED BY <1>1, <1>2, <1>3, OneFlow
(* A step that relies on nothing.                                              *)
Carefree == {"changeUser", "changeUpdate", "changeInvalidate"}

LEMMA CarefreeFlow ==
    ASSUME TypeOK, RequestInv, FlowInv, Monotone, NEW p \in Procs, NEW s \in Carefree,
           pc[p] # "idle", Goto(p, s), req' = req, mem' = mem
    PROVE  FlowInv'
<1>1. UnderWay(s, req[p], mem[p])'
  BY DEF UnderWay, Carefree, Issuing, LoginTx, Fetched, Accepted, Consumed
<1> QED BY <1>1, GotoFlow

(* A step of a login that keeps what it has read.                              *)
LEMMA LoginGotoFlow ==
    ASSUME TypeOK, RequestInv, FlowInv, UNCHANGED <<tables, req, mem>>, NEW p \in Procs,
           NEW s \in LoginTx \cup {"rehash"}, Goto(p, s),
           pc[p] \in LoginTx \cup {"begin"},
           s \in Fetched => pc[p] \in Fetched,
           s \in Accepted => /\ Match(req[p].pw, mem[p].hash)
                             /\ RequireEmailVerification => mem[p].verified = TRUE
    PROVE  FlowInv'
<1>1. Monotone
  BY UnchangedMonotone DEF tables
<1>2. UnderWay(pc[p], req[p], mem[p])
  BY DEF FlowInv
<1>3. s \notin Issuing /\ s \notin Consumed /\ s # "verifyUpdate" /\ pc[p] # "idle"
  BY DEF Issuing, Consumed, LoginTx
<1>4. /\ mem[p].verified = TRUE => verified[mem[p].user] = TRUE
      /\ s \in Fetched => /\ cred[mem[p].user] # NoHash
                          /\ mem[p].hash.current = TRUE => cred[mem[p].user].current = TRUE
  BY <1>2 DEF UnderWay
<1>5. UNCHANGED <<cred, verified, req, mem>>
  BY DEF tables
<1>6. UnderWay(s, req[p], mem[p])'
  BY <1>3, <1>4, <1>5 DEF UnderWay, Match
<1> QED BY <1>1, <1>3, <1>5, <1>6, GotoFlow

LEMMA StartFlow ==
    ASSUME TypeOK, RequestInv, FlowInv, NEW p \in Procs, NEW r \in Requests, Start(p, r)
    PROVE  FlowInv'
<1>1. Monotone
  BY UnchangedMonotone DEF Start, tables
<1>2. /\ pc'[p] = FirstStep(r.op) /\ req'[p] = r /\ resp'[p] = "none"
      /\ \A q \in Procs \ {p} : /\ pc'[q] = pc[q] /\ req'[q] = req[q]
                                /\ mem'[q] = mem[q] /\ resp'[q] = resp[q]
  BY DEF Start, TypeOK, RequestsOK
<1>3. /\ FirstStep(r.op) \in Issuing => r.op \in {"forgot", "resend"}
      /\ FirstStep(r.op) \notin LoginTx \cup {"begin", "rehash"} \cup Consumed
  BY RequestFields DEF FirstStep, AllOps, Issuing, LoginTx, Consumed
<1>4. UnderWay(pc[p], req[p], mem[p])'
  BY <1>2, <1>3 DEF UnderWay, Fetched, Accepted, Consumed, LoginTx
<1>5. Answered(req[p], resp[p])'
  BY <1>2 DEF Answered
<1> QED BY <1>1, <1>2, <1>4, <1>5, OneFlow

LEMMA LoginLookupFlow ==
    ASSUME TypeOK, RequestInv, FlowInv, NEW p \in Procs, LoginLookup(p)
    PROVE  FlowInv'
<1>1. Monotone /\ req' = req /\ verified' = verified /\ pc[p] # "idle"
  BY UnchangedMonotone DEF LoginLookup, tables, At
<1>2. CASE Reply(p, "401")
  BY <1>1, <1>2, RefusalFlow
<1>3. CASE /\ req[p].user \in Users /\ Goto(p, "begin")
           /\ mem' = [mem EXCEPT ![p].user = req[p].user, ![p].verified = verified[req[p].user]]
  <2>1. \A q \in Procs \ {p} : mem'[q] = mem[q]
    BY <1>3 DEF TypeOK, RequestsOK
  <2>2. mem'[p].user = req[p].user /\ mem'[p].verified = verified[req[p].user]
    BY <1>3 DEF TypeOK, RequestsOK, Mem
  <2>3. UnderWay("begin", req[p], mem[p])'
    BY <1>1, <2>2 DEF UnderWay, Issuing, Fetched, Accepted, Consumed
  <2> QED BY <1>1, <1>3, <2>1, <2>3, GotoFlow
<1> QED BY <1>2, <1>3 DEF LoginLookup

LEMMA LoginBeginFlow ==
    ASSUME TypeOK, RequestInv, FlowInv, NEW p \in Procs, LoginBegin(p)
    PROVE  FlowInv'
<1>1. /\ pc[p] = "begin" /\ Goto(p, "count") /\ UNCHANGED <<tables, req, mem>>
      /\ "count" \in LoginTx /\ "count" \notin Fetched /\ "count" \notin Accepted
  BY DEF LoginBegin, At, LoginTx, Fetched, Accepted
<1> QED BY <1>1, LoginGotoFlow

LEMMA CountFlow ==
    ASSUME TypeOK, RequestInv, FlowInv, NEW p \in Procs, CountRecentFailedAttempts(p)
    PROVE  FlowInv'
<1>1. /\ pc[p] = "count" /\ UNCHANGED <<tables, req>> /\ Monotone
      /\ pc[p] \in LoginTx /\ "fetch" \in LoginTx /\ "fetch" \notin Fetched \cup Accepted
  BY UnchangedMonotone DEF CountRecentFailedAttempts, InTx, LoginTx, Fetched, Accepted, tables
<1>2. CASE Reply(p, "423")
  BY <1>1, <1>2, RefusalFlow
<1>3. CASE Goto(p, "fetch") /\ UNCHANGED mem
  BY <1>1, <1>3, LoginGotoFlow
<1> QED BY <1>2, <1>3 DEF CountRecentFailedAttempts

LEMMA FetchFlow ==
    ASSUME TypeOK, RequestInv, FlowInv, NEW p \in Procs, GetPasswordCredential(p)
    PROVE  FlowInv'
<1>1. /\ pc[p] = "fetch" /\ UNCHANGED <<tables, req>> /\ Monotone /\ UNCHANGED <<cred, verified>>
  BY UnchangedMonotone DEF GetPasswordCredential, InTx, tables
<1>2. CASE Reply(p, "401")
  BY <1>1, <1>2, RefusalFlow
<1>3. CASE /\ cred[mem[p].user] # NoHash /\ Goto(p, "record")
           /\ mem' = [mem EXCEPT ![p].hash = cred[mem[p].user]]
  <2>1. \A q \in Procs \ {p} : mem'[q] = mem[q]
    BY <1>3 DEF TypeOK, RequestsOK
  <2>2. /\ mem'[p].user = mem[p].user /\ mem'[p].verified = mem[p].verified
        /\ mem'[p].hash = cred[mem[p].user]
    BY <1>3 DEF TypeOK, RequestsOK, Mem
  <2>3. mem[p].verified = TRUE => verified[mem[p].user] = TRUE
    BY <1>1 DEF FlowInv, UnderWay, LoginTx
  <2>4. UnderWay("record", req[p], mem[p])'
    BY <1>1, <1>3, <2>2, <2>3 DEF UnderWay, Issuing, Accepted, Consumed
  <2> QED BY <1>1, <1>3, <2>1, <2>4, GotoFlow
<1> QED BY <1>2, <1>3 DEF GetPasswordCredential

LEMMA RecordFlow ==
    ASSUME TypeOK, RequestInv, FlowInv, NEW p \in Procs, RecordLoginAttempt(p)
    PROVE  FlowInv'
<1>1. /\ pc[p] = "record" /\ UNCHANGED <<tables, req, mem>> /\ Goto(p, AfterRecord(p))
      /\ pc[p] \in LoginTx /\ pc[p] \in Fetched
  BY DEF RecordLoginAttempt, InTx, LoginTx, Fetched
<1>2. CASE AfterRecord(p) = "commit401"
  <2>1. "commit401" \in LoginTx /\ "commit401" \notin Accepted
    BY DEF LoginTx, Accepted
  <2> QED BY <1>1, <1>2, <2>1, LoginGotoFlow
<1>3. CASE AfterRecord(p) = "commit403"
  <2>1. "commit403" \in LoginTx /\ "commit403" \notin Accepted
    BY DEF LoginTx, Accepted
  <2> QED BY <1>1, <1>3, <2>1, LoginGotoFlow
<1>4. CASE AfterRecord(p) = "lastLogin"
  <2>1. "lastLogin" \in LoginTx
    BY DEF LoginTx
  <2>2. mem[p].verified \in BOOLEAN
    BY DEF TypeOK, RequestsOK, Mem
  <2>3. Match(req[p].pw, mem[p].hash) /\ (RequireEmailVerification => mem[p].verified = TRUE)
    BY <1>4, <2>2 DEF AfterRecord
  <2> QED BY <1>1, <1>4, <2>1, <2>3, LoginGotoFlow
<1> QED BY <1>2, <1>3, <1>4 DEF AfterRecord

LEMMA LastLoginFlow ==
    ASSUME TypeOK, RequestInv, FlowInv, NEW p \in Procs, UpdateLastLoginAt(p)
    PROVE  FlowInv'
<1>1. /\ pc[p] = "lastLogin" /\ UNCHANGED <<tables, req, mem>> /\ Goto(p, "commit200")
      /\ pc[p] \in LoginTx /\ pc[p] \in Fetched /\ pc[p] \in Accepted /\ "commit200" \in LoginTx
  BY DEF UpdateLastLoginAt, InTx, LoginTx, Fetched, Accepted
<1>2. Match(req[p].pw, mem[p].hash) /\ (RequireEmailVerification => mem[p].verified = TRUE)
  BY <1>1 DEF FlowInv, UnderWay
<1> QED BY <1>1, <1>2, LoginGotoFlow

LEMMA CommitRefusedFlow ==
    ASSUME TypeOK, RequestInv, FlowInv, NEW p \in Procs, CommitMismatch(p) \/ CommitUnverified(p)
    PROVE  FlowInv'
<1>1. Monotone /\ req' = req
  BY UnchangedMonotone DEF CommitMismatch, CommitUnverified, tables
<1>2. Reply(p, "401") \/ Reply(p, "403")
  BY DEF CommitMismatch, CommitUnverified
<1> QED BY <1>1, <1>2, RefusalFlow

LEMMA CommitLoginFlow ==
    ASSUME TypeOK, RequestInv, FlowInv, NEW p \in Procs, CommitLogin(p)
    PROVE  FlowInv'
<1>1. /\ pc[p] = "commit200" /\ UNCHANGED <<tables, req>> /\ Monotone /\ UNCHANGED <<cred, verified>>
      /\ pc[p] \in LoginTx /\ pc[p] \in Fetched /\ pc[p] \in Accepted
  BY UnchangedMonotone DEF CommitLogin, InTx, tables, LoginTx, Fetched, Accepted
<1>2. /\ Match(req[p].pw, mem[p].hash) /\ (RequireEmailVerification => mem[p].verified = TRUE)
      /\ mem[p].verified = TRUE => verified[mem[p].user] = TRUE
      /\ mem[p].hash.current = TRUE => cred[mem[p].user].current = TRUE
  BY <1>1 DEF FlowInv, UnderWay
<1>3. CASE Reply(p, "500")
  BY <1>1, <1>3, RefusalFlow
<1>4. CASE ~NeedsRehash(req[p].pw, mem[p].hash) /\ Reply(p, "200")
  <2>1. mem[p].user \in Users /\ mem[p].user = req[p].user /\ req[p] \in LoginRequests
    BY <1>1 DEF RequestInv, Coherent, LoginSteps
  <2>2. mem[p].hash.current = TRUE
    <3>1. mem[p].hash.current \in BOOLEAN
      <4>1. mem[p].hash \in Hashes \cup {NoHash}
        BY DEF TypeOK, RequestsOK, Mem
      <4>2. NoHash.current = FALSE /\ \A h \in Hashes : h.current \in BOOLEAN
        BY DEF Hashes, NoHash
      <4> QED BY <4>1, <4>2
    <3> QED BY <1>2, <1>4, <3>1 DEF NeedsRehash
  <2>3. Answered(req[p], "200")'
    BY <1>1, <1>2, <2>1, <2>2 DEF Answered, LoginRequests
  <2> QED BY <1>1, <1>4, <2>3, ReplyFlow
<1>5. CASE Goto(p, "rehash") /\ UNCHANGED mem
  BY <1>1, <1>2, <1>5, LoginGotoFlow
<1> QED BY <1>3, <1>4, <1>5 DEF CommitLogin

LEMMA RehashFlow ==
    ASSUME TypeOK, RequestInv, FlowInv, NEW p \in Procs, Rehash(p)
    PROVE  FlowInv'
<1>1. /\ pc[p] = "rehash" /\ UNCHANGED <<verified, tok, req>> /\ Reply(p, "200")
      /\ pc[p] \in LoginSteps /\ pc[p] \in Fetched /\ pc[p] \in Accepted
  BY DEF Rehash, At, LoginSteps, Fetched, Accepted
<1>2. /\ RequireEmailVerification => mem[p].verified = TRUE
      /\ mem[p].verified = TRUE => verified[mem[p].user] = TRUE
      /\ cred[mem[p].user] # NoHash
  BY <1>1 DEF FlowInv, UnderWay
<1>3. mem[p].user \in Users /\ mem[p].user = req[p].user /\ req[p] \in LoginRequests
  BY <1>1 DEF RequestInv, Coherent
<1>4. req[p].pw \in Passwords /\ req[p].op = "login"
  BY <1>3 DEF LoginRequests
<1>5. Monotone
  BY <1>1, <1>4, SetHashMonotone, UnchangedMonotone DEF Rehash
<1>6. "rehash" \notin Faults => cred'[mem[p].user].current = TRUE
  BY <1>2, <1>3 DEF Rehash, SetHash, Hash, TypeOK, TablesOK
<1>7. Answered(req[p], "200")'
  BY <1>1, <1>2, <1>3, <1>4, <1>6 DEF Answered
<1> QED BY <1>1, <1>5, <1>7, ReplyFlow
LEMMA ChangeFlow ==
    ASSUME TypeOK, RequestInv, FlowInv, NEW p \in Procs, ChangePassword(p)
    PROVE  FlowInv'
<1>1. pc[p] \in ChangeSteps /\ req' = req
  BY DEF ChangePassword, ChangeFetch, ChangeUser, ChangeUpdate, ChangeInvalidate, At, ChangeSteps
<1>2. req[p] \in ChangeRequests
  BY <1>1 DEF RequestInv, Coherent
<1>3. req[p].op \notin {"login", "reset", "verify"} /\ req[p].new \in Passwords /\ pc[p] # "idle"
  BY <1>1, <1>2 DEF ChangeRequests, ChangeSteps
<1>4. Monotone
  <2>1. CASE ChangeFetch(p) \/ ChangeUser(p)
    BY <2>1, UnchangedMonotone DEF ChangeFetch, ChangeUser, tables
  <2>2. CASE ChangeUpdate(p)
    BY <1>3, <2>2, SetHashMonotone DEF ChangeUpdate
  <2>3. CASE ChangeInvalidate(p)
    BY <2>3, InvalidateMonotone, UnchangedMonotone DEF ChangeInvalidate
  <2> QED BY <2>1, <2>2, <2>3 DEF ChangePassword
<1>5. \/ \E status \in Statuses : Reply(p, status)
      \/ \E s \in Carefree : Goto(p, s) /\ mem' = mem
  BY DEF ChangePassword, ChangeFetch, ChangeUser, ChangeUpdate, ChangeInvalidate, Statuses, Carefree
<1> QED BY <1>1, <1>3, <1>4, <1>5, OtherReplyFlow, CarefreeFlow

(* Requests that issue a token.                                                *)
LEMMA IssueGotoFlow ==
    ASSUME TypeOK, RequestInv, FlowInv, Monotone, NEW p \in Procs,
           NEW s \in {"forgotInvalidate", "forgotInsert", "resendInsert"},
           pc[p] \in Issuing, Goto(p, s), req' = req, \A q \in Procs \ {p} : mem'[q] = mem[q]
    PROVE  FlowInv'
<1>1. req[p].op \in {"forgot", "resend"}
  BY DEF FlowInv, UnderWay
<1>2. UnderWay(s, req[p], mem[p])'
  BY <1>1 DEF UnderWay, LoginTx, Fetched, Accepted, Consumed
<1>3. pc[p] # "idle"
  BY DEF Issuing
<1> QED BY <1>2, <1>3, GotoFlow

LEMMA IssueReplyFlow ==
    ASSUME TypeOK, RequestInv, FlowInv, Monotone, NEW p \in Procs, NEW status,
           pc[p] \in Issuing, Reply(p, status), req' = req
    PROVE  FlowInv'
<1>1. req[p].op \notin {"login", "reset", "verify"}
  BY DEF FlowInv, UnderWay
<1> QED BY <1>1, OtherReplyFlow

LEMMA ForgotLookupFlow ==
    ASSUME TypeOK, RequestInv, FlowInv, NEW p \in Procs, ForgotLookup(p)
    PROVE  FlowInv'
<1>1. Monotone /\ req' = req /\ pc[p] \in Issuing
  BY UnchangedMonotone DEF ForgotLookup, At, tables, Issuing
<1>2. CASE Reply(p, "200")
  BY <1>1, <1>2, IssueReplyFlow
<1>3. CASE Goto(p, "forgotInvalidate") /\ mem' = [mem EXCEPT ![p].user = req[p].user]
  <2>1. \A q \in Procs \ {p} : mem'[q] = mem[q]
    BY <1>3 DEF TypeOK, RequestsOK
  <2> QED BY <1>1, <1>3, <2>1, IssueGotoFlow
<1> QED BY <1>2, <1>3 DEF ForgotLookup

LEMMA InvalidateFlow ==
    ASSUME TypeOK, RequestInv, FlowInv, NEW p \in Procs, NEW step \in Issuing, NEW type,
           NEW next \in {"forgotInsert", "resendInsert"}, InvalidateThenGoto(p, step, type, next)
    PROVE  FlowInv'
<1>1. Monotone
  BY InvalidateMonotone, UnchangedMonotone DEF InvalidateThenGoto
<1> QED BY <1>1, IssueGotoFlow DEF InvalidateThenGoto, At

LEMMA InsertFlow ==
    ASSUME TypeOK, RequestInv, FlowInv, NEW p \in Procs, NEW step \in Issuing, NEW type,
           InsertAndReply(p, step, type)
    PROVE  FlowInv'
<1>1. Monotone
  BY InsertMonotone DEF InsertAndReply
<1>2. PICK status \in Outcome(step, "200") : Reply(p, status)
  BY DEF InsertAndReply
<1> QED BY <1>1, <1>2, IssueReplyFlow DEF InsertAndReply, At

(* Requests that redeem a token.                                               *)
LEMMA RedeemReplyFlow ==
    ASSUME TypeOK, RequestInv, FlowInv, Monotone, NEW p \in Procs, NEW status,
           pc[p] \in Consumed, Reply(p, status), req' = req
    PROVE  FlowInv'
<1>1. tok[req[p].tok].status = "consumed"
  BY DEF FlowInv, UnderWay
<1>2. req[p].op # "login" /\ req[p].tok \in Tokens
  BY DEF RequestInv, Coherent, Consumed, ResetSteps, VerifySteps, ResetRequests, VerifyRequests
<1>3. Answered(req[p], status)'
  BY <1>1, <1>2 DEF Answered, Monotone
<1> QED BY <1>3, ReplyFlow

LEMMA ConsumeFlow ==
    ASSUME TypeOK, RequestInv, FlowInv, NEW p \in Procs, NEW type \in TokenTypes,
           NEW step \in {"resetConsume", "verifyConsume"}, NEW next \in {"resetUser", "verifyUpdate"},
           next = "verifyUpdate" => type = "email_verification",
           ConsumeAuthToken(p, step, type, next)
    PROVE  FlowInv'
<1>1. pc[p] = step /\ req' = req /\ req[p].tok \in Tokens /\ pc[p] # "idle"
  BY DEF ConsumeAuthToken, At, RequestInv, Coherent, ResetSteps, VerifySteps, ResetRequests, VerifyRequests
<1>2. Monotone
  BY <1>1, ConsumeMonotone, UnchangedMonotone DEF ConsumeAuthToken
<1>3. CASE Reply(p, "400") \/ Reply(p, "500")
  BY <1>1, <1>2, <1>3, RefusalFlow
<1>4. CASE /\ Redeemable(req[p].tok, type) /\ tok' = [tok EXCEPT ![req[p].tok].status = "consumed"]
           /\ Goto(p, next) /\ mem' = [mem EXCEPT ![p].user = tok[req[p].tok].user]
  <2>1. \A q \in Procs \ {p} : mem'[q] = mem[q]
    BY <1>4 DEF TypeOK, RequestsOK
  <2>2. mem'[p].user = tok[req[p].tok].user
    BY <1>4 DEF TypeOK, RequestsOK, Mem
  <2>3. /\ tok'[req[p].tok].status = "consumed"
        /\ tok'[req[p].tok].user = tok[req[p].tok].user
        /\ tok'[req[p].tok].type = type
    BY <1>1, <1>4 DEF TypeOK, TablesOK, TokenRows, Redeemable
  <2>4. UnderWay(next, req[p], mem[p])'
    BY <1>1, <2>2, <2>3 DEF UnderWay, Issuing, LoginTx, Fetched, Accepted
  <2> QED BY <1>1, <1>2, <1>4, <2>1, <2>4, GotoFlow
<1> QED BY <1>3, <1>4 DEF ConsumeAuthToken

LEMMA ResetUserFlow ==
    ASSUME TypeOK, RequestInv, FlowInv, NEW p \in Procs, ResetUser(p)
    PROVE  FlowInv'
<1>1. /\ pc[p] = "resetUser" /\ UNCHANGED <<req, tok>> /\ Monotone
      /\ pc[p] \in Consumed /\ pc[p] # "idle"
  BY UnchangedMonotone DEF ResetUser, At, tables, Consumed
<1>2. CASE Reply(p, "policy")
  BY <1>1, <1>2, RedeemReplyFlow
<1>3. CASE Goto(p, "resetUpdate") /\ UNCHANGED mem
  <2>1. tok[req[p].tok].status = "consumed"
    BY <1>1 DEF FlowInv, UnderWay
  <2>2. UnderWay("resetUpdate", req[p], mem[p])'
    BY <1>1, <2>1 DEF UnderWay, Issuing, LoginTx, Fetched, Accepted
  <2> QED BY <1>1, <1>3, <2>2, GotoFlow
<1> QED BY <1>2, <1>3 DEF ResetUser

LEMMA ResetUpdateFlow ==
    ASSUME TypeOK, RequestInv, FlowInv, NEW p \in Procs, ResetUpdate(p)
    PROVE  FlowInv'
<1>1. pc[p] = "resetUpdate" /\ req' = req /\ pc[p] \in Consumed
  BY DEF ResetUpdate, At, Consumed
<1>2. req[p].new \in Passwords
  BY <1>1 DEF RequestInv, Coherent, ResetSteps, ResetRequests
<1>3. Monotone
  BY <1>2, SetHashMonotone DEF ResetUpdate
<1>4. PICK status \in Outcome("resetUpdate", "200") : Reply(p, status)
  BY DEF ResetUpdate
<1> QED BY <1>1, <1>3, <1>4, RedeemReplyFlow

LEMMA VerifyUpdateFlow ==
    ASSUME TypeOK, RequestInv, FlowInv, NEW p \in Procs, VerifyUpdate(p)
    PROVE  FlowInv'
<1>1. pc[p] = "verifyUpdate" /\ req' = req /\ pc[p] \in Consumed
  BY DEF VerifyUpdate, At, Consumed
<1>2. Monotone
  BY VerifyMonotone DEF VerifyUpdate
<1>3. PICK status \in Outcome("verifyUpdate", "200") : Reply(p, status)
  BY DEF VerifyUpdate
<1> QED BY <1>1, <1>2, <1>3, RedeemReplyFlow

LEMMA FailsFlow ==
    ASSUME TypeOK, RequestInv, FlowInv, NEW p \in Procs, StatementFails(p)
    PROVE  FlowInv'
<1>1. Monotone /\ req' = req /\ Reply(p, "500")
  BY UnchangedMonotone DEF StatementFails, tables
<1> QED BY <1>1, RefusalFlow

LEMMA TickFlow ==
    ASSUME TypeOK, RequestInv, FlowInv, Tick
    PROVE  FlowInv'
<1>1. Monotone /\ UNCHANGED <<pc, req, mem, resp>>
  BY TickMonotone DEF Tick
<1> QED BY <1>1, Undisturbed DEF FlowInv

LEMMA FlowInit == ASSUME Init PROVE FlowInv
BY DEF Init, FlowInv, UnderWay, Answered, Issuing, LoginTx, Fetched, Accepted, Consumed, NoRequest

LEMMA FlowNext == ASSUME TypeOK, RequestInv, FlowInv, [Next]_vars PROVE FlowInv'
<1>1. ASSUME NEW p \in Procs, NEW r \in Requests, Start(p, r) PROVE FlowInv'
  BY <1>1, StartFlow
<1>2. ASSUME NEW p \in Procs, Step(p) PROVE FlowInv'
  <2>1. CASE Login(p)
    BY <2>1, LoginLookupFlow, LoginBeginFlow, CountFlow, FetchFlow, RecordFlow, LastLoginFlow,
       CommitRefusedFlow, CommitLoginFlow, RehashFlow DEF Login
  <2>2. CASE ChangePassword(p)
    BY <2>2, ChangeFlow
  <2>3. CASE InitiatePasswordReset(p)
    BY <2>3, ForgotLookupFlow, InvalidateFlow, InsertFlow
    DEF InitiatePasswordReset, ForgotInvalidate, ForgotInsert, Issuing
  <2>4. CASE CompletePasswordReset(p)
    BY <2>4, ConsumeFlow, ResetUserFlow, ResetUpdateFlow
    DEF CompletePasswordReset, ResetConsume, TokenTypes
  <2>5. CASE InitiateEmailVerification(p)
    BY <2>5, InvalidateFlow, InsertFlow
    DEF InitiateEmailVerification, ResendInvalidate, ResendInsert, Issuing
  <2>6. CASE VerifyEmail(p)
    BY <2>6, ConsumeFlow, VerifyUpdateFlow DEF VerifyEmail, VerifyConsume, TokenTypes
  <2>7. CASE StatementFails(p)
    BY <2>7, FailsFlow
  <2> QED BY <1>2, <2>1, <2>2, <2>3, <2>4, <2>5, <2>6, <2>7 DEF Step
<1>3. CASE Tick
  BY <1>3, TickFlow
<1>4. CASE UNCHANGED vars
  <2>1. Monotone /\ UNCHANGED <<pc, req, mem, resp>>
    BY <1>4, UnchangedMonotone DEF vars
  <2> QED BY <2>1, Undisturbed DEF FlowInv
<1> QED BY <1>1, <1>2, <1>3, <1>4 DEF Next

LEMMA FlowInvariance == Spec => [](TypeOK /\ RequestInv /\ FlowInv)
<1>1. Init => TypeOK /\ RequestInv /\ FlowInv
  BY TypeInit, FlowInit
<1>2. TypeOK /\ RequestInv /\ FlowInv /\ [Next]_vars => (TypeOK /\ RequestInv /\ FlowInv)'
  BY TypeNext, FlowNext
<1> QED BY <1>1, <1>2, PTL DEF Spec

(* With RequireEmailVerification, whoever logged in has a verified address,    *)
(* although Authenticate decides on what it read before its transaction.       *)
THEOREM VerifiedLogins == Spec => []LoginsAreVerified
<1>1. FlowInv => LoginsAreVerified
  BY DEF FlowInv, Answered, LoginsAreVerified
<1> QED BY <1>1, FlowInvariance, PTL

(* A successful login leaves a hash made with the current parameters, whatever *)
(* is stored between the login's read and its rehash.                          *)
THEOREM LoginsUpgrade == Spec => []LoginUpgradesHash
<1>1. FlowInv => LoginUpgradesHash
  BY DEF FlowInv, Answered, LoginUpgradesHash
<1> QED BY <1>1, FlowInvariance, PTL
-----------------------------------------------------------------------------
(* Tokens.                                                                    *)

(* The answer and the control state of one request change in a step.           *)
LEMMA StepFrame ==
    ASSUME NEW p \in Procs, Step(p)
    PROVE  /\ req' = req
           /\ \E s : pc' = [pc EXCEPT ![p] = s]
           /\ resp' = resp \/ \E a : resp' = [resp EXCEPT ![p] = a]
<1>1. CASE Login(p)
  <2>1. req' = req /\ ((\E a : Reply(p, a)) \/ (\E s : Goto(p, s)))
    BY <1>1 DEF Login, LoginLookup, LoginBegin, CountRecentFailedAttempts,
       GetPasswordCredential, RecordLoginAttempt, UpdateLastLoginAt, CommitMismatch,
       CommitUnverified, CommitLogin, Rehash
  <2> QED BY <2>1 DEF Reply, Goto
<1>2. CASE ChangePassword(p)
  <2>1. req' = req /\ ((\E a : Reply(p, a)) \/ (\E s : Goto(p, s)))
    BY <1>2 DEF ChangePassword, ChangeFetch, ChangeUser, ChangeUpdate, ChangeInvalidate
  <2> QED BY <2>1 DEF Reply, Goto
<1>3. CASE InitiatePasswordReset(p) \/ InitiateEmailVerification(p)
  <2>1. req' = req /\ ((\E a : Reply(p, a)) \/ (\E s : Goto(p, s)))
    BY <1>3 DEF InitiatePasswordReset, InitiateEmailVerification, ForgotLookup, ForgotInvalidate,
       ForgotInsert, ResendInvalidate, ResendInsert, InvalidateThenGoto, InsertAndReply
  <2> QED BY <2>1 DEF Reply, Goto
<1>4. CASE CompletePasswordReset(p) \/ VerifyEmail(p)
  <2>1. req' = req /\ ((\E a : Reply(p, a)) \/ (\E s : Goto(p, s)))
    BY <1>4 DEF CompletePasswordReset, VerifyEmail, ResetConsume, VerifyConsume,
       ConsumeAuthToken, ResetUser, ResetUpdate, VerifyUpdate
  <2> QED BY <2>1 DEF Reply, Goto
<1>5. CASE StatementFails(p)
  BY <1>5 DEF StatementFails, Reply
<1> QED BY <1>1, <1>2, <1>3, <1>4, <1>5 DEF Step

(* Every step moves the tables one way, and only VerifyUpdate sets             *)
(* email_verified.                                                             *)
LEMMA TableWrites ==
    ASSUME TypeOK, RequestInv, [Next]_vars
    PROVE  Monotone /\ (verified' = verified \/ \E p \in Procs : VerifyUpdate(p))
<1>1. ASSUME NEW p \in Procs, NEW r \in Requests, Start(p, r)
      PROVE  Monotone /\ verified' = verified
  BY <1>1, UnchangedMonotone DEF Start, tables
<1>2. ASSUME NEW p \in Procs, Login(p)
      PROVE  Monotone /\ verified' = verified
  <2>1. CASE Rehash(p)
    <3>1. req[p].pw \in Passwords
      BY <2>1 DEF Rehash, At, RequestInv, Coherent, LoginSteps, LoginRequests
    <3> QED BY <2>1, <3>1, SetHashMonotone, UnchangedMonotone DEF Rehash
  <2>2. CASE ~Rehash(p)
    <3>1. UNCHANGED <<cred, verified, tok>>
      BY <1>2, <2>2 DEF Login, LoginLookup, LoginBegin, CountRecentFailedAttempts,
         GetPasswordCredential, RecordLoginAttempt, UpdateLastLoginAt, CommitMismatch,
         CommitUnverified, CommitLogin, tables
    <3> QED BY <3>1, UnchangedMonotone
  <2> QED BY <2>1, <2>2
<1>3. ASSUME NEW p \in Procs, ChangePassword(p)
      PROVE  Monotone /\ verified' = verified
  <2>1. CASE ChangeFetch(p) \/ ChangeUser(p)
    BY <2>1, UnchangedMonotone DEF ChangeFetch, ChangeUser, tables
  <2>2. CASE ChangeUpdate(p)
    <3>1. req[p].new \in Passwords
      BY <2>2 DEF ChangeUpdate, At, RequestInv, Coherent, ChangeSteps, ChangeRequests
    <3> QED BY <2>2, <3>1, SetHashMonotone DEF ChangeUpdate
  <2>3. CASE ChangeInvalidate(p)
    BY <2>3, InvalidateMonotone, UnchangedMonotone DEF ChangeInvalidate
  <2> QED BY <1>3, <2>1, <2>2, <2>3 DEF ChangePassword
<1>4. ASSUME NEW p \in Procs, InitiatePasswordReset(p) \/ InitiateEmailVerification(p)
      PROVE  Monotone /\ verified' = verified
  <2>1. CASE ForgotLookup(p)
    BY <2>1, UnchangedMonotone DEF ForgotLookup, tables
  <2>2. CASE ForgotInvalidate(p) \/ ResendInvalidate(p)
    BY <2>2, InvalidateMonotone, UnchangedMonotone
    DEF ForgotInvalidate, ResendInvalidate, InvalidateThenGoto
  <2>3. CASE ForgotInsert(p) \/ ResendInsert(p)
    BY <2>3, InsertMonotone DEF ForgotInsert, ResendInsert, InsertAndReply
  <2> QED BY <1>4, <2>1, <2>2, <2>3 DEF InitiatePasswordReset, InitiateEmailVerification
<1>5. ASSUME NEW p \in Procs, CompletePasswordReset(p) \/ VerifyEmail(p)
      PROVE  Monotone /\ (verified' = verified \/ VerifyUpdate(p))
  <2>1. CASE ResetConsume(p) \/ VerifyConsume(p)
    <3>1. req[p].tok \in Tokens
      BY <2>1 DEF ResetConsume, VerifyConsume, ConsumeAuthToken, At, RequestInv, Coherent,
         ResetSteps, VerifySteps, ResetRequests, VerifyRequests
    <3> QED BY <2>1, <3>1, ConsumeMonotone, UnchangedMonotone
            DEF ResetConsume, VerifyConsume, ConsumeAuthToken
  <2>2. CASE ResetUser(p)
    BY <2>2, UnchangedMonotone DEF ResetUser, tables
  <2>3. CASE ResetUpdate(p)
    <3>1. req[p].new \in Passwords
      BY <2>3 DEF ResetUpdate, At, RequestInv, Coherent, ResetSteps, ResetRequests
    <3> QED BY <2>3, <3>1, SetHashMonotone DEF ResetUpdate
  <2>4. CASE VerifyUpdate(p)
    BY <2>4, VerifyMonotone DEF VerifyUpdate
  <2> QED BY <1>5, <2>1, <2>2, <2>3, <2>4 DEF CompletePasswordReset, VerifyEmail
<1>6. ASSUME NEW p \in Procs, StatementFails(p)
      PROVE  Monotone /\ verified' = verified
  BY <1>6, UnchangedMonotone DEF StatementFails, tables
<1>7. CASE Tick
  BY <1>7, TickMonotone DEF Tick
<1>8. CASE UNCHANGED vars
  BY <1>8, UnchangedMonotone DEF vars
<1> QED BY <1>1, <1>2, <1>3, <1>4, <1>5, <1>6, <1>7, <1>8 DEF Next, Step

LEMMA VerifiedNext ==
    ASSUME TypeOK, RequestInv, FlowInv, VerifiedByToken, [Next]_vars
    PROVE  VerifiedByToken'
<1>1. Monotone /\ (verified' = verified \/ \E p \in Procs : VerifyUpdate(p))
  BY TableWrites
<1> SUFFICES ASSUME NEW u \in Users, verified'[u]
             PROVE  \E t \in Tokens : /\ tok'[t].status = "consumed"
                                      /\ tok'[t].user = u
                                      /\ tok'[t].type = "email_verification"
  BY DEF VerifiedByToken
<1>2. CASE verified[u]
  <2>1. PICK t \in Tokens : /\ tok[t].status = "consumed" /\ tok[t].user = u
                            /\ tok[t].type = "email_verification"
    BY <1>2 DEF VerifiedByToken
  <2> QED BY <1>1, <2>1 DEF Monotone
<1>3. CASE ~verified[u]
  <2>1. PICK p \in Procs : VerifyUpdate(p)
    BY <1>1, <1>3
  <2>2. u = mem[p].user
    BY <1>3, <2>1 DEF VerifyUpdate, TypeOK, TablesOK
  <2>3. req[p].tok \in Tokens /\ pc[p] = "verifyUpdate"
    BY <2>1 DEF VerifyUpdate, At, RequestInv, Coherent, VerifySteps, VerifyRequests
  <2>4. /\ tok[req[p].tok].status = "consumed" /\ tok[req[p].tok].user = u
        /\ tok[req[p].tok].type = "email_verification"
    BY <2>2, <2>3 DEF FlowInv, UnderWay, Consumed
  <2> QED BY <1>1, <2>3, <2>4 DEF Monotone
<1> QED BY <1>2, <1>3

(* email_verified becomes true only when an e-mail verification token of that  *)
(* user is redeemed.                                                           *)
THEOREM VerificationNeedsToken == Spec => []VerifiedByToken
<1>1. Init => VerifiedByToken
  BY DEF Init, VerifiedByToken
<1>2. TypeOK /\ RequestInv /\ FlowInv /\ VerifiedByToken /\ [Next]_vars => VerifiedByToken'
  BY VerifiedNext
<1> QED BY <1>1, <1>2, FlowInvariance, PTL DEF Spec

(* Whoever redeems a token has consumed it, and comes to redeem it only when   *)
(* nobody had.                                                                 *)
LEMMA RedeemedIsConsumed ==
    ASSUME FlowInv, NEW p \in Procs, NEW t \in Tokens, Redeems(p, t)
    PROVE  tok[t].status = "consumed"
BY DEF FlowInv, UnderWay, Answered, Redeems, Consumed

LEMMA NewRedeemer ==
    ASSUME TypeOK, RequestInv, FlowInv, NEW p \in Procs, NEW t \in Tokens, Step(p),
           Redeems(p, t)', ~Redeems(p, t)
    PROVE  tok[t].status = "live"
<1>1. req' = req
  BY StepFrame
<1>2. req[p].op \in {"reset", "verify"} /\ req[p].tok = t
  BY <1>1 DEF Redeems
<1>3. CASE Login(p)
  <2>1. pc[p] \in LoginSteps
    BY <1>3 DEF Login, LoginLookup, LoginBegin, CountRecentFailedAttempts,
       GetPasswordCredential, RecordLoginAttempt, UpdateLastLoginAt, CommitMismatch,
       CommitUnverified, CommitLogin, Rehash, At, InTx, LoginSteps, LoginTx
  <2> QED BY <1>2, <2>1 DEF RequestInv, Coherent, LoginRequests
<1>4. CASE ChangePassword(p)
  <2>1. pc[p] \in ChangeSteps
    BY <1>4 DEF ChangePassword, ChangeFetch, ChangeUser, ChangeUpdate, ChangeInvalidate, At,
       ChangeSteps
  <2> QED BY <1>2, <2>1 DEF RequestInv, Coherent, ChangeRequests
<1>5. CASE InitiatePasswordReset(p) \/ InitiateEmailVerification(p)
  <2>1. pc[p] \in Issuing
    BY <1>5 DEF InitiatePasswordReset, InitiateEmailVerification, ForgotLookup, ForgotInvalidate,
       ForgotInsert, ResendInvalidate, ResendInsert, InvalidateThenGoto, InsertAndReply, At, Issuing
  <2> QED BY <1>2, <2>1 DEF FlowInv, UnderWay
<1>6. CASE ResetConsume(p) \/ VerifyConsume(p)
  <2>1. CASE Reply(p, "400") \/ Reply(p, "500")
    BY <2>1 DEF Reply, Redeems, TypeOK, RequestsOK
  <2>2. CASE Redeemable(t, "password_reset") \/ Redeemable(t, "email_verification")
    BY <2>2 DEF Redeemable
  <2> QED BY <1>2, <1>6, <2>1, <2>2 DEF ResetConsume, VerifyConsume, ConsumeAuthToken
<1>7. CASE ResetUser(p) \/ ResetUpdate(p) \/ VerifyUpdate(p)
  BY <1>2, <1>7 DEF ResetUser, ResetUpdate, VerifyUpdate, At, Redeems
<1>8. CASE StatementFails(p)
  BY <1>8 DEF StatementFails, Reply, Redeems, TypeOK, RequestsOK
<1> QED BY <1>3, <1>4, <1>5, <1>6, <1>7, <1>8 DEF Step, CompletePasswordReset, VerifyEmail

LEMMA SingleUseNext ==
    ASSUME TypeOK, RequestInv, FlowInv, TokenSingleUse, [Next]_vars
    PROVE  TokenSingleUse'
<1>1. ASSUME NEW p \in Procs, NEW r \in Requests, Start(p, r) PROVE TokenSingleUse'
  <2>1. ASSUME NEW q \in Procs, NEW t \in Tokens, Redeems(q, t)' PROVE Redeems(q, t)
    <3>1. q # p
      <4>1. pc'[p] = FirstStep(r.op) /\ resp'[p] = "none"
        BY <1>1 DEF Start, TypeOK, RequestsOK
      <4>2. FirstStep(r.op) \notin {"resetUser", "resetUpdate", "verifyUpdate"}
        BY RequestFields DEF FirstStep, AllOps
      <4> QED BY <2>1, <4>1, <4>2 DEF Redeems
    <3> QED BY <1>1, <2>1, <3>1 DEF Start, Redeems, TypeOK, RequestsOK
  <2> QED BY <2>1 DEF TokenSingleUse
<1>2. ASSUME NEW p \in Procs, Step(p) PROVE TokenSingleUse'
  <2>1. ASSUME NEW q \in Procs, q # p, NEW t \in Tokens, Redeems(q, t)' PROVE Redeems(q, t)
    BY <1>2, <2>1, StepFrame DEF Redeems, TypeOK, RequestsOK
  <2>2. ASSUME NEW q \in Procs, q # p, NEW t \in Tokens, Redeems(q, t)', Redeems(p, t)'
        PROVE  FALSE
    <3>1. Redeems(q, t) /\ tok[t].status = "consumed"
      BY <2>1, <2>2, RedeemedIsConsumed
    <3>2. CASE Redeems(p, t)
      BY <2>2, <3>1, <3>2 DEF TokenSingleUse
    <3>3. CASE ~Redeems(p, t)
      BY <1>2, <2>2, <3>1, <3>3, NewRedeemer
    <3> QED BY <3>2, <3>3
  <2> QED BY <2>1, <2>2 DEF TokenSingleUse
<1>3. CASE UNCHANGED <<pc, req, resp>>
  BY <1>3 DEF TokenSingleUse, Redeems
<1> QED BY <1>1, <1>2, <1>3 DEF Next, Tick, vars

(* A token is redeemed by one request only, however many present it at once    *)
(* and whatever becomes of the one that consumed it.                           *)
THEOREM TokensWorkOnce == Spec => []TokenSingleUse
<1>1. Init => TokenSingleUse
  BY DEF Init, TokenSingleUse, Redeems, NoRequest
<1>2. TypeOK /\ RequestInv /\ FlowInv /\ TokenSingleUse /\ [Next]_vars => TokenSingleUse'
  BY SingleUseNext
<1> QED BY <1>1, <1>2, FlowInvariance, PTL DEF Spec
-----------------------------------------------------------------------------
(* How many tokens are usable at once.  A request that issues a token first    *)
(* takes all the others away, so each usable token takes the place of a        *)
(* request that was about to insert it.                                        *)

InsertSteps == {"forgotInsert", "resendInsert"}
InsertStep(type) == IF type = "password_reset" THEN "forgotInsert" ELSE "resendInsert"

(* A step that adds no token and nobody who is about to insert one.            *)
FewerTokens ==
    \A u \in Users, type \in TokenTypes :
        /\ Live(u, type)' \subseteq Live(u, type)
        /\ Inserting(u, type)' \subseteq Inserting(u, type)

LEMMA FiniteTokens ==
    ASSUME NEW S, NEW T, S \subseteq Tokens, T \subseteq Procs
    PROVE  /\ IsFiniteSet(S) /\ Cardinality(S) \in Nat
           /\ IsFiniteSet(T) /\ Cardinality(T) \in Nat
           /\ Cardinality(T) <= Cardinality(Procs) /\ Cardinality(Procs) \in Nat
BY ProcsAssumption, TokensAssumption, FS_Subset, FS_CardinalityType

LEMMA AddOne ==
    ASSUME NEW S, IsFiniteSet(S), NEW x
    PROVE  /\ IsFiniteSet(S \cup {x}) /\ Cardinality(S \cup {x}) \in Nat
           /\ Cardinality(S \cup {x}) <= Cardinality(S) + 1
<1>1. IsFiniteSet(S \cup {x}) /\ Cardinality(S) \in Nat
  BY FS_AddElement, FS_CardinalityType
<1>2. Cardinality(S \cup {x}) \in Nat
  BY <1>1, FS_CardinalityType
<1>3. CASE x \in S
  <2>1. S \cup {x} = S
    BY <1>3
  <2> QED BY <1>1, <2>1
<1>4. CASE x \notin S
  <2>1. Cardinality(S \cup {x}) = Cardinality(S) + 1
    BY <1>4, FS_AddElement
  <2> QED BY <1>1, <1>2, <2>1
<1> QED BY <1>1, <1>2, <1>3, <1>4

LEMMA FewerSuperseded ==
    ASSUME TokensSuperseded, FewerTokens
    PROVE  TokensSuperseded'
<1> SUFFICES ASSUME NEW u \in Users, NEW type \in TokenTypes,
                    {"forgotInvalidate", "resendInvalidate"} \cap Faults = {}
             PROVE  Cardinality(Live(u, type)') + Cardinality(Inserting(u, type)')
                        <= Cardinality(Procs)
  BY DEF TokensSuperseded
<1> DEFINE S == Live(u, type)
           T == Inserting(u, type)
<1>1. S \subseteq Tokens /\ T \subseteq Procs /\ S' \subseteq S /\ T' \subseteq T
  BY DEF Live, Inserting, FewerTokens
<1>2. Cardinality(S) + Cardinality(T) <= Cardinality(Procs)
  BY DEF TokensSuperseded
<1> HIDE DEF S, T
<1>3. IsFiniteSet(S) /\ IsFiniteSet(T) /\ Cardinality(S) \in Nat /\ Cardinality(T) \in Nat
      /\ Cardinality(Procs) \in Nat
  BY <1>1, FiniteTokens
<1>4. /\ Cardinality(S') <= Cardinality(S) /\ Cardinality(S') \in Nat
      /\ Cardinality(T') <= Cardinality(T) /\ Cardinality(T') \in Nat
  BY <1>1, <1>3, FS_Subset, FS_CardinalityType
<1> QED BY <1>2, <1>3, <1>4 DEF S, T

(* Tokens that only lose their users' claims to them.                          *)
FewerLive == \A u \in Users, type \in TokenTypes : Live(u, type)' \subseteq Live(u, type)

LEMMA InvalidateFewer ==
    ASSUME TypeOK, NEW v, NEW kind, Invalidate(v, kind)
    PROVE  FewerLive
<1> SUFFICES ASSUME NEW u \in Users, NEW type \in TokenTypes, NEW t \in Tokens,
                    t \in Live(u, type)'
             PROVE  t \in Live(u, type)
  BY DEF FewerLive, Live
<1>1. tok'[t].status = "live"
  BY DEF Live
<1>2. tok'[t] = IF t \in Live(v, kind) THEN [tok[t] EXCEPT !.status = "consumed"] ELSE tok[t]
  BY DEF Invalidate
<1>3. tok[t] \in TokenRows
  BY DEF TypeOK, TablesOK
<1>4. t \notin Live(v, kind)
  BY <1>1, <1>2, <1>3 DEF TokenRows
<1> QED BY <1>2, <1>4 DEF Live

LEMMA ConsumeFewer ==
    ASSUME TypeOK, NEW t \in Tokens, tok' = [tok EXCEPT ![t].status = "consumed"]
    PROVE  FewerLive
BY DEF FewerLive, Live, TypeOK, TablesOK, TokenRows

LEMMA TickFewer == ASSUME TypeOK, Tick PROVE FewerLive
BY DEF FewerLive, Live, TypeOK, TablesOK, TokenRows, Tick

LEMMA FewerStep ==
    ASSUME TypeOK, FewerLive, NEW p \in Procs, NEW s, s \notin InsertSteps,
           pc' = [pc EXCEPT ![p] = s], \A q \in Procs \ {p} : mem'[q] = mem[q]
    PROVE  FewerTokens
<1>1. ASSUME NEW u \in Users, NEW type \in TokenTypes
      PROVE  Inserting(u, type)' \subseteq Inserting(u, type)
  BY DEF Inserting, InsertSteps, TypeOK, RequestsOK
<1> QED BY <1>1 DEF FewerTokens, FewerLive

LEMMA FewerReply ==
    ASSUME TypeOK, FewerLive, NEW p \in Procs, NEW status, Reply(p, status)
    PROVE  FewerTokens
<1>1. \A q \in Procs \ {p} : mem'[q] = mem[q]
  BY DEF Reply, TypeOK, RequestsOK
<1>2. "idle" \notin InsertSteps
  BY DEF InsertSteps
<1> QED BY <1>1, <1>2, FewerStep DEF Reply

LEMMA FewerGoto ==
    ASSUME TypeOK, FewerLive, NEW p \in Procs, NEW s, s \notin InsertSteps, Goto(p, s),
           \A q \in Procs \ {p} : mem'[q] = mem[q]
    PROVE  FewerTokens
BY FewerStep DEF Goto

(* InitiatePasswordReset and InitiateEmailVerification.                        *)
LEMMA InvalidateSuperseded ==
    ASSUME TypeOK, TokensSuperseded, NEW p \in Procs, NEW step \in {"forgotInvalidate", "resendInvalidate"},
           NEW kind \in TokenTypes, InvalidateThenGoto(p, step, kind, InsertStep(kind))
    PROVE  TokensSuperseded'
<1> SUFFICES ASSUME NEW u \in Users, NEW type \in TokenTypes,
                    {"forgotInvalidate", "resendInvalidate"} \cap Faults = {}
             PROVE  Cardinality(Live(u, type)') + Cardinality(Inserting(u, type)')
                        <= Cardinality(Procs)
  BY DEF TokensSuperseded
<1>1. /\ Invalidate(mem[p].user, kind) /\ mem' = mem
      /\ pc' = [pc EXCEPT ![p] = InsertStep(kind)]
  BY DEF InvalidateThenGoto, Goto
<1>2. CASE u = mem[p].user /\ type = kind
  <2>1. Live(u, type)' = {}
    BY <1>1, <1>2 DEF Invalidate, Live, TypeOK, TablesOK, TokenRows
  <2>2. Inserting(u, type)' \subseteq Procs
    BY DEF Inserting
  <2> QED BY <2>1, <2>2, FS_EmptySet, FiniteTokens
<1>3. CASE ~(u = mem[p].user /\ type = kind)
  <2> DEFINE S == Live(u, type)
             T == Inserting(u, type)
  <2>1. S' \subseteq S
    BY <1>1, InvalidateFewer DEF FewerLive
  <2>2. T' \subseteq T
    BY <1>1, <1>3 DEF Inserting, InsertStep, TokenTypes, TypeOK, RequestsOK
  <2>3. S \subseteq Tokens /\ T \subseteq Procs
    BY DEF Live, Inserting
  <2>4. Cardinality(S) + Cardinality(T) <= Cardinality(Procs)
    BY DEF TokensSuperseded
  <2> HIDE DEF S, T
  <2>5. IsFiniteSet(S) /\ IsFiniteSet(T) /\ Cardinality(S) \in Nat /\ Cardinality(T) \in Nat
        /\ Cardinality(Procs) \in Nat
    BY <2>3, FiniteTokens
  <2>6. /\ Cardinality(S') <= Cardinality(S) /\ Cardinality(S') \in Nat
        /\ Cardinality(T') <= Cardinality(T) /\ Cardinality(T') \in Nat
    BY <2>1, <2>2, <2>5, FS_Subset, FS_CardinalityType
  <2> QED BY <2>4, <2>5, <2>6 DEF S, T
<1> QED BY <1>2, <1>3

LEMMA InsertSuperseded ==
    ASSUME TypeOK, TokensSuperseded, NEW p \in Procs, NEW kind \in TokenTypes,
           InsertAndReply(p, InsertStep(kind), kind)
    PROVE  TokensSuperseded'
<1> SUFFICES ASSUME NEW u \in Users, NEW type \in TokenTypes,
                    {"forgotInvalidate", "resendInvalidate"} \cap Faults = {}
             PROVE  Cardinality(Live(u, type)') + Cardinality(Inserting(u, type)')
                        <= Cardinality(Procs)
  BY DEF TokensSuperseded
<1>1. PICK t \in Tokens : Insert(t, mem[p].user, kind)
  BY DEF InsertAndReply
<1> DEFINE S == Live(u, type)
           T == Inserting(u, type)
<1>2. T' \subseteq T \ {p}
  BY DEF InsertAndReply, Reply, Inserting, TypeOK, RequestsOK
<1>3. S \subseteq Tokens /\ T \subseteq Procs
  BY DEF Live, Inserting
<1>4. Cardinality(S) + Cardinality(T) <= Cardinality(Procs)
  BY DEF TokensSuperseded
<1>5. CASE u = mem[p].user /\ type = kind
  <2>1. S' \subseteq S \cup {t}
    BY <1>1 DEF Insert, Live, TypeOK, TablesOK
  <2>2. p \in T
    BY <1>5 DEF InsertAndReply, At, InsertStep, Inserting
  <2> HIDE DEF S, T
  <2>3. IsFiniteSet(S) /\ IsFiniteSet(T) /\ Cardinality(S) \in Nat /\ Cardinality(T) \in Nat
        /\ Cardinality(Procs) \in Nat
    BY <1>3, FiniteTokens
  <2>4. IsFiniteSet(T \ {p}) /\ Cardinality(T \ {p}) = Cardinality(T) - 1
    BY <2>2, <2>3, FS_RemoveElement
  <2>5. /\ IsFiniteSet(S \cup {t}) /\ Cardinality(S \cup {t}) \in Nat
        /\ Cardinality(S \cup {t}) <= Cardinality(S) + 1
    BY <2>3, AddOne
  <2>6. /\ Cardinality(S') <= Cardinality(S \cup {t}) /\ Cardinality(S') \in Nat
    BY <2>1, <2>5, FS_Subset, FS_CardinalityType
  <2>7. /\ Cardinality(T') <= Cardinality(T \ {p}) /\ Cardinality(T') \in Nat
    BY <1>2, <2>4, FS_Subset, FS_CardinalityType
  <2> QED BY <1>4, <2>3, <2>4, <2>5, <2>6, <2>7 DEF S, T
<1>6. CASE ~(u = mem[p].user /\ type = kind)
  <2>1. S' \subseteq S
    BY <1>1, <1>6 DEF Insert, Live, TypeOK, TablesOK
  <2> HIDE DEF S, T
  <2>2. IsFiniteSet(S) /\ IsFiniteSet(T) /\ Cardinality(S) \in Nat /\ Cardinality(T) \in Nat
        /\ Cardinality(Procs) \in Nat
    BY <1>3, FiniteTokens
  <2>3. /\ Cardinality(S') <= Cardinality(S) /\ Cardinality(S') \in Nat
        /\ Cardinality(T') <= Cardinality(T) /\ Cardinality(T') \in Nat
    BY <1>2, <2>1, <2>2, FS_Subset, FS_CardinalityType
  <2> QED BY <1>4, <2>2, <2>3 DEF S, T
<1> QED BY <1>5, <1>6
LEMMA StepSuperseded ==
    ASSUME TypeOK, RequestInv, TokensSuperseded, NEW p \in Procs, Step(p)
    PROVE  TokensSuperseded'
<1>1. ASSUME tok' = tok PROVE FewerLive
  BY <1>1 DEF FewerLive, Live
<1>2. CASE Login(p)
  <2>1. FewerLive
    BY <1>1, <1>2 DEF Login, LoginLookup, LoginBegin, CountRecentFailedAttempts,
       GetPasswordCredential, RecordLoginAttempt, UpdateLastLoginAt, CommitMismatch,
       CommitUnverified, CommitLogin, Rehash, tables
  <2>2. \/ \E status : Reply(p, status)
        \/ \E s \in Steps \ InsertSteps : Goto(p, s) /\ \A q \in Procs \ {p} : mem'[q] = mem[q]
    <3>1. CASE LoginLookup(p)
      BY <3>1 DEF LoginLookup, Steps, InsertSteps, TypeOK, RequestsOK
    <3>2. CASE GetPasswordCredential(p)
      BY <3>2 DEF GetPasswordCredential, Steps, LoginTx, InsertSteps, TypeOK, RequestsOK
    <3>3. CASE RecordLoginAttempt(p)
      <4>1. AfterRecord(p) \in Steps \ InsertSteps
        BY DEF AfterRecord, Steps, LoginTx, InsertSteps
      <4> QED BY <3>3, <4>1 DEF RecordLoginAttempt
    <3>4. CASE LoginBegin(p) \/ CountRecentFailedAttempts(p) \/ UpdateLastLoginAt(p)
      BY <3>4 DEF LoginBegin, CountRecentFailedAttempts, UpdateLastLoginAt, Steps, LoginTx, InsertSteps
    <3>5. CASE CommitLogin(p)
      BY <3>5 DEF CommitLogin, Steps, InsertSteps
    <3>6. CASE CommitMismatch(p) \/ CommitUnverified(p) \/ Rehash(p)
      BY <3>6 DEF CommitMismatch, CommitUnverified, Rehash
    <3> QED BY <1>2, <3>1, <3>2, <3>3, <3>4, <3>5, <3>6 DEF Login
  <2>3. FewerTokens
    BY <2>1, <2>2, FewerReply, FewerGoto
  <2> QED BY <2>3, FewerSuperseded
<1>3. CASE ChangePassword(p)
  <2>1. FewerLive
    BY <1>1, <1>3, InvalidateFewer DEF ChangePassword, ChangeFetch, ChangeUser, ChangeUpdate,
       ChangeInvalidate, tables
  <2>2. \/ \E status : Reply(p, status)
        \/ \E s \in Steps \ InsertSteps : Goto(p, s) /\ mem' = mem
    BY <1>3 DEF ChangePassword, ChangeFetch, ChangeUser, ChangeUpdate, ChangeInvalidate,
       Steps, InsertSteps
  <2>3. FewerTokens
    BY <2>1, <2>2, FewerReply, FewerGoto
  <2> QED BY <2>3, FewerSuperseded
<1>4. CASE ForgotLookup(p)
  <2>1. FewerLive
    BY <1>1, <1>4 DEF ForgotLookup, tables
  <2>2. \/ \E status : Reply(p, status)
        \/ \E s \in Steps \ InsertSteps : Goto(p, s) /\ \A q \in Procs \ {p} : mem'[q] = mem[q]
    BY <1>4 DEF ForgotLookup, Steps, Issuing, InsertSteps, TypeOK, RequestsOK
  <2>3. FewerTokens
    BY <2>1, <2>2, FewerReply, FewerGoto
  <2> QED BY <2>3, FewerSuperseded
<1>5. CASE ForgotInvalidate(p) \/ ResendInvalidate(p)
  <2>1. InsertStep("password_reset") = "forgotInsert" /\ InsertStep("email_verification") = "resendInsert"
    BY DEF InsertStep
  <2> QED BY <1>5, <2>1, InvalidateSuperseded DEF ForgotInvalidate, ResendInvalidate, TokenTypes
<1>6. CASE ForgotInsert(p) \/ ResendInsert(p)
  <2>1. InsertStep("password_reset") = "forgotInsert" /\ InsertStep("email_verification") = "resendInsert"
    BY DEF InsertStep
  <2> QED BY <1>6, <2>1, InsertSuperseded DEF ForgotInsert, ResendInsert, TokenTypes
<1>7. CASE ResetConsume(p) \/ VerifyConsume(p)
  <2>1. req[p].tok \in Tokens
    BY <1>7 DEF ResetConsume, VerifyConsume, ConsumeAuthToken, At, RequestInv, Coherent,
       ResetSteps, VerifySteps, ResetRequests, VerifyRequests
  <2>2. FewerLive
    BY <1>1, <1>7, <2>1, ConsumeFewer DEF ResetConsume, VerifyConsume, ConsumeAuthToken
  <2>3. \/ \E status : Reply(p, status)
        \/ \E s \in Steps \ InsertSteps : Goto(p, s) /\ \A q \in Procs \ {p} : mem'[q] = mem[q]
    BY <1>7 DEF ResetConsume, VerifyConsume, ConsumeAuthToken, Steps, InsertSteps, TypeOK, RequestsOK
  <2>4. FewerTokens
    BY <2>2, <2>3, FewerReply, FewerGoto
  <2> QED BY <2>4, FewerSuperseded
<1>8. CASE ResetUser(p) \/ ResetUpdate(p) \/ VerifyUpdate(p) \/ StatementFails(p)
  <2>1. FewerLive
    BY <1>1, <1>8 DEF ResetUser, ResetUpdate, VerifyUpdate, StatementFails, tables
  <2>2. \/ \E status : Reply(p, status)
        \/ \E s \in Steps \ InsertSteps : Goto(p, s) /\ mem' = mem
    BY <1>8 DEF ResetUser, ResetUpdate, VerifyUpdate, StatementFails, Steps, InsertSteps
  <2>3. FewerTokens
    BY <2>1, <2>2, FewerReply, FewerGoto
  <2> QED BY <2>3, FewerSuperseded
<1> QED BY <1>2, <1>3, <1>4, <1>5, <1>6, <1>7, <1>8
        DEF Step, InitiatePasswordReset, CompletePasswordReset, InitiateEmailVerification, VerifyEmail

LEMMA SupersededNext ==
    ASSUME TypeOK, RequestInv, TokensSuperseded, [Next]_vars
    PROVE  TokensSuperseded'
<1>1. ASSUME NEW p \in Procs, NEW r \in Requests, Start(p, r) PROVE TokensSuperseded'
  <2>1. FewerLive
    BY <1>1 DEF Start, tables, FewerLive, Live
  <2>2. FirstStep(r.op) \notin InsertSteps
    BY RequestFields DEF FirstStep, AllOps, InsertSteps
  <2>3. \A q \in Procs \ {p} : mem'[q] = mem[q]
    BY <1>1 DEF Start, TypeOK, RequestsOK
  <2>4. FewerTokens
    BY <1>1, <2>1, <2>2, <2>3, FewerStep DEF Start
  <2> QED BY <2>4, FewerSuperseded
<1>2. ASSUME NEW p \in Procs, Step(p) PROVE TokensSuperseded'
  BY <1>2, StepSuperseded
<1>3. CASE Tick
  <2>1. FewerTokens
    BY <1>3, TickFewer DEF FewerTokens, FewerLive, Inserting, Tick
  <2> QED BY <2>1, FewerSuperseded
<1>4. CASE UNCHANGED vars
  <2>1. FewerTokens
    BY <1>4 DEF FewerTokens, Live, Inserting, vars
  <2> QED BY <2>1, FewerSuperseded
<1> QED BY <1>1, <1>2, <1>3, <1>4 DEF Next

LEMMA SupersededInit == ASSUME Init PROVE TokensSuperseded
<1> SUFFICES ASSUME NEW u \in Users, NEW type \in TokenTypes
             PROVE  Cardinality(Live(u, type)) + Cardinality(Inserting(u, type))
                        <= Cardinality(Procs)
  BY DEF TokensSuperseded
<1>1. Live(u, type) = {} /\ Inserting(u, type) = {}
  BY DEF Init, Live, Inserting, NoToken
<1>2. Cardinality({}) = 0 /\ Cardinality(Procs) \in Nat
  BY ProcsAssumption, FS_EmptySet, FS_CardinalityType
<1> QED BY <1>1, <1>2

(* However requests for tokens overlap, a user never has more usable tokens of *)
(* a type than there are concurrent requests.                                  *)
THEOREM TokensAreBounded == Spec => []TokensSuperseded
<1>1. Init => TokensSuperseded
  BY SupersededInit
<1>2. TypeOK /\ RequestInv /\ TokensSuperseded /\ [Next]_vars => TokensSuperseded'
  BY SupersededNext
<1> QED BY <1>1, <1>2, FlowInvariance, PTL DEF Spec
=============================================================================
