--------------------------- MODULE PasswordStore ---------------------------
(***************************************************************************)
(* The password operations of auth/password/store.go over the tables       *)
(* password_credentials, login_attempts, auth_tokens and the column         *)
(* users.email_verified.                                                    *)
(*                                                                         *)
(* Every SQL statement is one step, because other requests' statements run  *)
(* between any two of them.  A statement is executed on a connection of the *)
(* pool (MaxConns connections): a transaction keeps its connection from     *)
(* Begin to Commit or Rollback, a statement outside a transaction needs one *)
(* only for its own step.  Transactions run at Postgres' default READ       *)
(* COMMITTED level: a statement sees what is committed when it executes.    *)
(* Hashing and policy checks read only what the request already holds and   *)
(* are part of the step of the statement before them.                       *)
(*                                                                         *)
(* Time is relative: Tick makes every recorded attempt and open transaction *)
(* one unit older and every token one unit closer to its expiry.            *)
(* Registration, which creates the users, is in module Provisioning.        *)
(***************************************************************************)
EXTENDS Integers, FiniteSets

CONSTANTS
    Users,          \* users of the local issuer
    NoUser,         \* an e-mail address that belongs to no user
    Passwords,      \* plaintext passwords
    Rejected,       \* the passwords that Policy.Validate refuses
    Procs,          \* concurrent requests
    Ops,            \* the operations that clients call
    Rows,           \* row identifiers for recent failed attempts (bound)
    Tokens,         \* token values (bound on the tokens ever issued)
    MaxConns,       \* size of the connection pool
    MaxAttempts,    \* LockoutConfig.MaxAttempts
    Window,         \* LockoutConfig.Window, in time units
    Expiry,         \* TokenConfig: lifetime of each type of token
    RequireEmailVerification,
    Faults          \* the statements that may return a database error

TokenTypes == {"password_reset", "email_verification"}
AllOps == {"login", "change", "forgot", "reset", "resend", "verify"}

\* The statement a request executes next; "idle" is no request.  The three
\* commits of Authenticate differ in what they are followed by.
LoginTx == {"count", "fetch", "record", "lastLogin",
            "commit401", "commit403", "commit200"}
Admitted == LoginTx \ {"count"}     \* past the lockout check
Issuing  == {"forgotLookup", "forgotInvalidate", "forgotInsert",
             "resendInvalidate", "resendInsert"}
Steps == LoginTx \cup Issuing
         \cup {"lookup", "begin", "rehash"}
         \cup {"changeFetch", "changeUser", "changeUpdate", "changeInvalidate"}
         \cup {"resetConsume", "resetUser", "resetUpdate"}
         \cup {"verifyConsume", "verifyUpdate"}

ASSUME UsersAssumption == NoUser \notin Users
ASSUME PasswordsAssumption == Rejected \subseteq Passwords /\ "none" \notin Passwords
ASSUME OpsAssumption == Ops \subseteq AllOps
ASSUME FaultsAssumption == Faults \subseteq Steps
ASSUME ProcsAssumption == IsFiniteSet(Procs)
ASSUME TokensAssumption == IsFiniteSet(Tokens)
ASSUME PoolAssumption == MaxConns \in Nat \ {0}
ASSUME LockoutAssumption == MaxAttempts \in Nat \ {0} /\ Window \in Nat \ {0}
ASSUME ExpiryAssumption == Expiry \in [TokenTypes -> Nat \ {0}]
ASSUME VerificationAssumption == RequireEmailVerification \in BOOLEAN
\* Enough rows for every failure that can be recent at once: see LockoutBound.
ASSUME RowsAssumption ==
    IsFiniteSet(Rows) /\ Cardinality(Rows) >= MaxAttempts - 1 + MaxConns

VARIABLES
    cred,       \* password_credentials: the stored hash of each user, or NoHash
    verified,   \* users.email_verified
    fails,      \* login_attempts with success = FALSE: the age of each row
    tok,        \* auth_tokens
    pc,         \* the statement each request executes next
    req,        \* the request, kept with its answer until the next one
    mem,        \* what the request has read
    tx,         \* its transaction
    resp        \* its answer: the result of the store, as the status of its error

tables == <<cred, verified, fails, tok>>
vars == <<cred, verified, fails, tok, pc, req, mem, tx, resp>>

-----------------------------------------------------------------------------
(* Hashes: which password was hashed, and whether with the hasher's current *)
(* parameters.                                                             *)
Hash(pw) == [pw |-> pw, current |-> TRUE]
NoHash == [pw |-> "none", current |-> FALSE]
Hashes == [pw : Passwords, current : BOOLEAN]
Match(pw, h) == h.pw = pw
\* Mutant: hashes are never upgraded.
NeverRehash(pw, h) == FALSE
NeedsRehash(pw, h) == Match(pw, h) /\ ~h.current
PolicyOK(pw) == pw \notin Rejected

LoginRequests == [op : {"login"}, user : Users \cup {NoUser}, pw : Passwords]
ChangeRequests == [op : {"change"}, user : Users, pw : Passwords, new : Passwords]
ForgotRequests == [op : {"forgot"}, user : Users \cup {NoUser}]
ResetRequests == [op : {"reset"}, tok : Tokens, new : Passwords]
ResendRequests == [op : {"resend"}, user : Users]
VerifyRequests == [op : {"verify"}, tok : Tokens]
Requests ==
    { r \in LoginRequests \cup ChangeRequests \cup ForgotRequests
            \cup ResetRequests \cup ResendRequests \cup VerifyRequests : r.op \in Ops }
NoRequest == [op |-> "none"]
Mem == [user : Users \cup {NoUser}, verified : BOOLEAN, hash : Hashes \cup {NoHash}]
NoMem == [user |-> NoUser, verified |-> FALSE, hash |-> NoHash]
Tx == [open : BOOLEAN, aborted : BOOLEAN, age : 0..Window]
NoTx == [open |-> FALSE, aborted |-> FALSE, age |-> 0]
Statuses == {"200", "400", "401", "403", "404", "423", "500", "policy"}
NoToken == [status |-> "absent", user |-> NoUser,
            type |-> "password_reset", ttl |-> 0]
TokenRows == [status : {"absent", "live", "consumed"}, user : Users \cup {NoUser},
              type : TokenTypes, ttl : Nat]

Init ==
    /\ cred \in [Users -> Hashes \cup {NoHash}]
    /\ verified = [u \in Users |-> FALSE]
    /\ fails = [u \in Users |-> [r \in Rows |-> Window]]
    /\ tok = [t \in Tokens |-> NoToken]
    /\ pc = [p \in Procs |-> "idle"]
    /\ req = [p \in Procs |-> NoRequest]
    /\ mem = [p \in Procs |-> NoMem]
    /\ tx = [p \in Procs |-> NoTx]
    /\ resp = [p \in Procs |-> "none"]

-----------------------------------------------------------------------------
(* The database.                                                           *)

OpenTx == {p \in Procs : tx[p].open}
FreeConn == Cardinality(OpenTx) < MaxConns

\* WHERE success = FALSE AND attempted_at > now - Window.  A row that was never
\* written and one that has left the window are the same to this query.
RecentFailures(u) == {r \in Rows : fails[u][r] < Window}
FailedCount(u) == Cardinality(RecentFailures(u))

\* The row of users that UpdateLastLoginAt has written and not yet committed.
RowLocked(u) == \E q \in Procs : /\ pc[q] = "commit200"
                                 /\ mem[q].user = u
                                 /\ ~tx[q].aborted

\* InsertAuthToken: GenerateToken draws a value that no token had before.
Insert(t, u, type) ==
    /\ tok[t].status = "absent"
    /\ tok' = [tok EXCEPT ![t] = [status |-> "live", user |-> u,
                                  type |-> type, ttl |-> Expiry[type]]]

\* InvalidateUserTokens: every unconsumed token of the user and type, expired
\* ones too.
Live(u, type) ==
    {t \in Tokens : tok[t].status = "live" /\ tok[t].user = u /\ tok[t].type = type}
\* Mutant: only expired tokens are marked as consumed.
InvalidateExpired(u, type) ==
    tok' = [t \in Tokens |-> IF t \in Live(u, type) /\ tok[t].ttl = 0
                             THEN [tok[t] EXCEPT !.status = "consumed"]
                             ELSE tok[t]]
Invalidate(u, type) ==
    tok' = [t \in Tokens |-> IF t \in Live(u, type)
                             THEN [tok[t] EXCEPT !.status = "consumed"]
                             ELSE tok[t]]

\* Mutants: "consumed_at IS NULL" and "token_type = $2" left out.
RedeemableTwice(t, type) ==
    tok[t].type = type /\ tok[t].status # "absent" /\ tok[t].ttl > 0
RedeemableAnyType(t, type) == tok[t].status = "live" /\ tok[t].ttl > 0

\* ConsumeAuthToken's WHERE clause.
Redeemable(t, type) ==
    /\ tok[t].type = type
    /\ tok[t].status = "live"
    /\ tok[t].ttl > 0

\* UpdatePasswordHash: no row, no effect.
SetHash(u, h) == cred' = [cred EXCEPT ![u] = IF @ = NoHash THEN NoHash ELSE h]

-----------------------------------------------------------------------------
(* Control.                                                                *)

Goto(p, step) == pc' = [pc EXCEPT ![p] = step] /\ UNCHANGED resp

\* Mutant: no deferred Rollback.
ReplyWithoutRollback(p, status) ==
    /\ pc' = [pc EXCEPT ![p] = "idle"]
    /\ resp' = [resp EXCEPT ![p] = status]
    /\ mem' = [mem EXCEPT ![p] = NoMem]
    /\ UNCHANGED tx

\* Return to the caller; the deferred Rollback closes a transaction still open.
Reply(p, status) ==
    /\ pc' = [pc EXCEPT ![p] = "idle"]
    /\ resp' = [resp EXCEPT ![p] = status]
    /\ mem' = [mem EXCEPT ![p] = NoMem]
    /\ tx' = [tx EXCEPT ![p] = NoTx]

\* A write that takes effect and whose caller still sees an error (the
\* connection is lost before the answer arrives).
Outcome(step, status) == {status} \cup (IF step \in Faults THEN {"500"} ELSE {})

\* Statements outside a transaction wait for a connection of the pool.
At(p, step) == pc[p] = step /\ FreeConn
InTx(p, step) == pc[p] = step /\ tx[p].open

FirstStep(op) ==
    CASE op = "login" -> "lookup"
      [] op = "change" -> "changeFetch"
      [] op = "forgot" -> "forgotLookup"
      [] op = "reset" -> "resetConsume"
      [] op = "resend" -> "resendInvalidate"
      [] op = "verify" -> "verifyConsume"

\* A client presents only tokens that were issued.  TokenBudget keeps a value
\* in Tokens for every request that is about to insert one.
KnownToken(r) == r.op \in {"reset", "verify"} => tok[r.tok].status # "absent"
TokenBudget(r) ==
    r.op \in {"forgot", "resend"} =>
        Cardinality({t \in Tokens : tok[t].status = "absent"})
            > Cardinality({q \in Procs : pc[q] \in Issuing})

Start(p, r) ==
    /\ pc[p] = "idle"
    /\ KnownToken(r)
    /\ TokenBudget(r)
    /\ pc' = [pc EXCEPT ![p] = FirstStep(r.op)]
    /\ req' = [req EXCEPT ![p] = r]
    /\ resp' = [resp EXCEPT ![p] = "none"]
    \* ChangePassword and InitiateEmailVerification are given the user's id.
    /\ mem' = IF r.op \in {"change", "resend"}
              THEN [mem EXCEPT ![p].user = r.user] ELSE mem
    /\ UNCHANGED <<tables, tx>>

-----------------------------------------------------------------------------
(* Authenticate.                                                           *)

\* GetUserByEmailAndIssuer, before the transaction: the request keeps the
\* email_verified it read here.
LoginLookup(p) ==
    /\ At(p, "lookup")
    /\ \/ /\ req[p].user = NoUser
          /\ Reply(p, "401")
       \/ /\ req[p].user \in Users
          /\ Goto(p, "begin")
          /\ mem' = [mem EXCEPT ![p].user = req[p].user,
                                ![p].verified = verified[req[p].user]]
          /\ UNCHANGED tx
    /\ UNCHANGED <<tables, req>>

LoginBegin(p) ==
    /\ At(p, "begin")
    /\ tx' = [tx EXCEPT ![p] = [open |-> TRUE, aborted |-> FALSE, age |-> 0]]
    /\ Goto(p, "count")
    /\ UNCHANGED <<tables, req, mem>>

\* Mutant: one attempt too many.
LockedOutAbove(failedAttempts) == failedAttempts > MaxAttempts
IsLockedOut(failedAttempts) == failedAttempts >= MaxAttempts

\* Mutant: a refused attempt is recorded like a failed one.
CountAndRecordRefusal(p) ==
    /\ InTx(p, "count")
    /\ \/ /\ IsLockedOut(FailedCount(mem[p].user))
          /\ \E r \in Rows : fails' = [fails EXCEPT ![mem[p].user][r] = tx[p].age]
          /\ Reply(p, "423")
       \/ /\ ~IsLockedOut(FailedCount(mem[p].user))
          /\ Goto(p, "fetch")
          /\ UNCHANGED <<mem, tx, fails>>
    /\ UNCHANGED <<cred, verified, tok, req>>

CountRecentFailedAttempts(p) ==
    /\ InTx(p, "count")
    /\ \/ /\ IsLockedOut(FailedCount(mem[p].user))
          /\ Reply(p, "423")
       \/ /\ ~IsLockedOut(FailedCount(mem[p].user))
          /\ Goto(p, "fetch")
          /\ UNCHANGED <<mem, tx>>
    /\ UNCHANGED <<tables, req>>

GetPasswordCredential(p) ==
    /\ InTx(p, "fetch")
    /\ \/ /\ cred[mem[p].user] = NoHash
          /\ Reply(p, "401")
       \/ /\ cred[mem[p].user] # NoHash
          /\ mem' = [mem EXCEPT ![p].hash = cred[mem[p].user]]
          /\ Goto(p, "record")
          /\ UNCHANGED tx
    /\ UNCHANGED <<tables, req>>

\* Mutant: unverified users are let in.
AfterRecordUngated(p) ==
    IF ~Match(req[p].pw, mem[p].hash) THEN "commit401" ELSE "lastLogin"

\* What follows the recording of the attempt.
AfterRecord(p) ==
    IF ~Match(req[p].pw, mem[p].hash) THEN "commit401"
    ELSE IF RequireEmailVerification /\ ~mem[p].verified THEN "commit403"
    ELSE "lastLogin"

\* The INSERT is private to the transaction until it commits.  An error is only
\* logged, but it aborts the transaction: nothing after it can commit.
RecordLoginAttempt(p) ==
    /\ InTx(p, "record")
    /\ \E failed \in BOOLEAN :
          /\ failed => "record" \in Faults
          /\ tx' = [tx EXCEPT ![p].aborted = failed]
    /\ Goto(p, AfterRecord(p))
    /\ UNCHANGED <<tables, req, mem>>

\* The UPDATE of users waits for another transaction that wrote the same row.
\* Nothing reads last_login_at, so only the lock and the error are modelled.
UpdateLastLoginAt(p) ==
    /\ InTx(p, "lastLogin")
    /\ tx[p].aborted \/ ~RowLocked(mem[p].user)
    /\ \E failed \in BOOLEAN :
          /\ failed => "lastLogin" \in Faults
          /\ tx' = [tx EXCEPT ![p].aborted = @ \/ failed]
    /\ Goto(p, "commit200")
    /\ UNCHANGED <<tables, req, mem>>

\* attempted_at DEFAULT NOW() is the time the transaction began.
RecordFailure(u, age) ==
    \E r \in Rows \ RecentFailures(u) : fails' = [fails EXCEPT ![u][r] = age]

\* Wrong password: whether or not the commit succeeds, the answer is 401.
CommitMismatch(p) ==
    /\ InTx(p, "commit401")
    /\ \/ /\ ~tx[p].aborted
          /\ RecordFailure(mem[p].user, tx[p].age)
       \/ /\ tx[p].aborted \/ "commit401" \in Faults
          /\ UNCHANGED fails
    /\ Reply(p, "401")
    /\ UNCHANGED <<cred, verified, tok, req>>

\* Right password, e-mail not verified: only the success row is committed, and
\* no query reads success rows.
CommitUnverified(p) ==
    /\ InTx(p, "commit403")
    /\ Reply(p, "403")
    /\ UNCHANGED <<tables, req>>

\* Mutant: the rehash runs before the commit, on a connection of its own.
CommitAfterRehash(p) ==
    /\ InTx(p, "commit200")
    /\ \/ ~NeedsRehash(req[p].pw, mem[p].hash) /\ Reply(p, "200")
       \/ NeedsRehash(req[p].pw, mem[p].hash) /\ Goto(p, "rehash") /\ UNCHANGED <<mem, tx>>
    /\ UNCHANGED <<tables, req>>

CommitLogin(p) ==
    /\ InTx(p, "commit200")
    /\ \/ /\ tx[p].aborted \/ "commit200" \in Faults
          /\ Reply(p, "500")
       \/ /\ ~tx[p].aborted
          /\ ~NeedsRehash(req[p].pw, mem[p].hash)
          /\ Reply(p, "200")
       \/ /\ ~tx[p].aborted
          /\ NeedsRehash(req[p].pw, mem[p].hash)
          /\ Goto(p, "rehash")
          /\ tx' = [tx EXCEPT ![p] = NoTx]
          /\ UNCHANGED mem
    /\ UNCHANGED <<tables, req>>

\* After the commit and outside any transaction; an error is only logged.
Rehash(p) ==
    /\ At(p, "rehash")
    /\ \/ SetHash(mem[p].user, Hash(req[p].pw))
       \/ "rehash" \in Faults /\ UNCHANGED cred
    /\ Reply(p, "200")
    /\ UNCHANGED <<verified, fails, tok, req>>

-----------------------------------------------------------------------------
(* ChangePassword: four statements, no transaction.                        *)

ChangeFetch(p) ==
    /\ At(p, "changeFetch")
    /\ LET h == cred[mem[p].user] IN
       \/ h = NoHash /\ Reply(p, "404")
       \/ h # NoHash /\ ~Match(req[p].pw, h) /\ Reply(p, "401")
       \/ h # NoHash /\ Match(req[p].pw, h)
          /\ Goto(p, "changeUser") /\ UNCHANGED <<mem, tx>>
    /\ UNCHANGED <<tables, req>>

\* GetUserByID only supplies context words to the policy.
ChangeUser(p) ==
    /\ At(p, "changeUser")
    /\ \/ ~PolicyOK(req[p].new) /\ Reply(p, "policy")
       \/ PolicyOK(req[p].new) /\ Goto(p, "changeUpdate") /\ UNCHANGED <<mem, tx>>
    /\ UNCHANGED <<tables, req>>

ChangeUpdate(p) ==
    /\ At(p, "changeUpdate")
    /\ SetHash(mem[p].user, Hash(req[p].new))
    /\ \/ Goto(p, "changeInvalidate") /\ UNCHANGED <<mem, tx>>
       \/ "changeUpdate" \in Faults /\ Reply(p, "500")
    /\ UNCHANGED <<verified, fails, tok, req>>

\* A failure to invalidate is only logged: the password has changed.
ChangeInvalidate(p) ==
    /\ At(p, "changeInvalidate")
    /\ \/ Invalidate(mem[p].user, "password_reset")
       \/ "changeInvalidate" \in Faults /\ UNCHANGED tok
    /\ Reply(p, "200")
    /\ UNCHANGED <<cred, verified, fails, req>>

-----------------------------------------------------------------------------
(* InitiatePasswordReset and InitiateEmailVerification: invalidate, then     *)
(* insert, in two statements.                                              *)

\* Any error of the lookup is answered like an unknown address.
ForgotLookup(p) ==
    /\ At(p, "forgotLookup")
    /\ \/ /\ req[p].user = NoUser \/ "forgotLookup" \in Faults
          /\ Reply(p, "200")
       \/ /\ req[p].user \in Users
          /\ Goto(p, "forgotInvalidate")
          /\ mem' = [mem EXCEPT ![p].user = req[p].user]
          /\ UNCHANGED tx
    /\ UNCHANGED <<tables, req>>

InvalidateThenGoto(p, step, type, next) ==
    /\ At(p, step)
    /\ \/ Invalidate(mem[p].user, type)
       \/ step \in Faults /\ UNCHANGED tok
    /\ Goto(p, next)
    /\ UNCHANGED <<cred, verified, fails, req, mem, tx>>

InsertAndReply(p, step, type) ==
    /\ At(p, step)
    /\ \E t \in Tokens : Insert(t, mem[p].user, type)
    /\ \E status \in Outcome(step, "200") : Reply(p, status)
    /\ UNCHANGED <<cred, verified, fails, req>>

ForgotInvalidate(p) ==
    InvalidateThenGoto(p, "forgotInvalidate", "password_reset", "forgotInsert")
ForgotInsert(p) == InsertAndReply(p, "forgotInsert", "password_reset")
ResendInvalidate(p) ==
    InvalidateThenGoto(p, "resendInvalidate", "email_verification", "resendInsert")
ResendInsert(p) == InsertAndReply(p, "resendInsert", "email_verification")

-----------------------------------------------------------------------------
(* CompletePasswordReset and VerifyEmail: the token is consumed first.       *)

ConsumeAuthToken(p, step, type, next) ==
    /\ At(p, step)
    /\ LET t == req[p].tok IN
       \/ /\ ~Redeemable(t, type)
          /\ Reply(p, "400")
          /\ UNCHANGED tok
       \/ /\ Redeemable(t, type)
          /\ tok' = [tok EXCEPT ![t].status = "consumed"]
          /\ \/ /\ Goto(p, next)
                /\ mem' = [mem EXCEPT ![p].user = tok[t].user]
                /\ UNCHANGED tx
             \/ step \in Faults /\ Reply(p, "500")
    /\ UNCHANGED <<cred, verified, fails, req>>

ResetConsume(p) == ConsumeAuthToken(p, "resetConsume", "password_reset", "resetUser")

ResetUser(p) ==
    /\ At(p, "resetUser")
    /\ \/ ~PolicyOK(req[p].new) /\ Reply(p, "policy")
       \/ PolicyOK(req[p].new) /\ Goto(p, "resetUpdate") /\ UNCHANGED <<mem, tx>>
    /\ UNCHANGED <<tables, req>>

ResetUpdate(p) ==
    /\ At(p, "resetUpdate")
    /\ SetHash(mem[p].user, Hash(req[p].new))
    /\ \E status \in Outcome("resetUpdate", "200") : Reply(p, status)
    /\ UNCHANGED <<verified, fails, tok, req>>

VerifyConsume(p) ==
    ConsumeAuthToken(p, "verifyConsume", "email_verification", "verifyUpdate")

VerifyUpdate(p) ==
    /\ At(p, "verifyUpdate")
    /\ ~RowLocked(mem[p].user)
    /\ verified' = [verified EXCEPT ![mem[p].user] = TRUE]
    /\ \E status \in Outcome("verifyUpdate", "200") : Reply(p, status)
    /\ UNCHANGED <<cred, fails, tok, req>>

-----------------------------------------------------------------------------
\* The statements whose error is returned to the caller, failing without effect.
Returned == {"lookup", "begin", "count", "fetch", "changeFetch", "changeUser",
             "changeUpdate", "forgotInsert", "resetConsume", "resetUser",
             "resetUpdate", "resendInsert", "verifyConsume", "verifyUpdate"}

StatementFails(p) ==
    /\ pc[p] \in Returned \cap Faults
    /\ Reply(p, "500")
    /\ UNCHANGED <<tables, req>>

Older(age) == IF age < Window THEN age + 1 ELSE Window

\* One unit of time passes.
Tick ==
    /\ fails' = [u \in Users |-> [r \in Rows |-> Older(fails[u][r])]]
    /\ tx' = [p \in Procs |-> IF tx[p].open
                              THEN [tx[p] EXCEPT !.age = Older(@)] ELSE tx[p]]
    /\ tok' = [t \in Tokens |-> IF tok[t].status = "live" /\ tok[t].ttl > 0
                                THEN [tok[t] EXCEPT !.ttl = @ - 1] ELSE tok[t]]
    /\ UNCHANGED <<cred, verified, pc, req, mem, resp>>

Login(p) == \/ LoginLookup(p) \/ LoginBegin(p) \/ CountRecentFailedAttempts(p)
            \/ GetPasswordCredential(p) \/ RecordLoginAttempt(p)
            \/ UpdateLastLoginAt(p) \/ CommitMismatch(p) \/ CommitUnverified(p)
            \/ CommitLogin(p) \/ Rehash(p)
ChangePassword(p) == \/ ChangeFetch(p) \/ ChangeUser(p)
                     \/ ChangeUpdate(p) \/ ChangeInvalidate(p)
InitiatePasswordReset(p) == ForgotLookup(p) \/ ForgotInvalidate(p) \/ ForgotInsert(p)
CompletePasswordReset(p) == ResetConsume(p) \/ ResetUser(p) \/ ResetUpdate(p)
InitiateEmailVerification(p) == ResendInvalidate(p) \/ ResendInsert(p)
VerifyEmail(p) == VerifyConsume(p) \/ VerifyUpdate(p)

Step(p) == \/ Login(p) \/ ChangePassword(p)
           \/ InitiatePasswordReset(p) \/ CompletePasswordReset(p)
           \/ InitiateEmailVerification(p) \/ VerifyEmail(p)
           \/ StatementFails(p)

Next == \/ \E p \in Procs : \/ \E r \in Requests : Start(p, r)
                            \/ Step(p)
        \/ Tick

Spec == Init /\ [][Next]_vars

\* Requests run to completion: waiters for a connection and for a row lock are
\* served in order by pgxpool and Postgres, hence strong fairness.  Clients
\* need not send anything.
Fairness == WF_vars(Tick) /\ \A p \in Procs : SF_vars(Step(p))
FairSpec == Spec /\ Fairness
-----------------------------------------------------------------------------
(* Properties.                                                             *)

\* Tables, requests and answers keep their shape; a request's transaction is
\* open exactly between Begin and Commit of Authenticate.
TablesOK ==
    /\ cred \in [Users -> Hashes \cup {NoHash}]
    /\ verified \in [Users -> BOOLEAN]
    /\ fails \in [Users -> [Rows -> 0..Window]]
    /\ tok \in [Tokens -> TokenRows]
RequestsOK ==
    /\ pc \in [Procs -> Steps \cup {"idle"}]
    /\ req \in [Procs -> Requests \cup {NoRequest}]
    /\ mem \in [Procs -> Mem]
    /\ tx \in [Procs -> Tx]
    /\ resp \in [Procs -> Statuses \cup {"none"}]
    /\ \A p \in Procs : tx[p].open <=> pc[p] \in LoginTx
TypeOK == TablesOK /\ RequestsOK

\* How far concurrent wrong guesses can pass the lockout threshold.  The check
\* (CountRecentFailedAttempts) and the insert are in one READ COMMITTED
\* transaction, which does not make them atomic: every transaction that is past
\* the check may still add a failure.  The pool bounds their number, so a user
\* has at most MaxAttempts - 1 + MaxConns recent failures, in flight included.
InFlight(u) == {p \in Procs : pc[p] \in Admitted /\ mem[p].user = u}
LockoutOvershoot ==
    \A u \in Users :
        FailedCount(u) + Cardinality(InFlight(u)) <= MaxAttempts - 1 + MaxConns

\* With RequireEmailVerification, a login that succeeded is of a user whose
\* address is verified, although Authenticate decides on the value it read
\* before its transaction.
LoginsAreVerified ==
    \A p \in Procs :
        RequireEmailVerification /\ req[p].op = "login" /\ resp[p] = "200"
            => verified[req[p].user]

\* email_verified becomes true only by redeeming an e-mail verification token of
\* that user; a password reset token does not do.
VerifiedByToken ==
    \A u \in Users : verified[u] =>
        \E t \in Tokens : /\ tok[t].status = "consumed"
                          /\ tok[t].user = u
                          /\ tok[t].type = "email_verification"

\* A token is redeemed by one request only, also when several present it at once
\* and whatever becomes of the request that consumed it.
Redeems(p, t) ==
    /\ req[p].op \in {"reset", "verify"}
    /\ req[p].tok = t
    /\ \/ pc[p] \in {"resetUser", "resetUpdate", "verifyUpdate"}
       \/ resp[p] \in {"200", "policy"}
TokenSingleUse ==
    \A p, q \in Procs : \A t \in Tokens : Redeems(p, t) /\ Redeems(q, t) => p = q

\* Issuing a token supersedes the user's earlier ones up to what the requests
\* that overlap can leave behind: never more usable tokens of one type than
\* concurrent requests (unless invalidation itself fails, which is only logged).
Inserting(u, type) ==
    {p \in Procs : /\ mem[p].user = u
                   /\ pc[p] = IF type = "password_reset" THEN "forgotInsert"
                              ELSE "resendInsert"}
TokensSuperseded ==
    \A u \in Users : \A type \in TokenTypes :
        {"forgotInvalidate", "resendInvalidate"} \cap Faults = {} =>
            Cardinality(Live(u, type)) + Cardinality(Inserting(u, type))
                <= Cardinality(Procs)

\* A successful login leaves a hash made with the current parameters, whatever
\* other requests stored in the meantime (unless the rehash itself failed).
LoginUpgradesHash ==
    \A p \in Procs :
        "rehash" \notin Faults /\ req[p].op = "login" /\ resp[p] = "200"
            => cred[req[p].user].current

\* A lockout ends by itself however often clients keep trying: a refused attempt
\* is not recorded, so the failures that caused it age out of the window.
Locked(u) == IsLockedOut(FailedCount(u))
LockoutExpires == \A u \in Users : Locked(u) ~> ~Locked(u)

\* Every request is answered, also when transactions hold all connections: no
\* request waits for a second connection while it holds one.
EveryRequestAnswered == \A p \in Procs : pc[p] # "idle" ~> pc[p] = "idle"

\* store.go:242-244 (and 264-266): one transaction "to prevent concurrent
\* attempts from racing past the lockout threshold".
NeverPastThreshold == \A u \in Users : FailedCount(u) <= MaxAttempts

\* store.go:239-240: "transparent password rehashing".  No step of a login
\* changes which password is stored.
RehashIsTransparent ==
    [][\A p \in Procs : pc[p] = "rehash" /\ pc'[p] = "idle"
          => cred'[mem[p].user].pw = cred[mem[p].user].pw]_vars
=============================================================================
