---------------------------- MODULE Provisioning ----------------------------
(***************************************************************************)
(* How users come to exist: Register of auth/password/store.go, one          *)
(* database transaction, and ResolveOrProvisionUser of auth/postgres_store.go,  *)
(* which the OIDC callback runs statement by statement and Register runs     *)
(* inside its transaction.                                                   *)
(*                                                                         *)
(* The tables are sets of rows.  A transaction's rows are its own until it    *)
(* commits; every statement sees the committed rows and its own (READ         *)
(* COMMITTED).  An INSERT or upsert that meets another transaction's          *)
(* uncommitted row with the same key waits for that transaction to end.      *)
(* A user is the identity it was created from, and is looked up by issuer and *)
(* subject; the password a request stores is identified by the request.      *)
(* The connection pool is in module PasswordStore.                           *)
(***************************************************************************)
EXTENDS Integers, FiniteSets

CONSTANTS
    Procs,          \* requests; each runs once
    Emails,         \* addresses that register with a password
    NoEmail,        \* the empty address
    LocalIssuer,    \* PasswordConfig.Issuer
    Identities,     \* the identities that log in through OIDC
    InitTenants,    \* tenants that exist beforehand
    RequireEmailVerification,
    Faults          \* pairs <<op, step>>: the statements that may fail

Steps == {"begin", "checkUser", "checkCred", "getUser", "listMemberships",
          "firstTenant", "insertTenant", "insertUser", "addMembership",
          "verifyMembership", "storeCred", "issueToken", "send", "commit",
          "sessionMemberships"}

ASSUME FaultsAssumption == Faults \subseteq {"register", "oidc"} \X Steps
ASSUME VerificationAssumption == RequireEmailVerification \in BOOLEAN
ASSUME ProcsAssumption == IsFiniteSet(Procs)
ASSUME EmailsAssumption == NoEmail \notin Emails
\* Identifiers of tenants are never drawn twice.
ASSUME TenantsAssumption == \A t \in InitTenants : t.id \notin Procs

VARIABLES
    db,         \* the committed rows: users, tenants, members, creds, tokens
    tx,         \* the rows each request has written and not committed
    clock,      \* NOW(): advances with every transaction
    mails,      \* the requests whose verification mail was sent
    pc, req,    \* control state and request of each process
    loc,        \* start of its transaction, tenant it has chosen
    resp        \* its answer

vars == <<db, tx, clock, mails, pc, req, loc, resp>>

Local(email) == [issuer |-> LocalIssuer, subject |-> email, email |-> email]
Requests == [op : {"register"}, id : {Local(e) : e \in Emails}]
            \cup [op : {"oidc"}, id : Identities]
NoRows == [users |-> {}, tenants |-> {}, members |-> {}, creds |-> {}, tokens |-> {}]
NoTenant == [id |-> "none", at |-> 0]
NoLoc == [at |-> 0, tenant |-> NoTenant]
NoRequest == [op |-> "none"]

Init ==
    /\ db = [NoRows EXCEPT !.tenants = InitTenants]
    /\ tx = [p \in Procs |-> NoRows]
    /\ clock = 1
    /\ mails = {}
    /\ pc = [p \in Procs |-> "new"]
    /\ req = [p \in Procs |-> NoRequest]
    /\ loc = [p \in Procs |-> NoLoc]
    /\ resp = [p \in Procs |-> "none"]

-----------------------------------------------------------------------------
(* The database.                                                           *)

InTx(p) == req[p].op = "register"       \* Register's statements share one transaction
View(p) == [f \in DOMAIN db |-> db[f] \cup tx[p][f]]

\* Mutant: the statements do not use the transaction.
WriteThrough(p, table, row) ==
    db' = [db EXCEPT ![table] = @ \cup {row}] /\ UNCHANGED tx
Write(p, table, row) ==
    IF InTx(p) THEN tx' = [tx EXCEPT ![p][table] = @ \cup {row}] /\ UNCHANGED db
               ELSE db' = [db EXCEPT ![table] = @ \cup {row}] /\ UNCHANGED tx

\* The WHERE clause of GetUserByIdentifier.
SameUser(i, j) == i.issuer = j.issuer /\ i.subject = j.subject

\* Mutants: a unique index is missing.
ConflictsSubject(i, j) == i.issuer = j.issuer /\ i.subject = j.subject
ConflictsEmail(i, j) == i.issuer = j.issuer /\ i.email = j.email /\ i.email # NoEmail
\* unique_issuer_subject, and users_email_issuer_uniq WHERE email <> ''.
Conflicts(i, j) ==
    /\ i.issuer = j.issuer
    /\ i.subject = j.subject \/ (i.email = j.email /\ i.email # NoEmail)

\* The transactions whose uncommitted index entry a request would collide with.
KeyHolders(p) == {q \in Procs \ {p} : \E u \in tx[q].users : Conflicts(req[p].id, u)}
CredHolders(p) == {q \in Procs \ {p} : \E c \in tx[q].creds : SameUser(c.user, req[p].id)}

Memberships(p) == {m \in View(p).members : SameUser(m[1], req[p].id)}

-----------------------------------------------------------------------------
(* Control.                                                                *)

\* Mutant: the transaction of a request that fails is left open.
ReplyWithoutRollback(p, status) ==
    /\ pc' = [pc EXCEPT ![p] = "done"]
    /\ resp' = [resp EXCEPT ![p] = status]
    /\ UNCHANGED <<tx, loc>>
\* Return; the deferred Rollback drops what was not committed.
Reply(p, status) ==
    /\ pc' = [pc EXCEPT ![p] = "done"]
    /\ resp' = [resp EXCEPT ![p] = status]
    /\ tx' = [tx EXCEPT ![p] = NoRows]
    /\ loc' = [loc EXCEPT ![p] = NoLoc]

Goto(p, step) == pc' = [pc EXCEPT ![p] = step] /\ UNCHANGED resp

Start(p, r) ==
    /\ pc[p] = "new"
    /\ req' = [req EXCEPT ![p] = r]
    /\ pc' = [pc EXCEPT ![p] = IF r.op = "register" THEN "begin" ELSE "getUser"]
    /\ UNCHANGED <<db, tx, clock, mails, loc, resp>>

-----------------------------------------------------------------------------
(* Register, before it resolves the user.                                   *)

Begin(p) ==
    /\ pc[p] = "begin"
    /\ loc' = [loc EXCEPT ![p].at = clock]
    /\ clock' = clock + 1
    /\ Goto(p, "checkUser")
    /\ UNCHANGED <<db, tx, mails, req>>

\* GetUserByEmailAndIssuer finds a user of the local issuer by address only,
\* whatever its subject; GetPasswordCredential then decides.
Namesakes(p) == {u \in View(p).users : u.issuer = LocalIssuer /\ u.email = req[p].id.email}

CheckUser(p) ==
    /\ pc[p] = "checkUser"
    /\ Goto(p, IF Namesakes(p) # {} THEN "checkCred" ELSE "getUser")
    /\ UNCHANGED <<db, tx, clock, mails, req, loc>>

HasCredential(p) == \E c \in View(p).creds : \E u \in Namesakes(p) : SameUser(c.user, u)

CheckCred(p) ==
    /\ pc[p] = "checkCred"
    /\ \/ HasCredential(p) /\ Reply(p, "409")
       \/ ~HasCredential(p) /\ Goto(p, "getUser") /\ UNCHANGED <<tx, loc>>
    /\ UNCHANGED <<db, clock, mails, req>>

-----------------------------------------------------------------------------
(* ResolveOrProvisionUser.                                                  *)

\* The user is resolved: Register stores the credential, the OIDC callback
\* lists the memberships for the session.
Resolved(p) == IF InTx(p) THEN "storeCred" ELSE "sessionMemberships"

GetUserByIdentifier(p) ==
    /\ pc[p] = "getUser"
    /\ Goto(p, IF \E u \in View(p).users : SameUser(req[p].id, u)
               THEN "listMemberships" ELSE "firstTenant")
    /\ UNCHANGED <<db, tx, clock, mails, req, loc>>

\* Mutant: the memberships of an existing user are not looked at.
ListMembershipsUnchecked(p) ==
    /\ pc[p] = "listMemberships"
    /\ Goto(p, Resolved(p))
    /\ UNCHANGED <<db, tx, clock, mails, req, loc>>
\* A user that exists without a membership is refused ("data integrity issue",
\* answered 500), never repaired.
ListMemberships(p) ==
    /\ pc[p] = "listMemberships"
    /\ \/ Memberships(p) = {} /\ Reply(p, "integrity")
       \/ Memberships(p) # {} /\ Goto(p, Resolved(p)) /\ UNCHANGED <<tx, loc>>
    /\ UNCHANGED <<db, clock, mails, req>>

\* ORDER BY created_at LIMIT 1.
Oldest(tenants) == {t \in tenants : \A s \in tenants : t.at <= s.at}

GetFirstTenant(p) ==
    /\ pc[p] = "firstTenant"
    /\ LET seen == View(p).tenants IN
       \/ /\ seen = {}
          /\ Goto(p, "insertTenant")
          /\ UNCHANGED loc
       \/ \E t \in Oldest(seen) : /\ loc' = [loc EXCEPT ![p].tenant = t]
                                  /\ Goto(p, "insertUser")
    /\ UNCHANGED <<db, tx, clock, mails, req>>

\* created_at is the start of the transaction, or of the statement alone.
InsertTenant(p) ==
    /\ pc[p] = "insertTenant"
    /\ LET t == [id |-> p, at |-> IF InTx(p) THEN loc[p].at ELSE clock] IN
       /\ Write(p, "tenants", t)
       /\ loc' = [loc EXCEPT ![p].tenant = t]
    /\ clock' = IF InTx(p) THEN clock ELSE clock + 1
    /\ Goto(p, "insertUser")
    /\ UNCHANGED <<mails, req>>

\* Unique violation 23505: Register answers 409, the OIDC callback 500.
InsertUser(p) ==
    /\ pc[p] = "insertUser"
    /\ KeyHolders(p) = {}
    /\ \/ /\ \E u \in View(p).users : Conflicts(req[p].id, u)
          /\ Reply(p, IF InTx(p) THEN "409" ELSE "500")
          /\ UNCHANGED db
       \/ /\ ~ \E u \in View(p).users : Conflicts(req[p].id, u)
          /\ Write(p, "users", req[p].id)
          /\ Goto(p, "addMembership")
          /\ UNCHANGED loc
    /\ UNCHANGED <<clock, mails, req>>

CreateMembership(p) ==
    /\ pc[p] = "addMembership"
    /\ Write(p, "members", <<req[p].id, loc[p].tenant>>)
    /\ Goto(p, "verifyMembership")
    /\ UNCHANGED <<clock, mails, req, loc>>

\* Listed once more; an empty answer would be an error, but nothing deletes
\* memberships.
VerifyMembership(p) ==
    /\ pc[p] = "verifyMembership"
    /\ IF Memberships(p) = {}
       THEN Reply(p, "500")
       ELSE Goto(p, Resolved(p)) /\ UNCHANGED <<tx, loc>>
    /\ UNCHANGED <<db, clock, mails, req>>

\* CallbackHandler, after the user is resolved.
SessionMemberships(p) ==
    /\ pc[p] = "sessionMemberships"
    /\ Reply(p, IF Memberships(p) = {} THEN "403" ELSE "200")
    /\ UNCHANGED <<db, clock, mails, req>>

-----------------------------------------------------------------------------
(* Register, after it has resolved the user.                                *)

\* ON CONFLICT (user_id) DO UPDATE: the last writer wins.
UpsertPasswordCredential(p) ==
    /\ pc[p] = "storeCred"
    /\ CredHolders(p) = {}
    /\ Write(p, "creds", [user |-> req[p].id, by |-> p])
    /\ Goto(p, IF RequireEmailVerification THEN "issueToken" ELSE "commit")
    /\ UNCHANGED <<clock, mails, req, loc>>

\* initiateEmailVerification on the transaction: invalidate, insert.
IssueToken(p) ==
    /\ pc[p] = "issueToken"
    /\ Write(p, "tokens", [user |-> req[p].id, by |-> p])
    /\ Goto(p, "send")
    /\ UNCHANGED <<clock, mails, req, loc>>

\* Mutant: an error of the mail sender is ignored.
SendIgnoringErrors(p) ==
    /\ pc[p] = "send"
    /\ mails' \in {mails, mails \cup {p}}
    /\ Goto(p, "commit")
    /\ UNCHANGED <<db, tx, clock, req, loc>>
\* An EmailSender is configured (without one the token is only logged).
\* The mail leaves before the commit; an error rolls everything back.
Send(p) ==
    /\ pc[p] = "send"
    /\ mails' = mails \cup {p}
    /\ Goto(p, "commit")
    /\ UNCHANGED <<db, tx, clock, req, loc>>

Merge(p) ==
    LET mine == tx[p]
        replaced == {c \in db.creds : \E d \in mine.creds : SameUser(c.user, d.user)}
    IN  [View(p) EXCEPT !.creds = @ \ replaced]

\* A commit whose answer is lost has been applied; one that fails has not
\* (StatementFails).
Commit(p) ==
    /\ pc[p] = "commit"
    /\ db' = Merge(p)
    /\ \/ Reply(p, "201")
       \/ <<"register", "commit">> \in Faults /\ Reply(p, "unknown")
    /\ UNCHANGED <<clock, mails, req>>

-----------------------------------------------------------------------------
\* A statement that fails ends the request.  In a transaction the error of
\* checkUser or checkCred is not looked at, but aborts it, so that getUser fails.
StatementFails(p) ==
    /\ pc[p] \in Steps
    /\ <<req[p].op, pc[p]>> \in Faults
    /\ Reply(p, "500")
    /\ UNCHANGED <<db, clock, mails, req>>

Step(p) == \/ Begin(p) \/ CheckUser(p) \/ CheckCred(p)
           \/ GetUserByIdentifier(p) \/ ListMemberships(p) \/ GetFirstTenant(p)
           \/ InsertTenant(p) \/ InsertUser(p) \/ CreateMembership(p)
           \/ VerifyMembership(p) \/ SessionMemberships(p)
           \/ UpsertPasswordCredential(p) \/ IssueToken(p) \/ Send(p) \/ Commit(p)
           \/ StatementFails(p)

\* All requests are answered.
Finished == (\A p \in Procs : pc[p] = "done") /\ UNCHANGED vars

Next == \/ \E p \in Procs : (\E r \in Requests : Start(p, r)) \/ Step(p)
        \/ Finished

Spec == Init /\ [][Next]_vars

-----------------------------------------------------------------------------
(* Properties.                                                             *)

\* Rows, requests and answers keep their shape; only a registration under way
\* has uncommitted rows.
Users == {Local(e) : e \in Emails} \cup Identities
Tenants == InitTenants \cup [id : Procs, at : 1..(Cardinality(Procs) + 1)]
Answers == {"200", "201", "403", "409", "500", "integrity", "unknown"}
RowsOK(rows) ==
    /\ rows.users \subseteq Users
    /\ rows.tenants \subseteq Tenants
    /\ rows.members \subseteq Users \X Tenants
    /\ rows.creds \subseteq [user : Users, by : Procs]
    /\ rows.tokens \subseteq [user : Users, by : Procs]
TypeOK ==
    /\ RowsOK(db)
    /\ \A p \in Procs : RowsOK(tx[p]) /\ (tx[p] # NoRows => InTx(p) /\ pc[p] # "done")
    /\ mails \subseteq Procs
    /\ pc \in [Procs -> Steps \cup {"new", "done"}]
    /\ req \in [Procs -> Requests \cup {NoRequest}]
    /\ \A p \in Procs : loc[p].tenant \in Tenants \cup {NoTenant}
    /\ resp \in [Procs -> Answers \cup {"none"}]

\* No two users of an issuer share an address, whichever way they arrived and
\* however their requests overlapped: Register's check of the address is not
\* atomic with InsertUser, and the OIDC login does not check at all.
UniqueEmail ==
    \A u, v \in db.users :
        u.issuer = v.issuer /\ u.email = v.email /\ u.email # NoEmail
            => SameUser(u, v)

\* A registration that has not been committed (under way, refused or failed at
\* any statement or in the mail sender) has left nothing behind: no tenant, no
\* credential, no token.
Traces(p) == {t \in db.tenants : t.id = p} \cup {c \in db.creds : c.by = p}
             \cup {t \in db.tokens : t.by = p}
NoPartialRegistration ==
    \A p \in Procs : InTx(p) /\ resp[p] \notin {"201", "unknown"} => Traces(p) = {}

\* Whoever can log in with a password can also enter a tenant and, with
\* RequireEmailVerification, was issued a verification token; also when the user
\* was created by an OIDC login that failed half way.
CredentialsAreUsable ==
    \A c \in db.creds :
        /\ \E m \in db.members : SameUser(m[1], c.user)
        /\ RequireEmailVerification => \E t \in db.tokens : SameUser(t.user, c.user)

\* A user is a member of one tenant at most, although several requests may
\* create a default tenant each: the login selects a single membership itself.
SingleMembership ==
    \A u \in db.users : Cardinality({m \in db.members : SameUser(m[1], u)}) <= 1

\* No account without a verification mail: a registration is committed only
\* after the mail was handed over (RegisterWithEmailVerification).
RegisteredWasMailed ==
    \A c \in db.creds : RequireEmailVerification => c.by \in mails

\* A request that waits for an uncommitted index entry waits for a transaction
\* that is under way and not itself waiting, so nobody waits for ever: Register
\* writes users before credentials, and what a failed request wrote is rolled back.
WaitsFor(p) == CASE pc[p] = "insertUser" -> KeyHolders(p)
                 [] pc[p] = "storeCred" -> CredHolders(p)
                 [] OTHER -> {}
WaitersAreWoken ==
    \A p \in Procs : \A q \in WaitsFor(p) : pc[q] # "done" /\ WaitsFor(q) = {}

\* store.go:91-92: "Returns ErrEmailAlreadyRegistered if a user with the same
\* email and local issuer already has a password credential".  A registration
\* that succeeds finds no credential to overwrite.
NoOverwrite ==
    [][\A p \in Procs : pc[p] = "commit" /\ resp'[p] = "201"
          => ~ \E c \in db.creds : SameUser(c.user, req[p].id)]_vars
=============================================================================
