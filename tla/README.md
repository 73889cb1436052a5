# A TLA+ verification of gotchi

gotchi is a backend core for Go services: sessions, OIDC and password
authentication, multi-tenant memberships, a Postgres pool with per-connection
tenants, migrations, OpenAPI validation and an application skeleton. This
directory models the parts that carry its state and its concurrency.

## Inventory

| Part | State | Operations | Interacts with | What is hard |
|---|---|---|---|---|
| password store (`auth/password/store.go`, `queries/password.sql`) | `password_credentials`, `login_attempts`, `auth_tokens`, `users.email_verified` | `Authenticate`, `ChangePassword`, `InitiatePasswordReset`, `CompletePasswordReset`, `InitiateEmailVerification`, `VerifyEmail` | pool, user provisioning, handlers | one transaction only in `Authenticate`, READ COMMITTED, errors that are logged and swallowed, sliding window, token expiry |
| registration and provisioning (`register` in `store.go`, `auth/postgres_store.go`) | `users`, `tenants`, `tenant_memberships`, credentials, tokens | `Register`, `RegisterWithEmailVerification`, `ResolveOrProvisionUser` | OIDC callback, mail sender | the same code runs inside and outside a transaction; unique indexes as the last guard; partial failure |
| sessions (`session/session.go`, both `handler.go`) | session rows, cookies, `SessionClaims`, id token | login, callback, tenant selection, two logouts, change of password | scs, middleware, stores | whole-session read and write back, overlapping requests, lost responses |
| request gate (`auth/middleware.go`) | claims in the request context | `RequireAuthenticated` | sessions, handlers, `tenantctx` | tenant-optional paths, redirects |
| tenant of a connection (`db/db.go`, `setupMultitenancy`) | `app.current_tenant` of every connection | `BeforeAcquire`, `AfterRelease` | pgxpool, migrations | asynchronous release, failing hooks, function created while running |
| database manager (`db/db.go`) | pool, migration sources | `Connect`, `AddMigrationSource`, `RunMigrations`, `Close` | goose, application | instances migrate without a lock, kills between two migrations, retry after a failed ping, versions out of order |
| OIDC client (`auth/oidc.go`, `AuthorizeHandler`, `CallbackHandler`) | state cookie | authorize, exchange, verify | provider, sessions | overlapping sign-ins of one browser, links opened twice or elsewhere |
| application (`app/app.go`, `app/option.go`, `observability/otel.go`) | configuration, pool, services, router, server, telemetry | `New`, `Run`, shutdown, `Close` | everything | a goroutine and its channel, deadline of the shutdown, repeated `Run` |
| hashing, policy, OpenAPI, observability, CLI, scaffolding | little or none | | | sequential |

What makes them correct: accounts lock and unlock as configured; a token is used
once, by its owner, for its purpose; a login is of a verified user when that is
required; a registration is all or nothing; users are unique per address and
belong to a tenant; a session's tenant is a tenant of its user, and a logout
ends it; a request never sees another tenant's connection state; a session comes
from a sign-in its own browser began; the gate leads somewhere; an instance
serves on a complete schema and set of services, stops when told to, and reports
how its server ended.

## Modules

| Module | Models | Checked by |
|---|---|---|
| `PasswordStore` | the operations of the password store, one step per SQL statement | `MCPasswordStore`, `PasswordStore_proofs`, `PasswordFlows_proofs` |
| `Provisioning` | `register` and `ResolveOrProvisionUser` | `MCProvisioning`, `Provisioning_proofs` |
| `Sessions` | session store, handlers and the middleware's decision | `MCSessions`, `Sessions_proofs` |
| `TenantPool` | the pool's tenant hooks | `MCTenantPool`, `TenantPool_proofs` |
| `SignIn` | the gate's defaults and redirects, the OIDC sign-in and its state cookie | `MCSignIn`, `SignIn_proofs` |
| `DatabaseManager` | the database manager and its migrations | through `Application`, `Lifecycle_proofs` |
| `Application` | `New`, `Run`, `Close` of the instances on one database; extends `DatabaseManager` | `MCApplication`, `Application_proofs`, `Lifecycle_proofs` |
| `Lifecycle` | what `Run` promises: the abstract specification that `Application` implements | through `Application`, `Lifecycle_proofs` |

Definitions named in a "Mutant:" comment are deliberately wrong variants of the
definition that follows them. They are not part of the specification; each one
shows that a property would notice the corresponding mistake in the code.

### PasswordStore

Each request is a process. `pc` is the statement it executes next, `mem` what it
has read (`user`, the `email_verified` of the lookup, the hash), `tx` its
transaction, `resp` the result of the store, named by the status its error has in
`handlePasswordError` (`ForgotPasswordHandler` answers 202 whatever the store
returned). A statement is one action because statements of
other requests may run between any two. A transaction keeps a connection from
`LoginBegin` to its commit or to the deferred rollback in `Reply`; every other
statement needs a free connection for its own step (`At`). The only operation
with a transaction is `Authenticate`.

* Time is relative: `Tick` ages the recorded failures, the open transactions and
  the tokens. `attempted_at` is Postgres' `NOW()`, the start of the transaction,
  so a failure is as old as its transaction when it is committed. The count
  compares with the application's clock; the two clocks are taken as one.
* `fails[u]` has a slot per recent failure. A slot that has left the window is
  the same as one never written, so rows need not be pruned in the model.
  Success rows are read by no query and are not kept. `RowsAssumption` gives
  enough slots; the bound that `LockoutBound` proves shows that they never run out.
* An error of `RecordLoginAttempt` or `UpdateLastLoginAt` is only logged by the
  code, but Postgres aborts the transaction (`tx.aborted`): the wrong guess goes
  uncounted, the right one ends in 500.
* `Faults` names the statements that may fail, before taking effect
  (`StatementFails`) or after (a lost connection: `Outcome`).
* A hash is the password it was made from and whether its parameters are current.
  `Rejected` are the passwords the policy refuses. A credential row may be
  missing (`NoHash`): a user provisioned through OIDC has none.
* The two row locks that matter are those of `UPDATE users` by `UpdateLastLoginAt`,
  held until the commit (`RowLocked`). All other writes are single statements.

### Provisioning

`db` holds the committed rows, `tx[p]` what a registration has written and not
committed; a statement sees both (`View`). `InsertUser` and the credential upsert
wait while another transaction holds the same key uncommitted. The OIDC callback
runs `ResolveOrProvisionUser` with `InTx(p)` false, so that each statement commits
by itself; `Register` runs it in its transaction. Every statement, the mail sender
and the commit may fail (`StatementFails`; a commit whose answer is lost answers
`"unknown"`). A write outside a transaction that takes effect and reports an error
is the same as a failure of the next statement. The error of the name lookup that
follows the membership upsert is ignored by the code; in a transaction it makes
the next statement fail, which is the fault of `verifyMembership`. The answer
`"integrity"` is the 500 of "user has no tenant memberships", told apart from the
others. Policy check and hashing precede `Begin` and change nothing. The pool is
not repeated here.

### Sessions

scs is external and modelled from how `session.Manager` uses it: `Load` copies the
whole session into the request (`sd`), `Put` marks it to be written back, `Commit`
upserts the whole of it under its token (drawn then, if it had none) and sets the
cookie, `Destroy` deletes the row at once. Responses may be delivered in any order
or lost (`Deliver`). Whether credentials or the OIDC exchange are accepted is a
choice. `ended` and `raced` are history variables. Memberships do not change;
expiry of sessions is left out; the state cookie and the redirects are in
`SignIn`. Resending a verification and listing tenants only read the session.

### TenantPool

A connection is closed, idle, acquired (`BeforeAcquire` is running), used or
released (`AfterRelease` is running). `set_tenant` is there from
the start or `RunMigrations` creates it at any moment; the initial state decides. Nothing in the repository drops the function while the application runs,
and neither does the model.

### SignIn

Tabs share the state cookie and the session of their browser. A tab carries the
path it asks for and the sign-in it is in (`flow`): its state, who authenticated
at the provider, and whether the provider has taken the code. A code is named by
the state of its request. `Authorize` overwrites the cookie of another tab,
`Callback` compares, and the response that follows (`Answer`, `SignInAs`) clears
whichever cookie is there by then. Between comparison and answer other tabs act.
Callback URLs are loaded again (`Reload`) and opened in another tab or browser
(`OpenLink`). The provider may name anybody in the user info. A state carries the
browser it was generated for, as 24 random bytes do not collide, and is drawn
again once no tab and no cookie holds it, so that `Nonces` bounds what is in use at a
time, neither the number nor the length of sign-ins. `from` in a session is history: which browser
began the sign-in and who authenticated. A session is one value per browser here;
how overlapping requests read and write it is the subject of `Sessions`.

The gate of `RequireAuthenticated` is in front of every page, the tenant picker
included, and its redirects in a row are counted up to `MaxRedirects`, where the browser
gives up. A configuration is what the caller writes, and `WithDefaults` is part of the
model: `LoopsOnlyAtShutPicker` says that a visit is redirected a second time only if the
caller's picker is itself behind the gate (`PickerIsShut`). The picker
of the handler and that of the middleware are the same path. Sign-in through
passwords is in `PasswordStore` and `Sessions`.

### DatabaseManager and Application

`pc[a]` is the stage of `Run` in instance `a`: telemetry, `Connect` and its ping,
migration sources, migrations, OIDC discovery, password handler and routes,
modules, and then `runHTTPServer`. A stage that fails makes `Run` return an error
and undoes nothing. A failed start may be repeated in the process (`MaxRuns`, per instance); a
`Run` whose server had started is not. A process may be killed at any step
(`Exit`) and start again with other options.

* `RunMigrations` is several steps. goose is external: it compares the files with
  the newest recorded version, then repeats "read the version recorded last, apply
  the next file". There is no lock between instances, and each migration is one
  transaction. `Merged` and `Duplicate` are `mergeMigrationSources`.
* `runHTTPServer` is two processes: `Run` at its `select`, `Shutdown` and receive
  (`Select`, `ShutdownReturns`, `Await`), and the goroutine (`Listen`,
  `ServeReturns`, `Send`), joined by the channel `errCh` of capacity 1. A request
  may hold a connection; `Close` waits for it (`BeginClose`).
* `otel` keeps the providers that run and the one whose shutdown function `Close`
  knows. `SetupOTEL` may fail half-way.
* Options that decide nothing (addresses, names, limits) are left out. The default
  middleware is on.

`Lifecycle` has a phase per instance, the schema, and whether a request is open.
`Application` implements it with the mapping in `Promise`: `Phase(a)` from the
stage, the migrations of the configuration for `needs`, `applied` for `schema`,
`request` for `open`. The promise: serving begins when every configured migration
is in the schema, requests are accepted only while serving, a clean stop leaves
none behind (`Safety`), and an instance told to stop does (`Spec` adds its fairness). It has one exception, `Overtaken`,
for a migration that instances without it can bring the schema beyond; see below.

## Runs

Passing:

| Run | Shows | Bounds |
|---|---|---|
| `password_liveness` | concurrent wrong guesses exceed the threshold by less than the size of the pool; logins admit verified users only and upgrade old hashes while `email_verified` changes; a lockout ends although logins keep coming; nobody waits for ever for a connection or row lock | 2 requests (login, resend, verify), 2 connections, threshold 1, window 2, `RecordLoginAttempt` may fail: both connections can be past the check |
| `tokens` | single use, supersession and purpose of tokens | 3 tokens, 2 requests: double presentation, expiry, overlapping issue; consuming a token, the updates and the invalidation of a password change may fail |
| `provisioning` | unique addresses, at most one membership, registrations that are all or nothing, usable and mailed, and no circle of waiters | 3 requests, every statement may fail, three identities: the registering user, a namesake and a foreign one |
| `sessions` | the active tenant belongs to the session's user; a logout is final unless another request had loaded the session | 2 overlapping requests, users with 0, 1 and 2 tenants, failing store |
| `tenant_pool` | no request sees another tenant's connection state | 2 connections, 3 requests, 2 tenants, `set_tenant` there or created meanwhile |
| `sign_in` | a session is of the user who authenticated, in a sign-in of this browser; a code is exchanged only there; the gate redirects a visit twice only under a configuration that shuts the picker off | 2 tabs of one browser or of two, users with 0, 1 and 2 tenants, five configurations of the middleware: the defaults in API and in UI mode, and in UI mode a picker of one's own that the list admits by a wildcard, a picker of one's own with the default list, and a list of one's own without the picker. The last two do loop, up to the bound of 2 redirects |
| `application` | an instance serves only when complete; an error of the server is reported; no request loses its pool after a clean stop; telemetry is flushed; `Run` returns after a cancellation; the goroutine ends; `Application` implements `Lifecycle`: no request before all three migrations are there | 2 instances, 3 migrations of which the one of the password source lies between those of auth (as in `migrations/`), no configuration with some of them only, so that the exception `Overtaken` is empty; `MaxRuns` lets the first instance call `Run` twice, the second once |

Two overlapping requests reach every race between one check and one write; three
are used where a third party has to create the situation (a user without
credential, a pool that is full). One user is enough in `PasswordStore`:
no statement touches rows of two users, and users meet only at the pool.
`Tokens` and the session tokens bound how many are ever issued; a request that
would need one more is not started, so the bound never blocks a request under way.

In `application` one instance has the full options, password authentication only,
or invalid ones; the other brings the same migrations into the database and then fails
for its identity store. Every configuration has all three migrations or none, so that
`Overtaken` never holds and the first instance may serve only with the interleaved
migration 2 in the schema as well; with a merged directory that is not sorted it would
not be. This gives every interleaving of two migrating instances
without squaring the states of the server, in which instances do not meet. The run
does not check deadlock, because an application may stop; that `Run` returns and the
goroutine ends are its temporal properties.

Violated, each stating what a comment or document of the repository says:

| Run | Statement | What the code does |
|---|---|---|
| `lockout_race` | attempts do not race past the threshold | the count and the insert are not serialised |
| `rehash_race` | rehashing is transparent | it may restore a password changed in between |
| `register_race` | a registered address is refused | two registrations of a user without credential both succeed |
| `logout_race` | the token is immediately invalidated | an overlapping request restores the session |
| `late_source` | interleaved versions across sources are handled (`db.go:164-167`) | after auth alone was migrated, enabling passwords brings a version older than the newest of auth, and goose refuses to start |

For `register_race` the password issuer and the OIDC issuer must be the same, which
is the case the quoted comment is about.

The models also reach these states, which no run asks for: a user provisioned by
an OIDC login whose `UpsertMembership` failed is refused by every later login and
never repaired (`ListMemberships`), and for a moment so is a user whose two first
logins overlap; two overlapping password reset requests leave two usable tokens
(`TokensSuperseded` bounds them); the right password of an unverified user does
not reset the lockout window, although the comment at `store.go:359` says so; the
registration of an OIDC-only user of the local issuer whose subject is not its
address is refused with 409, although the comment at `store.go:182` says that the
password is attached.

`Application` reaches these: an instance that starts together with one that lacks a
source may find the newest version recorded after its own check, and pass over an
older migration of that source (`Overtaken`); a `Run` repeated after its sources were
added always fails, because they are registered twice (`Duplicate`); a `Run` repeated
after routes were added ends in chi's panic; the telemetry of an earlier failed `Run`,
and of a `SetupOTEL` that failed half-way, is never shut down; the OIDC discovery does
not use the context of `Run`, so `CancelStopsRun` excepts that stage; a `Run` repeated
after a failed ping goes on without one. The first of these is not promised away: that a
deployment whose instances have different sources can skip a migration contradicts
`db.go:164-167` as much as `late_source` does, which shows the same cause one instance
at a time. No run has it; `RunKeepsItsSafety` names exactly this exception.

In `SignIn` a `TenantPickerPath` of one's own with the default list of tenant-optional
paths redirects to itself: `AllowPathsWithoutTenant` is documented to default to "the
tenant picker and select paths" (`middleware.go:46`), but `withDefaults` puts the default
picker there, whatever was configured (`middleware.go:68`). A user without a tenant never
gets to the picker. `LoopsOnlyAtShutPicker` excepts this and a list of one's own that
leaves the picker out, and nothing else.

## Fairness

`FairSpec` of `PasswordStore` assumes that time passes and that a request whose
next statement is again and again possible executes it (strong fairness): pgxpool
and Postgres serve waiters in order. Clients are not assumed to send anything.
A request of `Provisioning` runs once and has no loops, so the deadlock check of
its run and `WaitersAreWoken` say that every request can end; no fairness is needed.

`FairSpec` of `Application` assumes weak fairness of the steps of `Run` (`RunStep`:
statements that are not blocked, and calls that the context or a deadline ends) and of
the server's goroutine. Nothing is assumed of the caller, of clients, whose requests
may never end, or of the OIDC provider, which may never answer. `Lifecycle` asks only
that a draining instance leaves, and that follows. `SignIn` and `Sessions` depend on
visitors and state safety only.

## Proofs

`PasswordStore_proofs` proves, for any users, requests, connections and limits:

* `TypeCorrectness`: `Spec => []TypeOK`. A transaction is open exactly in the
  states of `LoginTx`; this is what ties the pool to the control state.
* `LockoutBound`: `Spec => []LockoutOvershoot`. A user has at most
  `MaxAttempts - 1 + MaxConns` recent failures, counting the logins that are past
  the check and may still record one. The bound alone is not inductive: a login
  is admitted when fewer than `MaxAttempts` failures are visible, however many
  others are in flight. The argument is that those in flight all hold a
  connection (`RequestInv`, with `TypeOK`) and that at most `MaxConns` are held
  (`PoolInv`): admission leaves at most `MaxAttempts - 1` recorded and `MaxConns`
  in flight, and a commit exchanges one in flight for one recorded. `Tick` only
  removes failures.

`PasswordFlows_proofs` proves the other properties of the password store. `FlowInv`
says what each request relies on at the step it is at (`UnderWay`: the verified address
it has read is still verified, the credential it has read still exists, the token it
consumed is of its user and purpose) and what an answer still vouches for (`Answered`).
It survives the steps of others because the tables only move one way (`Monotone`):
nothing unverifies an address, removes a credential, writes an outdated hash or revives
a consumed token.

* `VerifiedLogins` and `LoginsUpgrade` follow from `FlowInv` directly.
* `VerificationNeedsToken`: only `VerifyUpdate` sets `email_verified`, and a request
  gets there only with a consumed e-mail token of its user.
* `TokensWorkOnce`: whoever comes to redeem a token found it live, while every earlier
  redeemer's token is consumed (`NewRedeemer`, `RedeemedIsConsumed`).
* `TokensAreBounded`: `TokensSuperseded` counts the requests about to insert a token
  with the usable tokens, which makes it inductive: an inserted token takes the place of
  its request, and a request that invalidates first leaves nothing but other requests.

`Provisioning_proofs` proves all seven invariants of `Provisioning` from one inductive
invariant. `Keys` states the unique indexes over committed and uncommitted rows, which
is what the waiting `INSERT`s maintain; `UniqueEmail` is its committed part. `MemberInv`
says that only the request whose `INSERT` created a user adds a membership for it, hence
`SingleMembership`. `OwnerInv` traces rows to the request that wrote them, hence
`NoPartialRegistration`. `Control`, `Own` and `Progress` tie what a request has written to
where it is (a membership is verified before a credential is written, a token and a mail
precede the commit); `CredentialsAreUsable` and `RegisteredWasMailed` are then preserved
by the commit. `WaitersAreWoken` follows from `Own`: a user is written before a
credential, so nobody waits while holding what another waits for. `ClockInv` bounds the
creation clock by the number of requests. `TenantsAssumption` says that the tenants of
the initial state have ids that no request creates, as random UUIDs do.

`Sessions_proofs` proves `OwnTenant` and `LogoutFinality`. A tenant is of its user because
every copy of a session is consistent by itself: handlers replace user and tenant
together, and select only among the memberships of the user in their copy. A logout is
final because a deleted row has no holder who may write it back, unless the request held
it when it was destroyed (`DeletedIsLost`, `raced`); because a handler works on the
session of its own cookie (`OwnData`), and an answer to a logout means that this session
is gone (`LogoutInv`); and because cookies name only tokens that were stored
(`NamesStored`), so none is drawn again.

`TenantPool_proofs` proves `TypeCorrectness` and `Isolation`: `Spec => []TenantIsolation`, with
`HolderInv` (a held connection has one holder, which is at the matching step) and
`CleanInv` (a connection nobody uses has no tenant unless `AfterRelease` is
pending; none has one before `set_tenant` exists).

`SignIn_proofs` proves `OwnSignIn`: `Spec => []SignInIsOwn`, and `CodesSpentAtHome`:
`Spec => []CodeIsSpentAtHome`. Neither is inductive. That a callback belongs to its
browser is known only from the comparison with the cookie, hence `CookieInv`: the
cookie of a browser was generated for it. A cookie may be empty, and so may the state
of a tab that is in no sign-in; `FlowInv` says that a tab on its way through one has
a state, so the two cannot be equal for being both empty. With these the check of
`Callback` gives `CodeIsSpentAtHome`, the later steps keep it although cookies change
meanwhile, and `SignInIsOwn` follows where the session is written.
`TypeCorrectness` adds to these that a tab with a callback URL has the user of its
sign-in, and that the tenant in a session is one of its user's. `LoopsAreConfigured`
proves `Spec => []LoopsOnlyAtShutPicker` for every set of configurations, the looping ones
included. `LoopInv` says that a visit that was redirected asks for the picker, so a second
redirect means that the list does not admit it; `OpenPicker` says which configurations
`WithDefaults` makes such a list of.

`Application_proofs` proves `ErrorsAreReported`: `Spec => []ServeErrorIsReported`, and
`RequestsKeepPool`: `Spec => []NoRequestLosesPool`. The first needs to know what the
channel holds (`ServerInv`: a nil only from a goroutine that ended after `Shutdown`).
The second needs that `select` never receives a nil, since the goroutine cannot end
well before `Shutdown` was called; a Run that returns nil has therefore passed the wait
for its requests. `RequestInv` keeps this through retries, kills and `Close`.

`Lifecycle_proofs` proves what is left of `Application`. `StartInv` follows `Run` through
its stages: `ConfigInv` (what `New` accepted), `StageInvariant` (which of pool, services
and telemetry exist at a stage, and what an earlier `Run` may have left), `MigrationInv`
and `SchemaInv`.

* `StartsAreComplete` and `TelemetryIsShutDown` read `ServingIsComplete` and
  `TelemetryIsFlushed` off `StageInvariant`; the latter because every `Run` with
  telemetry overwrites the shutdown function with its own before it goes on.
* `RunKeepsItsSafety`: `Application` implements `Lifecycle!Safety`. Every step maps to
  one of `Lifecycle` or to a stutter: `Run` to `Start`, `ApplyMigration` to `Migrate`,
  the last stage to `Serve`, `select` to `Drain` or `Fail`, the end of the wait to `Stop`,
  requests to `Accept` and `Answer`, and `Exit` to itself. `Serve` is the hard one, since
  instances migrate one table without a lock. A version is `Passed` when it is in the table
  or overtaken; `SchemaInv` says that every version below a recorded one was passed, and
  holds because each instance passes all versions of its own below the one it applies
  (`MigrationInv`) while a version it does not have is overtaken by this very step. `Stop`
  needs `RequestInv` of `Application_proofs`; that a `Run` may fail with a server only
  after `Shutdown` or after the server itself failed is part of `StageInvariant`.

All proofs hold for every value of the constants; the assumptions are those declared
with the constants. Every safety invariant that a
passing run checks is stated by a theorem. What only TLC checks: the temporal properties
`LockoutExpires`, `EveryRequestAnswered`, `CancelStopsRun` and `GoroutineEnds`; the
fairness half of `RunKeepsItsPromise` (that a draining instance leaves), which needs
`ENABLED`; and the counterexamples of the violation runs.

## Not modelled

* OpenAPI validation: a function of one request or response that keeps nothing.
* Observability middleware: records spans, metrics and log lines nobody reads back.
* Command line, scaffolding and the migration regression tool: sequential file and
  SQL output. Test support.
* PHC parsing and Argon2 parameters, policy rules character by character, mail
  contents, logging, query tracing, generated query wrappers beyond their SQL.
* Expiry of sessions, which scs does; clocks of application and database that disagree.
* Signatures and formats of OIDC tokens, which the library checks.

## Plan

1. Abstract specifications of the lockout and of one-time tokens, which `PasswordStore`
   implements.
2. `ResolveOrProvisionUser` as one atomic step, implemented by `Provisioning` inside a
   transaction.
3. Theorems about these refinements, added to the existing proof modules, which already
   have the invariants they rest on.
