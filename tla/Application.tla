----------------------------- MODULE Application -----------------------------
(***************************************************************************)
(* app.New, Application.Run and Application.Close (app/app.go, app/option.go) *)
(* of the instances that share a database, with observability.SetupOTEL and   *)
(* the http.Server of runHTTPServer.                                          *)
(*                                                                         *)
(* Run goes through its stages in the order of the code; a stage that fails   *)
(* makes Run return and leaves what the earlier ones did.  The caller may     *)
(* call Run again after a start that failed (MaxRuns bounds how often), and    *)
(* Close when Run has returned.  A process may be killed at any time.          *)
(***************************************************************************)
EXTENDS DatabaseManager

CONSTANTS
    Options,    \* what each instance may pass to New (see OptionRecords)
    MaxRuns     \* bound on the calls of Run in one process, for each instance

VARIABLES
    config,     \* a.config: the options with their defaults
    run,        \* calls of Run so far
    cancelled,  \* whether the context of the current Run was cancelled
    otel,       \* telemetry providers that run, and whose shutdown a.otelShutdown holds
    services,   \* the services in a.dependencies
    routed,     \* whether a.router has routes
    server,     \* the goroutine of runHTTPServer
    shut,       \* whether server.Shutdown was called
    errCh,      \* its channel, of capacity 1
    request,    \* a request in flight: "running", or "holding" a connection
    closed      \* whether Close has returned

setup == <<config, run, otel, services, routed>>
serving == <<server, shut, errCh, request>>
vars == <<database, pc, manager, setup, cancelled, serving, closed>>

\* The options that decide something.  sources are in the order Run adds them.
OptionRecords ==
    [database : {"none", "noURL", "url"}, timeout : {"default", "positive", "zero"},
     cors : {"off", "origins", "noOrigins", "wildcardWithCredentials"},
     auth : {"off", "incomplete", "on"}, password : BOOLEAN, sessions : BOOLEAN,
     store : {"postgres", "custom"}, otel : BOOLEAN, sources : Seq(Sources)]
ASSUME OptionsAssumption == \A a \in Apps : Options[a] \subseteq OptionRecords
ASSUME MaxRunsAssumption == MaxRuns \in [Apps -> Nat \ {0}]

NoConfig == [sources |-> <<>>]
NoTelemetry == [live |-> {}, shutdown |-> 0]

Init ==
    /\ DatabaseInit
    /\ config = [a \in Apps |-> NoConfig]
    /\ run = [a \in Apps |-> 0]
    /\ cancelled = [a \in Apps |-> FALSE]
    /\ otel = [a \in Apps |-> NoTelemetry]
    /\ services = [a \in Apps |-> {}]
    /\ routed = [a \in Apps |-> FALSE]
    /\ server = [a \in Apps |-> "none"]
    /\ shut = [a \in Apps |-> FALSE]
    /\ errCh = [a \in Apps |-> "empty"]
    /\ request = [a \in Apps |-> "none"]
    /\ closed = [a \in Apps |-> FALSE]

-----------------------------------------------------------------------------
(* New.                                                                    *)

\* What makes New fail: an option that returns an error, or validate.
TimeoutRejected(o) == o.timeout = "zero"
CORSRejected(o) == o.cors \in {"noOrigins", "wildcardWithCredentials"}
ValidateFails(o) == o.database # "url" \/ o.auth = "incomplete"
Rejected(o) == TimeoutRejected(o) \/ CORSRejected(o) \/ ValidateFails(o)

\* Mutant: password authentication does not enable sessions.
ApplyDefaultsAuthOnly(o) == [o EXCEPT !.sessions = @ \/ o.auth # "off"]
ApplyDefaults(o) == [o EXCEPT !.sessions = @ \/ o.auth # "off" \/ o.password]

New(a, o) ==
    /\ At(a, "none")
    /\ \/ Rejected(o) /\ Goto(a, "rejected") /\ UNCHANGED config
       \/ /\ ~Rejected(o)
          /\ Goto(a, "built")
          /\ config' = [config EXCEPT ![a] = ApplyDefaults(o)]
    /\ UNCHANGED <<database, manager, run, cancelled, otel, services, routed, serving, closed>>

-----------------------------------------------------------------------------
(* Run.                                                                    *)

Run(a) ==
    /\ At(a, "built") \/ (At(a, "error") /\ server[a] = "none")
    /\ run[a] < MaxRuns[a] /\ ~closed[a]
    /\ pool[a] \in {"nil", "open"}
    /\ run' = [run EXCEPT ![a] = @ + 1]
    /\ cancelled' = [cancelled EXCEPT ![a] = FALSE]
    /\ Goto(a, "otel")
    /\ UNCHANGED <<database, manager, config, otel, services, routed, serving, closed>>

\* Mutant: the shutdown function of the first setup is kept.
SetupOTELKeepsFirst(a) ==
    /\ At(a, "otel")
    /\ Goto(a, "connect")
    /\ otel' = IF ~config[a].otel THEN otel
               ELSE [otel EXCEPT ![a] = [live |-> @.live \cup {run[a]},
                                         shutdown |-> IF @.shutdown = 0 THEN run[a]
                                                      ELSE @.shutdown]]
    /\ UNCHANGED <<database, manager, config, run, cancelled, services, routed, serving, closed>>
\* The tracer provider starts before the exporter of the metrics, whose error
\* leaves it running.  A second setup replaces the first one's shutdown function.
SetupOTEL(a) ==
    /\ At(a, "otel")
    /\ \/ ~config[a].otel /\ Goto(a, "connect") /\ UNCHANGED otel
       \/ config[a].otel /\ Goto(a, "error") /\ UNCHANGED otel
       \/ /\ config[a].otel
          /\ Goto(a, "error")
          /\ otel' = [otel EXCEPT ![a].live = @ \cup {run[a]}]
       \/ /\ config[a].otel
          /\ Goto(a, "connect")
          /\ otel' = [otel EXCEPT ![a] = [live |-> @.live \cup {run[a]}, shutdown |-> run[a]]]
    /\ UNCHANGED <<database, manager, config, run, cancelled, services, routed, serving, closed>>

Database(a) ==
    /\ \/ Connect(a) \/ Ping(a)
       \/ AddMigrationSources(a, config[a].sources)
       \/ RunMigrations(a)
    /\ UNCHANGED <<setup, cancelled, serving, closed>>

\* The provider is asked for its endpoints, without a deadline and without the
\* context of Run.
NewOIDCAuthenticator(a) == Goto(a, "password") \/ Goto(a, "error")

\* Sessions and identity store, then NewOIDCHandler.
Discover(a) ==
    /\ At(a, "services")
    /\ \/ config[a].auth = "off" /\ Goto(a, "password")
       \/ config[a].auth = "on" /\ NewOIDCAuthenticator(a)
    /\ UNCHANGED <<database, manager, setup, cancelled, serving, closed>>

\* a.dependencies
Configured(a) ==
    {s \in {"session", "auth", "password"} :
        \/ s = "session" /\ config[a].sessions
        \/ s = "auth" /\ config[a].auth = "on"
        \/ s = "password" /\ config[a].password}
\* setupMiddleware: chi panics when middleware, here the default one at least, is
\* added to a router that has routes.
MiddlewarePanics(a) == routed[a]

\* Mutant: the goroutine of the server starts before the modules register.
ServeBeforeModules(a) ==
    /\ At(a, "password")
    /\ services' = [services EXCEPT ![a] = Configured(a)]
    /\ routed' = [routed EXCEPT ![a] = TRUE]
    /\ server' = [server EXCEPT ![a] = "starting"]
    /\ Goto(a, "modules")
    /\ UNCHANGED <<database, manager, config, run, otel, cancelled, shut, errCh, request, closed>>
\* Password handler, dependencies, middleware and the routes of both handlers.
PasswordAndRoutes(a) ==
    /\ At(a, "password")
    /\ IF config[a].password /\ config[a].store = "custom"
       THEN Goto(a, "error") /\ UNCHANGED <<services, routed>>
       ELSE /\ services' = [services EXCEPT ![a] = Configured(a)]
            /\ IF MiddlewarePanics(a)
               THEN Goto(a, "panic") /\ UNCHANGED routed
               ELSE /\ Goto(a, "modules")
                    /\ routed' = [routed EXCEPT ![a] = config[a].auth = "on" \/ config[a].password]
    /\ UNCHANGED <<database, manager, config, run, otel, cancelled, serving, closed>>

\* Every module registers its routes, or fails after some of them.  The server's
\* goroutine starts.
Modules(a) ==
    /\ At(a, "modules")
    /\ \/ /\ Goto(a, "error")
          /\ routed' \in {routed, [routed EXCEPT ![a] = TRUE]}
          /\ UNCHANGED server
       \/ /\ Goto(a, "select")
          /\ routed' = [routed EXCEPT ![a] = TRUE]
          /\ server' = [server EXCEPT ![a] = "starting"]
    /\ UNCHANGED <<database, manager, config, run, otel, services, cancelled,
                   shut, errCh, request, closed>>

-----------------------------------------------------------------------------
(* runHTTPServer.  ListenAndServe and Shutdown are net/http's.              *)

\* The goroutine: ListenAndServe fails, or serves until Shutdown or an error of
\* accept; its result goes to the channel.
Listen(a) ==
    /\ server[a] = "starting"
    /\ \/ shut[a] /\ server' = [server EXCEPT ![a] = "closing"]
       \/ ~shut[a] /\ server' = [server EXCEPT ![a] = "listening"]
       \/ ~shut[a] /\ server' = [server EXCEPT ![a] = "failing"]
    /\ UNCHANGED <<database, pc, manager, setup, cancelled, shut, errCh, request, closed>>

ServeReturns(a) ==
    /\ server[a] = "listening"
    /\ server' = [server EXCEPT ![a] = IF shut[a] THEN "closing" ELSE "failing"]
    /\ UNCHANGED <<database, pc, manager, setup, cancelled, shut, errCh, request, closed>>

\* Mutant: the channel has no buffer, so that a send waits for its receiver.
SendUnbuffered(a) ==
    /\ server[a] \in {"closing", "failing"} /\ errCh[a] = "empty"
    /\ pc[a] \in {"select", "await"}
    /\ errCh' = [errCh EXCEPT ![a] = IF server[a] = "failing" THEN "error" ELSE "nil"]
    /\ server' = [server EXCEPT ![a] = IF @ = "failing" THEN "failed" ELSE "closed"]
    /\ UNCHANGED <<database, pc, manager, setup, cancelled, shut, request, closed>>
Send(a) ==
    /\ server[a] \in {"closing", "failing"} /\ errCh[a] = "empty"
    /\ errCh' = [errCh EXCEPT ![a] = IF server[a] = "failing" THEN "error" ELSE "nil"]
    /\ server' = [server EXCEPT ![a] = IF @ = "failing" THEN "failed" ELSE "closed"]
    /\ UNCHANGED <<database, pc, manager, setup, cancelled, shut, request, closed>>

\* return <-errCh
Receive(a) ==
    /\ errCh[a] # "empty"
    /\ errCh' = [errCh EXCEPT ![a] = "empty"]
    /\ Goto(a, IF errCh[a] = "nil" THEN "ok" ELSE "error")
    /\ UNCHANGED shut

\* The select statement takes either case when both are ready.
Select(a) ==
    /\ At(a, "select")
    /\ \/ Receive(a)
       \/ /\ cancelled[a]
          /\ shut' = [shut EXCEPT ![a] = TRUE]
          /\ Goto(a, "shutdown")
          /\ UNCHANGED errCh
    /\ UNCHANGED <<database, manager, setup, cancelled, server, request, closed>>

\* Mutant: Shutdown has no deadline.
ShutdownReturnsWhenIdle(a) ==
    /\ At(a, "shutdown")
    /\ request[a] = "none"
    /\ Goto(a, "await")
    /\ UNCHANGED <<database, manager, setup, cancelled, serving, closed>>
\* Mutant: the server is closed without waiting for its requests.
ShutdownReturnsAtOnce(a) ==
    /\ At(a, "shutdown")
    /\ Goto(a, "await") \/ Goto(a, "error")
    /\ UNCHANGED <<database, manager, setup, cancelled, serving, closed>>
\* Shutdown returns when no request is left, or at its deadline.
ShutdownReturns(a) ==
    /\ At(a, "shutdown")
    /\ (request[a] = "none" /\ Goto(a, "await")) \/ Goto(a, "error")
    /\ UNCHANGED <<database, manager, setup, cancelled, serving, closed>>

\* Mutant: nil is returned whatever ListenAndServe returned.
AwaitIgnored(a) ==
    /\ At(a, "await")
    /\ Goto(a, "ok")
    /\ UNCHANGED <<database, manager, setup, cancelled, serving, closed>>
Await(a) ==
    /\ At(a, "await")
    /\ Receive(a)
    /\ UNCHANGED <<database, manager, setup, cancelled, server, request, closed>>

-----------------------------------------------------------------------------
(* The caller, the clients and the operating system.                       *)

Stages == {"otel", "connect", "ping", "sources", "merge", "check", "next", "apply",
           "services", "password", "modules"}
Running == Stages \cup {"select", "shutdown", "await"}

Cancel(a) ==
    /\ pc[a] \in Running /\ ~cancelled[a]
    /\ cancelled' = [cancelled EXCEPT ![a] = TRUE]
    /\ UNCHANGED <<database, pc, manager, setup, serving, closed>>

\* Requests come while the listener is open.  A handler may hold a connection of the
\* pool; it gets none once the pool is being closed.
Request(a) ==
    /\ \/ /\ server[a] = "listening" /\ ~shut[a] /\ request[a] = "none"
          /\ request' = [request EXCEPT ![a] = "running"]
       \/ /\ request[a] = "running" /\ pool[a] = "open"
          /\ request' = [request EXCEPT ![a] = "holding"]
       \/ /\ request[a] = "holding"
          /\ request' = [request EXCEPT ![a] = "running"]
       \/ /\ request[a] = "running"
          /\ request' = [request EXCEPT ![a] = "none"]
    /\ UNCHANGED <<database, pc, manager, setup, cancelled, server, shut, errCh, closed>>

\* Close, after Run or without it: pool.Close waits for the connections in use, then
\* the providers are shut down.
BeginClose(a) ==
    /\ pc[a] \in {"built", "ok", "error"} /\ pool[a] = "open" /\ request[a] = "holding"
    /\ pool' = [pool EXCEPT ![a] = "closing"]
    /\ UNCHANGED <<database, pc, sources, next, setup, cancelled, serving, closed>>

Close(a) ==
    /\ pc[a] \in {"built", "ok", "error"} /\ ~closed[a]
    /\ request[a] # "holding"
    /\ pool' = [pool EXCEPT ![a] = IF @ = "nil" THEN "nil" ELSE "closed"]
    /\ otel' = [otel EXCEPT ![a].live = @ \ {otel[a].shutdown}]
    /\ closed' = [closed EXCEPT ![a] = TRUE]
    /\ UNCHANGED <<database, pc, sources, next, config, run, services, routed, cancelled, serving>>

\* The process ends or is killed.
Exit(a) ==
    /\ ~At(a, "none")
    /\ Goto(a, "none")
    /\ pool' = [pool EXCEPT ![a] = "nil"]
    /\ sources' = [sources EXCEPT ![a] = <<>>]
    /\ next' = [next EXCEPT ![a] = 0]
    /\ config' = [config EXCEPT ![a] = NoConfig]
    /\ run' = [run EXCEPT ![a] = 0]
    /\ cancelled' = [cancelled EXCEPT ![a] = FALSE]
    /\ otel' = [otel EXCEPT ![a] = NoTelemetry]
    /\ services' = [services EXCEPT ![a] = {}]
    /\ routed' = [routed EXCEPT ![a] = FALSE]
    /\ server' = [server EXCEPT ![a] = "none"]
    /\ shut' = [shut EXCEPT ![a] = FALSE]
    /\ errCh' = [errCh EXCEPT ![a] = "empty"]
    /\ request' = [request EXCEPT ![a] = "none"]
    /\ closed' = [closed EXCEPT ![a] = FALSE]
    /\ UNCHANGED database

RunStep(a) == \/ SetupOTEL(a) \/ Database(a) \/ PasswordAndRoutes(a) \/ Modules(a)
              \/ Select(a) \/ ShutdownReturns(a) \/ Await(a)
Goroutine(a) == Listen(a) \/ (shut[a] /\ ServeReturns(a)) \/ Send(a)

Next == \E a \in Apps :
    \/ \E o \in Options[a] : New(a, o)
    \/ Run(a) \/ RunStep(a) \/ Discover(a)
    \/ Listen(a) \/ ServeReturns(a) \/ Send(a)
    \/ Cancel(a) \/ Request(a) \/ BeginClose(a) \/ Close(a) \/ Exit(a)

Spec == Init /\ [][Next]_vars

\* Run and the server's goroutine make progress, and the deadline of Shutdown passes.
\* Nothing is assumed of the caller, the clients and the OIDC provider.
FairSpec == Spec /\ \A a \in Apps : WF_vars(RunStep(a)) /\ WF_vars(Goroutine(a))

-----------------------------------------------------------------------------
(* Properties.                                                             *)

\* Variables keep their shape; the version recorded last is one that was applied, and
\* the server's goroutine exists from runHTTPServer on and not during the stages.
TypeOK ==
    /\ applied \in SUBSET (UNION {Files[s] : s \in Sources}) /\ version \in applied \cup {0}
    /\ pc \in [Apps -> Running \cup {"none", "rejected", "built", "panic", "ok", "error"}]
    /\ pool \in [Apps -> {"nil", "open", "closing", "closed"}]
    /\ \A a \in Apps : run[a] \in 0..MaxRuns[a]
    /\ cancelled \in [Apps -> BOOLEAN] /\ routed \in [Apps -> BOOLEAN]
    /\ shut \in [Apps -> BOOLEAN] /\ closed \in [Apps -> BOOLEAN]
    /\ \A a \in Apps : otel[a] \in [live : SUBSET (1..MaxRuns[a]), shutdown : 0..MaxRuns[a]]
    /\ server \in [Apps -> {"none", "starting", "listening", "closing", "failing", "closed", "failed"}]
    /\ errCh \in [Apps -> {"empty", "nil", "error"}]
    /\ request \in [Apps -> {"none", "running", "holding"}]
    /\ \A a \in Apps : /\ pc[a] \in {"select", "shutdown", "await", "ok"} => server[a] # "none"
                       /\ pc[a] \in Stages => server[a] = "none"

\* An instance that serves has a session manager for its handlers and everything
\* else its options ask for, also when an earlier Run of the process failed half-way.
ServingIsComplete ==
    \A a \in Apps : server[a] # "none" =>
        /\ services[a] = Configured(a)
        /\ services[a] # {} => "session" \in services[a]
        /\ pool[a] # "nil"

\* runHTTPServer: an error of ListenAndServe is returned by Run, also when it
\* meets the cancellation of the context.
ServeErrorIsReported ==
    \A a \in Apps : pc[a] = "ok" => server[a] = "closed"

\* Close (app.go:435) after Run: a handler finds its pool closed only when Run has reported that requests were
\* left behind: after a nil, Close takes nothing away from anybody.
NoRequestLosesPool ==
    \A a \in Apps : request[a] # "none" /\ pool[a] \in {"closing", "closed"} => pc[a] = "error"

\* Close flushes the telemetry of the Run that served, however many starts failed
\* before it.
TelemetryIsFlushed ==
    \A a \in Apps : closed[a] /\ server[a] # "none" => run[a] \notin otel[a].live

\* app.go: Run "blocks until the server exits or ctx is cancelled".  It returns after
\* a cancellation at any stage, whatever its requests do, unless it waits for the
\* OIDC provider.
CancelStopsRun ==
    \A a \in Apps : (pc[a] \in Running /\ cancelled[a])
                        ~> (pc[a] \notin Running \/ pc[a] = "services")

\* The goroutine of the server ends once Run has returned; nobody reads its channel
\* any more when Shutdown failed.
GoroutineEnds ==
    \A a \in Apps : (pc[a] \in {"ok", "error"} /\ server[a] # "none")
                        ~> server[a] \in {"closed", "failed", "none"}

\* Application implements what Run promises (module Lifecycle).
Phase(a) ==
    CASE pc[a] \in {"none", "rejected", "built"} -> "down"
      [] pc[a] \in Stages -> "starting"
      [] pc[a] = "select" -> "serving"
      [] pc[a] \in {"shutdown", "await"} -> "draining"
      [] pc[a] = "ok" -> "stopped"
      [] pc[a] \in {"error", "panic"} -> "failed"
NeedsOf(o) == UNION {Files[o.sources[i]] : i \in DOMAIN o.sources}
Needs(a) ==
    IF Phase(a) = "down" THEN {}
    ELSE NeedsOf(config[a])
Promise == INSTANCE Lifecycle WITH
    Configurations <- {NeedsOf(o) : o \in UNION {Options[a] : a \in Apps}},
    phase <- [a \in Apps |-> Phase(a)],
    needs <- [a \in Apps |-> Needs(a)],
    schema <- applied,
    open <- [a \in Apps |-> request[a] # "none"]
RunKeepsItsPromise == Promise!Spec

\* db.go:164-167: all sources are merged and sorted by version "so interleaved
\* timestamps across sources are handled correctly": no start is refused because a
\* source brings a version older than the newest one applied.
InterleavedSourcesApply == \A a \in Apps : pc[a] = "check" => Missing(a) = {}
=============================================================================
