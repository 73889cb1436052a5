------------------------- MODULE Application_proofs -------------------------
(***************************************************************************)
(* How Run ends, for any number of instances, options, sources and retries:   *)
(* an error of the server is reported, and requests keep their pool.          *)
(***************************************************************************)
EXTENDS Application, TLAPS

\* The part of the state that the two processes of runHTTPServer and Close share.
Shape ==
    /\ pc \in [Apps -> Running \cup {"none", "rejected", "built", "panic", "ok", "error"}]
    /\ pool \in [Apps -> {"nil", "open", "closing", "closed"}]
    /\ server \in [Apps -> {"none", "starting", "listening", "closing", "failing", "closed", "failed"}]
    /\ shut \in [Apps -> BOOLEAN]
    /\ errCh \in [Apps -> {"empty", "nil", "error"}]
    /\ request \in [Apps -> {"none", "running", "holding"}]

\* The goroutine lives from runHTTPServer on, and ends well only after Shutdown; its
\* result is in the channel only when it has ended with it.
ServerInv(a) ==
    /\ server[a] # "none" => pc[a] \in {"select", "shutdown", "await", "ok", "error"}
    /\ shut[a] => server[a] # "none" /\ pc[a] # "select"
    /\ pc[a] = "select" => server[a] # "none"
    /\ pc[a] \in {"shutdown", "await"} => shut[a]
    /\ server[a] \in {"closing", "closed"} => shut[a]
    /\ errCh[a] = "nil" => server[a] = "closed"
    /\ errCh[a] = "error" => server[a] = "failed"
    /\ pc[a] = "ok" => server[a] = "closed"

\* Requests exist only while Run serves or drains, or after it has reported an error;
\* the pool is closed only when Run does not use it.
RequestInv(a) ==
    /\ request[a] # "none" => server[a] # "none" /\ pc[a] \in {"select", "shutdown", "error"}
    /\ pool[a] \in {"closing", "closed"} => pc[a] \in {"built", "ok", "error"}

Inv == Shape /\ \A a \in Apps : ServerInv(a) /\ RequestInv(a)

\* A stage of Run goes on to another stage or ends with an error or a panic; there is
\* no server yet and the pool is not being closed.
LEMMA StageInv ==
    ASSUME Inv, NEW a \in Apps, NEW label \in Stages \cup {"error", "panic"},
           pc[a] \in Stages, Goto(a, label), UNCHANGED serving,
           UNCHANGED pool \/ pool' = [pool EXCEPT ![a] = "open"]
    PROVE  Inv'
BY DEF Inv, Shape, ServerInv, RequestInv, Goto, serving, Stages, Running

\* Before New there is neither server nor pool.
LEMMA InitInv == Init => Inv
BY DEF Init, DatabaseInit, Inv, Shape, ServerInv, RequestInv, Running, Stages

\* Every step of the caller, of Run, of the goroutine, of the clients and of the
\* operating system keeps the invariant.
LEMMA StepInv == Inv /\ [Next]_vars => Inv'
<1> SUFFICES ASSUME Inv, [Next]_vars PROVE Inv'
    OBVIOUS
<1> USE DEF At
<1>1. CASE UNCHANGED vars
    BY <1>1 DEF Inv, Shape, ServerInv, RequestInv, vars, manager, serving
<1>2. ASSUME NEW a \in Apps, NEW o \in Options[a], New(a, o) PROVE Inv'
    BY <1>2 DEF New, Goto, manager, serving, Inv, Shape, ServerInv, RequestInv, Running, Stages
<1>3. ASSUME NEW a \in Apps, Run(a) PROVE Inv'
    BY <1>3 DEF Run, Goto, manager, serving, Inv, Shape, ServerInv, RequestInv, Running, Stages
<1>4. ASSUME NEW a \in Apps, RunStep(a) PROVE Inv'
    <2>1. CASE SetupOTEL(a)
        BY <2>1, StageInv DEF SetupOTEL, manager, Stages
    <2>2. CASE Database(a)
        <3>1. CASE Connect(a)
            BY <2>2, <3>1, StageInv DEF Database, Connect, manager, Stages
        <3>2. CASE Ping(a)
            BY <2>2, <3>2, StageInv DEF Database, Ping, manager, Stages
        <3>3. CASE AddMigrationSources(a, config[a].sources)
            BY <2>2, <3>3, StageInv DEF Database, AddMigrationSources, Stages
        <3>4. CASE RunMigrations(a)
            <4>1. CASE MergeMigrationSources(a)
                BY <2>2, <4>1, StageInv DEF Database, MergeMigrationSources, manager, Stages
            <4>2. CASE CheckMissing(a)
                BY <2>2, <4>2, StageInv DEF Database, CheckMissing, manager, Stages
            <4>3. CASE NextMigration(a)
                BY <2>2, <4>3, StageInv DEF Database, NextMigration, Stages
            <4>4. CASE ApplyMigration(a)
                BY <2>2, <4>4, StageInv DEF Database, ApplyMigration, Stages
            <4> QED BY <3>4, <4>1, <4>2, <4>3, <4>4 DEF RunMigrations
        <3> QED BY <2>2, <3>1, <3>2, <3>3, <3>4 DEF Database
    <2>3. CASE PasswordAndRoutes(a)
        BY <2>3, StageInv DEF PasswordAndRoutes, manager, Stages
    <2>4. CASE Modules(a)
        <3>1. /\ UNCHANGED <<pool, shut, errCh, request>> /\ pc[a] = "modules"
              /\ \/ Goto(a, "error") /\ UNCHANGED server
                 \/ Goto(a, "select") /\ server' = [server EXCEPT ![a] = "starting"]
            BY <2>4 DEF Modules, manager
        <3> QED BY <3>1 DEF Goto, Inv, Shape, ServerInv, RequestInv, Running, Stages
    \* A nil cannot come before Shutdown, so what select receives is an error.
    <2>5. CASE Select(a)
        <3>0. UNCHANGED <<pool, server, request>> /\ pc[a] = "select"
            BY <2>5 DEF Select, manager
        <3>1. CASE Receive(a)
            <4>1. errCh[a] = "error"
                BY <3>0, <3>1 DEF Receive, Inv, Shape, ServerInv
            <4>2. /\ errCh' = [errCh EXCEPT ![a] = "empty"] /\ UNCHANGED shut
                  /\ pc' = [pc EXCEPT ![a] = "error"]
                BY <3>1, <4>1 DEF Receive, Goto
            <4> QED BY <3>0, <4>1, <4>2 DEF Inv, Shape, ServerInv, RequestInv, Running, Stages
        <3>2. CASE /\ shut' = [shut EXCEPT ![a] = TRUE] /\ UNCHANGED errCh
                   /\ Goto(a, "shutdown")
            BY <3>0, <3>2 DEF Goto, Inv, Shape, ServerInv, RequestInv, Running, Stages
        <3> QED BY <2>5, <3>1, <3>2 DEF Select
    <2>6. CASE ShutdownReturns(a)
        BY <2>6 DEF ShutdownReturns, Goto, manager, serving, Inv, Shape, ServerInv, RequestInv,
                    Running, Stages
    <2>7. CASE Await(a)
        BY <2>7 DEF Await, Receive, Goto, manager, Inv, Shape, ServerInv, RequestInv, Running, Stages
    <2> QED BY <1>4, <2>1, <2>2, <2>3, <2>4, <2>5, <2>6, <2>7 DEF RunStep
<1>5. ASSUME NEW a \in Apps, Discover(a) PROVE Inv'
    BY <1>5, StageInv DEF Discover, NewOIDCAuthenticator, manager, Stages
<1>6. ASSUME NEW a \in Apps, Listen(a) \/ ServeReturns(a) PROVE Inv'
    BY <1>6 DEF Listen, ServeReturns, manager, Inv, Shape, ServerInv, RequestInv
<1>7. ASSUME NEW a \in Apps, Send(a) PROVE Inv'
    BY <1>7 DEF Send, manager, Inv, Shape, ServerInv, RequestInv
<1>8. ASSUME NEW a \in Apps, Cancel(a) PROVE Inv'
    BY <1>8 DEF Cancel, manager, serving, Inv, Shape, ServerInv, RequestInv
<1>9. ASSUME NEW a \in Apps, Request(a) PROVE Inv'
    BY <1>9 DEF Request, manager, Inv, Shape, ServerInv, RequestInv
<1>10. ASSUME NEW a \in Apps, BeginClose(a) \/ Close(a) PROVE Inv'
    BY <1>10 DEF BeginClose, Close, serving, Inv, Shape, ServerInv, RequestInv
<1>11. ASSUME NEW a \in Apps, Exit(a) PROVE Inv'
    BY <1>11 DEF Exit, Goto, Inv, Shape, ServerInv, RequestInv, Running, Stages
<1> QED
    BY <1>1, <1>2, <1>3, <1>4, <1>5, <1>6, <1>7, <1>8, <1>9, <1>10, <1>11 DEF Next

\* runHTTPServer: Run returns nil only when ListenAndServe ended because of Shutdown,
\* in every instance and for every order of cancellation and failure.
THEOREM ErrorsAreReported == Spec => []ServeErrorIsReported
<1>1. Inv => ServeErrorIsReported
    BY DEF Inv, ServerInv, ServeErrorIsReported
<1> QED BY <1>1, InitInv, StepInv, PTL DEF Spec

\* Close: only a Run that reported an error leaves requests whose pool is closed.
THEOREM RequestsKeepPool == Spec => []NoRequestLosesPool
<1>1. Inv => NoRequestLosesPool
    BY DEF Inv, ServerInv, RequestInv, NoRequestLosesPool
<1> QED BY <1>1, InitInv, StepInv, PTL DEF Spec
=============================================================================
