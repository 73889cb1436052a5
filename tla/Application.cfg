SPECIFICATION FairSpec
CONSTANTS
    auth = auth
    password = password
    a1 = a1
    a2 = a2
    Apps = {a1, a2}
    Sources = {auth, password}
    Files <- MCFiles
    Options <- MCOptions
    MaxRuns <- MCMaxRuns
INVARIANT TypeOK
INVARIANT ServingIsComplete
INVARIANT ServeErrorIsReported
INVARIANT NoRequestLosesPool
INVARIANT TelemetryIsFlushed
CHECK_DEADLOCK FALSE
PROPERTY CancelStopsRun
PROPERTY GoroutineEnds
PROPERTY RunKeepsItsPromise
