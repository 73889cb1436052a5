SPECIFICATION Spec
CONSTANTS
    auth = auth
    password = password
    a1 = a1
    a2 = a2
    Apps = {a1}
    Sources = {auth, password}
    Files <- MCFiles
    Options <- MCUpgrade
    MaxRuns <- MCMaxRuns
CHECK_DEADLOCK FALSE
INVARIANT InterleavedSourcesApply
