SPECIFICATION FairSpec
CONSTANTS
    Users = {u1}
    NoUser = nobody
    Passwords = {a, b}
    Rejected = {}
    Procs = {p1, p2}
    Ops = {"login", "resend", "verify"}
    Rows = {r1, r2}
    Tokens = {t1}
    MaxConns = 2
    MaxAttempts = 1
    Window = 2
    ResetTokenExpiry = 1
    VerificationTokenExpiry = 1
    Expiry <- MCExpiry
    RequireEmailVerification = TRUE
    Faults = {"record"}
INVARIANT TypeOK
INVARIANT LockoutOvershoot
INVARIANT LoginsAreVerified
INVARIANT LoginUpgradesHash
PROPERTY LockoutExpires
PROPERTY EveryRequestAnswered
