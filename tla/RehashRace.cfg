SPECIFICATION Spec
CONSTANTS
    Users = {u1}
    NoUser = nobody
    Passwords = {a, b}
    Rejected = {}
    Procs = {p1, p2}
    Ops = {"login", "change"}
    Rows = {r1, r2}
    Tokens = {}
    MaxConns = 2
    MaxAttempts = 1
    Window = 2
    ResetTokenExpiry = 1
    VerificationTokenExpiry = 1
    Expiry <- MCExpiry
    RequireEmailVerification = FALSE
    Faults = {}
PROPERTY RehashIsTransparent
