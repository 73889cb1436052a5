SPECIFICATION Spec
CONSTANTS
    Users = {u1}
    NoUser = nobody
    Passwords = {a, b}
    Rejected = {b}
    Procs = {p1, p2}
    Ops = {"change", "forgot", "reset", "resend", "verify"}
    Rows = {r1, r2}
    Tokens = {t1, t2, t3}
    MaxConns = 2
    MaxAttempts = 1
    Window = 1
    ResetTokenExpiry = 1
    VerificationTokenExpiry = 1
    Expiry <- MCExpiry
    RequireEmailVerification = FALSE
    Faults = {"resetConsume", "verifyUpdate", "changeUpdate", "changeInvalidate"}
SYMMETRY Symmetry
INVARIANT TokenSingleUse
INVARIANT TokensSuperseded
INVARIANT VerifiedByToken
