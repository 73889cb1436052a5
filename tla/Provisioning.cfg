SPECIFICATION Spec
CONSTANTS
    Procs = {p1, p2, p3}
    Emails = {e1}
    NoEmail = none
    LocalIssuer = local
    Identities <- MCAll
    InitTenants <- NoTenants
    RequireEmailVerification = TRUE
    Faults <- AllFaults
    e1 = e1
    s1 = s1
    idp = idp
SYMMETRY Symmetry
INVARIANT TypeOK
INVARIANT UniqueEmail
INVARIANT SingleMembership
INVARIANT NoPartialRegistration
INVARIANT CredentialsAreUsable
INVARIANT RegisteredWasMailed
INVARIANT WaitersAreWoken
