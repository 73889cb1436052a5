SPECIFICATION Spec
CONSTANTS
    Procs = {p1, p2, p3}
    Emails = {e1}
    NoEmail = none
    LocalIssuer = local
    Identities <- MCShared
    InitTenants <- NoTenants
    RequireEmailVerification = FALSE
    Faults <- NoFaults
    e1 = e1
    s1 = s1
    idp = idp
PROPERTY NoOverwrite
