SPECIFICATION Spec
CONSTANTS
    Conns = {c1, c2}
    Procs = {p1, p2, p3}
    Tenants = {red, blue}
    NoTenant = none
    SystemTenant = system
    NoProc = noproc
    Faults = {"set", "clear"}
SYMMETRY Symmetry
INVARIANT TypeOK
INVARIANT TenantIsolation
