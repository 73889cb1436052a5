SPECIFICATION Spec
CONSTANTS
    single = single
    double = double
    outside = outside
    red = red
    blue = blue
    Users = {single, double, outside}
    NoUser = nobody
    Tenants = {red, blue}
    NoTenant = notenant
    Members <- MCMembers
    Browsers = {b1}
    Procs = {p1, p2}
    Tokens = {t1, t2}
    NoToken = nocookie
    Ops = {"login", "callback", "select", "logout", "oidcLogout", "change", "app"}
    Faults = {"commit", "destroy"}
SYMMETRY Symmetry
INVARIANT TypeOK
INVARIANT TenantIsOwn
INVARIANT LogoutIsFinal
