SPECIFICATION Spec
CONSTANTS
    single = single
    double = double
    outside = outside
    red = red
    blue = blue
    Users = {double}
    NoUser = nobody
    Tenants = {red, blue}
    NoTenant = notenant
    Members <- MCMembers
    Browsers = {b1}
    Procs = {p1, p2}
    Tokens = {t1, t2}
    NoToken = nocookie
    Ops = {"login", "select", "logout"}
    Faults = {}
SYMMETRY Symmetry
INVARIANT LogoutEndsSession
