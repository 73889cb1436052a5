SPECIFICATION Spec
CONSTANTS
    t1 = t1
    t2 = t2
    b1 = b1
    b2 = b2
    double = double
    outside = outside
    red = red
    blue = blue
    Browsers = {b1, b2}
    Tabs = {t1, t2}
    Layouts <- MCLayouts
    Users = {double, outside, single}
    NoUser = NoUser
    Members <- MCMembers
    NoTenant = NoTenant
    Nonces = {n1, n2, n3}
    Configs <- MCConfigs
    Home <- MCHome
SYMMETRY Symmetry
INVARIANTS TypeOK SignInIsOwn CodeIsSpentAtHome LoopsOnlyAtShutPicker
