SPECIFICATION FairSpec
CONSTANTS
    u1 = u1
    reader = reader
    admin = admin
    super = super
    k1 = k1
    k2 = k2
    w1 = w1
    w2 = w2
    tenant = tenant
    platform = platform
    Users = {u1}
    Roles = {reader, admin, super}
    FullRoles = {super}
    AdminRole = admin
    Keys = {k1, k2}
    Star = Star
    AssignKey = k2
    ModuleOf <- MCModuleOf
    Defaults <- MCDefaults
    ScopeOf <- MCScopeOf
    Scopes = {tenant, platform}
    SystemDocs <- MCSystemDocs
    InitRoles <- MCInitRoles
    CustomRoles = {reader}
    Windows = {w1, w2}
    WinUser <- MCWinUser
    WinRoles <- MCWinRoles
    WinStart <- MCWinStart
    WinEnd <- MCWinEnd
    Calls = {1, 2}
    Requests <- MCRequests
    PermSets <- MCPermSets
    StartRoles <- MCStartRoles
    MaxEvents = 1
    MaxTime = 2
INVARIANTS
    TypeOK
    ExpiredWasPulled
    QuietCallsExact
CHECK_DEADLOCK FALSE
PROPERTIES
    EndedWindowsClose
