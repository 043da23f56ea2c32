--------------------------- MODULE MCAccessRoles ---------------------------
(* Instance of AccessRoles for TLC: one user of a tenant with a role to be *)
(* scheduled twice, a tenant administrator role and a full-access role.    *)
EXTENDS AccessRoles, TLC

CONSTANTS u1, reader, admin, super, k1, k2, w1, w2, tenant, platform

MCModuleOf == (k1 :> "m1") @@ (k2 :> "m2")
MCDefaults == [r \in Roles |-> {}]
MCScopeOf == u1 :> tenant
MCSystemDocs == (reader :> {k1}) @@ (admin :> {k2}) @@ (super :> {Star})
MCInitRoles == (tenant :> {reader, admin}) @@ (platform :> {reader, super})
MCStartRoles == u1 :> {reader, admin}
MCWinUser == [w \in Windows |-> u1]
MCWinRoles == [w \in Windows |-> {reader}]
MCWinStart == (w1 :> 0) @@ (w2 :> 1)
MCWinEnd == (w1 :> 1) @@ (w2 :> 2)

Ask(op, rs, s, timed, ps) ==
    [op |-> op, user |-> u1, roles |-> rs, scope |-> s, timed |-> timed, perms |-> ps]

MCRequests ==
    {Ask("addRole", {super}, tenant, FALSE, {}),
     Ask("recompute", {super}, tenant, FALSE, {}), Ask("assign", {admin}, tenant, FALSE, {}),
     Ask("assign", {reader}, platform, TRUE, {}),
     Ask("assignAccess", {reader}, tenant, FALSE, {}),
     Ask("removeRoles", {reader}, tenant, FALSE, {}),
     Ask("revoke", {}, tenant, FALSE, {}),
     Ask("updateModules", {}, tenant, FALSE, {k1})}

MCPermSets == {{k2}}
=============================================================================
