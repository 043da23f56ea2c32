---------------------------- MODULE AccessRoles ----------------------------
(* Roles, their permission cache and their schedules (src/src/access):     *)
(* RbacService writes a user document, the role documents and the          *)
(* assignments one database call at a time, the expiry job does the same   *)
(* on a timer, and the permission keys stored on a user are a cache of     *)
(* what its roles grant.  A call is a process: every await is a step, so   *)
(* calls, role edits and ticks of the job interleave, and any of them may  *)
(* die between two steps.                                                  *)
EXTENDS Integers, Sequences, FiniteSets

CONSTANTS
    Users, Roles, FullRoles,   \* FULL_ACCESS_ROLES
    AdminRole,                 \* TENANT_ADMIN
    Keys, Star, AssignKey,     \* permission keys, "*" and access.roles.assign
    ModuleOf,                  \* [Keys -> module]: the first part of a key
    Defaults,                  \* [Roles -> SUBSET Keys]: ROLE_DEFAULT_PERMISSION_KEYS
    ScopeOf,                   \* [Users -> Scopes]: whose role documents a refresh reads
    Scopes,                    \* the tenants and the platform
    SystemDocs,                \* [Roles -> SUBSET AllKeys]: what seedSystemRoles writes
    InitRoles,                 \* [Scopes -> SUBSET Roles]: the roles there are at first
    CustomRoles,               \* those of them that are not system roles
    Windows, WinUser, WinRoles, WinStart, WinEnd,
    Calls, Requests,           \* concurrent calls, what callers may ask
    PermSets,                  \* permission sets a role or a tenant may be given
    StartRoles,                \* [Users -> SUBSET Roles]: the roles assigned at first
    MaxEvents,                 \* bound on requests, role edits and deaths together
    MaxTime                    \* bound on the clock

AllKeys == Keys \cup {Star}

ASSUME ConstantsAssumption ==
    /\ Users # {} /\ Scopes # {}
    /\ FullRoles \subseteq Roles
    /\ AdminRole \in Roles
    /\ AssignKey \in Keys
    /\ Defaults \in [Roles -> SUBSET Keys]
    /\ ScopeOf \in [Users -> Scopes]
    /\ SystemDocs \in [Roles -> SUBSET AllKeys]
    /\ StartRoles \in [Users -> SUBSET Roles]
    /\ InitRoles \in [Scopes -> SUBSET Roles]
    /\ WinUser \in [Windows -> Users]
    /\ WinRoles \in [Windows -> SUBSET Roles]
    /\ WinStart \in [Windows -> Nat]
    /\ WinEnd \in [Windows -> Nat]
    /\ PermSets \subseteq SUBSET Keys
    /\ Requests \subseteq [op : {"addRole", "recompute", "assign", "assignAccess", "removeRoles",
                                 "revoke", "updateModules"},
                           user : Users, roles : SUBSET Roles, scope : Scopes,
                           timed : BOOLEAN, perms : SUBSET Keys]

VARIABLES
    roles, keys, mods,   \* of a user document; mods: the modules of its entries
    doc,                 \* role documents, by role and scope
    grants,              \* user_access_assignments of a user, in insertion order
    win,                 \* accessWindows of the users: the status of each
    ent,                 \* entitlement of the tenants: enabledPermissions
    call,                \* the calls under way
    now, events,
    pulled               \* history: ended windows whose roles were taken away

vars == <<roles, keys, mods, doc, grants, win, ent, call, now, events, pulled>>
userVars == <<roles, keys, mods>>

-----------------------------------------------------------------------------
(* Data derived from role documents.                                       *)

Live(s) == {r \in Roles : doc[r][s].on}

DocKeys(rs, s) == UNION {doc[r][s].keys : r \in rs \cap Live(s)}

FullAccess(rs) == rs \cap FullRoles # {}

ModulesOf(ks) == {ModuleOf[k] : k \in ks \ {Star}}

\* A refresh writes no module entries for somebody who holds "*".
CachedModules(ks) == IF Star \in ks THEN {} ELSE ModulesOf(ks)

DefaultKeys(rs) == UNION {Defaults[r] : r \in rs}

\* What refreshUserPermissionCache computes: the roles' keys, their defaults
\* and whatever was stored before.
RefreshedKeys(u, rs, stored) ==
    IF FullAccess(rs) THEN {Star}
                      ELSE DocKeys(rs, ScopeOf[u]) \cup DefaultKeys(rs) \cup stored

\* What assignRolesToUser computes from the documents of the caller's scope.
AssignedKeys(rs, s) == IF FullAccess(rs) THEN {Star} ELSE DocKeys(rs, s)

-----------------------------------------------------------------------------
(* Calls.                                                                  *)

Ops == {"addRole", "recompute", "assign", "assignAccess", "removeRoles", "revoke", "updateModules", "tick"}

Pcs == {"idle", "add", "read", "set", "refresh", "rewrite", "modules", "grant", "newGrant",
        "addTimed", "pull", "reread", "regrant", "clear", "ungrant", "tenant", "sync",
        "findDue", "give", "markActive", "findOver", "take", "markExpired", "done"}

Statuses == {"PENDING", "ACTIVE", "EXPIRED"}

NoCall == [pc |-> "idle", op |-> "tick", user |-> CHOOSE u \in Users : TRUE, roles |-> {},
           scope |-> CHOOSE s \in Scopes : TRUE, timed |-> FALSE, perms |-> {},
           merged |-> {}, gotRoles |-> {}, gotKeys |-> {}, over |-> FALSE, todo |-> {},
           gotWin |-> [w \in Windows |-> "PENDING"],
           at |-> 0, alone |-> FALSE, was |-> [u \in Users |-> {}]]

Idle(c) == call[c].pc = "idle"

Goto(c, pc) == call' = [call EXCEPT ![c].pc = pc]

InCompany(c) == [call[c] EXCEPT !.alone = FALSE, !.was = NoCall.was]

\* The call that starts meets no other exactly when all are idle; every call
\* under way has company from then on.
Started(c, rec) ==
    [d \in Calls |-> IF d # c THEN InCompany(d)
                     ELSE IF \A e \in Calls : Idle(e)
                          THEN [rec EXCEPT !.alone = TRUE, !.was = roles]
                          ELSE rec]

FirstPc(op) == CASE op = "addRole" -> "add"
                 [] op = "recompute" -> "refresh"
                 [] op = "updateModules" -> "tenant"
                 [] op = "tick" -> "findDue"
                 [] OTHER -> "read"

\* A request reaches its handler.
Begin(c, q) ==
    /\ Idle(c) /\ events < MaxEvents
    /\ call' = Started(c, [NoCall EXCEPT !.op = q.op, !.user = q.user, !.roles = q.roles,
                              !.scope = q.scope, !.timed = q.timed, !.perms = q.perms,
                              !.pc = FirstPc(q.op)])
    /\ events' = events + 1
    /\ UNCHANGED <<userVars, doc, grants, win, ent, now, pulled>>

\* @Cron: the job starts a tick, whether or not an earlier one is over.
BeginTick(c) ==
    /\ Idle(c)
    /\ call' = Started(c, [NoCall EXCEPT !.pc = FirstPc("tick"), !.at = now])
    /\ UNCHANGED <<userVars, doc, grants, win, ent, now, events, pulled>>

-----------------------------------------------------------------------------
(* Steps of the calls, c.  Each is one database call.                      *)

\* refreshUserPermissionCache: read the user and the documents of its roles.
\* (No user write between the two reads can tell them from one read.)
RefreshRead(c) ==
    /\ call[c].pc = "refresh"
    /\ LET u == call[c].user IN
       call' = [call EXCEPT ![c].pc = "rewrite", ![c].gotRoles = roles[u],
                            ![c].gotKeys = RefreshedKeys(u, roles[u], keys[u])]
    /\ UNCHANGED <<userVars, doc, grants, win, ent, now, events, pulled>>

\* Mutant: removeRolesFromUserByEmail leaves the assignments alone.
AfterRefreshNoCopy(c) ==
    LET op == call[c].op IN
    CASE op = "assign" -> "modules"
      [] op = "tick" -> IF call[c].over THEN "take" ELSE "give"
      [] OTHER -> "done"

AfterRefresh(c) ==
    LET op == call[c].op IN
    CASE op = "assign" -> "modules"
      [] op = "removeRoles" -> "reread"
      [] op = "tick" -> IF call[c].over THEN "take" ELSE "give"
      [] OTHER -> "done"

\* ... and write back the roles that were read, the keys and their modules.
RefreshWrite(c) ==
    /\ call[c].pc = "rewrite"
    /\ LET u == call[c].user IN
       /\ roles' = [roles EXCEPT ![u] = call[c].gotRoles]
       /\ keys'  = [keys EXCEPT ![u] = call[c].gotKeys]
       /\ mods'  = [mods EXCEPT ![u] = CachedModules(call[c].gotKeys)]
    /\ call' = [call EXCEPT ![c].pc = AfterRefresh(c), ![c].gotRoles = {},
                            ![c].gotKeys = IF call[c].op = "assign" THEN @ ELSE {}]
    /\ UNCHANGED <<doc, grants, win, ent, now, events, pulled>>

\* addRoleToUser and assignAccessWithDates: $addToSet, whatever the roles are now.
AddRoles(c) ==
    /\ call[c].pc \in {"add", "addTimed"}
    /\ roles' = [roles EXCEPT ![call[c].user] = @ \cup call[c].roles]
    /\ Goto(c, "refresh")
    /\ UNCHANGED <<keys, mods, doc, grants, win, ent, now, events, pulled>>

\* The first read of the other calls, with the documents of the roles concerned.
ReadUser(c) ==
    /\ call[c].pc = "read"
    /\ LET u == call[c].user
           op == call[c].op
           merged == roles[u] \cup call[c].roles
           known == CASE op = "assign" -> merged \cap Live(call[c].scope) # {}
                      [] op = "assignAccess" -> call[c].roles \cap Live(call[c].scope) # {}
                      [] OTHER -> TRUE
           next == CASE op = "assign" -> "set"
                     [] op = "assignAccess" -> "newGrant"
                     [] op = "removeRoles" -> "pull"
                     [] OTHER -> "clear"
       IN IF known
          THEN call' = [call EXCEPT ![c].pc = next, ![c].merged = merged,
                                    ![c].gotKeys = AssignedKeys(merged, call[c].scope)]
          ELSE call' = [call EXCEPT ![c] = NoCall]
    /\ UNCHANGED <<userVars, doc, grants, win, ent, now, events, pulled>>

\* assignRolesToUser: the merged roles and their keys are set.  A schedule that
\* starts later stops here: no window and no assignment is stored for it.
SetRoles(c) ==
    /\ call[c].pc = "set"
    /\ LET u == call[c].user IN
       /\ roles' = [roles EXCEPT ![u] = call[c].merged]
       /\ keys'  = [keys EXCEPT ![u] = call[c].gotKeys]
       /\ mods'  = [mods EXCEPT ![u] = ModulesOf(call[c].gotKeys)]
    /\ Goto(c, IF call[c].timed THEN "done" ELSE "refresh")
    /\ UNCHANGED <<doc, grants, win, ent, now, events, pulled>>

\* ... the modules of the keys the refresh computed, with the dates and the note;
\* then the mail, which may throw and end the call.
SetModules(c) ==
    /\ call[c].pc = "modules"
    /\ mods' = [mods EXCEPT ![call[c].user] = ModulesOf(call[c].gotKeys)]
    /\ Goto(c, "grant")
    /\ UNCHANGED <<roles, keys, doc, grants, win, ent, now, events, pulled>>

\* Mutant: the assignment waits for a job that does not exist.
GrantPending(rs) == [status |-> "PENDING", roles |-> rs]

Grant(rs) == [status |-> "ACTIVE", roles |-> rs]

\* ... and one assignment of this user, any, is overwritten; without one it is
\* created.  What it records are the roles merged from the first read.
UpsertGrant(c) ==
    /\ call[c].pc = "grant"
    /\ LET u == call[c].user
           merged == call[c].merged
       IN \/ /\ grants[u] = <<>>
             /\ grants' = [grants EXCEPT ![u] = <<Grant(merged)>>]
          \/ \E i \in DOMAIN grants[u] : grants' = [grants EXCEPT ![u][i] = Grant(merged)]
    /\ Goto(c, "done")
    /\ UNCHANGED <<userVars, doc, win, ent, now, events, pulled>>

\* assignAccessWithDates: a new assignment, ACTIVE whatever its dates.
CreateGrant(c) ==
    /\ call[c].pc = "newGrant"
    /\ grants' = [grants EXCEPT ![call[c].user] = Append(@, Grant(call[c].roles))]
    /\ Goto(c, "addTimed")
    /\ UNCHANGED <<userVars, doc, win, ent, now, events, pulled>>

\* removeRolesFromUserByEmail: $pull the roles ...
PullRoles(c) ==
    /\ call[c].pc = "pull"
    /\ roles' = [roles EXCEPT ![call[c].user] = @ \ call[c].roles]
    /\ Goto(c, "refresh")
    /\ UNCHANGED <<keys, mods, doc, grants, win, ent, now, events, pulled>>

\* ... and after the refresh, copy the user's roles to its ACTIVE assignments.
RereadUser(c) ==
    /\ call[c].pc = "reread"
    /\ call' = [call EXCEPT ![c].pc = "regrant", ![c].merged = roles[call[c].user]]
    /\ UNCHANGED <<userVars, doc, grants, win, ent, now, events, pulled>>

CopyToGrants(c) ==
    /\ call[c].pc = "regrant"
    /\ LET u == call[c].user IN
       grants' = [grants EXCEPT ![u] =
                    [i \in DOMAIN grants[u] |->
                        IF grants[u][i].status = "ACTIVE" THEN Grant(call[c].merged)
                                                          ELSE grants[u][i]]]
    /\ Goto(c, "done")
    /\ UNCHANGED <<userVars, doc, win, ent, now, events, pulled>>

\* revokeAccessByEmail: nothing is left on the user ...
ClearUser(c) ==
    /\ call[c].pc = "clear"
    /\ LET u == call[c].user IN
       /\ roles' = [roles EXCEPT ![u] = {}]
       /\ keys'  = [keys EXCEPT ![u] = {}]
       /\ mods'  = [mods EXCEPT ![u] = {}]
    /\ Goto(c, "ungrant")
    /\ UNCHANGED <<doc, grants, win, ent, now, events, pulled>>

\* ... and its assignments are REVOKED.
RevokeGrants(c) ==
    /\ call[c].pc = "ungrant"
    /\ LET u == call[c].user IN
       grants' = [grants EXCEPT ![u] =
                    [i \in DOMAIN grants[u] |-> [grants[u][i] EXCEPT !.status = "REVOKED"]]]
    /\ Goto(c, "done")
    /\ UNCHANGED <<userVars, doc, win, ent, now, events, pulled>>

\* updateModules: the tenant's entitlement is written ...
WriteTenant(c) ==
    /\ call[c].pc = "tenant"
    /\ ent' = [ent EXCEPT ![call[c].scope] = call[c].perms]
    /\ Goto(c, "sync")
    /\ UNCHANGED <<userVars, doc, grants, win, now, events, pulled>>

\* ... then given to the tenant's administrators, whose roles are not touched.
SyncAdmins(c) ==
    /\ call[c].pc = "sync"
    /\ LET admins == {u \in Users : ScopeOf[u] = call[c].scope /\ AdminRole \in roles[u]} IN
       /\ keys' = [u \in Users |-> IF u \in admins THEN call[c].perms \cup {AssignKey}
                                                   ELSE keys[u]]
       /\ mods' = [u \in Users |-> IF u \in admins THEN ModulesOf(call[c].perms) ELSE mods[u]]
    /\ Goto(c, "done")
    /\ UNCHANGED <<roles, doc, grants, win, ent, now, events, pulled>>

-----------------------------------------------------------------------------
(* The expiry job.  It works on the users and the windows its two queries  *)
(* returned, with the time at which the tick began.                        *)

Owned(u) == {w \in Windows : WinUser[w] = u}

\* Mutants: the clock read again at every test; windows that never opened forgotten.
OverByNow(c, status, w) == status[w] \in {"ACTIVE", "PENDING"} /\ WinEnd[w] =< now
OverIfOpen(c, status, w) == status[w] = "ACTIVE" /\ WinEnd[w] =< call[c].at

Due(c, status, w)  == status[w] = "PENDING" /\ WinStart[w] =< call[c].at /\ call[c].at < WinEnd[w]
Over(c, status, w) == status[w] \in {"ACTIVE", "PENDING"} /\ WinEnd[w] =< call[c].at

DueOf(c, u)  == {w \in Owned(u) : Due(c, call[c].gotWin, w)}
OverOf(c, u) == {w \in Owned(u) : Over(c, call[c].gotWin, w)}

RolesOfWindows(ws) == UNION {WinRoles[w] : w \in ws}

\* The first query: users with a window to activate.
FindDue(c) ==
    /\ call[c].pc = "findDue"
    /\ call' = [call EXCEPT ![c].pc = "give", ![c].gotWin = win,
                            ![c].todo = {WinUser[w] : w \in {v \in Windows : Due(c, win, v)}}]
    /\ UNCHANGED <<userVars, doc, grants, win, ent, now, events, pulled>>

\* Each of them gets the roles of those windows ...
GiveRoles(c) ==
    /\ call[c].pc = "give"
    /\ \E u \in call[c].todo :
        /\ roles' = [roles EXCEPT ![u] = @ \cup RolesOfWindows(DueOf(c, u))]
        /\ call' = [call EXCEPT ![c].pc = "markActive", ![c].user = u,
                                ![c].todo = @ \ {u}]
    /\ UNCHANGED <<keys, mods, doc, grants, win, ent, now, events, pulled>>

\* ... and the whole array the query returned is written back, those ACTIVE.
MarkActive(c) ==
    /\ call[c].pc = "markActive"
    /\ LET u == call[c].user IN
       win' = [w \in Windows |-> IF w \in DueOf(c, u) THEN "ACTIVE"
                                 ELSE IF w \in Owned(u) THEN call[c].gotWin[w] ELSE win[w]]
    /\ Goto(c, "refresh")
    /\ UNCHANGED <<userVars, doc, grants, ent, now, events, pulled>>

\* The second query, when no user is left: users with a window that is over.
FindOver(c) ==
    /\ call[c].pc = "give" /\ call[c].todo = {}
    /\ call' = [call EXCEPT ![c].pc = "take", ![c].over = TRUE, ![c].gotWin = win,
                            ![c].todo = {WinUser[w] : w \in {v \in Windows : Over(c, win, v)}}]
    /\ UNCHANGED <<userVars, doc, grants, win, ent, now, events, pulled>>

\* Each of them loses the roles of those windows ...
TakeRoles(c) ==
    /\ call[c].pc = "take"
    /\ \E u \in call[c].todo :
        /\ roles' = [roles EXCEPT ![u] = @ \ RolesOfWindows(OverOf(c, u))]
        /\ pulled' = pulled \cup OverOf(c, u)
        /\ call' = [call EXCEPT ![c].pc = "markExpired", ![c].user = u,
                                ![c].todo = @ \ {u}]
    /\ UNCHANGED <<keys, mods, doc, grants, win, ent, now, events>>

\* ... and the array the query returned is written back, those EXPIRED.
MarkExpired(c) ==
    /\ call[c].pc = "markExpired"
    /\ LET u == call[c].user IN
       win' = [w \in Windows |-> IF w \in OverOf(c, u) THEN "EXPIRED"
                                 ELSE IF w \in Owned(u) THEN call[c].gotWin[w] ELSE win[w]]
    /\ Goto(c, "refresh")
    /\ UNCHANGED <<userVars, doc, grants, ent, now, events, pulled>>

EndTick(c) ==
    /\ call[c].pc = "take" /\ call[c].todo = {}
    /\ Goto(c, "done")
    /\ UNCHANGED <<userVars, doc, grants, win, ent, now, events, pulled>>

TickStep(c) ==
    \/ FindDue(c)   \/ GiveRoles(c) \/ MarkActive(c)
    \/ FindOver(c)  \/ TakeRoles(c) \/ MarkExpired(c) \/ EndTick(c)

CallStep(c) ==
    \/ RefreshRead(c) \/ RefreshWrite(c) \/ AddRoles(c)   \/ ReadUser(c)     \/ SetRoles(c)
    \/ SetModules(c)  \/ UpsertGrant(c)  \/ CreateGrant(c) \/ PullRoles(c)   \/ RereadUser(c)
    \/ CopyToGrants(c) \/ ClearUser(c)   \/ RevokeGrants(c) \/ WriteTenant(c) \/ SyncAdmins(c)

Reply(c) ==
    /\ call[c].pc = "done"
    /\ call' = [call EXCEPT ![c] = NoCall]
    /\ UNCHANGED <<userVars, doc, grants, win, ent, now, events, pulled>>

\* The process dies, the mail or a database call throws: the rest of the call
\* is never run.
Die(c) ==
    /\ ~Idle(c) /\ events < MaxEvents
    /\ call' = [call EXCEPT ![c] = NoCall]
    /\ events' = events + 1
    /\ UNCHANGED <<userVars, doc, grants, win, ent, now, pulled>>

-----------------------------------------------------------------------------
(* Role documents.  Their name and scope are unique together, so each of   *)
(* these is its one write.                                                 *)

Edit(r, s, d) ==
    /\ events < MaxEvents
    /\ events' = events + 1
    /\ doc' = [doc EXCEPT ![r][s] = d]
    /\ call' = [c \in Calls |-> InCompany(c)]
    /\ UNCHANGED <<userVars, grants, win, ent, now, pulled>>

\* assertTenantRoleAllowed: a tenant gives only what it is entitled to.
Allowed(s, ps) == ps \subseteq ent[s]

CreateRole(r, s, ps) ==
    /\ ~doc[r][s].on /\ Allowed(s, ps)
    /\ Edit(r, s, [on |-> TRUE, keys |-> ps, system |-> FALSE])

UpdateRolePermissions(r, s, ps) ==
    /\ doc[r][s].on /\ Allowed(s, ps)
    /\ Edit(r, s, [doc[r][s] EXCEPT !.keys = ps])

AddPermissionsToRole(r, s, ps) ==
    /\ doc[r][s].on /\ Allowed(s, ps)
    /\ Edit(r, s, [doc[r][s] EXCEPT !.keys = @ \cup ps])

RemovePermissionsFromRole(r, s, ps) ==
    /\ doc[r][s].on
    /\ Edit(r, s, [doc[r][s] EXCEPT !.keys = @ \ ps])

CloneRole(from, to, s) ==
    /\ doc[from][s].on /\ ~doc[to][s].on
    /\ Edit(to, s, [on |-> TRUE, keys |-> doc[from][s].keys, system |-> FALSE])

DeleteRole(r, s) ==
    /\ doc[r][s].on /\ ~doc[r][s].system
    /\ Edit(r, s, [on |-> FALSE, keys |-> {}, system |-> FALSE])

\* seedSystemRoles: upserted by name alone, so the document of any scope that
\* has the name may be the one overwritten.
SeedSystemRole(r, s) ==
    /\ doc[r][s].on \/ \A t \in Scopes : ~doc[r][t].on
    /\ Edit(r, s, [on |-> TRUE, keys |-> SystemDocs[r], system |-> TRUE])

EditRole ==
    \E r \in Roles, s \in Scopes :
        \/ \E ps \in PermSets : \/ CreateRole(r, s, ps)
                                \/ UpdateRolePermissions(r, s, ps)
                                \/ AddPermissionsToRole(r, s, ps)
                                \/ RemovePermissionsFromRole(r, s, ps)
        \/ \E to \in Roles : CloneRole(r, to, s)
        \/ DeleteRole(r, s)
        \/ SeedSystemRole(r, s)

Tick ==
    /\ now < MaxTime
    /\ now' = now + 1
    /\ UNCHANGED <<userVars, doc, grants, win, ent, call, events, pulled>>

-----------------------------------------------------------------------------
Init ==
    /\ roles = StartRoles
    /\ doc = [r \in Roles |-> [s \in Scopes |->
                 IF r \in InitRoles[s] THEN [on |-> TRUE, keys |-> SystemDocs[r], system |-> r \notin CustomRoles]
                                       ELSE [on |-> FALSE, keys |-> {}, system |-> FALSE]]]
    /\ keys = [u \in Users |-> RefreshedKeys(u, StartRoles[u], {})]
    /\ mods = [u \in Users |-> CachedModules(keys[u])]
    /\ grants = [u \in Users |-> IF StartRoles[u] = {} THEN <<>> ELSE <<Grant(StartRoles[u])>>]
    /\ win = [w \in Windows |-> "PENDING"]
    /\ ent = [s \in Scopes |-> Keys]
    /\ call = [c \in Calls |-> NoCall]
    /\ now = 0 /\ events = 0
    /\ pulled = {}

Next ==
    \/ \E c \in Calls : \/ \E q \in Requests : Begin(c, q)
                        \/ BeginTick(c)
                        \/ CallStep(c)
                        \/ TickStep(c)
                        \/ Reply(c)
                        \/ Die(c)
    \/ EditRole
    \/ Tick

\* Database calls return, time passes and the job is fired again and again.
Fairness ==
    /\ \A c \in Calls : WF_vars(CallStep(c) \/ TickStep(c) \/ Reply(c))
    /\ WF_vars(\E c \in Calls : BeginTick(c))
    /\ WF_vars(Tick)

Spec == Init /\ [][Next]_vars

FairSpec == Spec /\ Fairness

-----------------------------------------------------------------------------
(* Invariants.                                                             *)

ModuleNames == {ModuleOf[k] : k \in Keys}

RoleDocs == [on : BOOLEAN, keys : SUBSET AllKeys, system : BOOLEAN]

Assignments == [status : {"ACTIVE", "REVOKED"}, roles : SUBSET Roles]

CallRecord == [pc : Pcs, op : Ops, user : Users, roles : SUBSET Roles, scope : Scopes,
               timed : BOOLEAN, perms : SUBSET Keys, merged : SUBSET Roles,
               gotRoles : SUBSET Roles, gotKeys : SUBSET AllKeys, over : BOOLEAN,
               todo : SUBSET Users, gotWin : [Windows -> Statuses], at : Nat,
               alone : BOOLEAN, was : [Users -> SUBSET Roles]]

TypeOK ==
    /\ roles \in [Users -> SUBSET Roles]
    /\ keys \in [Users -> SUBSET AllKeys]
    /\ mods \in [Users -> SUBSET ModuleNames]
    /\ doc \in [Roles -> [Scopes -> RoleDocs]]
    /\ grants \in [Users -> Seq(Assignments)]
    /\ win \in [Windows -> Statuses]
    /\ ent \in [Scopes -> SUBSET Keys]
    /\ call \in [Calls -> CallRecord]
    /\ now \in Nat /\ events \in Nat
    /\ pulled \subseteq Windows

\* A window is EXPIRED only after its roles were taken from the user, however
\* ticks overlap and wherever one of them dies (access-expiry.job.ts:114-131).
ExpiredWasPulled == \A w \in Windows : win[w] = "EXPIRED" => w \in pulled

\* Why: a tick marks only windows whose roles it has just taken, and an array it
\* writes back shows EXPIRED only where the roles were taken before it was read.
KnownPulled ==
    \A c \in Calls, w \in Windows : call[c].gotWin[w] = "EXPIRED" => w \in pulled

MarksPulled ==
    \A c \in Calls : call[c].pc = "markExpired" => OverOf(c, call[c].user) \subseteq pulled

PullInv == ExpiredWasPulled /\ KnownPulled /\ MarksPulled

(* What a call leaves when no other call, tick or role edit ran beside it.  *)

Ends(c, op) == call[c].pc = "done" /\ call[c].op = op /\ call[c].alone

\* The cache of user u covers what its roles grant and matches its modules.
CacheFresh(u) ==
    /\ RefreshedKeys(u, roles[u], {}) \subseteq keys[u]
    /\ FullAccess(roles[u]) => keys[u] = {Star}
    /\ mods[u] = CachedModules(keys[u])

LiveGrants(u) == {i \in DOMAIN grants[u] : grants[u][i].status = "ACTIVE"}

QuietAdd(c) ==
    LET u == call[c].user IN
    /\ Ends(c, "addRole") => roles[u] = call[c].was[u] \cup call[c].roles /\ CacheFresh(u)
    /\ Ends(c, "recompute") => roles[u] = call[c].was[u] /\ CacheFresh(u)

QuietAssign(c) ==
    LET u == call[c].user
        given == call[c].was[u] \cup call[c].roles
    IN Ends(c, "assign") =>
        /\ roles[u] = given
        /\ IF call[c].timed THEN keys[u] = AssignedKeys(given, call[c].scope)
           ELSE /\ RefreshedKeys(u, given, {}) \subseteq keys[u]
                /\ mods[u] = ModulesOf(keys[u])
                /\ \E i \in LiveGrants(u) : grants[u][i].roles = given

QuietAssignAccess(c) ==
    LET u == call[c].user IN
    Ends(c, "assignAccess") =>
        /\ roles[u] = call[c].was[u] \cup call[c].roles /\ CacheFresh(u)
        /\ Len(grants[u]) \in LiveGrants(u)
        /\ grants[u][Len(grants[u])].roles = call[c].roles

QuietRemove(c) ==
    LET u == call[c].user IN
    Ends(c, "removeRoles") =>
        /\ roles[u] = call[c].was[u] \ call[c].roles /\ CacheFresh(u)
        /\ \A i \in LiveGrants(u) : grants[u][i].roles = roles[u]

QuietRevoke(c) ==
    LET u == call[c].user IN
    Ends(c, "revoke") =>
        roles[u] = {} /\ keys[u] = {} /\ mods[u] = {} /\ LiveGrants(u) = {}

QuietModules(c) ==
    Ends(c, "updateModules") =>
        \A u \in Users : ScopeOf[u] = call[c].scope /\ AdminRole \in roles[u]
                            => keys[u] = ent[call[c].scope] \cup {AssignKey}

\* A tick leaves no window behind its dates, and takes the roles of those it
\* closed even from a user whom a window it opened gives the same role.
QuietTick(c) ==
    Ends(c, "tick") =>
        /\ \A w \in Windows : ~Due(c, win, w) /\ ~Over(c, win, w)
        /\ \A w \in Windows : Over(c, call[c].gotWin, w)
                                => roles[WinUser[w]] \cap WinRoles[w] = {}

\* A call that runs alone does the whole of what it says, over its three to
\* seven database calls: roles, cache, modules and assignments agree at its
\* end.  (With company they need not: rbac.service.ts:1810 writes back roles it
\* read before.)
QuietCallsExact ==
    \A c \in Calls :
        /\ QuietAdd(c)    /\ QuietAssign(c) /\ QuietAssignAccess(c) /\ QuietRemove(c)
        /\ QuietRevoke(c) /\ QuietModules(c) /\ QuietTick(c)

\* When the dates of all windows are past they are all marked EXPIRED for good, though overlapping
\* ticks write back arrays they read before and a tick may die half-way: the
\* queries select by status and date, so a later tick repeats the work.
EndedWindowsClose ==
    (\A w \in Windows : now >= WinEnd[w]) ~> [](\A w \in Windows : win[w] = "EXPIRED")
=============================================================================
