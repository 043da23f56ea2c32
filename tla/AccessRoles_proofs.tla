------------------------- MODULE AccessRoles_proofs -------------------------
(* For any users, roles, windows and any number of concurrent calls and    *)
(* ticks: the state is well typed, no window is EXPIRED before its roles   *)
(* were taken away, and a call that runs alone does what it says.          *)
EXTENDS AccessRoles, TLAPS

-----------------------------------------------------------------------------
(* The operators.                                                          *)

\* Modules come from keys other than "*".
LEMMA ModulesType ==
    ASSUME NEW ks \in SUBSET AllKeys
    PROVE  ModulesOf(ks) \subseteq ModuleNames /\ CachedModules(ks) \subseteq ModuleNames
BY DEF ModulesOf, CachedModules, ModuleNames, AllKeys

\* What a refresh and an assignment compute are permission keys.
LEMMA KeysType ==
    ASSUME TypeOK, NEW u \in Users, NEW s \in Scopes, NEW rs \in SUBSET Roles,
           NEW st \in SUBSET AllKeys
    PROVE  /\ RefreshedKeys(u, rs, st) \in SUBSET AllKeys
           /\ AssignedKeys(rs, s) \in SUBSET AllKeys
<1>1. DocKeys(rs, s) \in SUBSET AllKeys /\ DocKeys(rs, ScopeOf[u]) \in SUBSET AllKeys
  BY ConstantsAssumption DEF DocKeys, Live, TypeOK, RoleDocs
<1>2. DefaultKeys(rs) \in SUBSET AllKeys
  BY ConstantsAssumption DEF DefaultKeys, AllKeys
<1> QED BY <1>1, <1>2 DEF RefreshedKeys, AssignedKeys, AllKeys

LEMMA NoCallType == NoCall \in CallRecord
BY ConstantsAssumption DEF NoCall, CallRecord, Pcs, Ops, Statuses


-----------------------------------------------------------------------------
(* Types.                                                                  *)

LEMMA InitTypeOK == Init => TypeOK
<1> SUFFICES ASSUME Init PROVE TypeOK
  OBVIOUS
<1>1. doc \in [Roles -> [Scopes -> RoleDocs]]
  BY ConstantsAssumption DEF Init, RoleDocs, AllKeys
<1>2. \A u \in Users : RefreshedKeys(u, StartRoles[u], {}) \in SUBSET AllKeys
  <2> SUFFICES ASSUME NEW u \in Users
               PROVE  RefreshedKeys(u, StartRoles[u], {}) \in SUBSET AllKeys
    OBVIOUS
  <2>1. DocKeys(StartRoles[u], ScopeOf[u]) \in SUBSET AllKeys
    BY <1>1, ConstantsAssumption DEF DocKeys, Live, RoleDocs
  <2>2. DefaultKeys(StartRoles[u]) \in SUBSET AllKeys
    BY ConstantsAssumption DEF DefaultKeys, AllKeys
  <2> QED BY <2>1, <2>2 DEF RefreshedKeys, AllKeys
<1>3. keys \in [Users -> SUBSET AllKeys]
  BY <1>2 DEF Init
<1>4. mods \in [Users -> SUBSET ModuleNames]
  BY <1>3, ModulesType DEF Init
<1>5. grants \in [Users -> Seq(Assignments)]
  <2>1. \A u \in Users : StartRoles[u] \in SUBSET Roles
    BY ConstantsAssumption
  <2>2. \A u \in Users : Grant(StartRoles[u]) \in Assignments
    BY <2>1 DEF Grant, Assignments
  <2>3. \A u \in Users : <<Grant(StartRoles[u])>> \in Seq(Assignments)
    BY <2>2
  <2>4. << >> \in Seq(Assignments)
    OBVIOUS
  <2> QED BY <2>3, <2>4 DEF Init
<1>6. call \in [Calls -> CallRecord]
  BY NoCallType DEF Init
<1>7. roles \in [Users -> SUBSET Roles] /\ ent \in [Scopes -> SUBSET Keys]
  BY ConstantsAssumption DEF Init
<1>8. /\ win \in [Windows -> Statuses] /\ now \in Nat /\ events \in Nat
      /\ pulled \subseteq Windows
  BY DEF Init, Statuses
<1> QED BY <1>1, <1>3, <1>4, <1>5, <1>6, <1>7, <1>8 DEF TypeOK

\* The fields of a record that is well typed.
LEMMA Fields ==
    ASSUME NEW r \in CallRecord
    PROVE  /\ r.pc \in Pcs /\ r.op \in Ops /\ r.user \in Users /\ r.roles \in SUBSET Roles
           /\ r.scope \in Scopes /\ r.timed \in BOOLEAN /\ r.perms \in SUBSET Keys
           /\ r.merged \in SUBSET Roles /\ r.gotRoles \in SUBSET Roles
           /\ r.gotKeys \in SUBSET AllKeys /\ r.over \in BOOLEAN /\ r.todo \in SUBSET Users
           /\ r.gotWin \in [Windows -> Statuses]
BY DEF CallRecord

\* A call record keeps its type when it moves on ...
LEMMA RecordMoves ==
    ASSUME NEW r \in CallRecord, NEW pc \in Pcs
    PROVE  [r EXCEPT !.pc = pc] \in CallRecord
BY DEF CallRecord

\* ... with what a query returned, with what it computed, or with a user to serve.
LEMMA RecordReads ==
    ASSUME NEW r \in CallRecord, NEW pc \in Pcs, NEW rs \in SUBSET Roles,
           NEW ks \in SUBSET AllKeys
    PROVE  /\ [r EXCEPT !.pc = pc, !.gotRoles = rs, !.gotKeys = ks] \in CallRecord
           /\ [r EXCEPT !.pc = pc, !.merged = rs, !.gotKeys = ks] \in CallRecord
           /\ [r EXCEPT !.pc = pc, !.merged = rs] \in CallRecord
BY DEF CallRecord

LEMMA RecordTicks ==
    ASSUME NEW r \in CallRecord, NEW pc \in Pcs, NEW us \in SUBSET Users, NEW u \in Users,
           NEW gw \in [Windows -> Statuses]
    PROVE  /\ [r EXCEPT !.pc = pc, !.gotWin = gw, !.todo = us] \in CallRecord
           /\ [r EXCEPT !.pc = pc, !.over = TRUE, !.gotWin = gw, !.todo = us] \in CallRecord
           /\ [r EXCEPT !.pc = pc, !.user = u, !.todo = us] \in CallRecord
BY DEF CallRecord

LEMMA CallSet ==
    ASSUME TypeOK, NEW c \in Calls, NEW r \in CallRecord
    PROVE  [call EXCEPT ![c] = r] \in [Calls -> CallRecord]
BY DEF TypeOK

LEMMA CallMoves ==
    ASSUME TypeOK, NEW c \in Calls, NEW pc \in Pcs
    PROVE  [call EXCEPT ![c].pc = pc] \in [Calls -> CallRecord]
<1>1. call[c] \in CallRecord
  BY DEF TypeOK
<1>2. [call[c] EXCEPT !.pc = pc] \in CallRecord
  BY <1>1, RecordMoves
<1> QED BY <1>2, CallSet

LEMMA CompanyType ==
    ASSUME TypeOK, NEW c \in Calls PROVE InCompany(c) \in CallRecord
<1>1. call[c] \in CallRecord
  BY DEF TypeOK
<1>2. NoCall.was \in [Users -> SUBSET Roles]
  BY NoCallType DEF CallRecord
<1> HIDE DEF NoCall
<1> QED BY <1>1, <1>2 DEF InCompany, CallRecord

LEMMA StartedType ==
    ASSUME TypeOK, NEW c \in Calls, NEW rec \in CallRecord
    PROVE  Started(c, rec) \in [Calls -> CallRecord]
<1>1. [rec EXCEPT !.alone = TRUE, !.was = roles] \in CallRecord
  BY DEF TypeOK, CallRecord
<1> QED BY <1>1, CompanyType DEF Started

LEMMA TypeStep == TypeOK /\ [Next]_vars => TypeOK'
<1> SUFFICES ASSUME TypeOK, [Next]_vars PROVE TypeOK'
  OBVIOUS
<1>0. CASE UNCHANGED vars
  BY <1>0 DEF vars, userVars, TypeOK
<1>1. ASSUME NEW c \in Calls, NEW q \in Requests, Begin(c, q) PROVE TypeOK'
  <2> DEFINE rec == [NoCall EXCEPT !.op = q.op, !.user = q.user, !.roles = q.roles,
                        !.scope = q.scope, !.timed = q.timed, !.perms = q.perms,
                        !.pc = FirstPc(q.op)]
  <2>1. FirstPc(q.op) \in Pcs
    BY DEF FirstPc, Pcs
  <2>2. /\ q.op \in Ops /\ q.user \in Users /\ q.roles \in SUBSET Roles
        /\ q.scope \in Scopes /\ q.timed \in BOOLEAN /\ q.perms \in SUBSET Keys
    BY ConstantsAssumption DEF Ops
  <2>3. rec \in CallRecord
    BY <2>1, <2>2, NoCallType DEF CallRecord
  <2>4. call' = Started(c, rec)
    BY <1>1 DEF Begin
  <2> HIDE DEF rec
  <2> QED BY <1>1, <2>3, <2>4, StartedType DEF Begin, TypeOK, userVars
<1>2. ASSUME NEW c \in Calls, BeginTick(c) PROVE TypeOK'
  <2> DEFINE rec == [NoCall EXCEPT !.pc = FirstPc("tick"), !.at = now]
  <2>1. rec \in CallRecord
    BY NoCallType DEF CallRecord, FirstPc, Pcs, TypeOK
  <2>2. call' = Started(c, rec)
    BY <1>2 DEF BeginTick
  <2> HIDE DEF rec
  <2> QED BY <1>2, <2>1, <2>2, StartedType DEF BeginTick, TypeOK, userVars
<1>3. ASSUME NEW c \in Calls, RefreshRead(c) PROVE TypeOK'
  <2>1. call[c].user \in Users /\ roles[call[c].user] \in SUBSET Roles
           /\ keys[call[c].user] \in SUBSET AllKeys
    BY DEF TypeOK, CallRecord
  <2> DEFINE ks == RefreshedKeys(call[c].user, roles[call[c].user], keys[call[c].user])
  <2>2. ks \in SUBSET AllKeys
    <3>1. PICK s \in Scopes : TRUE
      BY ConstantsAssumption
    <3> QED BY <2>1, <3>1, KeysType
  <2>3. call' \in [Calls -> CallRecord]
    <3>1. call[c] \in CallRecord /\ "rewrite" \in Pcs
      BY DEF TypeOK, Pcs
    <3>2. call' = [call EXCEPT ![c] = [call[c] EXCEPT !.pc = "rewrite",
                                         !.gotRoles = roles[call[c].user], !.gotKeys = ks]]
      BY <1>3 DEF RefreshRead
    <3> HIDE DEF ks
    <3> QED BY <3>1, <3>2, <2>1, <2>2, RecordReads, CallSet
  <2> QED BY <1>3, <2>3 DEF RefreshRead, TypeOK, userVars
<1>4. ASSUME NEW c \in Calls, RefreshWrite(c) PROVE TypeOK'
  <2>1. call[c].user \in Users /\ call[c].gotRoles \in SUBSET Roles
           /\ call[c].gotKeys \in SUBSET AllKeys
    BY DEF TypeOK, CallRecord
  <2>2. CachedModules(call[c].gotKeys) \in SUBSET ModuleNames
    BY <2>1, ModulesType
  <2>3. AfterRefresh(c) \in Pcs
    BY DEF AfterRefresh, Pcs
  <2>4. call' \in [Calls -> CallRecord]
    <3> DEFINE ks == IF call[c].op = "assign" THEN call[c].gotKeys ELSE {}
    <3>1. call[c] \in CallRecord /\ ks \in SUBSET AllKeys
      BY <2>1 DEF TypeOK
    <3>2. call' = [call EXCEPT ![c] = [call[c] EXCEPT !.pc = AfterRefresh(c), !.gotRoles = {},
                                                     !.gotKeys = ks]]
      BY <1>4 DEF RefreshWrite
    <3> HIDE DEF ks
    <3> QED BY <3>1, <3>2, <2>3, RecordReads, CallSet
  <2> QED BY <1>4, <2>1, <2>2, <2>4 DEF RefreshWrite, TypeOK
<1>5. ASSUME NEW c \in Calls, AddRoles(c) PROVE TypeOK'
  <2>1. call[c].user \in Users /\ call[c].roles \in SUBSET Roles
    BY DEF TypeOK, CallRecord
  <2>2. call' \in [Calls -> CallRecord]
    BY <1>5, CallMoves DEF AddRoles, Goto, Pcs
  <2> QED BY <1>5, <2>1, <2>2 DEF AddRoles, TypeOK
<1>6. ASSUME NEW c \in Calls, ReadUser(c) PROVE TypeOK'
  <2> DEFINE merged == roles[call[c].user] \cup call[c].roles
             ks == AssignedKeys(merged, call[c].scope)
  <2>1. call[c].user \in Users /\ merged \in SUBSET Roles /\ call[c].scope \in Scopes
    BY DEF TypeOK, CallRecord
  <2>2. ks \in SUBSET AllKeys
    BY <2>1, KeysType
  <2>3. \/ call' = [call EXCEPT ![c] = NoCall]
        \/ \E pc \in {"set", "newGrant", "pull", "clear"} :
              call' = [call EXCEPT ![c].pc = pc, ![c].merged = merged, ![c].gotKeys = ks]
    BY <1>6 DEF ReadUser
  <2>4. call' \in [Calls -> CallRecord]
    <3>1. CASE call' = [call EXCEPT ![c] = NoCall]
      BY <3>1, NoCallType DEF TypeOK
    <3>2. ASSUME NEW pc \in {"set", "newGrant", "pull", "clear"},
                 call' = [call EXCEPT ![c].pc = pc, ![c].merged = merged, ![c].gotKeys = ks]
          PROVE  call' \in [Calls -> CallRecord]
      <4> HIDE DEF merged, ks
      <4>1. call[c] \in CallRecord /\ pc \in Pcs
        BY <3>2 DEF TypeOK, Pcs
      <4>2. call' = [call EXCEPT ![c] = [call[c] EXCEPT !.pc = pc, !.merged = merged,
                                                       !.gotKeys = ks]]
        BY <3>2
      <4> QED BY <4>1, <4>2, <2>1, <2>2, RecordReads, CallSet
    <3> QED BY <2>3, <3>1, <3>2
  <2> QED BY <1>6, <2>4 DEF ReadUser, TypeOK, userVars
<1>7. ASSUME NEW c \in Calls, SetRoles(c) PROVE TypeOK'
  <2>1. call[c].user \in Users /\ call[c].merged \in SUBSET Roles
           /\ call[c].gotKeys \in SUBSET AllKeys
    BY DEF TypeOK, CallRecord
  <2>2. ModulesOf(call[c].gotKeys) \in SUBSET ModuleNames
    BY <2>1, ModulesType
  <2>3. call' \in [Calls -> CallRecord]
    BY <1>7, CallMoves DEF SetRoles, Goto, Pcs
  <2> QED BY <1>7, <2>1, <2>2, <2>3 DEF SetRoles, TypeOK
<1>8. ASSUME NEW c \in Calls, SetModules(c) PROVE TypeOK'
  <2>1. ModulesOf(call[c].gotKeys) \in SUBSET ModuleNames
    BY ModulesType DEF TypeOK, CallRecord
  <2>2. call' \in [Calls -> CallRecord]
    BY <1>8, CallMoves DEF SetModules, Goto, Pcs
  <2> QED BY <1>8, <2>1, <2>2 DEF SetModules, TypeOK
<1>9. ASSUME NEW c \in Calls, UpsertGrant(c) PROVE TypeOK'
  <2> DEFINE u == call[c].user
             g == Grant(call[c].merged)
  <2>1. u \in Users /\ g \in Assignments
    BY DEF TypeOK, CallRecord, Grant, Assignments
  <2>2. grants[u] \in Seq(Assignments)
    BY <2>1 DEF TypeOK
  <2>3. <<g>> \in Seq(Assignments)
    BY <2>1
  <2>4. \A i \in DOMAIN grants[u] : [grants[u] EXCEPT ![i] = g] \in Seq(Assignments)
    BY <2>1, <2>2
  <2>5. grants' \in [Users -> Seq(Assignments)]
    <3>1. \/ grants' = [grants EXCEPT ![u] = <<g>>]
          \/ \E i \in DOMAIN grants[u] :
                grants' = [grants EXCEPT ![u] = [grants[u] EXCEPT ![i] = g]]
      BY <1>9 DEF UpsertGrant
    <3>2. grants \in [Users -> Seq(Assignments)]
      BY DEF TypeOK
    <3> HIDE DEF u, g
    <3> QED BY <3>1, <3>2, <2>1, <2>3, <2>4
  <2>6. call' \in [Calls -> CallRecord]
    BY <1>9, CallMoves DEF UpsertGrant, Goto, Pcs
  <2> QED BY <1>9, <2>5, <2>6 DEF UpsertGrant, TypeOK, userVars
<1>10. ASSUME NEW c \in Calls, CreateGrant(c) PROVE TypeOK'
  <2>1. /\ call[c].user \in Users /\ grants[call[c].user] \in Seq(Assignments)
        /\ Grant(call[c].roles) \in Assignments
    BY DEF TypeOK, CallRecord, Grant, Assignments
  <2>2. Append(grants[call[c].user], Grant(call[c].roles)) \in Seq(Assignments)
    BY <2>1
  <2>3. call' \in [Calls -> CallRecord]
    BY <1>10, CallMoves DEF CreateGrant, Goto, Pcs
  <2> QED BY <1>10, <2>1, <2>2, <2>3 DEF CreateGrant, TypeOK, userVars
<1>11. ASSUME NEW c \in Calls, PullRoles(c) PROVE TypeOK'
  <2>1. call' \in [Calls -> CallRecord]
    BY <1>11, CallMoves DEF PullRoles, Goto, Pcs
  <2> QED BY <1>11, <2>1 DEF PullRoles, TypeOK
<1>12. ASSUME NEW c \in Calls, RereadUser(c) PROVE TypeOK'
  <2>1. call[c] \in CallRecord /\ "regrant" \in Pcs
    BY DEF TypeOK, Pcs
  <2>2. call' \in [Calls -> CallRecord]
    <3>1. roles[call[c].user] \in SUBSET Roles
      BY <2>1, Fields DEF TypeOK
    <3>2. call' = [call EXCEPT ![c] = [call[c] EXCEPT !.pc = "regrant",
                                                     !.merged = roles[call[c].user]]]
      BY <1>12 DEF RereadUser
    <3>3. {} \in SUBSET AllKeys
      OBVIOUS
    <3> QED BY <3>1, <3>2, <3>3, <2>1, RecordReads, CallSet
  <2> QED BY <1>12, <2>2 DEF RereadUser, TypeOK, userVars
<1>13. ASSUME NEW c \in Calls, CopyToGrants(c) PROVE TypeOK'
  <2> DEFINE u == call[c].user
             copy == [i \in DOMAIN grants[u] |->
                         IF grants[u][i].status = "ACTIVE" THEN Grant(call[c].merged)
                                                           ELSE grants[u][i]]
  <2>1. /\ u \in Users /\ grants[u] \in Seq(Assignments)
        /\ Grant(call[c].merged) \in Assignments
    BY DEF TypeOK, CallRecord, Grant, Assignments
  <2>2. copy \in Seq(Assignments)
    BY <2>1
  <2>3. call' \in [Calls -> CallRecord]
    BY <1>13, CallMoves DEF CopyToGrants, Goto, Pcs
  <2>4. grants' = [grants EXCEPT ![u] = copy]
    BY <1>13 DEF CopyToGrants
  <2> HIDE DEF u, copy
  <2> QED BY <1>13, <2>1, <2>2, <2>3, <2>4 DEF CopyToGrants, TypeOK, userVars
<1>14. ASSUME NEW c \in Calls, ClearUser(c) PROVE TypeOK'
  <2>1. call' \in [Calls -> CallRecord]
    BY <1>14, CallMoves DEF ClearUser, Goto, Pcs
  <2> QED BY <1>14, <2>1 DEF ClearUser, TypeOK
<1>15. ASSUME NEW c \in Calls, RevokeGrants(c) PROVE TypeOK'
  <2> DEFINE u == call[c].user
             gone == [i \in DOMAIN grants[u] |-> [grants[u][i] EXCEPT !.status = "REVOKED"]]
  <2>1. u \in Users /\ grants[u] \in Seq(Assignments)
    BY DEF TypeOK, CallRecord
  <2>2. gone \in Seq(Assignments)
    <3>1. \A g \in Assignments : [g EXCEPT !.status = "REVOKED"] \in Assignments
      BY DEF Assignments
    <3> DEFINE gs == grants[u]
    <3>2. gs \in Seq(Assignments)
      BY <2>1
    <3> HIDE DEF gs
    <3>3. [i \in DOMAIN gs |-> [gs[i] EXCEPT !.status = "REVOKED"]] \in Seq(Assignments)
      BY <3>1, <3>2
    <3> QED BY <3>3 DEF gs
  <2>3. call' \in [Calls -> CallRecord]
    BY <1>15, CallMoves DEF RevokeGrants, Goto, Pcs
  <2>4. grants' = [grants EXCEPT ![u] = gone]
    BY <1>15 DEF RevokeGrants
  <2> HIDE DEF u, gone
  <2> QED BY <1>15, <2>1, <2>2, <2>3, <2>4 DEF RevokeGrants, TypeOK, userVars
<1>16. ASSUME NEW c \in Calls, WriteTenant(c) PROVE TypeOK'
  <2>1. call[c].scope \in Scopes /\ call[c].perms \in SUBSET Keys
    BY DEF TypeOK, CallRecord
  <2>2. call' \in [Calls -> CallRecord]
    BY <1>16, CallMoves DEF WriteTenant, Goto, Pcs
  <2> QED BY <1>16, <2>1, <2>2 DEF WriteTenant, TypeOK, userVars
<1>17. ASSUME NEW c \in Calls, SyncAdmins(c) PROVE TypeOK'
  <2>1. call[c].perms \in SUBSET Keys
    BY DEF TypeOK, CallRecord
  <2>2. ModulesOf(call[c].perms) \in SUBSET ModuleNames
    BY <2>1, ModulesType DEF AllKeys
  <2>4. call[c].perms \cup {AssignKey} \in SUBSET AllKeys
    BY <2>1, ConstantsAssumption DEF AllKeys
  <2>3. call' \in [Calls -> CallRecord]
    BY <1>17, CallMoves DEF SyncAdmins, Goto, Pcs
  <2>5. keys' \in [Users -> SUBSET AllKeys] /\ mods' \in [Users -> SUBSET ModuleNames]
    BY <1>17, <2>2, <2>4 DEF SyncAdmins, TypeOK
  <2> QED BY <1>17, <2>3, <2>5 DEF SyncAdmins, TypeOK
<1>18. ASSUME NEW c \in Calls, FindDue(c) PROVE TypeOK'
  <2> DEFINE us == {WinUser[w] : w \in {v \in Windows : Due(c, win, v)}}
  <2>1. us \in SUBSET Users
    BY ConstantsAssumption
  <2>2. call' = [call EXCEPT ![c].pc = "give", ![c].gotWin = win, ![c].todo = us]
    BY <1>18 DEF FindDue
  <2> HIDE DEF us
  <2>3. call' \in [Calls -> CallRecord]
    <3>1. call[c] \in CallRecord /\ win \in [Windows -> Statuses] /\ "give" \in Pcs
      BY DEF TypeOK, Pcs
    <3>2. call' = [call EXCEPT ![c] = [call[c] EXCEPT !.pc = "give", !.gotWin = win,
                                                     !.todo = us]]
      BY <2>2
    <3>3. call[c].user \in Users
      BY <3>1, Fields
    <3> QED BY <3>1, <3>2, <3>3, <2>1, RecordTicks, CallSet
  <2> QED BY <1>18, <2>3 DEF FindDue, TypeOK, userVars
<1>19. ASSUME NEW c \in Calls, GiveRoles(c) PROVE TypeOK'
  <2>1. PICK u \in call[c].todo :
          /\ roles' = [roles EXCEPT ![u] = @ \cup RolesOfWindows(DueOf(c, u))]
          /\ call' = [call EXCEPT ![c].pc = "markActive", ![c].user = u, ![c].todo = @ \ {u}]
    BY <1>19 DEF GiveRoles
  <2>2. u \in Users
    BY DEF TypeOK, CallRecord
  <2>3. RolesOfWindows(DueOf(c, u)) \in SUBSET Roles
    BY ConstantsAssumption DEF RolesOfWindows, DueOf, Owned
  <2>4. call' \in [Calls -> CallRecord]
    <3>1. call[c] \in CallRecord /\ "markActive" \in Pcs
      BY DEF TypeOK, Pcs
    <3>2. call' = [call EXCEPT ![c] = [call[c] EXCEPT !.pc = "markActive", !.user = u,
                                                     !.todo = @ \ {u}]]
      BY <2>1
    <3>3. call[c].gotWin \in [Windows -> Statuses] /\ call[c].todo \ {u} \in SUBSET Users
      BY <3>1, Fields
    <3> QED BY <3>1, <3>2, <3>3, <2>2, RecordTicks, CallSet
  <2>5. roles' \in [Users -> SUBSET Roles]
    BY <2>1, <2>2, <2>3 DEF TypeOK
  <2> QED BY <1>19, <2>4, <2>5 DEF GiveRoles, TypeOK
<1>20. ASSUME NEW c \in Calls, MarkActive(c) PROVE TypeOK'
  <2>1. win' \in [Windows -> Statuses]
    BY <1>20 DEF MarkActive, TypeOK, CallRecord, Statuses
  <2>2. call' \in [Calls -> CallRecord]
    BY <1>20, CallMoves DEF MarkActive, Goto, Pcs
  <2> QED BY <1>20, <2>1, <2>2 DEF MarkActive, TypeOK, userVars
<1>21. ASSUME NEW c \in Calls, FindOver(c) PROVE TypeOK'
  <2> DEFINE us == {WinUser[w] : w \in {v \in Windows : Over(c, win, v)}}
  <2>1. us \in SUBSET Users
    BY ConstantsAssumption
  <2>2. call' = [call EXCEPT ![c].pc = "take", ![c].over = TRUE, ![c].gotWin = win,
                             ![c].todo = us]
    BY <1>21 DEF FindOver
  <2> HIDE DEF us
  <2>3. call' \in [Calls -> CallRecord]
    <3>1. call[c] \in CallRecord /\ win \in [Windows -> Statuses] /\ "take" \in Pcs
      BY DEF TypeOK, Pcs
    <3>2. call' = [call EXCEPT ![c] = [call[c] EXCEPT !.pc = "take", !.over = TRUE, !.gotWin = win,
                                                     !.todo = us]]
      BY <2>2
    <3>3. call[c].user \in Users
      BY <3>1, Fields
    <3> QED BY <3>1, <3>2, <3>3, <2>1, RecordTicks, CallSet
  <2> QED BY <1>21, <2>3 DEF FindOver, TypeOK, userVars
<1>22. ASSUME NEW c \in Calls, TakeRoles(c) PROVE TypeOK'
  <2>1. PICK u \in call[c].todo :
          /\ roles' = [roles EXCEPT ![u] = @ \ RolesOfWindows(OverOf(c, u))]
          /\ pulled' = pulled \cup OverOf(c, u)
          /\ call' = [call EXCEPT ![c].pc = "markExpired", ![c].user = u, ![c].todo = @ \ {u}]
    BY <1>22 DEF TakeRoles
  <2>2. u \in Users
    BY DEF TypeOK, CallRecord
  <2>3. OverOf(c, u) \subseteq Windows
    BY DEF OverOf, Owned
  <2>4. call' \in [Calls -> CallRecord]
    <3>1. call[c] \in CallRecord /\ "markExpired" \in Pcs
      BY DEF TypeOK, Pcs
    <3>2. call' = [call EXCEPT ![c] = [call[c] EXCEPT !.pc = "markExpired", !.user = u,
                                                     !.todo = @ \ {u}]]
      BY <2>1
    <3>3. call[c].gotWin \in [Windows -> Statuses] /\ call[c].todo \ {u} \in SUBSET Users
      BY <3>1, Fields
    <3> QED BY <3>1, <3>2, <3>3, <2>2, RecordTicks, CallSet
  <2>5. roles' \in [Users -> SUBSET Roles]
    BY <2>1, <2>2 DEF TypeOK
  <2> QED BY <1>22, <2>1, <2>3, <2>4, <2>5 DEF TakeRoles, TypeOK
<1>23. ASSUME NEW c \in Calls, MarkExpired(c) PROVE TypeOK'
  <2>1. win' \in [Windows -> Statuses]
    BY <1>23 DEF MarkExpired, TypeOK, CallRecord, Statuses
  <2>2. call' \in [Calls -> CallRecord]
    BY <1>23, CallMoves DEF MarkExpired, Goto, Pcs
  <2> QED BY <1>23, <2>1, <2>2 DEF MarkExpired, TypeOK, userVars
<1>24. ASSUME NEW c \in Calls, EndTick(c) PROVE TypeOK'
  <2>1. call' \in [Calls -> CallRecord]
    BY <1>24, CallMoves DEF EndTick, Goto, Pcs
  <2> QED BY <1>24, <2>1 DEF EndTick, TypeOK, userVars
<1>25. ASSUME NEW c \in Calls, Reply(c) \/ Die(c) PROVE TypeOK'
  <2>1. call' \in [Calls -> CallRecord]
    BY <1>25, NoCallType DEF Reply, Die, TypeOK
  <2>2. events' \in Nat
    BY <1>25 DEF Reply, Die, TypeOK
  <2> QED BY <1>25, <2>1, <2>2 DEF Reply, Die, TypeOK, userVars
<1>26. CASE EditRole
  <2>1. ASSUME NEW r \in Roles, NEW s \in Scopes,
               NEW d \in RoleDocs, Edit(r, s, d)
        PROVE  TypeOK'
    <3>1. call' \in [Calls -> CallRecord]
      BY <2>1, CompanyType DEF Edit
    <3>2. doc' \in [Roles -> [Scopes -> RoleDocs]]
      BY <2>1 DEF Edit, TypeOK
    <3> QED BY <2>1, <3>1, <3>2 DEF Edit, TypeOK, userVars
  <2>2. \E r \in Roles, s \in Scopes :
          \E d \in RoleDocs : Edit(r, s, d)
    <3>1. \A r \in Roles, s \in Scopes : doc[r][s] \in RoleDocs
      BY DEF TypeOK
    <3>2. PICK r \in Roles, s \in Scopes :
            \/ \E ps \in PermSets : \/ CreateRole(r, s, ps)
                                    \/ UpdateRolePermissions(r, s, ps)
                                    \/ AddPermissionsToRole(r, s, ps)
                                    \/ RemovePermissionsFromRole(r, s, ps)
            \/ \E to \in Roles : CloneRole(r, to, s)
            \/ DeleteRole(r, s)
            \/ SeedSystemRole(r, s)
      BY <1>26 DEF EditRole
    <3>3. ASSUME NEW ps \in PermSets, CreateRole(r, s, ps)
          PROVE  \E d \in RoleDocs : Edit(r, s, d)
      BY <3>3, ConstantsAssumption DEF CreateRole, RoleDocs, AllKeys
    <3>4. ASSUME NEW ps \in PermSets, UpdateRolePermissions(r, s, ps)
          PROVE  \E d \in RoleDocs : Edit(r, s, d)
      <4>1. ps \in SUBSET AllKeys /\ doc[r][s] \in RoleDocs
        BY <3>1, ConstantsAssumption DEF AllKeys
      <4>2. [doc[r][s] EXCEPT !.keys = ps] \in RoleDocs
        BY <4>1 DEF RoleDocs
      <4> QED BY <3>4, <4>2 DEF UpdateRolePermissions
    <3>5. ASSUME NEW ps \in PermSets, AddPermissionsToRole(r, s, ps)
          PROVE  \E d \in RoleDocs : Edit(r, s, d)
      BY <3>1, <3>5, ConstantsAssumption DEF AddPermissionsToRole, RoleDocs, AllKeys
    <3>6. ASSUME NEW ps \in PermSets, RemovePermissionsFromRole(r, s, ps)
          PROVE  \E d \in RoleDocs : Edit(r, s, d)
      BY <3>1, <3>6, ConstantsAssumption DEF RemovePermissionsFromRole, RoleDocs
    <3>7. ASSUME NEW to \in Roles, CloneRole(r, to, s)
          PROVE  \E d \in RoleDocs : Edit(to, s, d)
      BY <3>1, <3>7 DEF CloneRole, RoleDocs, AllKeys
    <3>8. ASSUME DeleteRole(r, s) PROVE \E d \in RoleDocs : Edit(r, s, d)
      BY <3>8 DEF DeleteRole, RoleDocs
    <3>9. ASSUME SeedSystemRole(r, s) PROVE \E d \in RoleDocs : Edit(r, s, d)
      BY <3>9, ConstantsAssumption DEF SeedSystemRole, RoleDocs, AllKeys
    <3>10. \E q \in Roles : \E d \in RoleDocs : Edit(q, s, d)
      BY <3>2, <3>3, <3>4, <3>5, <3>6, <3>7, <3>8, <3>9
    <3> QED BY <3>10
  <2> QED BY <2>1, <2>2
<1>27. CASE Tick
  BY <1>27 DEF Tick, TypeOK, userVars
<1> QED
  BY <1>0, <1>1, <1>2, <1>3, <1>4, <1>5, <1>6, <1>7, <1>8, <1>9, <1>10, <1>11, <1>12, <1>13,
     <1>14, <1>15, <1>16, <1>17, <1>18, <1>19, <1>20, <1>21, <1>22, <1>23, <1>24, <1>25,
     <1>26, <1>27 DEF Next, CallStep, TickStep

-----------------------------------------------------------------------------
(* EXPIRED windows.                                                        *)

LEMMA InitPullInv == Init => PullInv
BY NoCallType DEF Init, PullInv, ExpiredWasPulled, KnownPulled, MarksPulled, NoCall

\* What most steps do to a call d: it reads no windows and is not about to mark
\* any, unless it already was.
Keeps(d) ==
    \/ call'[d].gotWin = NoCall.gotWin /\ call'[d].pc # "markExpired"
    \/ /\ call'[d].gotWin = call[d].gotWin
       /\ call'[d].pc = "markExpired" =>
             /\ call[d].pc = "markExpired"
             /\ call'[d].user = call[d].user /\ call'[d].at = call[d].at

LEMMA KeepsPulled ==
    ASSUME PullInv, win' = win, pulled' = pulled, \A d \in Calls : Keeps(d)
    PROVE  PullInv'
<1>1. ExpiredWasPulled'
  BY DEF PullInv, ExpiredWasPulled
<1>2. \A w \in Windows : NoCall.gotWin[w] # "EXPIRED"
  BY DEF NoCall
<1>3. KnownPulled'
  BY <1>2 DEF PullInv, KnownPulled, Keeps
<1>4. ASSUME NEW d \in Calls, call'[d].pc = "markExpired"
      PROVE  OverOf(d, call[d].user)' \subseteq pulled'
  <2>1. /\ call'[d].gotWin = call[d].gotWin /\ call[d].pc = "markExpired"
        /\ call'[d].user = call[d].user /\ call'[d].at = call[d].at
    BY <1>4 DEF Keeps
  <2>2. OverOf(d, call[d].user) \subseteq pulled
    BY <2>1 DEF PullInv, MarksPulled
  <2> QED BY <2>1, <2>2 DEF OverOf, Over, Owned
<1>5. MarksPulled'
  BY <1>4 DEF MarksPulled
<1> QED BY <1>1, <1>3, <1>5 DEF PullInv

\* A call that starts has read nothing; the others only lose their solitude.
LEMMA StartsKeep ==
    ASSUME TypeOK, NEW c \in Calls, NEW rec \in CallRecord, rec.gotWin = NoCall.gotWin,
           rec.pc # "markExpired", call' = Started(c, rec)
    PROVE  \A d \in Calls : Keeps(d)
<1> SUFFICES ASSUME NEW d \in Calls PROVE Keeps(d)
  OBVIOUS
<1>1. CASE d # c
  <2>1. call'[d] = InCompany(d) /\ call[d] \in CallRecord
    BY <1>1 DEF Started, TypeOK
  <2>2. /\ InCompany(d).gotWin = call[d].gotWin /\ InCompany(d).pc = call[d].pc
        /\ InCompany(d).user = call[d].user /\ InCompany(d).at = call[d].at
    BY <2>1 DEF InCompany, CallRecord
  <2> QED BY <2>1, <2>2 DEF Keeps
<1>2. CASE d = c
  <2>1. \/ call'[d] = [rec EXCEPT !.alone = TRUE, !.was = roles]
        \/ call'[d] = rec
    BY <1>2 DEF Started
  <2>2. /\ [rec EXCEPT !.alone = TRUE, !.was = roles].gotWin = rec.gotWin
        /\ [rec EXCEPT !.alone = TRUE, !.was = roles].pc = rec.pc
    BY DEF CallRecord
  <2> QED BY <2>1, <2>2 DEF Keeps
<1> QED BY <1>1, <1>2

\* A call that goes on to another step than the marking.
LEMMA MovesKeep ==
    ASSUME TypeOK, NEW c \in Calls, NEW r \in CallRecord, r.gotWin = call[c].gotWin,
           r.pc # "markExpired", call' = [call EXCEPT ![c] = r]
    PROVE  \A d \in Calls : Keeps(d)
BY DEF TypeOK, Keeps

LEMMA GotoKeeps ==
    ASSUME TypeOK, NEW c \in Calls, NEW pc \in Pcs, pc # "markExpired", Goto(c, pc)
    PROVE  \A d \in Calls : Keeps(d)
<1>1. call[c] \in CallRecord
  BY DEF TypeOK
<1> DEFINE r == [call[c] EXCEPT !.pc = pc]
<1>2. r \in CallRecord
  BY <1>1, RecordMoves
<1>3. r.gotWin = call[c].gotWin /\ r.pc = pc
  BY <1>1 DEF CallRecord
<1>4. call' = [call EXCEPT ![c] = r]
  BY DEF Goto
<1> HIDE DEF r
<1> QED BY <1>2, <1>3, <1>4, MovesKeep

LEMMA PullStep == TypeOK /\ PullInv /\ [Next]_vars => PullInv'
<1> SUFFICES ASSUME TypeOK, PullInv, [Next]_vars PROVE PullInv'
  OBVIOUS
<1>t. \A d \in Calls : call[d] \in CallRecord
  BY DEF TypeOK
<1>r. NoCall \in CallRecord /\ NoCall.pc # "markExpired"
  BY NoCallType DEF NoCall
<1>0. CASE UNCHANGED vars
  BY <1>0, KeepsPulled DEF vars, Keeps
<1>1. ASSUME NEW c \in Calls, NEW q \in Requests, Begin(c, q) PROVE PullInv'
  <2> DEFINE rec == [NoCall EXCEPT !.op = q.op, !.user = q.user, !.roles = q.roles,
                        !.scope = q.scope, !.timed = q.timed, !.perms = q.perms,
                        !.pc = FirstPc(q.op)]
  <2>1. FirstPc(q.op) \in Pcs /\ FirstPc(q.op) # "markExpired"
    BY DEF FirstPc, Pcs
  <2>2. /\ q.op \in Ops /\ q.user \in Users /\ q.roles \in SUBSET Roles
        /\ q.scope \in Scopes /\ q.timed \in BOOLEAN /\ q.perms \in SUBSET Keys
    BY ConstantsAssumption DEF Ops
  <2>3. rec \in CallRecord
    BY <2>1, <2>2, <1>r DEF CallRecord
  <2>4. rec.gotWin = NoCall.gotWin /\ rec.pc = FirstPc(q.op)
    BY <1>r DEF CallRecord
  <2>5. call' = Started(c, rec) /\ win' = win /\ pulled' = pulled
    BY <1>1 DEF Begin
  <2> HIDE DEF rec
  <2>6. \A d \in Calls : Keeps(d)
    BY <2>1, <2>3, <2>4, <2>5, StartsKeep
  <2> QED BY <2>5, <2>6, KeepsPulled
<1>2. ASSUME NEW c \in Calls, BeginTick(c) PROVE PullInv'
  <2> DEFINE rec == [NoCall EXCEPT !.pc = FirstPc("tick"), !.at = now]
  <2>1. FirstPc("tick") \in Pcs /\ FirstPc("tick") # "markExpired" /\ now \in Nat
    BY DEF FirstPc, Pcs, TypeOK
  <2>2. /\ rec \in CallRecord /\ rec.gotWin = NoCall.gotWin /\ rec.pc = FirstPc("tick")
    BY <2>1, <1>r DEF CallRecord
  <2>3. call' = Started(c, rec) /\ win' = win /\ pulled' = pulled
    BY <1>2 DEF BeginTick
  <2> HIDE DEF rec
  <2>4. \A d \in Calls : Keeps(d)
    BY <2>1, <2>2, <2>3, StartsKeep
  <2> QED BY <2>3, <2>4, KeepsPulled
<1>3. ASSUME NEW c \in Calls, RefreshRead(c) \/ RefreshWrite(c) \/ ReadUser(c) \/ RereadUser(c)
      PROVE  PullInv'
  <2>1. win' = win /\ pulled' = pulled
    BY <1>3 DEF RefreshRead, RefreshWrite, ReadUser, RereadUser
  <2>2. \A d \in Calls : d # c => call'[d] = call[d]
    BY <1>3 DEF RefreshRead, RefreshWrite, ReadUser, RereadUser, TypeOK
  <2>3. \/ call'[c] = NoCall
        \/ call'[c].gotWin = call[c].gotWin /\ call'[c].pc # "markExpired"
    <3>1. CASE RefreshRead(c)
      BY <3>1, <1>t DEF RefreshRead, TypeOK, CallRecord
    <3>2. CASE RefreshWrite(c)
      <4>1. AfterRefresh(c) # "markExpired"
        BY DEF AfterRefresh
      <4> QED BY <3>2, <4>1, <1>t DEF RefreshWrite, TypeOK, CallRecord
    <3>3. CASE ReadUser(c)
      <4> DEFINE merged == roles[call[c].user] \cup call[c].roles
                 ks == AssignedKeys(merged, call[c].scope)
      <4>1. \/ call' = [call EXCEPT ![c] = NoCall]
            \/ \E pc \in {"set", "newGrant", "pull", "clear"} :
                  call' = [call EXCEPT ![c].pc = pc, ![c].merged = merged, ![c].gotKeys = ks]
        BY <3>3 DEF ReadUser
      <4> HIDE DEF merged, ks
      <4> QED BY <4>1, <1>t DEF TypeOK, CallRecord
    <3>4. CASE RereadUser(c)
      BY <3>4, <1>t DEF RereadUser, TypeOK, CallRecord
    <3> QED BY <1>3, <3>1, <3>2, <3>3, <3>4
  <2>4. \A d \in Calls : Keeps(d)
    BY <2>2, <2>3, <1>r DEF Keeps
  <2> QED BY <2>1, <2>4, KeepsPulled
<1>4. ASSUME NEW c \in Calls, NEW pc \in Pcs, pc # "markExpired", Goto(c, pc),
             win' = win, pulled' = pulled
      PROVE  PullInv'
  BY <1>4, GotoKeeps, KeepsPulled
<1>5. ASSUME NEW c \in Calls,
             \/ AddRoles(c)  \/ SetRoles(c)     \/ SetModules(c)   \/ UpsertGrant(c)
             \/ CreateGrant(c) \/ PullRoles(c)  \/ CopyToGrants(c) \/ ClearUser(c)
             \/ RevokeGrants(c) \/ WriteTenant(c) \/ SyncAdmins(c) \/ EndTick(c)
      PROVE  PullInv'
  <2>1. \E pc \in {"refresh", "done", "grant", "addTimed", "ungrant", "sync"} :
          Goto(c, pc) /\ UNCHANGED <<win, pulled>>
    <3>1. CASE AddRoles(c)
      BY <3>1 DEF AddRoles
    <3>2. CASE SetRoles(c)
      <4>1. UNCHANGED <<win, pulled>> /\ Goto(c, IF call[c].timed THEN "done" ELSE "refresh")
        BY <3>2 DEF SetRoles
      <4> QED BY <4>1
    <3>3. CASE SetModules(c)
      BY <3>3 DEF SetModules
    <3>4. CASE UpsertGrant(c)
      BY <3>4 DEF UpsertGrant
    <3>5. CASE CreateGrant(c)
      BY <3>5 DEF CreateGrant
    <3>6. CASE PullRoles(c)
      BY <3>6 DEF PullRoles
    <3>7. CASE CopyToGrants(c)
      BY <3>7 DEF CopyToGrants
    <3>8. CASE ClearUser(c)
      BY <3>8 DEF ClearUser
    <3>9. CASE RevokeGrants(c)
      BY <3>9 DEF RevokeGrants
    <3>10. CASE WriteTenant(c)
      BY <3>10 DEF WriteTenant
    <3>11. CASE SyncAdmins(c)
      BY <3>11 DEF SyncAdmins
    <3>12. CASE EndTick(c)
      BY <3>12 DEF EndTick
    <3> QED BY <1>5, <3>1, <3>2, <3>3, <3>4, <3>5, <3>6, <3>7, <3>8, <3>9, <3>10, <3>11, <3>12
  <2>2. {"refresh", "done", "grant", "addTimed", "ungrant", "sync"} \subseteq Pcs \ {"markExpired"}
    BY DEF Pcs
  <2> QED BY <2>1, <2>2, <1>4
<1>6. ASSUME NEW c \in Calls, FindDue(c) \/ FindOver(c) PROVE PullInv'
  <2>1. win' = win /\ pulled' = pulled
    BY <1>6 DEF FindDue, FindOver
  <2>2. /\ \A d \in Calls : d # c => call'[d] = call[d]
        /\ call'[c].gotWin = win /\ call'[c].pc # "markExpired"
    BY <1>6, <1>t DEF FindDue, FindOver, TypeOK, CallRecord
  <2>3. ExpiredWasPulled' /\ KnownPulled'
    BY <2>1, <2>2 DEF PullInv, ExpiredWasPulled, KnownPulled
  <2>4. MarksPulled'
    BY <2>1, <2>2 DEF PullInv, MarksPulled, OverOf, Over, Owned
  <2> QED BY <2>3, <2>4 DEF PullInv
<1>7. ASSUME NEW c \in Calls, GiveRoles(c) PROVE PullInv'
  <2>1. win' = win /\ pulled' = pulled
    BY <1>7 DEF GiveRoles
  <2>2. /\ \A d \in Calls : d # c => call'[d] = call[d]
        /\ call'[c].gotWin = call[c].gotWin /\ call'[c].pc # "markExpired"
    BY <1>7, <1>t DEF GiveRoles, TypeOK, CallRecord
  <2>3. \A d \in Calls : Keeps(d)
    BY <2>2 DEF Keeps
  <2> QED BY <2>1, <2>3, KeepsPulled
<1>8. ASSUME NEW c \in Calls, MarkActive(c) \/ MarkExpired(c) PROVE PullInv'
  <2>1. pulled' = pulled /\ Goto(c, "refresh")
    BY <1>8 DEF MarkActive, MarkExpired
  <2>2. ASSUME NEW w \in Windows, win'[w] = "EXPIRED" PROVE w \in pulled
    <3>1. CASE MarkActive(c)
      BY <3>1, <2>2 DEF MarkActive, PullInv, ExpiredWasPulled, KnownPulled
    <3>2. CASE MarkExpired(c)
      <4>1. OverOf(c, call[c].user) \subseteq pulled
        BY <3>2 DEF MarkExpired, PullInv, MarksPulled
      <4> QED BY <3>2, <2>2, <4>1 DEF MarkExpired, PullInv, ExpiredWasPulled, KnownPulled
    <3> QED BY <1>8, <3>1, <3>2
  <2>3. ExpiredWasPulled'
    BY <2>1, <2>2 DEF ExpiredWasPulled
  <2>4. /\ \A d \in Calls : d # c => call'[d] = call[d]
        /\ call'[c].gotWin = call[c].gotWin /\ call'[c].pc # "markExpired"
    BY <2>1, <1>t DEF Goto, TypeOK, CallRecord
  <2>5. KnownPulled' /\ MarksPulled'
    BY <2>1, <2>4 DEF PullInv, KnownPulled, MarksPulled, OverOf, Over, Owned
  <2> QED BY <2>3, <2>5 DEF PullInv
<1>9. ASSUME NEW c \in Calls, TakeRoles(c) PROVE PullInv'
  <2>1. PICK u \in call[c].todo :
          /\ pulled' = pulled \cup OverOf(c, u)
          /\ call' = [call EXCEPT ![c].pc = "markExpired", ![c].user = u, ![c].todo = @ \ {u}]
    BY <1>9 DEF TakeRoles
  <2>2. win' = win
    BY <1>9 DEF TakeRoles
  <2>3. /\ \A d \in Calls : d # c => call'[d] = call[d]
        /\ call'[c].gotWin = call[c].gotWin /\ call'[c].at = call[c].at /\ call'[c].user = u
    BY <2>1, <1>t DEF TypeOK, CallRecord
  <2>4. ExpiredWasPulled' /\ KnownPulled'
    BY <2>1, <2>2, <2>3 DEF PullInv, ExpiredWasPulled, KnownPulled
  <2>5. ASSUME NEW d \in Calls, call'[d].pc = "markExpired"
        PROVE  OverOf(d, call[d].user)' \subseteq pulled'
    <3>1. CASE d = c
      BY <3>1, <2>1, <2>3 DEF OverOf, Over, Owned
    <3>2. CASE d # c
      BY <3>2, <2>5, <2>1, <2>3 DEF PullInv, MarksPulled, OverOf, Over, Owned
    <3> QED BY <3>1, <3>2
  <2> QED BY <2>4, <2>5 DEF PullInv, MarksPulled
<1>10. ASSUME NEW c \in Calls, Reply(c) \/ Die(c) PROVE PullInv'
  <2>1. /\ win' = win /\ pulled' = pulled
        /\ call' = [call EXCEPT ![c] = NoCall]
    BY <1>10 DEF Reply, Die
  <2>2. \A d \in Calls : Keeps(d)
    BY <2>1, <1>r DEF Keeps, TypeOK
  <2> QED BY <2>1, <2>2, KeepsPulled
<1>11. ASSUME win' = win, pulled' = pulled, call' = [d \in Calls |-> InCompany(d)]
       PROVE  PullInv'
  <2>1. \A d \in Calls : Keeps(d)
    BY <1>11, <1>t DEF InCompany, Keeps, CallRecord
  <2> QED BY <1>11, <2>1, KeepsPulled
<1>12. CASE EditRole
  BY <1>12, <1>11 DEF EditRole, CreateRole, UpdateRolePermissions, AddPermissionsToRole,
     RemovePermissionsFromRole, CloneRole, DeleteRole, SeedSystemRole, Edit
<1>13. CASE Tick
  BY <1>13, KeepsPulled DEF Tick, Keeps
<1> QED
  BY <1>0, <1>1, <1>2, <1>3, <1>5, <1>6, <1>7, <1>8, <1>9, <1>10, <1>12, <1>13
  DEF Next, CallStep, TickStep

-----------------------------------------------------------------------------
(* A call that runs alone.  What each step of it has already settled is    *)
(* said of values: k is the record of the call; r, ks, ms and gs the       *)
(* roles, keys, modules and assignments of its user; D the role documents. *)

\* RefreshedKeys and AssignedKeys for the role documents D.
KeysOf(D, rs, s) == UNION {D[r][s].keys : r \in {q \in rs : D[q][s].on}}

Refreshed(D, u, rs, stored) ==
    IF FullAccess(rs) THEN {Star}
                      ELSE KeysOf(D, rs, ScopeOf[u]) \cup DefaultKeys(rs) \cup stored

Assigned(D, rs, s) == IF FullAccess(rs) THEN {Star} ELSE KeysOf(D, rs, s)

Fresh(D, u, r, ks, ms) ==
    /\ Refreshed(D, u, r, {}) \subseteq ks
    /\ FullAccess(r) => ks = {Star}
    /\ ms = CachedModules(ks)

Before(k) == k.was[k.user]

\* Between its read and its write, what a refresh read is still what is stored.
ReadStage(k, D, r, ks) ==
    k.pc = "rewrite" => k.gotRoles = r /\ k.gotKeys = Refreshed(D, k.user, r, ks)

AddStage(k, D, r, ks, ms) ==
    k.op = "addRole" =>
        /\ k.pc \in {"add", "refresh", "rewrite", "done"}
        /\ r = IF k.pc = "add" THEN Before(k) ELSE Before(k) \cup k.roles
        /\ k.pc = "done" => Fresh(D, k.user, r, ks, ms)

RecomputeStage(k, D, r, ks, ms) ==
    k.op = "recompute" =>
        /\ k.pc \in {"refresh", "rewrite", "done"}
        /\ r = Before(k)
        /\ k.pc = "done" => Fresh(D, k.user, r, ks, ms)

\* assignRolesToUser: a call that is timed is done once the roles are set.
AssignStage(k, D, r, ks, ms, gs) ==
    k.op = "assign" =>
        /\ k.pc \in {"read", "set", "refresh", "rewrite", "modules", "grant", "done"}
        /\ r = IF k.pc \in {"read", "set"} THEN Before(k) ELSE Before(k) \cup k.roles
        /\ k.pc # "read" => k.merged = Before(k) \cup k.roles
        /\ k.pc = "set" => k.gotKeys = Assigned(D, k.merged, k.scope)
        /\ k.pc \in {"refresh", "rewrite", "modules", "grant"} => ~k.timed
        /\ k.pc \in {"modules", "grant"} => ks = k.gotKeys
        /\ k.pc \in {"modules", "grant"} \/ (k.pc = "done" /\ ~k.timed) =>
              Refreshed(D, k.user, r, {}) \subseteq ks
        /\ k.pc = "grant" \/ (k.pc = "done" /\ ~k.timed) => ms = ModulesOf(ks)
        /\ k.pc = "done" /\ ~k.timed =>
              \E i \in DOMAIN gs : gs[i].status = "ACTIVE" /\ gs[i].roles = r
        /\ k.pc = "done" /\ k.timed => ks = Assigned(D, r, k.scope)

AccessStage(k, D, r, ks, ms, gs) ==
    k.op = "assignAccess" =>
        /\ k.pc \in {"read", "newGrant", "addTimed", "refresh", "rewrite", "done"}
        /\ r = IF k.pc \in {"read", "newGrant", "addTimed"} THEN Before(k)
                                                            ELSE Before(k) \cup k.roles
        /\ k.pc \notin {"read", "newGrant"} =>
              /\ Len(gs) \in DOMAIN gs
              /\ gs[Len(gs)].status = "ACTIVE" /\ gs[Len(gs)].roles = k.roles
        /\ k.pc = "done" => Fresh(D, k.user, r, ks, ms)

RemoveStage(k, D, r, ks, ms, gs) ==
    k.op = "removeRoles" =>
        /\ k.pc \in {"read", "pull", "refresh", "rewrite", "reread", "regrant", "done"}
        /\ r = IF k.pc \in {"read", "pull"} THEN Before(k) ELSE Before(k) \ k.roles
        /\ k.pc \in {"reread", "regrant", "done"} => Fresh(D, k.user, r, ks, ms)
        /\ k.pc = "regrant" => k.merged = r
        /\ k.pc = "done" =>
              \A i \in DOMAIN gs : gs[i].status = "ACTIVE" => gs[i].roles = r

RevokeStage(k, r, ks, ms, gs) ==
    k.op = "revoke" =>
        /\ k.pc \in {"read", "clear", "ungrant", "done"}
        /\ k.pc \in {"ungrant", "done"} => r = {} /\ ks = {} /\ ms = {}
        /\ k.pc = "done" => \A i \in DOMAIN gs : gs[i].status # "ACTIVE"

\* All that concerns the user of the call.
UserStage(k, D, r, ks, ms, gs) ==
    /\ ReadStage(k, D, r, ks)       /\ AddStage(k, D, r, ks, ms)
    /\ RecomputeStage(k, D, r, ks, ms)
    /\ AssignStage(k, D, r, ks, ms, gs) /\ AccessStage(k, D, r, ks, ms, gs)
    /\ RemoveStage(k, D, r, ks, ms, gs) /\ RevokeStage(k, r, ks, ms, gs)

\* R, K and E: the roles and keys of all users, the entitlements of the tenants.
TenantStage(k, R, K, E) ==
    k.op = "updateModules" =>
        /\ k.pc \in {"tenant", "sync", "done"}
        /\ k.pc \in {"sync", "done"} => E[k.scope] = k.perms
        /\ k.pc = "done" =>
              \A u \in Users : ScopeOf[u] = k.scope /\ AdminRole \in R[u]
                                  => K[u] = k.perms \cup {AssignKey}

DueAt(k, W, w)  == W[w] = "PENDING" /\ WinStart[w] =< k.at /\ k.at < WinEnd[w]
OverAt(k, W, w) == W[w] \in {"ACTIVE", "PENDING"} /\ WinEnd[w] =< k.at

\* The tick has still to serve u, or has changed its roles but not its windows.
Awaits(k, pc, u) == u \in k.todo \/ (k.pc = pc /\ k.user = u)

TickStage(k, R, W) ==
    k.op = "tick" =>
        /\ k.pc \in {"findDue", "give", "markActive", "refresh", "rewrite", "take",
                     "markExpired", "done"}
        /\ k.pc \in {"findDue", "give", "markActive"} => ~k.over
        /\ k.pc \in {"take", "markExpired", "done"} => k.over
        /\ k.pc = "done" => k.todo = {}
        /\ k.pc # "findDue" /\ ~k.over =>
              \A w \in Windows : DueAt(k, W, w) => Awaits(k, "markActive", WinUser[w])
        /\ k.over => \A w \in Windows :
              /\ ~DueAt(k, W, w) /\ ~DueAt(k, k.gotWin, w)
              /\ OverAt(k, W, w) => Awaits(k, "markExpired", WinUser[w])
              /\ OverAt(k, k.gotWin, w) /\ WinUser[w] \notin k.todo =>
                    R[WinUser[w]] \cap WinRoles[w] = {}

Stage(k) ==
    /\ UserStage(k, doc, roles[k.user], keys[k.user], mods[k.user], grants[k.user])
    /\ TenantStage(k, roles, keys, ent)
    /\ TickStage(k, roles, win)

\* A call that is alone finds the others idle and has done its work so far.
QuietInv ==
    \A c \in Calls : call[c].alone =>
        /\ \A d \in Calls : d # c => Idle(d)
        /\ Stage(call[c])

LEMMA RefreshedIs ==
    ASSUME NEW u, NEW rs \in SUBSET Roles, NEW stored, NEW s
    PROVE  /\ RefreshedKeys(u, rs, stored) = Refreshed(doc, u, rs, stored)
           /\ AssignedKeys(rs, s) = Assigned(doc, rs, s)
<1>1. \A t : rs \cap Live(t) = {q \in rs : doc[q][t].on}
  BY DEF Live
<1> QED BY <1>1 DEF RefreshedKeys, Refreshed, AssignedKeys, Assigned, DocKeys, KeysOf

LEMMA RefreshedFacts ==
    ASSUME NEW D, NEW u, NEW rs, NEW stored
    PROVE  /\ Refreshed(D, u, rs, {}) \subseteq Refreshed(D, u, rs, stored)
           /\ FullAccess(rs) => Refreshed(D, u, rs, stored) = {Star}
BY DEF Refreshed

\* The call k is the call q, gone on to another step.
Moved(k, q, pc) ==
    /\ k.pc = pc        /\ k.op = q.op       /\ k.user = q.user   /\ k.roles = q.roles
    /\ k.scope = q.scope /\ k.timed = q.timed /\ k.perms = q.perms /\ k.was = q.was
    /\ k.at = q.at      /\ k.over = q.over   /\ k.todo = q.todo   /\ k.gotWin = q.gotWin
    /\ k.alone = q.alone

LEMMA RefreshReadStage ==
    ASSUME NEW q \in CallRecord, NEW k \in CallRecord, NEW D, NEW r, NEW ks, NEW ms, NEW gs,
           UserStage(q, D, r, ks, ms, gs), q.pc = "refresh",
           Moved(k, q, "rewrite"), k.merged = q.merged,
           k.gotRoles = r, k.gotKeys = Refreshed(D, q.user, r, ks)
    PROVE  UserStage(k, D, r, ks, ms, gs)
BY DEF UserStage, ReadStage, AddStage, RecomputeStage, AssignStage, AccessStage,
       RemoveStage, RevokeStage, Moved, Before

LEMMA RefreshWriteStage ==
    ASSUME NEW q \in CallRecord, NEW k \in CallRecord, NEW D, NEW r, NEW ks, NEW ms, NEW gs,
           UserStage(q, D, r, ks, ms, gs), q.pc = "rewrite",
           NEW pc, Moved(k, q, pc), k.merged = q.merged,
           pc = CASE q.op = "assign" -> "modules"
                  [] q.op = "removeRoles" -> "reread"
                  [] q.op = "tick" -> IF q.over THEN "take" ELSE "give"
                  [] OTHER -> "done",
           q.op = "assign" => k.gotKeys = q.gotKeys
    PROVE  UserStage(k, D, r, q.gotKeys, CachedModules(q.gotKeys), gs)
<1>1. Refreshed(D, q.user, r, {}) \subseteq q.gotKeys /\ (FullAccess(r) => q.gotKeys = {Star})
  BY RefreshedFacts DEF UserStage, ReadStage
<1>2. Fresh(D, q.user, r, q.gotKeys, CachedModules(q.gotKeys))
  BY <1>1 DEF Fresh
<1>3. /\ pc # "rewrite"
      /\ q.op = "assign" => pc = "modules"
      /\ q.op = "removeRoles" => pc = "reread"
      /\ q.op \in {"addRole", "recompute", "assignAccess", "revoke"} => pc = "done"
  OBVIOUS
<1> DEFINE ms2 == CachedModules(q.gotKeys)
<1> HIDE DEF ms2
<1>4. ReadStage(k, D, r, q.gotKeys)
  BY <1>3 DEF ReadStage, Moved
<1>5. AddStage(k, D, r, q.gotKeys, ms2) /\ RecomputeStage(k, D, r, q.gotKeys, ms2)
  BY <1>2, <1>3 DEF UserStage, AddStage, RecomputeStage, Moved, Before, ms2
<1>6. AssignStage(k, D, r, q.gotKeys, ms2, gs)
  BY <1>1, <1>3 DEF UserStage, AssignStage, Moved, Before
<1>7. AccessStage(k, D, r, q.gotKeys, ms2, gs)
  BY <1>2, <1>3 DEF UserStage, AccessStage, Moved, Before, ms2
<1>8. RemoveStage(k, D, r, q.gotKeys, ms2, gs)
  BY <1>2, <1>3 DEF UserStage, RemoveStage, Moved, Before, ms2
<1>9. RevokeStage(k, r, q.gotKeys, ms2, gs)
  BY <1>3 DEF UserStage, RevokeStage, Moved
<1> QED BY <1>4, <1>5, <1>6, <1>7, <1>8, <1>9 DEF UserStage, ms2

LEMMA AddRolesStage ==
    ASSUME NEW q \in CallRecord, NEW k \in CallRecord, NEW D, NEW r, NEW ks, NEW ms, NEW gs,
           UserStage(q, D, r, ks, ms, gs), q.pc \in {"add", "addTimed"}, Moved(k, q, "refresh")
    PROVE  UserStage(k, D, r \cup q.roles, ks, ms, gs)
BY DEF UserStage, ReadStage, AddStage, RecomputeStage, AssignStage, AccessStage,
       RemoveStage, RevokeStage, Moved, Before

LEMMA ReadUserStage ==
    ASSUME NEW q \in CallRecord, NEW k \in CallRecord, NEW D, NEW r, NEW ks, NEW ms, NEW gs,
           UserStage(q, D, r, ks, ms, gs), q.pc = "read", q.op \notin {"updateModules", "tick"},
           NEW pc, Moved(k, q, pc),
           pc = CASE q.op = "assign" -> "set"
                  [] q.op = "assignAccess" -> "newGrant"
                  [] q.op = "removeRoles" -> "pull"
                  [] OTHER -> "clear",
           k.merged = r \cup q.roles, k.gotKeys = Assigned(D, r \cup q.roles, q.scope)
    PROVE  UserStage(k, D, r, ks, ms, gs)
BY DEF UserStage, ReadStage, AddStage, RecomputeStage, AssignStage, AccessStage,
       RemoveStage, RevokeStage, Moved, Before, CallRecord, Ops

LEMMA SetRolesStage ==
    ASSUME NEW q \in CallRecord, NEW k \in CallRecord, NEW D, NEW r, NEW ks, NEW ms, NEW gs,
           UserStage(q, D, r, ks, ms, gs), q.pc = "set",
           Moved(k, q, IF q.timed THEN "done" ELSE "refresh"), k.merged = q.merged
    PROVE  UserStage(k, D, q.merged, q.gotKeys, ModulesOf(q.gotKeys), gs)
BY DEF UserStage, ReadStage, AddStage, RecomputeStage, AssignStage, AccessStage,
       RemoveStage, RevokeStage, Moved, Before

LEMMA SetModulesStage ==
    ASSUME NEW q \in CallRecord, NEW k \in CallRecord, NEW D, NEW r, NEW ks, NEW ms, NEW gs,
           UserStage(q, D, r, ks, ms, gs), q.pc = "modules",
           Moved(k, q, "grant"), k.merged = q.merged, k.gotKeys = q.gotKeys
    PROVE  UserStage(k, D, r, ks, ModulesOf(q.gotKeys), gs)
BY DEF UserStage, ReadStage, AddStage, RecomputeStage, AssignStage, AccessStage,
       RemoveStage, RevokeStage, Moved, Before

LEMMA UpsertGrantStage ==
    ASSUME NEW q \in CallRecord, NEW k \in CallRecord, NEW D, NEW r, NEW ks, NEW ms, NEW gs, NEW hs,
           UserStage(q, D, r, ks, ms, gs), q.pc = "grant",
           Moved(k, q, "done"), k.merged = q.merged,
           NEW i \in DOMAIN hs, hs[i] = Grant(q.merged)
    PROVE  UserStage(k, D, r, ks, ms, hs)
<1>1. hs[i].status = "ACTIVE" /\ hs[i].roles = q.merged
  BY DEF Grant
<1>2. AssignStage(k, D, r, ks, ms, hs)
  BY <1>1 DEF UserStage, AssignStage, Moved, Before
<1> QED
  BY <1>2 DEF UserStage, ReadStage, AddStage, RecomputeStage, AssignStage, AccessStage,
              RemoveStage, RevokeStage, Moved

LEMMA CreateGrantStage ==
    ASSUME NEW q \in CallRecord, NEW k \in CallRecord, NEW D, NEW r, NEW ks, NEW ms, NEW gs, NEW hs,
           UserStage(q, D, r, ks, ms, gs), q.pc = "newGrant", Moved(k, q, "addTimed"),
           Len(hs) \in DOMAIN hs, hs[Len(hs)] = Grant(q.roles)
    PROVE  UserStage(k, D, r, ks, ms, hs)
BY DEF UserStage, ReadStage, AddStage, RecomputeStage, AssignStage, AccessStage,
       RemoveStage, RevokeStage, Moved, Before, Grant

LEMMA PullRolesStage ==
    ASSUME NEW q \in CallRecord, NEW k \in CallRecord, NEW D, NEW r, NEW ks, NEW ms, NEW gs,
           UserStage(q, D, r, ks, ms, gs), q.pc = "pull", Moved(k, q, "refresh")
    PROVE  UserStage(k, D, r \ q.roles, ks, ms, gs)
BY DEF UserStage, ReadStage, AddStage, RecomputeStage, AssignStage, AccessStage,
       RemoveStage, RevokeStage, Moved, Before

LEMMA RereadStage ==
    ASSUME NEW q \in CallRecord, NEW k \in CallRecord, NEW D, NEW r, NEW ks, NEW ms, NEW gs,
           UserStage(q, D, r, ks, ms, gs), q.pc = "reread", Moved(k, q, "regrant"), k.merged = r
    PROVE  UserStage(k, D, r, ks, ms, gs)
BY DEF UserStage, ReadStage, AddStage, RecomputeStage, AssignStage, AccessStage,
       RemoveStage, RevokeStage, Moved, Before

LEMMA CopyStage ==
    ASSUME NEW q \in CallRecord, NEW k \in CallRecord, NEW D, NEW r, NEW ks, NEW ms, NEW gs, NEW hs,
           UserStage(q, D, r, ks, ms, gs), q.pc = "regrant", Moved(k, q, "done"),
           \A i \in DOMAIN hs : hs[i].status = "ACTIVE" => hs[i].roles = q.merged
    PROVE  UserStage(k, D, r, ks, ms, hs)
BY DEF UserStage, ReadStage, AddStage, RecomputeStage, AssignStage, AccessStage,
       RemoveStage, RevokeStage, Moved, Before

LEMMA ClearStage ==
    ASSUME NEW q \in CallRecord, NEW k \in CallRecord, NEW D, NEW r, NEW ks, NEW ms, NEW gs,
           UserStage(q, D, r, ks, ms, gs), q.pc = "clear", Moved(k, q, "ungrant")
    PROVE  UserStage(k, D, {}, {}, {}, gs)
BY DEF UserStage, ReadStage, AddStage, RecomputeStage, AssignStage, AccessStage,
       RemoveStage, RevokeStage, Moved, Before

LEMMA UngrantStage ==
    ASSUME NEW q \in CallRecord, NEW k \in CallRecord, NEW D, NEW r, NEW ks, NEW ms, NEW gs, NEW hs,
           UserStage(q, D, r, ks, ms, gs), q.pc = "ungrant", Moved(k, q, "done"),
           \A i \in DOMAIN hs : hs[i].status # "ACTIVE"
    PROVE  UserStage(k, D, r, ks, ms, hs)
BY DEF UserStage, ReadStage, AddStage, RecomputeStage, AssignStage, AccessStage,
       RemoveStage, RevokeStage, Moved, Before

\* The calls that concern no one user: only the refresh of a tick has a stage.
LEMMA OtherStage ==
    ASSUME NEW k \in CallRecord, k.op \in {"updateModules", "tick"}, k.pc # "rewrite",
           NEW D, NEW r, NEW ks, NEW ms, NEW gs
    PROVE  UserStage(k, D, r, ks, ms, gs)
BY DEF UserStage, ReadStage, AddStage, RecomputeStage, AssignStage, AccessStage,
       RemoveStage, RevokeStage
\* At these steps a call is no tick and concerns one user.
UserPcs == {"add", "addTimed", "read", "set", "modules", "grant", "newGrant", "pull", "reread",
            "regrant", "clear", "ungrant"}

LEMMA UserCall ==
    ASSUME NEW q \in CallRecord, Stage(q), q.pc \in UserPcs
    PROVE  q.op \notin {"updateModules", "tick"}
BY DEF Stage, TenantStage, TickStage, UserPcs

\* A call that is alone goes on; the others, if any, stay idle.
LEMMA OneMoves ==
    ASSUME TypeOK, QuietInv, NEW c \in Calls, NEW k \in CallRecord,
           call' = [call EXCEPT ![c] = k], call[c].pc # "idle", k.alone = call[c].alone,
           call[c].alone => Stage(k)'
    PROVE  QuietInv'
<1>1. call'[c] = k /\ \A d \in Calls : d # c => call'[d] = call[d]
  BY DEF TypeOK
<1>2. \A d \in Calls : d # c => ~call[d].alone
  BY DEF QuietInv, Idle
<1>3. call[c].alone => \A d \in Calls : d # c => call[d].pc = "idle"
  BY DEF QuietInv, Idle
<1>4. ASSUME NEW e \in Calls, call'[e].alone
      PROVE  (\A d \in Calls : d # e => call'[d].pc = "idle") /\ Stage(call[e])'
  <2>1. e = c /\ call[c].alone
    BY <1>1, <1>2, <1>4
  <2>2. Stage(k)' /\ call'[e] = k
    BY <1>1, <2>1
  <2>3. Stage(call[e])'
    BY <2>2 DEF Stage
  <2> QED BY <1>1, <1>3, <2>1, <2>3
<1> QED BY <1>4 DEF QuietInv, Idle

LEMMA UserMoves ==
    ASSUME NEW q \in CallRecord, NEW k \in CallRecord, NEW pc, Moved(k, q, pc),
           q.op \notin {"updateModules", "tick"},
           UserStage(k, doc', roles'[q.user], keys'[q.user], mods'[q.user], grants'[q.user])
    PROVE  Stage(k)'
<1>1. k.op \notin {"updateModules", "tick"} /\ k.user = q.user
  BY DEF Moved
<1>2. TenantStage(k, roles', keys', ent') /\ TickStage(k, roles', win')
  BY <1>1 DEF TenantStage, TickStage
<1> QED BY <1>1, <1>2 DEF Stage

LEMMA GotoMoves ==
    ASSUME TypeOK, NEW c \in Calls, NEW pc \in Pcs, Goto(c, pc)
    PROVE  \E k \in CallRecord :
              /\ call' = [call EXCEPT ![c] = k] /\ Moved(k, call[c], pc)
              /\ k.merged = call[c].merged /\ k.gotKeys = call[c].gotKeys
              /\ k.gotRoles = call[c].gotRoles
<1>1. PICK q \in CallRecord : q = call[c]
  BY DEF TypeOK
<1>2. PICK k : k = [q EXCEPT !.pc = pc]
  OBVIOUS
<1>3. k \in CallRecord /\ Moved(k, q, pc)
      /\ k.merged = q.merged /\ k.gotKeys = q.gotKeys /\ k.gotRoles = q.gotRoles
  BY <1>2 DEF CallRecord, Moved
<1>4. call' = [call EXCEPT ![c] = k]
  BY <1>1, <1>2 DEF Goto
<1> QED BY <1>1, <1>3, <1>4

\* A step that only moves on, after a write to the user.
LEMMA UserGoto ==
    ASSUME TypeOK, QuietInv, NEW c \in Calls, NEW pc \in Pcs, Goto(c, pc),
           call[c].pc \in UserPcs, NEW u, u = call[c].user,
           NEW r, NEW ks, NEW ms, NEW gs,
           r = roles'[u], ks = keys'[u], ms = mods'[u], gs = grants'[u],
           \A k \in CallRecord :
              /\ Stage(call[c]) /\ Moved(k, call[c], pc)
              /\ k.merged = call[c].merged /\ k.gotKeys = call[c].gotKeys
              => UserStage(k, doc', r, ks, ms, gs)
    PROVE  QuietInv'
<1>1. PICK k \in CallRecord :
        /\ call' = [call EXCEPT ![c] = k] /\ Moved(k, call[c], pc)
        /\ k.merged = call[c].merged /\ k.gotKeys = call[c].gotKeys
  BY GotoMoves
<1>2. call[c] \in CallRecord /\ call[c].pc # "idle" /\ k.alone = call[c].alone
  BY <1>1 DEF TypeOK, UserPcs, Moved
<1>3. ASSUME call[c].alone PROVE Stage(k)'
  <2>1. Stage(call[c])
    BY <1>3 DEF QuietInv
  <2>2. UserStage(k, doc', r, ks, ms, gs)
    BY <1>1, <2>1
  <2> QED BY <1>1, <1>2, <2>1, <2>2, UserCall, UserMoves
<1> QED BY <1>1, <1>2, <1>3, OneMoves

LEMMA AddRolesQuiet ==
    ASSUME TypeOK, QuietInv, NEW c \in Calls, AddRoles(c) PROVE QuietInv'
<1>1. PICK q \in CallRecord : q = call[c]
  BY DEF TypeOK
<1>2. /\ q.user \in Users /\ q.pc \in {"add", "addTimed"} /\ "refresh" \in Pcs
      /\ roles'[q.user] = roles[q.user] \cup q.roles
      /\ keys' = keys /\ mods' = mods /\ doc' = doc /\ grants' = grants
      /\ Goto(c, "refresh")
  BY <1>1 DEF AddRoles, TypeOK, CallRecord, Pcs
<1>3. ASSUME NEW k \in CallRecord, Stage(q), Moved(k, q, "refresh")
      PROVE  UserStage(k, doc', roles'[q.user], keys'[q.user], mods'[q.user], grants'[q.user])
  BY <1>2, <1>3, AddRolesStage DEF Stage
<1>4. PICK r : r = roles'[q.user]
  OBVIOUS
<1>5. \A k \in CallRecord : Stage(q) /\ Moved(k, q, "refresh")
        => UserStage(k, doc', r, keys'[q.user], mods'[q.user], grants'[q.user])
  BY <1>3, <1>4
<1>6. Goto(c, "refresh") /\ "refresh" \in Pcs /\ q.pc \in UserPcs
  BY <1>2 DEF UserPcs
<1> QED BY <1>1, <1>4, <1>5, <1>6, UserGoto

LEMMA SetRolesQuiet ==
    ASSUME TypeOK, QuietInv, NEW c \in Calls, SetRoles(c) PROVE QuietInv'
<1>1. PICK q \in CallRecord : q = call[c]
  BY DEF TypeOK
<1>p. PICK pc \in Pcs : pc = IF q.timed THEN "done" ELSE "refresh"
  BY DEF Pcs
<1>2. /\ q.user \in Users /\ q.pc = "set"
      /\ roles'[q.user] = q.merged /\ keys'[q.user] = q.gotKeys
      /\ mods'[q.user] = ModulesOf(q.gotKeys)
      /\ doc' = doc /\ grants' = grants
      /\ Goto(c, pc)
  BY <1>1, <1>p DEF SetRoles, TypeOK, CallRecord
<1>3. ASSUME NEW k \in CallRecord, Stage(q), Moved(k, q, pc), k.merged = q.merged
      PROVE  UserStage(k, doc', roles'[q.user], keys'[q.user], mods'[q.user], grants'[q.user])
  BY <1>p, <1>2, <1>3, SetRolesStage DEF Stage
<1> QED BY <1>1, <1>2, <1>3, UserGoto DEF UserPcs

LEMMA SetModulesQuiet ==
    ASSUME TypeOK, QuietInv, NEW c \in Calls, SetModules(c) PROVE QuietInv'
<1>1. PICK q \in CallRecord : q = call[c]
  BY DEF TypeOK
<1>2. /\ q.user \in Users /\ q.pc = "modules" /\ "grant" \in Pcs
      /\ mods'[q.user] = ModulesOf(q.gotKeys)
      /\ roles' = roles /\ keys' = keys /\ doc' = doc /\ grants' = grants
      /\ Goto(c, "grant")
  BY <1>1 DEF SetModules, TypeOK, CallRecord, Pcs
<1>3. ASSUME NEW k \in CallRecord, Stage(q), Moved(k, q, "grant"), k.merged = q.merged,
             k.gotKeys = q.gotKeys
      PROVE  UserStage(k, doc', roles'[q.user], keys'[q.user], mods'[q.user], grants'[q.user])
  BY <1>2, <1>3, SetModulesStage DEF Stage
<1> QED BY <1>1, <1>2, <1>3, UserGoto DEF UserPcs

LEMMA PullRolesQuiet ==
    ASSUME TypeOK, QuietInv, NEW c \in Calls, PullRoles(c) PROVE QuietInv'
<1>1. PICK q \in CallRecord : q = call[c]
  BY DEF TypeOK
<1>2. /\ q.user \in Users /\ q.pc = "pull" /\ "refresh" \in Pcs
      /\ roles'[q.user] = roles[q.user] \ q.roles
      /\ keys' = keys /\ mods' = mods /\ doc' = doc /\ grants' = grants
      /\ Goto(c, "refresh")
  BY <1>1 DEF PullRoles, TypeOK, CallRecord, Pcs
<1>3. ASSUME NEW k \in CallRecord, Stage(q), Moved(k, q, "refresh")
      PROVE  UserStage(k, doc', roles'[q.user], keys'[q.user], mods'[q.user], grants'[q.user])
  BY <1>2, <1>3, PullRolesStage DEF Stage
<1>4. PICK r : r = roles'[q.user]
  OBVIOUS
<1>5. \A k \in CallRecord : Stage(q) /\ Moved(k, q, "refresh")
        => UserStage(k, doc', r, keys'[q.user], mods'[q.user], grants'[q.user])
  BY <1>3, <1>4
<1>6. Goto(c, "refresh") /\ "refresh" \in Pcs /\ q.pc \in UserPcs
  BY <1>2 DEF UserPcs
<1> QED BY <1>1, <1>4, <1>5, <1>6, UserGoto

LEMMA ClearUserQuiet ==
    ASSUME TypeOK, QuietInv, NEW c \in Calls, ClearUser(c) PROVE QuietInv'
<1>1. PICK q \in CallRecord : q = call[c]
  BY DEF TypeOK
<1>2. /\ q.user \in Users /\ q.pc = "clear" /\ "ungrant" \in Pcs
      /\ roles'[q.user] = {} /\ keys'[q.user] = {} /\ mods'[q.user] = {}
      /\ doc' = doc /\ grants' = grants
      /\ Goto(c, "ungrant")
  BY <1>1 DEF ClearUser, TypeOK, CallRecord, Pcs
<1>3. ASSUME NEW k \in CallRecord, Stage(q), Moved(k, q, "ungrant")
      PROVE  UserStage(k, doc', roles'[q.user], keys'[q.user], mods'[q.user], grants'[q.user])
  BY <1>2, <1>3, ClearStage DEF Stage
<1> QED BY <1>1, <1>2, <1>3, UserGoto DEF UserPcs

LEMMA UpsertGrantQuiet ==
    ASSUME TypeOK, QuietInv, NEW c \in Calls, UpsertGrant(c) PROVE QuietInv'
<1>1. PICK q \in CallRecord : q = call[c]
  BY DEF TypeOK
<1>2. /\ q.user \in Users /\ q.pc = "grant" /\ "done" \in Pcs
      /\ roles' = roles /\ keys' = keys /\ mods' = mods /\ doc' = doc
      /\ Goto(c, "done")
  BY <1>1 DEF UpsertGrant, TypeOK, CallRecord, Pcs, userVars
<1>g. \E i \in DOMAIN grants'[q.user] : grants'[q.user][i] = Grant(q.merged)
  <2>1. PICK g : g = Grant(q.merged)
    OBVIOUS
  <2>2. grants \in [Users -> Seq(Assignments)] /\ grants[q.user] \in Seq(Assignments)
    BY <1>2 DEF TypeOK
  <2>3. \/ grants' = [grants EXCEPT ![q.user] = <<g>>]
        \/ \E i \in DOMAIN grants[q.user] :
              grants' = [grants EXCEPT ![q.user] = [grants[q.user] EXCEPT ![i] = g]]
    BY <1>1, <2>1 DEF UpsertGrant
  <2>4. CASE grants' = [grants EXCEPT ![q.user] = <<g>>]
    <3>1. grants'[q.user] = <<g>>
      BY <1>2, <2>2, <2>4
    <3>2. 1 \in DOMAIN <<g>> /\ <<g>>[1] = g
      OBVIOUS
    <3> QED BY <2>1, <3>1, <3>2
  <2>5. ASSUME NEW i \in DOMAIN grants[q.user],
               grants' = [grants EXCEPT ![q.user] = [grants[q.user] EXCEPT ![i] = g]]
        PROVE  i \in DOMAIN grants'[q.user] /\ grants'[q.user][i] = g
    <3>1. grants'[q.user] = [grants[q.user] EXCEPT ![i] = g]
      BY <1>2, <2>2, <2>5
    <3> QED BY <3>1, <2>2, <2>5
  <2> QED BY <2>1, <2>3, <2>4, <2>5
<1>3. ASSUME NEW k \in CallRecord, Stage(q), Moved(k, q, "done"), k.merged = q.merged
      PROVE  UserStage(k, doc', roles'[q.user], keys'[q.user], mods'[q.user], grants'[q.user])
  BY <1>2, <1>3, <1>g, UpsertGrantStage DEF Stage
<1> QED BY <1>1, <1>2, <1>3, UserGoto DEF UserPcs

LEMMA CreateGrantQuiet ==
    ASSUME TypeOK, QuietInv, NEW c \in Calls, CreateGrant(c) PROVE QuietInv'
<1>1. PICK q \in CallRecord : q = call[c]
  BY DEF TypeOK
<1>2. /\ q.user \in Users /\ q.pc = "newGrant" /\ "addTimed" \in Pcs
      /\ roles' = roles /\ keys' = keys /\ mods' = mods /\ doc' = doc
      /\ Goto(c, "addTimed")
  BY <1>1 DEF CreateGrant, TypeOK, CallRecord, Pcs, userVars
<1>g. PICK hs : hs = grants'[q.user]
  OBVIOUS
<1>h. Len(hs) \in DOMAIN hs /\ hs[Len(hs)] = Grant(q.roles)
  <2>1. PICK g : g = Grant(q.roles)
    OBVIOUS
  <2>2. PICK gs \in Seq(Assignments) : gs = grants[q.user]
    BY <1>2 DEF TypeOK
  <2>3. g \in Assignments
    BY <2>1 DEF Grant, Assignments, CallRecord
  <2>4. hs = Append(gs, g)
    BY <1>1, <1>2, <1>g, <2>1, <2>2 DEF CreateGrant, TypeOK
  <2>5. Len(hs) \in DOMAIN hs /\ hs[Len(hs)] = g
    BY <2>3, <2>4
  <2> QED BY <2>1, <2>5
<1>3. ASSUME NEW k \in CallRecord, Stage(q), Moved(k, q, "addTimed")
      PROVE  UserStage(k, doc', roles'[q.user], keys'[q.user], mods'[q.user], hs)
  BY <1>2, <1>3, <1>h, CreateGrantStage DEF Stage
<1> QED BY <1>1, <1>2, <1>g, <1>3, UserGoto DEF UserPcs

LEMMA CopyToGrantsQuiet ==
    ASSUME TypeOK, QuietInv, NEW c \in Calls, CopyToGrants(c) PROVE QuietInv'
<1>1. PICK q \in CallRecord : q = call[c]
  BY DEF TypeOK
<1>2. /\ q.user \in Users /\ q.pc = "regrant" /\ "done" \in Pcs
      /\ roles' = roles /\ keys' = keys /\ mods' = mods /\ doc' = doc
      /\ Goto(c, "done")
  BY <1>1 DEF CopyToGrants, TypeOK, CallRecord, Pcs, userVars
<1>g. PICK hs : hs = grants'[q.user]
  OBVIOUS
<1>h. \A i \in DOMAIN hs : hs[i].status = "ACTIVE" => hs[i].roles = q.merged
  <2>1. PICK gs : gs = grants[q.user]
    OBVIOUS
  <2>2. hs = [i \in DOMAIN gs |-> IF gs[i].status = "ACTIVE" THEN Grant(q.merged) ELSE gs[i]]
    BY <1>1, <1>2, <1>g, <2>1 DEF CopyToGrants, TypeOK
  <2> QED BY <2>2 DEF Grant
<1>3. ASSUME NEW k \in CallRecord, Stage(q), Moved(k, q, "done")
      PROVE  UserStage(k, doc', roles'[q.user], keys'[q.user], mods'[q.user], hs)
  BY <1>2, <1>3, <1>h, CopyStage DEF Stage
<1> QED BY <1>1, <1>2, <1>g, <1>3, UserGoto DEF UserPcs

LEMMA RevokeGrantsQuiet ==
    ASSUME TypeOK, QuietInv, NEW c \in Calls, RevokeGrants(c) PROVE QuietInv'
<1>1. PICK q \in CallRecord : q = call[c]
  BY DEF TypeOK
<1>2. /\ q.user \in Users /\ q.pc = "ungrant" /\ "done" \in Pcs
      /\ roles' = roles /\ keys' = keys /\ mods' = mods /\ doc' = doc
      /\ Goto(c, "done")
  BY <1>1 DEF RevokeGrants, TypeOK, CallRecord, Pcs, userVars
<1>g. PICK hs : hs = grants'[q.user]
  OBVIOUS
<1>h. \A i \in DOMAIN hs : hs[i].status # "ACTIVE"
  <2>1. PICK gs \in Seq(Assignments) : gs = grants[q.user]
    BY <1>2 DEF TypeOK
  <2>2. hs = [i \in DOMAIN gs |-> [gs[i] EXCEPT !.status = "REVOKED"]]
    BY <1>1, <1>2, <1>g, <2>1 DEF RevokeGrants, TypeOK
  <2>3. \A g \in Assignments : [g EXCEPT !.status = "REVOKED"].status = "REVOKED"
    BY DEF Assignments
  <2> QED BY <2>1, <2>2, <2>3
<1>3. ASSUME NEW k \in CallRecord, Stage(q), Moved(k, q, "done")
      PROVE  UserStage(k, doc', roles'[q.user], keys'[q.user], mods'[q.user], hs)
  BY <1>2, <1>3, <1>h, UngrantStage DEF Stage
<1> QED BY <1>1, <1>2, <1>g, <1>3, UserGoto DEF UserPcs

-----------------------------------------------------------------------------
(* Steps that store what they read in the record of the call.              *)

LEMMA ReadUserQuiet ==
    ASSUME TypeOK, QuietInv, NEW c \in Calls, NEW pc \in Pcs \ {"idle"},
           NEW k, k = [call[c] EXCEPT !.pc = pc,
                           !.merged = roles[call[c].user] \cup call[c].roles,
                           !.gotKeys = AssignedKeys(roles[call[c].user] \cup call[c].roles,
                                                    call[c].scope)],
           call' = [call EXCEPT ![c] = k], call[c].pc = "read",
           pc = CASE call[c].op = "assign" -> "set"
                  [] call[c].op = "assignAccess" -> "newGrant"
                  [] call[c].op = "removeRoles" -> "pull"
                  [] OTHER -> "clear",
           UNCHANGED <<userVars, doc, grants, win, ent>>
    PROVE  QuietInv'
<1>1. PICK q \in CallRecord : q = call[c]
  BY DEF TypeOK
<1>2. PICK rs : rs = roles[q.user] \cup q.roles
  OBVIOUS
<1>3. rs \in SUBSET Roles /\ q.scope \in Scopes
  BY <1>2 DEF TypeOK, CallRecord
<1>4. PICK ks : ks = AssignedKeys(rs, q.scope)
  OBVIOUS
<1>5. ks \in SUBSET AllKeys /\ ks = Assigned(doc, rs, q.scope)
  <2>1. q.user \in Users /\ {} \in SUBSET AllKeys
    BY Fields
  <2>2. ks \in SUBSET AllKeys
    BY <1>3, <1>4, <2>1, KeysType
  <2> QED BY <1>3, <1>4, <2>2, RefreshedIs
<1>6. k = [q EXCEPT !.pc = pc, !.merged = rs, !.gotKeys = ks]
  BY <1>1, <1>2, <1>4
<1>q. q \in CallRecord /\ pc \in Pcs
  OBVIOUS
<1>7. k \in CallRecord
  BY ONLY <1>3, <1>5, <1>6, <1>q, RecordReads
<1>8. Moved(k, q, pc) /\ k.merged = rs /\ k.gotKeys = ks
  BY <1>6 DEF CallRecord, Moved
<1>9. ASSUME q.alone PROVE Stage(k)'
  <2>1. Stage(q)
    BY <1>1, <1>9 DEF QuietInv
  <2>2. q.op \notin {"updateModules", "tick"}
    BY <1>1, <2>1, UserCall DEF UserPcs
  <2>3. UserStage(q, doc, roles[q.user], keys[q.user], mods[q.user], grants[q.user])
    BY <2>1 DEF Stage
  <2>4. pc = CASE q.op = "assign" -> "set"
               [] q.op = "assignAccess" -> "newGrant"
               [] q.op = "removeRoles" -> "pull"
               [] OTHER -> "clear"
    BY <1>1
  <2>5. UserStage(k, doc, roles[q.user], keys[q.user], mods[q.user], grants[q.user])
    BY <1>1, <1>2, <1>5, <1>7, <1>8, <2>2, <2>3, <2>4, ReadUserStage
  <2>6. UserStage(k, doc', roles'[q.user], keys'[q.user], mods'[q.user], grants'[q.user])
    BY <2>5 DEF userVars
  <2> QED BY <1>7, <1>8, <2>2, <2>6, UserMoves
<1>10. k.alone = q.alone /\ q.pc = "read"
  BY <1>1, <1>8 DEF Moved
<1> QED BY <1>1, <1>7, <1>9, <1>10, OneMoves

LEMMA RereadQuiet ==
    ASSUME TypeOK, QuietInv, NEW c \in Calls, RereadUser(c) PROVE QuietInv'
<1>1. PICK q \in CallRecord : q = call[c]
  BY DEF TypeOK
<1>2. roles[q.user] \in SUBSET Roles /\ "regrant" \in Pcs
  BY DEF TypeOK, CallRecord, Pcs
<1>3. PICK k : k = [q EXCEPT !.pc = "regrant", !.merged = roles[q.user]]
  OBVIOUS
<1>4. k \in CallRecord
  <2>1. {} \in SUBSET AllKeys
    OBVIOUS
  <2> QED BY <1>2, <1>3, <2>1, RecordReads
<1>5. Moved(k, q, "regrant") /\ k.merged = roles[q.user]
  BY <1>3 DEF CallRecord, Moved
<1>6. /\ call' = [call EXCEPT ![c] = k] /\ q.pc = "reread"
      /\ UNCHANGED <<roles, keys, mods, doc, grants, win, ent>>
  BY <1>1, <1>3 DEF RereadUser, userVars
<1>7. ASSUME q.alone PROVE Stage(k)'
  <2>1. Stage(q)
    BY <1>1, <1>7 DEF QuietInv
  <2>2. q.op \notin {"updateModules", "tick"}
    BY <1>6, <2>1, UserCall DEF UserPcs
  <2>3. UserStage(k, doc, roles[q.user], keys[q.user], mods[q.user], grants[q.user])
    BY <1>4, <1>5, <1>6, <2>1, RereadStage DEF Stage
  <2>4. UserStage(k, doc', roles'[q.user], keys'[q.user], mods'[q.user], grants'[q.user])
    BY <1>6, <2>3
  <2> QED BY <1>4, <1>5, <2>2, <2>4, UserMoves
<1>8. k.alone = q.alone
  BY <1>5 DEF Moved
<1> QED BY <1>1, <1>4, <1>6, <1>7, <1>8, OneMoves

\* A step of the two refreshes that leaves the roles and the windows alone
\* keeps the stage of a tick.
LEMMA TickRefreshes ==
    ASSUME NEW q \in CallRecord, NEW k \in CallRecord, NEW pc, Moved(k, q, pc),
           q.pc \in {"refresh", "rewrite"}, NEW R, NEW W, TickStage(q, R, W),
           pc = "rewrite" \/ (q.pc = "rewrite" /\ pc = IF q.over THEN "take" ELSE "give")
                          \/ q.op # "tick"
    PROVE  TickStage(k, R, W)
BY DEF TickStage, Moved, Awaits, DueAt, OverAt

LEMMA RefreshReadQuiet ==
    ASSUME TypeOK, QuietInv, NEW c \in Calls, RefreshRead(c) PROVE QuietInv'
<1>1. PICK q \in CallRecord : q = call[c]
  BY DEF TypeOK
<1>2. /\ q.user \in Users /\ roles[q.user] \in SUBSET Roles /\ keys[q.user] \in SUBSET AllKeys
      /\ "rewrite" \in Pcs
  BY DEF TypeOK, CallRecord, Pcs
<1>3. PICK ks : ks = RefreshedKeys(q.user, roles[q.user], keys[q.user])
  OBVIOUS
<1>4. ks \in SUBSET AllKeys /\ ks = Refreshed(doc, q.user, roles[q.user], keys[q.user])
  <2>1. q.scope \in Scopes
    BY Fields
  <2> QED BY <1>2, <1>3, <2>1, KeysType, RefreshedIs
<1>5. PICK k : k = [q EXCEPT !.pc = "rewrite", !.gotRoles = roles[q.user], !.gotKeys = ks]
  OBVIOUS
<1>6. k \in CallRecord
  BY <1>2, <1>4, <1>5, RecordReads
<1>7. /\ Moved(k, q, "rewrite") /\ k.merged = q.merged /\ k.gotRoles = roles[q.user]
      /\ k.gotKeys = Refreshed(doc, q.user, roles[q.user], keys[q.user])
  BY <1>4, <1>5 DEF CallRecord, Moved
<1>8. /\ call' = [call EXCEPT ![c] = k] /\ q.pc = "refresh"
      /\ UNCHANGED <<roles, keys, mods, doc, grants, win, ent>>
  BY <1>1, <1>3, <1>5 DEF RefreshRead, userVars
<1>9. ASSUME q.alone PROVE Stage(k)'
  <2>1. Stage(q)
    BY <1>1, <1>9 DEF QuietInv
  <2>2. UserStage(k, doc, roles[q.user], keys[q.user], mods[q.user], grants[q.user])
    BY <1>6, <1>7, <1>8, <2>1, RefreshReadStage DEF Stage
  <2>3. TickStage(k, roles, win)
    BY <1>6, <1>7, <1>8, <2>1, TickRefreshes DEF Stage
  <2>4. TenantStage(k, roles, keys, ent)
    BY <1>7, <1>8, <2>1 DEF Stage, TenantStage, Moved
  <2>5. k.user = q.user
    BY <1>7 DEF Moved
  <2> QED BY <1>8, <2>2, <2>3, <2>4, <2>5 DEF Stage
<1>10. k.alone = q.alone
  BY <1>7 DEF Moved
<1> QED BY <1>1, <1>6, <1>8, <1>9, <1>10, OneMoves

LEMMA RefreshWriteQuiet ==
    ASSUME TypeOK, QuietInv, NEW c \in Calls, RefreshWrite(c) PROVE QuietInv'
<1>1. PICK q \in CallRecord : q = call[c]
  BY DEF TypeOK
<1>2. q.user \in Users /\ q.gotKeys \in SUBSET AllKeys
  BY Fields
<1>3. PICK pc \in Pcs : pc = AfterRefresh(c)
  BY DEF AfterRefresh, Pcs
<1>4. pc = CASE q.op = "assign" -> "modules"
             [] q.op = "removeRoles" -> "reread"
             [] q.op = "tick" -> IF q.over THEN "take" ELSE "give"
             [] OTHER -> "done"
  BY <1>1, <1>3 DEF AfterRefresh
<1>5. PICK ks : ks = IF q.op = "assign" THEN q.gotKeys ELSE {}
  OBVIOUS
<1>6. ks \in SUBSET AllKeys /\ (q.op = "assign" => ks = q.gotKeys)
  BY <1>2, <1>5
<1>7. PICK k : k = [q EXCEPT !.pc = pc, !.gotRoles = {}, !.gotKeys = ks]
  OBVIOUS
<1>8. k \in CallRecord
  BY <1>6, <1>7, RecordReads
<1>9. Moved(k, q, pc) /\ k.merged = q.merged /\ k.gotKeys = ks
  BY <1>7 DEF CallRecord, Moved
<1>10. /\ call' = [call EXCEPT ![c] = k] /\ q.pc = "rewrite"
       /\ UNCHANGED <<doc, grants, win, ent>>
       /\ roles' = [roles EXCEPT ![q.user] = q.gotRoles]
       /\ keys' = [keys EXCEPT ![q.user] = q.gotKeys]
       /\ mods' = [mods EXCEPT ![q.user] = CachedModules(q.gotKeys)]
  BY <1>1, <1>3, <1>5, <1>7 DEF RefreshWrite
<1>11. ASSUME q.alone PROVE Stage(k)'
  <2>1. Stage(q)
    BY <1>1, <1>11 DEF QuietInv
  <2>2. q.gotRoles = roles[q.user]
    BY <1>10, <2>1 DEF Stage, UserStage, ReadStage
  <2>3. roles' = roles
    BY <1>2, <1>10, <2>2 DEF TypeOK
  <2>4. keys'[q.user] = q.gotKeys /\ mods'[q.user] = CachedModules(q.gotKeys)
    BY <1>2, <1>10 DEF TypeOK
  <2>5. UserStage(q, doc, roles[q.user], keys[q.user], mods[q.user], grants[q.user])
    BY <2>1 DEF Stage
  <2>6. UserStage(k, doc, roles[q.user], q.gotKeys, CachedModules(q.gotKeys), grants[q.user])
    BY <1>4, <1>6, <1>8, <1>9, <1>10, <2>5, RefreshWriteStage
  <2>7. TickStage(k, roles, win)
    BY <1>4, <1>8, <1>9, <1>10, <2>1, TickRefreshes DEF Stage
  <2>8. q.op # "updateModules"
    BY <1>10, <2>1 DEF Stage, TenantStage
  <2>9. TenantStage(k, roles', keys', ent') /\ k.user = q.user
    BY <1>9, <2>8 DEF TenantStage, Moved
  <2> QED BY <1>10, <2>3, <2>4, <2>6, <2>7, <2>9 DEF Stage
<1>12. k.alone = q.alone
  BY <1>9 DEF Moved
<1> QED BY <1>1, <1>8, <1>10, <1>11, <1>12, OneMoves

-----------------------------------------------------------------------------
(* The entitlement of a tenant.                                            *)

LEMMA TenantCall ==
    ASSUME NEW q \in CallRecord, Stage(q), q.pc \in {"tenant", "sync"}
    PROVE  q.op = "updateModules"
BY DEF Stage, UserStage, AddStage, RecomputeStage, AssignStage, AccessStage, RemoveStage,
       RevokeStage, TickStage, CallRecord, Ops

LEMMA TenantMoves ==
    ASSUME TypeOK, QuietInv, NEW c \in Calls, NEW pc \in Pcs \ {"rewrite"}, Goto(c, pc),
           call[c].pc \in {"tenant", "sync"},
           \A k \in CallRecord : Stage(call[c]) /\ Moved(k, call[c], pc)
                                    => TenantStage(k, roles', keys', ent')
    PROVE  QuietInv'
<1>1. PICK q \in CallRecord : q = call[c]
  BY DEF TypeOK
<1>2. PICK k \in CallRecord : call' = [call EXCEPT ![c] = k] /\ Moved(k, q, pc)
  BY <1>1, GotoMoves
<1>3. ASSUME q.alone PROVE Stage(k)'
  <2>1. Stage(q)
    BY <1>1, <1>3 DEF QuietInv
  <2>2. k.op = "updateModules" /\ k.pc # "rewrite"
    BY <1>1, <1>2, <2>1, TenantCall DEF Moved
  <2>3. UserStage(k, doc', roles'[k.user], keys'[k.user], mods'[k.user], grants'[k.user])
    BY <2>2, OtherStage
  <2>4. TickStage(k, roles', win')
    BY <2>2 DEF TickStage
  <2>5. TenantStage(k, roles', keys', ent')
    BY <1>1, <1>2, <2>1
  <2> QED BY <2>3, <2>4, <2>5 DEF Stage
<1>4. k.alone = q.alone /\ q.pc # "idle"
  BY <1>1, <1>2 DEF Moved
<1> QED BY <1>1, <1>2, <1>3, <1>4, OneMoves

LEMMA WriteTenantQuiet ==
    ASSUME TypeOK, QuietInv, NEW c \in Calls, WriteTenant(c) PROVE QuietInv'
<1>1. PICK q \in CallRecord : q = call[c]
  BY DEF TypeOK
<1>2. /\ q.scope \in Scopes /\ q.pc = "tenant" /\ "sync" \in Pcs \ {"rewrite"}
      /\ ent'[q.scope] = q.perms /\ Goto(c, "sync")
  BY <1>1 DEF WriteTenant, TypeOK, CallRecord, Pcs
<1>3. ASSUME NEW k \in CallRecord, Moved(k, q, "sync")
      PROVE  TenantStage(k, roles', keys', ent')
  BY <1>2, <1>3 DEF TenantStage, Moved
<1> QED BY <1>1, <1>2, <1>3, TenantMoves

LEMMA SyncAdminsQuiet ==
    ASSUME TypeOK, QuietInv, NEW c \in Calls, SyncAdmins(c) PROVE QuietInv'
<1>1. PICK q \in CallRecord : q = call[c]
  BY DEF TypeOK
<1>2. /\ q.pc = "sync" /\ "done" \in Pcs \ {"rewrite"}
      /\ Goto(c, "done") /\ roles' = roles /\ ent' = ent
  BY <1>1 DEF SyncAdmins, Pcs
<1>3. \A u \in Users : ScopeOf[u] = q.scope /\ AdminRole \in roles[u]
                          => keys'[u] = q.perms \cup {AssignKey}
  BY <1>1 DEF SyncAdmins
<1>4. ASSUME NEW k \in CallRecord, Stage(q), Moved(k, q, "done")
      PROVE  TenantStage(k, roles', keys', ent')
  <2>1. q.op = "updateModules"
    BY <1>2, <1>4, TenantCall
  <2>2. ent[q.scope] = q.perms
    BY <1>2, <1>4, <2>1 DEF Stage, TenantStage
  <2> QED BY <1>2, <1>3, <1>4, <2>2 DEF TenantStage, Moved
<1> QED BY <1>1, <1>2, <1>4, TenantMoves

-----------------------------------------------------------------------------
(* The expiry job.                                                         *)

LEMMA TickCall ==
    ASSUME NEW q \in CallRecord, Stage(q),
           q.pc \in {"findDue", "give", "markActive", "take", "markExpired"}
    PROVE  q.op = "tick"
BY DEF Stage, UserStage, AddStage, RecomputeStage, AssignStage, AccessStage, RemoveStage,
       RevokeStage, TenantStage, CallRecord, Ops

LEMMA TickMoves ==
    ASSUME TypeOK, QuietInv, NEW c \in Calls, NEW k \in CallRecord,
           call' = [call EXCEPT ![c] = k], k.pc # "rewrite", k.alone = call[c].alone,
           k.op = call[c].op,
           call[c].pc \in {"findDue", "give", "markActive", "take", "markExpired"},
           call[c].op = "tick" /\ TickStage(call[c], roles, win) => TickStage(k, roles', win')
    PROVE  QuietInv'
<1>1. PICK q \in CallRecord : q = call[c]
  BY DEF TypeOK
<1>2. ASSUME q.alone PROVE Stage(k)'
  <2>1. Stage(q)
    BY <1>1, <1>2 DEF QuietInv
  <2>2. q.op = "tick" /\ k.op = "tick"
    BY <1>1, <2>1, TickCall
  <2>3. UserStage(k, doc', roles'[k.user], keys'[k.user], mods'[k.user], grants'[k.user])
    BY <2>2, OtherStage
  <2>4. TickStage(k, roles', win')
    BY <1>1, <2>1, <2>2 DEF Stage
  <2>5. TenantStage(k, roles', keys', ent')
    BY <2>2 DEF TenantStage
  <2> QED BY <2>3, <2>4, <2>5 DEF Stage
<1>3. q.pc # "idle"
  BY <1>1
<1> QED BY <1>1, <1>2, <1>3, OneMoves

\* Due and Over, of a call and of its record.
LEMMA DueIs ==
    ASSUME NEW c \in Calls, NEW W, NEW w
    PROVE  (Due(c, W, w) <=> DueAt(call[c], W, w)) /\ (Over(c, W, w) <=> OverAt(call[c], W, w))
BY DEF Due, DueAt, Over, OverAt

LEMMA FindDueStage ==
    ASSUME NEW q \in CallRecord, NEW k \in CallRecord, NEW R, NEW W,
           q.op = "tick", TickStage(q, R, W), q.pc = "findDue",
           k.pc = "give", k.op = q.op, k.at = q.at, k.over = q.over,
           k.todo = {WinUser[w] : w \in {v \in Windows : DueAt(q, W, v)}}
    PROVE  TickStage(k, R, W)
<1>1. \A w \in Windows : DueAt(k, W, w) => WinUser[w] \in k.todo
  BY DEF DueAt
<1> QED BY <1>1 DEF TickStage, Awaits

LEMMA GiveStage ==
    ASSUME NEW q \in CallRecord, NEW k \in CallRecord, NEW R, NEW R2, NEW W,
           q.op = "tick", TickStage(q, R, W), q.pc = "give", NEW u \in q.todo,
           k.pc = "markActive", k.op = q.op, k.at = q.at, k.over = q.over, k.user = u,
           k.todo = q.todo \ {u}
    PROVE  TickStage(k, R2, W)
<1>1. \A w : DueAt(k, W, w) <=> DueAt(q, W, w)
  BY DEF DueAt
<1> QED BY <1>1 DEF TickStage, Awaits


LEMMA MarkActiveStage ==
    ASSUME NEW q \in CallRecord, NEW k \in CallRecord, NEW R, NEW W, NEW W2,
           q.op = "tick", TickStage(q, R, W), q.pc = "markActive", Moved(k, q, "refresh"),
           \A w \in Windows :
              W2[w] = IF w \in {v \in Owned(q.user) : DueAt(q, q.gotWin, v)} THEN "ACTIVE"
                      ELSE IF w \in Owned(q.user) THEN q.gotWin[w] ELSE W[w]
    PROVE  TickStage(k, R, W2)
<1>1. k.op = "tick" /\ k.pc = "refresh" /\ ~k.over /\ k.todo = q.todo /\ k.at = q.at
      /\ k.user = q.user
  BY DEF TickStage, Moved
<1>2. ASSUME NEW w \in Windows, DueAt(k, W2, w) PROVE WinUser[w] \in k.todo
  <2>1. CASE w \in Owned(q.user)
    BY <1>1, <1>2, <2>1 DEF DueAt
  <2>2. CASE w \notin Owned(q.user)
    <3>1. DueAt(q, W, w) /\ WinUser[w] # q.user
      BY <1>1, <1>2, <2>2 DEF DueAt, Owned
    <3> QED BY <1>1, <3>1 DEF TickStage, Awaits, Moved
  <2> QED BY <2>1, <2>2
<1> QED BY <1>1, <1>2 DEF TickStage, Awaits

LEMMA FindOverStage ==
    ASSUME NEW q \in CallRecord, NEW k \in CallRecord, NEW R, NEW W,
           q.op = "tick", TickStage(q, R, W), q.pc = "give", q.todo = {},
           k.pc = "take", k.op = q.op, k.at = q.at, k.over = TRUE, k.gotWin = W,
           k.todo = {WinUser[w] : w \in {v \in Windows : OverAt(q, W, v)}}
    PROVE  TickStage(k, R, W)
<1>1. \A w \in Windows : ~DueAt(k, W, w) /\ (OverAt(k, W, w) => WinUser[w] \in k.todo)
  BY DEF TickStage, Awaits, DueAt, OverAt
<1> QED BY <1>1 DEF TickStage, Awaits

LEMMA TakeStage ==
    ASSUME NEW q \in CallRecord, NEW k \in CallRecord, NEW R, NEW R2, NEW W,
           q.op = "tick", TickStage(q, R, W), q.pc = "take", NEW u \in q.todo,
           k.pc = "markExpired", k.op = q.op, k.at = q.at, k.over = q.over, k.user = u,
           k.todo = q.todo \ {u}, k.gotWin = q.gotWin,
           NEW ws, \A w \in Owned(u) : OverAt(q, q.gotWin, w) => w \in ws,
           \A v \in Users : R2[v] = IF v = u THEN R[u] \ RolesOfWindows(ws) ELSE R[v]
    PROVE  TickStage(k, R2, W)
<1>1. \A S, w : /\ DueAt(k, S, w) <=> DueAt(q, S, w)
                /\ OverAt(k, S, w) <=> OverAt(q, S, w)
  BY DEF DueAt, OverAt
<1>2. q.over
  BY DEF TickStage
<1>3. ASSUME NEW w \in Windows, OverAt(k, k.gotWin, w), WinUser[w] \notin k.todo
      PROVE  R2[WinUser[w]] \cap WinRoles[w] = {}
  <2>1. WinUser[w] \in Users
    BY ConstantsAssumption
  <2>2. CASE WinUser[w] = u
    <3>1. WinRoles[w] \subseteq RolesOfWindows(ws)
      BY <1>1, <1>3, <2>2 DEF RolesOfWindows, Owned
    <3> QED BY <2>1, <2>2, <3>1
  <2>3. CASE WinUser[w] # u
    BY <1>1, <1>2, <1>3, <2>1, <2>3 DEF TickStage
  <2> QED BY <2>2, <2>3
<1>4. ASSUME NEW w \in Windows
      PROVE  ~DueAt(k, W, w) /\ ~DueAt(k, k.gotWin, w)
             /\ (OverAt(k, W, w) => Awaits(k, "markExpired", WinUser[w]))
  BY <1>1, <1>2 DEF TickStage, Awaits
<1> QED BY <1>2, <1>3, <1>4 DEF TickStage

LEMMA MarkExpiredStage ==
    ASSUME NEW q \in CallRecord, NEW k \in CallRecord, NEW R, NEW W, NEW W2,
           q.op = "tick", TickStage(q, R, W), q.pc = "markExpired", Moved(k, q, "refresh"),
           \A w \in Windows :
              W2[w] = IF w \in {v \in Owned(q.user) : OverAt(q, q.gotWin, v)} THEN "EXPIRED"
                      ELSE IF w \in Owned(q.user) THEN q.gotWin[w] ELSE W[w]
    PROVE  TickStage(k, R, W2)
<1>1. k.op = "tick" /\ k.pc = "refresh" /\ k.over /\ q.over /\ k.todo = q.todo /\ k.at = q.at
      /\ k.user = q.user /\ k.gotWin = q.gotWin
  BY DEF TickStage, Moved
<1>2. ASSUME NEW w \in Windows
      PROVE  ~DueAt(k, W2, w) /\ (OverAt(k, W2, w) => WinUser[w] \in k.todo)
  <2>1. CASE w \in Owned(q.user)
    <3>1. ~DueAt(q, q.gotWin, w)
      BY <1>1 DEF TickStage
    <3> QED BY <1>1, <2>1, <3>1 DEF DueAt, OverAt
  <2>2. CASE w \notin Owned(q.user)
    <3>1. W2[w] = W[w] /\ WinUser[w] # q.user
      BY <2>2 DEF Owned
    <3>2. ~DueAt(q, W, w) /\ (OverAt(q, W, w) => WinUser[w] \in q.todo)
      BY <1>1, <3>1 DEF TickStage, Awaits
    <3> QED BY <1>1, <3>1, <3>2 DEF DueAt, OverAt
  <2> QED BY <2>1, <2>2
<1>3. \A w \in Windows : /\ ~DueAt(k, k.gotWin, w)
                         /\ OverAt(k, k.gotWin, w) /\ WinUser[w] \notin k.todo =>
                               R[WinUser[w]] \cap WinRoles[w] = {}
  BY <1>1 DEF TickStage, DueAt, OverAt
<1> QED BY <1>1, <1>2, <1>3 DEF TickStage, Awaits

LEMMA EndTickStage ==
    ASSUME NEW q \in CallRecord, NEW k \in CallRecord, NEW R, NEW W,
           q.op = "tick", TickStage(q, R, W), q.pc = "take", q.todo = {}, Moved(k, q, "done")
    PROVE  TickStage(k, R, W)
BY DEF TickStage, Moved, Awaits, DueAt, OverAt

LEMMA FindDueQuiet ==
    ASSUME TypeOK, QuietInv, NEW c \in Calls, FindDue(c) PROVE QuietInv'
<1>1. PICK q \in CallRecord : q = call[c]
  BY DEF TypeOK
<1>2. PICK us : us = {WinUser[w] : w \in {v \in Windows : DueAt(q, win, v)}}
  OBVIOUS
<1>3. us \in SUBSET Users /\ win \in [Windows -> Statuses] /\ "give" \in Pcs /\ q.user \in Users
  BY <1>2, ConstantsAssumption DEF TypeOK, Pcs, CallRecord
<1>4. PICK k : k = [q EXCEPT !.pc = "give", !.gotWin = win, !.todo = us]
  OBVIOUS
<1>5. k \in CallRecord
  BY <1>3, <1>4, RecordTicks
<1>6. /\ k.pc = "give" /\ k.op = q.op /\ k.at = q.at /\ k.over = q.over /\ k.todo = us
      /\ k.alone = q.alone
  BY <1>4 DEF CallRecord
<1>7. {v \in Windows : Due(c, win, v)} = {v \in Windows : DueAt(q, win, v)}
  BY <1>1, DueIs
<1>8. /\ call' = [call EXCEPT ![c] = k] /\ q.pc = "findDue" /\ roles' = roles /\ win' = win
  BY <1>1, <1>2, <1>4, <1>7 DEF FindDue, userVars
<1>9. q.op = "tick" /\ TickStage(q, roles, win) => TickStage(k, roles', win')
  BY <1>2, <1>5, <1>6, <1>8, FindDueStage
<1> QED BY <1>1, <1>5, <1>6, <1>8, <1>9, TickMoves

LEMMA GiveRolesQuiet ==
    ASSUME TypeOK, QuietInv, NEW c \in Calls, GiveRoles(c) PROVE QuietInv'
<1>1. PICK q \in CallRecord : q = call[c]
  BY DEF TypeOK
<1>2. PICK u \in q.todo :
        call' = [call EXCEPT ![c] = [q EXCEPT !.pc = "markActive", !.user = u, !.todo = @ \ {u}]]
  BY <1>1 DEF GiveRoles
<1>3. PICK k : k = [q EXCEPT !.pc = "markActive", !.user = u, !.todo = q.todo \ {u}]
  OBVIOUS
<1>4. /\ u \in Users /\ q.todo \ {u} \in SUBSET Users /\ q.gotWin \in [Windows -> Statuses]
      /\ "markActive" \in Pcs
  BY Fields DEF Pcs
<1>5. k \in CallRecord
  BY <1>3, <1>4, RecordTicks
<1>6. /\ k.pc = "markActive" /\ k.op = q.op /\ k.at = q.at /\ k.over = q.over /\ k.user = u
      /\ k.todo = q.todo \ {u} /\ k.alone = q.alone
  BY <1>3 DEF CallRecord
<1>7. call' = [call EXCEPT ![c] = k] /\ q.pc = "give" /\ win' = win
  BY <1>1, <1>2, <1>3 DEF GiveRoles
<1>8. q.op = "tick" /\ TickStage(q, roles, win) => TickStage(k, roles', win')
  BY <1>5, <1>6, <1>7, GiveStage
<1> QED BY <1>1, <1>5, <1>6, <1>7, <1>8, TickMoves

LEMMA MarkActiveQuiet ==
    ASSUME TypeOK, QuietInv, NEW c \in Calls, MarkActive(c) PROVE QuietInv'
<1>1. PICK q \in CallRecord : q = call[c]
  BY DEF TypeOK
<1>2. PICK k \in CallRecord : call' = [call EXCEPT ![c] = k] /\ Moved(k, q, "refresh")
  BY <1>1, GotoMoves DEF MarkActive, Pcs
<1>3. k.pc = "refresh" /\ k.op = q.op /\ k.alone = q.alone
  BY <1>2 DEF Moved
<1>4. q.pc = "markActive" /\ roles' = roles
  BY <1>1 DEF MarkActive, userVars
<1>5. DueOf(c, q.user) = {v \in Owned(q.user) : DueAt(q, q.gotWin, v)}
  BY <1>1 DEF DueOf, Due, DueAt
<1>6. \A w \in Windows :
        win'[w] = IF w \in {v \in Owned(q.user) : DueAt(q, q.gotWin, v)} THEN "ACTIVE"
                  ELSE IF w \in Owned(q.user) THEN q.gotWin[w] ELSE win[w]
  BY <1>1, <1>5 DEF MarkActive
<1>7. q.op = "tick" /\ TickStage(q, roles, win) => TickStage(k, roles', win')
  BY <1>2, <1>4, <1>6, MarkActiveStage
<1> QED BY <1>1, <1>2, <1>3, <1>4, <1>7, TickMoves

LEMMA FindOverQuiet ==
    ASSUME TypeOK, QuietInv, NEW c \in Calls, FindOver(c) PROVE QuietInv'
<1>1. PICK q \in CallRecord : q = call[c]
  BY DEF TypeOK
<1>2. PICK us : us = {WinUser[w] : w \in {v \in Windows : OverAt(q, win, v)}}
  OBVIOUS
<1>3. us \in SUBSET Users /\ win \in [Windows -> Statuses] /\ "take" \in Pcs /\ q.user \in Users
  BY <1>2, ConstantsAssumption DEF TypeOK, Pcs, CallRecord
<1>4. PICK k : k = [q EXCEPT !.pc = "take", !.over = TRUE, !.gotWin = win, !.todo = us]
  OBVIOUS
<1>5. k \in CallRecord
  BY <1>3, <1>4, RecordTicks
<1>6. /\ k.pc = "take" /\ k.op = q.op /\ k.at = q.at /\ k.over = TRUE /\ k.todo = us
      /\ k.gotWin = win /\ k.alone = q.alone
  BY <1>4 DEF CallRecord
<1>7. {v \in Windows : Over(c, win, v)} = {v \in Windows : OverAt(q, win, v)}
  BY <1>1, DueIs
<1>8. /\ call' = [call EXCEPT ![c] = k] /\ q.pc = "give" /\ q.todo = {}
      /\ roles' = roles /\ win' = win
  BY <1>1, <1>2, <1>4, <1>7 DEF FindOver, userVars
<1>9. q.op = "tick" /\ TickStage(q, roles, win) => TickStage(k, roles', win')
  BY <1>2, <1>5, <1>6, <1>8, FindOverStage
<1> QED BY <1>1, <1>5, <1>6, <1>8, <1>9, TickMoves

LEMMA TakeRolesQuiet ==
    ASSUME TypeOK, QuietInv, NEW c \in Calls, TakeRoles(c) PROVE QuietInv'
<1>1. PICK q \in CallRecord : q = call[c]
  BY DEF TypeOK
<1>2. PICK u \in q.todo :
        /\ roles' = [roles EXCEPT ![u] = @ \ RolesOfWindows(OverOf(c, u))]
        /\ call' = [call EXCEPT ![c] = [q EXCEPT !.pc = "markExpired", !.user = u,
                                                !.todo = @ \ {u}]]
  BY <1>1 DEF TakeRoles
<1>3. PICK k : k = [q EXCEPT !.pc = "markExpired", !.user = u, !.todo = q.todo \ {u}]
  OBVIOUS
<1>4. /\ u \in Users /\ q.todo \ {u} \in SUBSET Users /\ q.gotWin \in [Windows -> Statuses]
      /\ "markExpired" \in Pcs
  BY Fields DEF Pcs
<1>5. k \in CallRecord
  BY <1>3, <1>4, RecordTicks
<1>6. /\ k.pc = "markExpired" /\ k.op = q.op /\ k.at = q.at /\ k.over = q.over /\ k.user = u
      /\ k.todo = q.todo \ {u} /\ k.gotWin = q.gotWin /\ k.alone = q.alone
  BY <1>3 DEF CallRecord
<1>7. call' = [call EXCEPT ![c] = k] /\ q.pc = "take" /\ win' = win
  BY <1>1, <1>2, <1>3 DEF TakeRoles
<1>8. PICK ws : ws = OverOf(c, u)
  OBVIOUS
<1>9. \A w \in Owned(u) : OverAt(q, q.gotWin, w) => w \in ws
  BY <1>1, <1>8 DEF OverOf, Over, OverAt
<1>10. \A v \in Users : roles'[v] = IF v = u THEN roles[u] \ RolesOfWindows(ws) ELSE roles[v]
  BY <1>2, <1>4, <1>8 DEF TypeOK
<1>11. ASSUME q.op = "tick", TickStage(q, roles, win) PROVE TickStage(k, roles', win')
  <2>1. PICK R2 : R2 = roles'
    OBVIOUS
  <2>2. PICK R, W : R = roles /\ W = win
    OBVIOUS
  <2>3. \A v \in Users : R2[v] = IF v = u THEN R[u] \ RolesOfWindows(ws) ELSE R[v]
    BY <1>10, <2>1, <2>2
  <2>4. TickStage(q, R, W) /\ q.pc = "take" /\ q \in CallRecord /\ u \in q.todo
    BY <1>7, <1>11, <2>2
  <2>5. TickStage(k, R2, W)
    BY ONLY <1>5, <1>6, <1>9, <1>11, <2>3, <2>4, TakeStage
  <2> QED BY <1>7, <2>1, <2>2, <2>5
<1> QED BY <1>1, <1>5, <1>6, <1>7, <1>11, TickMoves

LEMMA MarkExpiredQuiet ==
    ASSUME TypeOK, QuietInv, NEW c \in Calls, MarkExpired(c) PROVE QuietInv'
<1>1. PICK q \in CallRecord : q = call[c]
  BY DEF TypeOK
<1>2. PICK k \in CallRecord : call' = [call EXCEPT ![c] = k] /\ Moved(k, q, "refresh")
  BY <1>1, GotoMoves DEF MarkExpired, Pcs
<1>3. k.pc = "refresh" /\ k.op = q.op /\ k.alone = q.alone
  BY <1>2 DEF Moved
<1>4. q.pc = "markExpired" /\ roles' = roles
  BY <1>1 DEF MarkExpired, userVars
<1>5. OverOf(c, q.user) = {v \in Owned(q.user) : OverAt(q, q.gotWin, v)}
  BY <1>1 DEF OverOf, Over, OverAt
<1>6. \A w \in Windows :
        win'[w] = IF w \in {v \in Owned(q.user) : OverAt(q, q.gotWin, v)} THEN "EXPIRED"
                  ELSE IF w \in Owned(q.user) THEN q.gotWin[w] ELSE win[w]
  BY <1>1, <1>5 DEF MarkExpired
<1>7. q.op = "tick" /\ TickStage(q, roles, win) => TickStage(k, roles', win')
  BY <1>2, <1>4, <1>6, MarkExpiredStage
<1> QED BY <1>1, <1>2, <1>3, <1>4, <1>7, TickMoves

LEMMA EndTickQuiet ==
    ASSUME TypeOK, QuietInv, NEW c \in Calls, EndTick(c) PROVE QuietInv'
<1>1. PICK q \in CallRecord : q = call[c]
  BY DEF TypeOK
<1>2. PICK k \in CallRecord : call' = [call EXCEPT ![c] = k] /\ Moved(k, q, "done")
  BY <1>1, GotoMoves DEF EndTick, Pcs
<1>3. k.pc = "done" /\ k.op = q.op /\ k.alone = q.alone
  BY <1>2 DEF Moved
<1>4. q.pc = "take" /\ q.todo = {} /\ roles' = roles /\ win' = win
  BY <1>1 DEF EndTick, userVars
<1>5. q.op = "tick" /\ TickStage(q, roles, win) => TickStage(k, roles', win')
  BY <1>2, <1>4, EndTickStage
<1> QED BY <1>1, <1>2, <1>3, <1>4, <1>5, TickMoves

-----------------------------------------------------------------------------
(* Calls begin and end, and role documents change.                         *)

LEMMA NoCallAlone == NoCall.alone = FALSE /\ NoCall.pc = "idle"
BY DEF NoCall

LEMMA EndsQuiet ==
    ASSUME TypeOK, QuietInv, NEW c \in Calls, call[c].pc # "idle",
           call' = [call EXCEPT ![c] = NoCall]
    PROVE  QuietInv'
<1>1. NoCall.alone = FALSE
  BY NoCallAlone
<1>2. \A d \in Calls : d # c => ~call[d].alone
  BY DEF QuietInv, Idle
<1>3. \A d \in Calls : ~call'[d].alone
  BY <1>1, <1>2 DEF TypeOK
<1> QED BY <1>3 DEF QuietInv

LEMMA CompanyQuiet ==
    ASSUME TypeOK, call' = [d \in Calls |-> InCompany(d)] PROVE QuietInv'
<1>1. \A d \in Calls : InCompany(d).alone = FALSE
  BY DEF InCompany, TypeOK, CallRecord
<1>2. \A d \in Calls : call'[d].alone = FALSE
  BY <1>1
<1> QED BY <1>2 DEF QuietInv

\* A call starts alone when all are idle, and remembers the roles there are.
LEMMA StartsQuiet ==
    ASSUME TypeOK, QuietInv, NEW c \in Calls, NEW rec \in CallRecord, rec.alone = FALSE,
           call' = Started(c, rec),
           \A k \in CallRecord :
              /\ k.pc = rec.pc /\ k.op = rec.op /\ k.user = rec.user /\ k.over = rec.over
              /\ k.was = roles
              => Stage(k)'
    PROVE  QuietInv'
<1>1. \A d \in Calls : d # c => call'[d].alone = FALSE /\ call'[d].pc = call[d].pc
  BY DEF Started, InCompany, TypeOK, CallRecord
<1>2. CASE \A e \in Calls : Idle(e)
  <2>1. PICK k : k = [rec EXCEPT !.alone = TRUE, !.was = roles]
    OBVIOUS
  <2>2. /\ k \in CallRecord /\ k.pc = rec.pc /\ k.op = rec.op /\ k.user = rec.user
        /\ k.over = rec.over /\ k.was = roles
    BY <2>1 DEF TypeOK, CallRecord
  <2>3. call'[c] = k /\ Stage(k)'
    BY <1>2, <2>1, <2>2 DEF Started
  <2>4. Stage(call[c])'
    BY <2>3 DEF Stage
  <2> QED BY <1>1, <1>2, <2>4 DEF QuietInv, Idle
<1>3. CASE ~\A e \in Calls : Idle(e)
  <2>1. call'[c] = rec
    BY <1>3 DEF Started
  <2> QED BY <1>1, <2>1 DEF QuietInv
<1> QED BY <1>2, <1>3

LEMMA BeginQuiet ==
    ASSUME TypeOK, QuietInv, NEW c \in Calls, NEW q \in Requests, Begin(c, q) PROVE QuietInv'
<1>1. FirstPc(q.op) \in Pcs
  BY DEF FirstPc, Pcs
<1>2. /\ q.op \in Ops \ {"tick"} /\ q.user \in Users /\ q.roles \in SUBSET Roles
      /\ q.scope \in Scopes /\ q.timed \in BOOLEAN /\ q.perms \in SUBSET Keys
  BY ConstantsAssumption DEF Ops
<1>3. PICK n \in CallRecord : n = NoCall
  BY NoCallType
<1>4. PICK rec : rec = [n EXCEPT !.op = q.op, !.user = q.user, !.roles = q.roles,
                                 !.scope = q.scope, !.timed = q.timed, !.perms = q.perms,
                                 !.pc = FirstPc(q.op)]
  OBVIOUS
<1>5. /\ rec \in CallRecord /\ rec.alone = n.alone /\ rec.pc = FirstPc(q.op)
      /\ rec.op = q.op /\ rec.user = q.user
  BY <1>1, <1>2, <1>4 DEF CallRecord
<1>6. rec.alone = FALSE
  BY <1>3, <1>5, NoCallAlone
<1>7. /\ call' = Started(c, rec)
      /\ UNCHANGED <<roles, keys, mods, doc, grants, win, ent>>
  BY <1>3, <1>4 DEF Begin, userVars
<1>8. ASSUME NEW k \in CallRecord, k.pc = rec.pc, k.op = rec.op, k.user = rec.user,
             k.was = roles
      PROVE  Stage(k)'
  <2>1. k.op = q.op /\ k.pc = FirstPc(q.op)
    BY <1>5, <1>8
  <2>2. /\ k.op = "addRole" => k.pc = "add"
        /\ k.op = "recompute" => k.pc = "refresh"
        /\ k.op = "updateModules" => k.pc = "tenant"
        /\ k.op \in {"assign", "assignAccess", "removeRoles", "revoke"} => k.pc = "read"
        /\ k.pc # "rewrite" /\ k.op # "tick"
    BY <1>2, <2>1 DEF FirstPc, Ops
  <2>3. UserStage(k, doc, roles[k.user], keys[k.user], mods[k.user], grants[k.user])
    BY <1>8, <2>2
    DEF UserStage, ReadStage, AddStage, RecomputeStage, AssignStage, AccessStage, RemoveStage,
        RevokeStage, Before
  <2>4. TenantStage(k, roles, keys, ent) /\ TickStage(k, roles, win)
    BY <2>2 DEF TenantStage, TickStage
  <2> QED BY <1>7, <2>3, <2>4 DEF Stage
<1> QED BY <1>5, <1>6, <1>7, <1>8, StartsQuiet

LEMMA BeginTickQuiet ==
    ASSUME TypeOK, QuietInv, NEW c \in Calls, BeginTick(c) PROVE QuietInv'
<1>1. PICK n \in CallRecord : n = NoCall
  BY NoCallType
<1>2. n.op = "tick" /\ n.over = FALSE
  BY <1>1 DEF NoCall
<1>3. PICK rec : rec = [n EXCEPT !.pc = "findDue", !.at = now]
  OBVIOUS
<1>4. /\ rec \in CallRecord /\ rec.alone = n.alone /\ rec.pc = "findDue" /\ rec.op = n.op
      /\ rec.over = n.over
  BY <1>3 DEF TypeOK, CallRecord, Pcs
<1>5. rec.alone = FALSE
  BY <1>1, <1>4, NoCallAlone
<1>6. FirstPc("tick") = "findDue"
  BY DEF FirstPc
<1>7. /\ call' = Started(c, rec)
      /\ UNCHANGED <<roles, keys, mods, doc, grants, win, ent>>
  BY <1>1, <1>3, <1>6 DEF BeginTick, userVars
<1>8. ASSUME NEW k \in CallRecord, k.pc = rec.pc, k.op = rec.op, k.over = rec.over
      PROVE  Stage(k)'
  <2>1. k.op = "tick" /\ k.pc = "findDue" /\ ~k.over
    BY <1>2, <1>4, <1>8
  <2>2. UserStage(k, doc', roles'[k.user], keys'[k.user], mods'[k.user], grants'[k.user])
    BY <2>1, OtherStage
  <2>3. TenantStage(k, roles', keys', ent') /\ TickStage(k, roles', win')
    BY <2>1 DEF TenantStage, TickStage
  <2> QED BY <2>2, <2>3 DEF Stage
<1> QED BY <1>4, <1>5, <1>7, <1>8, StartsQuiet

LEMMA QuietInit == Init => QuietInv
BY NoCallAlone DEF Init, QuietInv

LEMMA QuietStep == TypeOK /\ QuietInv /\ [Next]_vars => QuietInv'
<1> SUFFICES ASSUME TypeOK, QuietInv, [Next]_vars PROVE QuietInv'
  OBVIOUS
<1>1. CASE UNCHANGED vars
  BY <1>1 DEF vars, userVars, QuietInv, Idle, Stage
<1>2. ASSUME NEW c \in Calls, ReadUser(c) PROVE QuietInv'
  <2>1. call[c].pc = "read" /\ UNCHANGED <<userVars, doc, grants, win, ent>>
    BY <1>2 DEF ReadUser
  <2>2. CASE call' = [call EXCEPT ![c] = NoCall]
    BY <2>1, <2>2, EndsQuiet
  <2>3. CASE call' # [call EXCEPT ![c] = NoCall]
    <3>1. PICK pc : pc = CASE call[c].op = "assign" -> "set"
                           [] call[c].op = "assignAccess" -> "newGrant"
                           [] call[c].op = "removeRoles" -> "pull"
                           [] OTHER -> "clear"
      OBVIOUS
    <3>2. pc \in Pcs \ {"idle"}
      BY <3>1 DEF Pcs
    <3>3. PICK k : k = [call[c] EXCEPT
                          !.pc = pc, !.merged = roles[call[c].user] \cup call[c].roles,
                          !.gotKeys = AssignedKeys(roles[call[c].user] \cup call[c].roles,
                                                   call[c].scope)]
      OBVIOUS
    <3>4. call' = [call EXCEPT ![c] = k]
      BY <1>2, <2>3, <3>1, <3>3 DEF ReadUser
    <3> QED BY <2>1, <3>1, <3>2, <3>3, <3>4, ReadUserQuiet
  <2> QED BY <2>2, <2>3
<1>3. ASSUME NEW c \in Calls, CallStep(c) PROVE QuietInv'
  BY <1>2, <1>3, RefreshReadQuiet, RefreshWriteQuiet, AddRolesQuiet, SetRolesQuiet,
     SetModulesQuiet, UpsertGrantQuiet, CreateGrantQuiet, PullRolesQuiet, RereadQuiet,
     CopyToGrantsQuiet, ClearUserQuiet, RevokeGrantsQuiet, WriteTenantQuiet, SyncAdminsQuiet
  DEF CallStep
<1>4. ASSUME NEW c \in Calls, TickStep(c) PROVE QuietInv'
  BY <1>4, FindDueQuiet, GiveRolesQuiet, MarkActiveQuiet, FindOverQuiet, TakeRolesQuiet,
     MarkExpiredQuiet, EndTickQuiet
  DEF TickStep
<1>5. ASSUME NEW c \in Calls, Reply(c) \/ Die(c) PROVE QuietInv'
  <2>1. call[c].pc # "idle" /\ call' = [call EXCEPT ![c] = NoCall]
    BY <1>5 DEF Reply, Die, Idle
  <2> QED BY <2>1, EndsQuiet
<1>6. CASE EditRole
  <2>1. call' = [d \in Calls |-> InCompany(d)]
    BY <1>6 DEF EditRole, CreateRole, UpdateRolePermissions, AddPermissionsToRole,
       RemovePermissionsFromRole, CloneRole, DeleteRole, SeedSystemRole, Edit
  <2> QED BY <2>1, CompanyQuiet
<1>7. CASE Tick
  BY <1>7 DEF Tick, userVars, QuietInv, Idle, Stage
<1> QED
  BY <1>1, <1>3, <1>4, <1>5, <1>6, <1>7, BeginQuiet, BeginTickQuiet DEF Next

\* At its end the stages say what each call promises.
LEMMA QuietEnds == TypeOK /\ QuietInv => QuietCallsExact
<1> SUFFICES ASSUME TypeOK, QuietInv, NEW c \in Calls
             PROVE  /\ QuietAdd(c)    /\ QuietAssign(c) /\ QuietAssignAccess(c)
                    /\ QuietRemove(c) /\ QuietRevoke(c) /\ QuietModules(c) /\ QuietTick(c)
  BY DEF QuietCallsExact
<1>1. PICK q \in CallRecord : q = call[c]
  BY DEF TypeOK
<1>2. PICK u \in Users : u = q.user
  BY DEF CallRecord
<1>3. CASE ~(q.pc = "done" /\ q.alone)
  BY <1>1, <1>3 DEF Ends, QuietAdd, QuietAssign, QuietAssignAccess, QuietRemove, QuietRevoke,
     QuietModules, QuietTick
<1>4. CASE q.pc = "done" /\ q.alone
  <2>1. Stage(q)
    BY <1>1, <1>4 DEF QuietInv
  <2>2. UserStage(q, doc, roles[u], keys[u], mods[u], grants[u])
    BY <1>2, <2>1 DEF Stage
  <2>3. roles[u] \in SUBSET Roles /\ \A rs \in SUBSET Roles :
          /\ RefreshedKeys(u, rs, {}) = Refreshed(doc, u, rs, {})
          /\ \A s : AssignedKeys(rs, s) = Assigned(doc, rs, s)
    BY RefreshedIs DEF TypeOK
  <2>4. CacheFresh(u) <=> Fresh(doc, u, roles[u], keys[u], mods[u])
    BY <2>3 DEF CacheFresh, Fresh
  <2>5. QuietAdd(c)
    BY <1>1, <1>2, <1>4, <2>2, <2>4
    DEF QuietAdd, Ends, UserStage, AddStage, RecomputeStage, Before
  <2>6. QuietAssign(c)
    BY <1>1, <1>2, <1>4, <2>2, <2>3
    DEF QuietAssign, Ends, UserStage, AssignStage, Before, LiveGrants
  <2>7. QuietAssignAccess(c)
    BY <1>1, <1>2, <1>4, <2>2, <2>4
    DEF QuietAssignAccess, Ends, UserStage, AccessStage, Before, LiveGrants
  <2>8. QuietRemove(c)
    BY <1>1, <1>2, <1>4, <2>2, <2>4
    DEF QuietRemove, Ends, UserStage, RemoveStage, Before, LiveGrants
  <2>9. QuietRevoke(c)
    BY <1>1, <1>2, <1>4, <2>2 DEF QuietRevoke, Ends, UserStage, RevokeStage, LiveGrants
  <2>10. QuietModules(c)
    BY <1>1, <1>4, <2>1 DEF QuietModules, Ends, Stage, TenantStage
  <2>11. QuietTick(c)
    <3> SUFFICES ASSUME q.op = "tick", NEW w \in Windows
                 PROVE  /\ ~Due(c, win, w) /\ ~Over(c, win, w)
                        /\ Over(c, q.gotWin, w) => roles[WinUser[w]] \cap WinRoles[w] = {}
      BY <1>1 DEF QuietTick, Ends
    <3>1. TickStage(q, roles, win)
      BY <2>1 DEF Stage
    <3>2. q.over /\ q.todo = {}
      BY <1>4, <3>1 DEF TickStage
    <3>3. /\ ~DueAt(q, win, w) /\ ~OverAt(q, win, w)
          /\ OverAt(q, q.gotWin, w) => roles[WinUser[w]] \cap WinRoles[w] = {}
      BY <1>4, <3>1, <3>2 DEF TickStage, Awaits
    <3> QED BY <1>1, <3>3, DueIs
  <2> QED BY <2>5, <2>6, <2>7, <2>8, <2>9, <2>10, <2>11
<1> QED BY <1>3, <1>4

-----------------------------------------------------------------------------
(* What holds of every execution.                                          *)

\* The state of the access service is well typed, whatever calls, ticks, role
\* edits and deaths interleave (rbac.service.ts, access-expiry.job.ts).
THEOREM TypeSafety == Spec => []TypeOK
BY InitTypeOK, TypeStep, PTL DEF Spec

\* No window is EXPIRED before its roles were taken from the user, however many
\* ticks overlap and wherever they die (access-expiry.job.ts:94-133).
THEOREM WindowsPulledFirst == Spec => []ExpiredWasPulled
<1>1. Spec => [](TypeOK /\ PullInv)
  BY InitTypeOK, TypeStep, InitPullInv, PullStep, PTL DEF Spec
<1>2. PullInv => ExpiredWasPulled
  BY DEF PullInv
<1> QED BY <1>1, <1>2, PTL

\* A call that runs beside no other call, tick or role edit leaves the roles, the
\* stored keys and modules and the assignments as it says, whatever it finds and
\* whatever roles and documents there are (rbac.service.ts, access-expiry.job.ts).
THEOREM QuietCallsStayExact == Spec => []QuietCallsExact
<1>1. Spec => [](TypeOK /\ QuietInv)
  BY InitTypeOK, TypeStep, QuietInit, QuietStep, PTL DEF Spec
<1>2. TypeOK /\ QuietInv => QuietCallsExact
  BY QuietEnds
<1> QED BY <1>1, <1>2, PTL
=============================================================================
