---------------------------- MODULE ScopesProofs ----------------------------
(***************************************************************************)
(* The grants of the roles stay within the scopes of their tenants, but    *)
(* for the causes recorded in drift, and the trees that are computed from  *)
(* the two show what they should, for any number of menus, buttons, roles  *)
(* and tenants.                                                            *)
(***************************************************************************)
EXTENDS Scopes, Iteration, FiniteSetTheorems, TLAPS

USE DEF RowStates, Causes, Idle

TypeInv == TypeOK

\* The state a migrated database starts in is well typed.
LEMMA InitTypes == ASSUME ScopesAssumption, Init PROVE TypeInv
<1> QED BY DEF Init, TypeInv, TypeOK, MenuRow, Role, NoGrants, Grants, ScopesAssumption

\* What is under way is Idle, or a change in one of its two phases.
LEMMA SavePhases ==
  ASSUME TypeInv
  PROVE  /\ save = Idle \/ (save \in GrantChanges /\ save.phase \in {"menus", "auths"})
         /\ save.phase \in {"menus", "auths"} => save \in GrantChanges /\ save # Idle
         /\ update = Idle \/ (update \in ScopeChanges /\ update.phase \in {"menus", "auths"})
         /\ update.phase \in {"menus", "auths"} => update \in ScopeChanges /\ update # Idle
BY DEF TypeInv, TypeOK, ScopeChanges, GrantChanges

\* A save stays a save or idle when a change of scope overtakes it.
LEMMA OvertakenType ==
  ASSUME TypeInv, NEW t, NEW phases
  PROVE  Overtaken(t, phases) \in {Idle} \cup GrantChanges
BY SavePhases DEF TypeInv, TypeOK, Overtaken, GrantChange, GrantChanges

\* Every request and every transaction keeps the state well typed.
LEMMA NextTypes == ASSUME ScopesAssumption, TypeInv, [Next]_vars PROVE TypeInv'
<1> USE DEF TypeInv, TypeOK
<1>1. ASSUME EditMenus PROVE TypeInv'
  <2>1. CASE \E m \in Menus, p \in Menus \cup {Root}, e \in BOOLEAN : AddMenu(m, p, e)
    BY <2>1 DEF AddMenu, Called, MenuRow
  <2>2. CASE \E m \in Menus, p \in Menus \cup {Root}, e \in BOOLEAN : UpdateMenu(m, p, e)
    BY <2>2 DEF UpdateMenu, Called, MenuRow
  <2>3. CASE \E m \in Menus : DeleteMenu(m)
    BY <2>3 DEF DeleteMenu, Called, MenuRow
  <2>4. CASE \E a \in Auths, m \in Menus : AddMenuAuth(a, m)
    BY <2>4 DEF AddMenuAuth, Called
  <2>5. CASE \E a \in Auths, m \in Menus : UpdateMenuAuth(a, m)
    BY <2>5 DEF UpdateMenuAuth, Called
  <2>6. CASE \E a \in Auths : DeleteMenuAuth(a)
    BY <2>6 DEF DeleteMenuAuth, Called
  <2> QED BY <1>1, <2>1, <2>2, <2>3, <2>4, <2>5, <2>6 DEF EditMenus
<1>2. ASSUME EditRoles PROVE TypeInv'
  <2>1. CASE \E r \in Roles, t \in Tenants : AddRole(r, t)
    BY <2>1 DEF AddRole, Called, Role, NoGrants, Grants
  <2>2. CASE \E r \in Roles, t \in Tenants : MoveRole(r, t)
    BY <2>2 DEF MoveRole, Called, Role
  <2>3. CASE \E r \in Roles : DeleteRole(r)
    BY <2>3 DEF DeleteRole, Called, Role
  <2> QED BY <1>2, <2>1, <2>2, <2>3 DEF EditRoles
<1>3. ASSUME UpdateScope PROVE TypeInv'
  <2>1. CASE \E t \in Tenants, M \in SUBSET Menus, A \in SUBSET Auths : SaveTenantMenuScope(t, M, A)
    BY <2>1, OvertakenType DEF SaveTenantMenuScope, Called, Grants, ScopeChange, ScopeChanges
  <2>2. CASE SaveTenantAuthScope
    BY <2>2, OvertakenType, SavePhases
      DEF SaveTenantAuthScope, Grants, ScopeChange, ScopeChanges
  <2>3. CASE PruneTenantRoleAssociations
    BY <2>3, SavePhases DEF ScopeChanges, PruneTenantRoleAssociations, Pruned, RolesOf, Role, Grants
  <2>4. CASE StopUpdate
    BY <2>4 DEF StopUpdate
  <2> QED BY <1>3, <2>1, <2>2, <2>3, <2>4 DEF UpdateScope
<1>4. ASSUME UpdateGrants PROVE TypeInv'
  <2>1. CASE \E r \in Roles, nodes \in SUBSET Menus, M \in SUBSET Menus, A \in SUBSET Auths :
               BeginSave(r, nodes, M, A)
    BY <2>1 DEF BeginSave, Called, Grants, GrantChange, GrantChanges
  <2>2. CASE CheckAuths
    BY <2>2, SavePhases DEF CheckAuths, GrantChange, GrantChanges
  <2>3. CASE SaveRoleMenuAssociations
    <3> DEFINE r == save.role
               g == Grants(save.menus \cap LiveMenus, save.auths \cap LiveAuths)
    <3>1. r \in Roles /\ g \in [menus : SUBSET Menus, auths : SUBSET Auths] /\ save' = Idle
          /\ UNCHANGED <<menus, auths, scope, update, calls>>
      BY <2>3, SavePhases DEF SaveRoleMenuAssociations, Grants, LiveMenus, LiveAuths, GrantChanges
    <3>2. CASE roles[r].tenant = NoTenant
      BY <2>3, <3>1, <3>2 DEF SaveRoleMenuAssociations
    <3>3. CASE roles[r].tenant # NoTenant
      <4>1. drift' \in [Roles -> SUBSET Causes]
        BY <2>3, <3>1, <3>3 DEF SaveRoleMenuAssociations
      <4>2. roles' = [roles EXCEPT ![r] = Role(roles[r].tenant, TRUE, g)]
        BY <2>3, <3>1, <3>3, Zenon DEF SaveRoleMenuAssociations
      <4> HIDE DEF r, g
      <4>3. Role(roles[r].tenant, TRUE, g)
              \in [tenant : Tenants \cup {NoTenant}, used : BOOLEAN,
                   menus : SUBSET Menus, auths : SUBSET Auths]
        BY <3>1 DEF Role
      <4> QED BY <3>1, <4>1, <4>2, <4>3
    <3> QED BY <3>2, <3>3
  <2> QED BY <1>4, <2>1, <2>2, <2>3 DEF UpdateGrants
<1>5. ASSUME UNCHANGED vars PROVE TypeInv'
  BY <1>5 DEF vars
<1> QED BY <1>1, <1>2, <1>3, <1>4, <1>5 DEF Next

-----------------------------------------------------------------------------
(* GrantsWithinScope alone is not inductive: the next save or prune has to   *)
(* know what was checked, and what of the change of scope is committed.      *)

RoleWithin(r) ==
  roles[r].tenant \in Tenants /\ drift[r] = {}
    /\ (update = Idle \/ update.tenant # roles[r].tenant)
  => Within(r, roles[r].tenant)

\* What a save was checked against is still the scope while it is fresh.
SaveWithin ==
  save # Idle /\ save.fresh =>
    /\ save.menus \subseteq scope[save.tenant].menus
    /\ save.phase = "auths" => save.auths \subseteq scope[save.tenant].auths

\* A change of scope has committed the parts its phase says.
UpdateSaved ==
  update # Idle =>
    /\ scope[update.tenant].menus = update.menus
    /\ update.phase = "auths" => scope[update.tenant].auths = update.auths

ScopeInv ==
  /\ TypeInv
  /\ SaveWithin /\ UpdateSaved
  /\ \A r \in Roles : RoleWithin(r)

\* At first no role has a grant, so none has one too many.
LEMMA InitScopes == ASSUME ScopesAssumption, Init PROVE ScopeInv
<1>1. TypeInv
  BY InitTypes
<1>2. ASSUME NEW r \in Roles
      PROVE  roles[r].menus = {} /\ roles[r].auths = {}
  BY DEF Init, Role, NoGrants, Grants
<1>3. update = Idle /\ save = Idle
  BY DEF Init
<1> QED BY <1>1, <1>2, <1>3 DEF ScopeInv, SaveWithin, UpdateSaved, RoleWithin,
     Within

\* Menu edits change nothing the invariant speaks of.
LEMMA EditMenusScopes == ASSUME ScopeInv, TypeInv', EditMenus PROVE ScopeInv'
<1>1. UNCHANGED <<scope, roles, update, save, drift>>
  BY DEF EditMenus, AddMenu, UpdateMenu, DeleteMenu, AddMenuAuth, UpdateMenuAuth, DeleteMenuAuth
<1> QED BY <1>1 DEF ScopeInv, SaveWithin, UpdateSaved, RoleWithin, Within

\* A new role has no grants, and one that is moved is remembered.
LEMMA EditRolesScopes == ASSUME ScopeInv, TypeInv', EditRoles PROVE ScopeInv'
<1> USE DEF ScopeInv
<1>1. UNCHANGED <<auths, scope, update, save>>
  BY DEF EditRoles, AddRole, MoveRole, DeleteRole
<1>2. ASSUME NEW k \in Roles
      PROVE  \/ roles'[k] = roles[k] /\ drift'[k] = drift[k]
             \/ roles'[k].menus = {} /\ roles'[k].auths = {}
             \/ roles'[k].auths = roles[k].auths /\ drift'[k] # {}
             \/ roles'[k].auths = roles[k].auths /\ roles'[k].tenant \notin Tenants
  <2> USE DEF TypeInv, TypeOK, Role, NoGrants, Grants
  <2>1. CASE \E r \in Roles, t \in Tenants : AddRole(r, t)
    BY <2>1 DEF AddRole
  <2>2. CASE \E r \in Roles, t \in Tenants : MoveRole(r, t)
    BY <2>2 DEF MoveRole
  <2>3. CASE \E r \in Roles : DeleteRole(r)
    <3>1. roles'[k] = roles[k] \/ (roles'[k].auths = roles[k].auths /\ roles'[k].tenant = NoTenant)
      BY <2>3 DEF DeleteRole
    <3>2. drift' = drift
      BY <2>3 DEF DeleteRole
    <3> QED BY <3>1, <3>2, ScopesAssumption DEF ScopesAssumption
  <2> QED BY <2>1, <2>2, <2>3 DEF EditRoles
<1>4. SaveWithin' /\ UpdateSaved'
  BY <1>1 DEF SaveWithin, UpdateSaved
<1>5. ASSUME NEW r \in Roles PROVE RoleWithin(r)'
  BY <1>1, <1>2 DEF RoleWithin, Within
<1> QED BY <1>4, <1>5

\* Replacing the scope of t leaves a save under way as it was, but for being
\* fresh: not when it had read a part that is replaced.
LEMMA OvertakenKeeps ==
  ASSUME TypeInv, NEW t, NEW phases, save' = Overtaken(t, phases)
  PROVE  /\ save # Idle <=> save' # Idle
         /\ save # Idle => /\ save'.auths = save.auths /\ save'.menus = save.menus
                            /\ save'.tenant = save.tenant /\ save'.phase = save.phase
         /\ save' # Idle /\ save'.fresh =>
              save.fresh /\ ~(save.tenant = t /\ save.phase \in phases)
<1>1. CASE save # Idle /\ save.tenant = t /\ save.phase \in phases
  <2>1. save' = GrantChange(save.phase, save.role, save.tenant, save, FALSE)
    BY <1>1 DEF Overtaken
  <2>2. save'.phase # "idle" /\ save'.fresh = FALSE
    BY <1>1, <2>1, SavePhases DEF GrantChange
  <2> QED BY <1>1, <2>1, <2>2 DEF GrantChange
<1>2. CASE ~(save # Idle /\ save.tenant = t /\ save.phase \in phases)
  BY <1>2 DEF Overtaken
<1> QED BY <1>1, <1>2

\* The first transaction, on the menus: roles may now exceed the scope, but a
\* change of scope is under way.
LEMMA MenuScopeStep ==
  ASSUME ScopeInv, TypeInv', NEW t \in Tenants, NEW M \in SUBSET Menus, NEW A \in SUBSET Auths,
         SaveTenantMenuScope(t, M, A)
  PROVE  ScopeInv'
<1> USE DEF ScopeInv
<1>1. /\ UNCHANGED <<auths, roles, drift>>
      /\ update = Idle /\ update'.tenant = t /\ update'.menus = M /\ update'.phase = "menus"
      /\ save' = Overtaken(t, {"menus", "auths"})
  BY DEF SaveTenantMenuScope, ScopeChange, Grants
<1>2. scope'[t].menus = M /\ \A u \in Tenants \ {t} : scope'[u] = scope[u]
  BY DEF SaveTenantMenuScope, Grants, TypeInv, TypeOK
<1>4. ASSUME save' # Idle, save'.fresh
      PROVE  scope'[save'.tenant] = scope[save.tenant]
  <2>1. save # Idle /\ save.tenant # t /\ save'.tenant = save.tenant /\ save.tenant \in Tenants
    BY <1>1, <1>4, OvertakenKeeps, SavePhases DEF GrantChanges
  <2> QED BY <1>2, <2>1
<1>5. SaveWithin'
  BY <1>1, <1>4, OvertakenKeeps DEF SaveWithin
<1>6. UpdateSaved'
  BY <1>1, <1>2 DEF UpdateSaved
<1>7. ASSUME NEW r \in Roles PROVE RoleWithin(r)'
  BY <1>1, <1>2 DEF RoleWithin, Within
<1> QED BY <1>5, <1>6, <1>7

\* The second transaction, on the buttons: as the first, and the scope is now
\* the one that was asked for.
LEMMA AuthScopeStep == ASSUME ScopeInv, TypeInv', SaveTenantAuthScope PROVE ScopeInv'
<1> USE DEF ScopeInv
<1> DEFINE t == update.tenant
<1>1. /\ UNCHANGED <<auths, roles, drift>>
      /\ update # Idle /\ t \in Tenants
      /\ update'.tenant = t /\ update'.menus = update.menus /\ update'.auths = update.auths
      /\ update' # Idle
      /\ save' = Overtaken(t, {"auths"})
  BY SavePhases DEF SaveTenantAuthScope, ScopeChange, ScopeChanges
<1>2. /\ scope'[t].menus = scope[t].menus /\ scope'[t].auths = update.auths
      /\ \A u \in Tenants \ {t} : scope'[u] = scope[u]
  BY <1>1 DEF SaveTenantAuthScope, Grants, TypeInv, TypeOK
<1> HIDE DEF t
<1>4. ASSUME save' # Idle, save'.fresh
      PROVE  /\ scope'[save'.tenant].menus = scope[save.tenant].menus
             /\ save.phase = "auths" => scope'[save'.tenant] = scope[save.tenant]
  <2>1. save # Idle /\ save'.tenant = save.tenant /\ save.tenant \in Tenants
        /\ ~(save.tenant = t /\ save.phase = "auths")
    BY <1>1, <1>4, OvertakenKeeps, SavePhases DEF GrantChanges
  <2> QED BY <1>2, <2>1
<1>5. SaveWithin'
  BY <1>1, <1>4, OvertakenKeeps DEF SaveWithin
<1>6. UpdateSaved'
  BY <1>1, <1>2 DEF UpdateSaved, t
<1>7. ASSUME NEW r \in Roles PROVE RoleWithin(r)'
  BY <1>1, <1>2 DEF RoleWithin, Within, t
<1> QED BY <1>5, <1>6, <1>7

\* What is left after pruning is within the scope that the two transactions
\* before it have committed.
LEMMA PruneStep == ASSUME ScopeInv, TypeInv', PruneTenantRoleAssociations PROVE ScopeInv'
<1> USE DEF ScopeInv
<1> DEFINE t == update.tenant
           pruned(r) == Pruned(roles[r], update.menus, update.auths)
<1>1. /\ UNCHANGED <<auths, scope, save>> /\ update' = Idle
      /\ update # Idle /\ update.phase = "auths"
  BY SavePhases DEF PruneTenantRoleAssociations
<1>2. scope[t].menus = update.menus /\ scope[t].auths = update.auths
  BY <1>1 DEF UpdateSaved
<1>3. ASSUME NEW r \in Roles, roles[r].tenant = t
      PROVE  /\ roles'[r].tenant = t
             /\ roles'[r].menus = pruned(r).menus /\ roles'[r].auths = pruned(r).auths
  <2>1. roles'[r] = Role(t, TRUE, pruned(r))
    BY <1>3 DEF PruneTenantRoleAssociations, RolesOf
  <2> QED BY <2>1 DEF Role
<1>4. ASSUME NEW r \in Roles, roles[r].tenant # t
      PROVE  roles'[r] = roles[r] /\ drift'[r] = drift[r]
  BY <1>4 DEF PruneTenantRoleAssociations, RolesOf
<1>5. ASSUME NEW r \in Roles
      PROVE  /\ pruned(r).menus \subseteq update.menus
             /\ pruned(r).auths \subseteq update.auths \cap roles[r].auths
  BY DEF Pruned, Grants
<1> HIDE DEF t, pruned
<1>7. SaveWithin' /\ UpdateSaved'
  BY <1>1 DEF SaveWithin, UpdateSaved
<1>8. ASSUME NEW r \in Roles PROVE RoleWithin(r)'
  <2>1. CASE roles[r].tenant = t
    <3>1. roles'[r].menus \subseteq scope[t].menus /\ roles'[r].auths \subseteq scope[t].auths
      BY <1>2, <1>3, <1>5, <2>1
    <3> QED BY <1>1, <1>3, <2>1, <3>1 DEF RoleWithin, Within
  <2>2. CASE roles[r].tenant # t
    BY <1>1, <1>4, <2>2 DEF RoleWithin, Within, t
  <2> QED BY <2>1, <2>2
<1> QED BY <1>7, <1>8

\* A change of scope that stops halfway is remembered by every role of the tenant.
LEMMA StopStep == ASSUME ScopeInv, TypeInv', StopUpdate PROVE ScopeInv'
<1> USE DEF ScopeInv
<1>1. UNCHANGED <<auths, scope, roles, save>> /\ update' = Idle
  BY DEF StopUpdate
<1>2. ASSUME NEW r \in Roles
      PROVE  drift'[r] = IF roles[r].tenant = update.tenant
                         THEN drift[r] \cup {"halfway"} ELSE drift[r]
  BY DEF StopUpdate, RolesOf
<1>3. SaveWithin' /\ UpdateSaved'
  BY <1>1 DEF SaveWithin, UpdateSaved
<1>4. ASSUME NEW r \in Roles PROVE RoleWithin(r)'
  <2>1. CASE roles[r].tenant = update.tenant
    BY <1>1, <1>2, <2>1 DEF RoleWithin
  <2>2. CASE roles[r].tenant # update.tenant
    BY <1>1, <1>2, <2>2 DEF RoleWithin, Within
  <2> QED BY <2>1, <2>2
<1> QED BY <1>3, <1>4

\* A save that passes the check of its menus holds menus of the scope only.
LEMMA BeginStep ==
  ASSUME ScopeInv, TypeInv', NEW r \in Roles, NEW nodes \in SUBSET Menus,
         NEW M \in SUBSET Menus, NEW A \in SUBSET Auths, BeginSave(r, nodes, M, A)
  PROVE  ScopeInv'
<1> USE DEF ScopeInv
<1>1. /\ UNCHANGED <<auths, scope, roles, update, drift>>
      /\ save'.tenant = roles[r].tenant /\ save'.phase = "menus"
      /\ save'.menus = M /\ save'.auths = A
  BY DEF BeginSave, GrantChange, Grants
<1>2. M \subseteq nodes /\ nodes \subseteq scope[roles[r].tenant].menus
  BY DEF BeginSave, ValidateMenuScope
<1>3. SaveWithin'
  BY <1>1, <1>2 DEF SaveWithin
<1>4. UpdateSaved' /\ \A k \in Roles : RoleWithin(k)'
  BY <1>1 DEF UpdateSaved, RoleWithin, Within
<1> QED BY <1>3, <1>4

\* A save that passes the check of its buttons holds buttons of the scope only.
LEMMA CheckStep == ASSUME ScopeInv, TypeInv', CheckAuths PROVE ScopeInv'
<1> USE DEF ScopeInv
<1>1. UNCHANGED <<auths, scope, roles, update, drift>> /\ save # Idle
  BY SavePhases DEF CheckAuths
<1>2. UpdateSaved' /\ \A k \in Roles : RoleWithin(k)'
  BY <1>1 DEF UpdateSaved, RoleWithin, Within
<1>3. CASE save' = Idle
  BY <1>1, <1>2, <1>3 DEF SaveWithin
<1>4. CASE save' # Idle
  <2>1. /\ save' = GrantChange("auths", save.role, save.tenant, save, save.fresh)
        /\ save.auths \subseteq scope[save.tenant].auths
    BY <1>4 DEF CheckAuths, ValidateAuthScope
  <2>2. /\ save'.tenant = save.tenant /\ save'.menus = save.menus
        /\ save'.auths = save.auths /\ save'.fresh = save.fresh
    BY <2>1 DEF GrantChange
  <2>3. SaveWithin'
    BY <1>1, <2>1, <2>2 DEF SaveWithin
  <2> QED BY <1>2, <2>3
<1> QED BY <1>3, <1>4

\* A save that is still fresh grants only what was checked, and one that is not
\* is remembered.
LEMMA SaveStep == ASSUME ScopeInv, TypeInv', SaveRoleMenuAssociations PROVE ScopeInv'
<1> USE DEF ScopeInv
<1> DEFINE r == save.role
           M == save.menus \cap LiveMenus
           A == save.auths \cap LiveAuths
<1>1. /\ UNCHANGED <<auths, scope, update>> /\ save' = Idle
      /\ save # Idle /\ save.phase = "auths" /\ r \in Roles
  BY SavePhases DEF SaveRoleMenuAssociations, GrantChanges
<1>2. SaveWithin' /\ UpdateSaved'
  BY <1>1 DEF SaveWithin, UpdateSaved
<1>3. CASE roles[r].tenant = NoTenant
  <2>1. UNCHANGED <<roles, drift>>
    BY <1>3 DEF SaveRoleMenuAssociations
  <2> QED BY <1>1, <1>2, <2>1 DEF RoleWithin, Within
<1>4. CASE roles[r].tenant # NoTenant
  <2>1. /\ roles' = [roles EXCEPT ![r] = Role(roles[r].tenant, TRUE, Grants(M, A))]
        /\ drift' = [drift EXCEPT ![r] =
             IF roles[r].tenant # save.tenant THEN drift[r] \cup {"moved"}
             ELSE IF ~save.fresh THEN drift[r] \cup {"overtaken"} ELSE {}]
    BY <1>4, Zenon DEF SaveRoleMenuAssociations
  <2>2. /\ roles'[r].tenant = roles[r].tenant
        /\ roles'[r].menus = M /\ roles'[r].auths = A
        /\ \A k \in Roles \ {r} : roles'[k] = roles[k] /\ drift'[k] = drift[k]
        /\ drift'[r] = {} => roles[r].tenant = save.tenant /\ save.fresh
    BY <1>1, <2>1 DEF Role, Grants, TypeInv, TypeOK
  <2>3. M \subseteq save.menus /\ A \subseteq save.auths
    OBVIOUS
  <2> HIDE DEF r, M, A
  <2>5. ASSUME NEW k \in Roles PROVE RoleWithin(k)'
    <3>1. CASE k = r
      BY <1>1, <2>2, <2>3, <3>1 DEF RoleWithin, Within, SaveWithin
    <3>2. CASE k # r
      BY <1>1, <2>2, <3>2 DEF RoleWithin, Within
    <3> QED BY <3>1, <3>2
  <2> QED BY <1>2, <2>5
<1> QED BY <1>3, <1>4

\* Every step keeps the inductive invariant.
LEMMA NextScopes == ASSUME ScopeInv, [Next]_vars PROVE ScopeInv'
<1>1. TypeInv'
  BY NextTypes, ScopesAssumption DEF ScopeInv
<1>2. CASE EditMenus
  BY <1>1, <1>2, EditMenusScopes
<1>3. CASE EditRoles
  BY <1>1, <1>3, EditRolesScopes
<1>4. CASE UpdateScope
  BY <1>1, <1>4, MenuScopeStep, AuthScopeStep, PruneStep, StopStep DEF UpdateScope
<1>5. CASE UpdateGrants
  BY <1>1, <1>5, BeginStep, CheckStep, SaveStep DEF UpdateGrants
<1>6. CASE UNCHANGED vars
  BY <1>1, <1>6 DEF vars, ScopeInv, SaveWithin, UpdateSaved, RoleWithin, Within
<1> QED BY <1>2, <1>3, <1>4, <1>5, <1>6 DEF Next

\* The state of the menus, scopes, roles and of what is under way is well typed.
THEOREM ScopesTypeCorrect == Spec => []TypeOK
<1>1. Init => TypeInv
  BY InitTypes, ScopesAssumption
<1>2. TypeInv /\ [Next]_vars => TypeInv'
  BY NextTypes, ScopesAssumption
<1> QED BY <1>1, <1>2, PTL DEF Spec, TypeInv

\* No role holds a menu or a button outside the scope of its tenant, except for
\* the recorded causes: what changes of scope prune and what changes of grants
\* check keep the two tables of PruneTenantRoleAssociations and
\* SaveRoleMenuAssociations in agreement.
THEOREM GrantsScoped == Spec => []GrantsWithinScope
<1>1. Init => ScopeInv
  BY InitScopes, ScopesAssumption
<1>2. ScopeInv /\ [Next]_vars => ScopeInv'
  BY NextScopes
<1>3. ScopeInv => GrantsWithinScope
  BY DEF ScopeInv, RoleWithin, GrantsWithinScope, Settled
<1> QED BY <1>1, <1>2, <1>3, PTL DEF Spec

-----------------------------------------------------------------------------
\* Every menu edit keeps live menus under live ones and enabled under enabled.
LEMMA NextHangs == ASSUME TypeInv, MenusHang, [Next]_vars PROVE MenusHang'
<1> USE DEF MenusHang, LiveMenus, Parent
<1>1. CASE menus' = menus
  BY <1>1
<1>2. ASSUME NEW m \in Menus, NEW p \in Menus \cup {Root}, NEW e \in BOOLEAN, ParentOK(p),
             menus' = [menus EXCEPT ![m] = MenuRow("live", p, e)],
             ~e => \A c \in Children(m) : ~menus[c].enabled
      PROVE  MenusHang'
  <2>1. menus'[m] = MenuRow("live", p, e) /\ \A c \in Menus \ {m} : menus'[c] = menus[c]
    BY <1>2 DEF TypeInv, TypeOK
  <2>2. p = Root \/ (p \in Menus /\ menus'[p].state = "live" /\ (e => menus'[p].enabled))
    BY <1>2, <2>1 DEF ParentOK, MenuRow
  <2>3. ASSUME NEW c \in Menus \ {m}, menus[c].state = "live", menus[c].parent = m
        PROVE  menus'[m].state = "live" /\ (menus[c].enabled => menus'[m].enabled)
    BY <1>2, <2>1, <2>3 DEF Children, MenuRow
  <2> QED BY <2>1, <2>2, <2>3 DEF MenuRow
<1>3. ASSUME NEW m \in Menus, DeleteMenu(m) PROVE MenusHang'
  <2>1. menus'[m].state = "deleted" /\ \A c \in Menus \ {m} : menus'[c] = menus[c]
    BY <1>3 DEF DeleteMenu, MenuRow, TypeInv, TypeOK
  <2> QED BY <1>3, <2>1 DEF DeleteMenu, Children
<1>4. CASE \E m \in Menus, p \in Menus \cup {Root}, e \in BOOLEAN : AddMenu(m, p, e)
  <2>1. PICK m \in Menus, p \in Menus \cup {Root}, e \in BOOLEAN : AddMenu(m, p, e)
    BY <1>4
  <2>2. Children(m) = {}
    BY <2>1, ScopesAssumption DEF ScopesAssumption, AddMenu, Children
  <2> QED BY <1>2, <2>1, <2>2 DEF AddMenu
<1>5. CASE \E m \in Menus, p \in Menus \cup {Root}, e \in BOOLEAN : UpdateMenu(m, p, e)
  BY <1>2, <1>5 DEF UpdateMenu
<1>6. EditMenus => \/ \E m \in Menus, p \in Menus \cup {Root}, e \in BOOLEAN :
                         AddMenu(m, p, e) \/ UpdateMenu(m, p, e)
                   \/ \E m \in Menus : DeleteMenu(m)
                   \/ menus' = menus
  BY DEF EditMenus, AddMenuAuth, UpdateMenuAuth, DeleteMenuAuth
<1>7. EditRoles \/ UpdateScope \/ UpdateGrants \/ UNCHANGED vars => menus' = menus
  BY DEF EditRoles, AddRole, MoveRole, DeleteRole, UpdateScope, SaveTenantMenuScope,
     SaveTenantAuthScope, PruneTenantRoleAssociations, StopUpdate, UpdateGrants, BeginSave,
     CheckAuths, SaveRoleMenuAssociations, vars
<1> QED BY <1>1, <1>3, <1>4, <1>5, <1>6, <1>7 DEF Next

\* No sequence of menu edits, each with only its own checks, leaves a menu under
\* a deleted one or an enabled menu under a disabled one.
THEOREM MenusStayHung == Spec => []MenusHang
<1>1. Init => MenusHang
  BY ScopesAssumption DEF ScopesAssumption, Init, MenusHang, LiveMenus, Parent, MenuRow
<1>2. TypeInv /\ MenusHang /\ [Next]_vars => MenusHang'
  BY NextHangs
<1>3. Init => TypeInv
  BY InitTypes, ScopesAssumption
<1>4. TypeInv /\ [Next]_vars => TypeInv'
  BY NextTypes, ScopesAssumption
<1> QED BY <1>1, <1>2, <1>3, <1>4, PTL DEF Spec

-----------------------------------------------------------------------------
(***************************************************************************)
(* The trees.  They are computed by loops, so what they are is shown round *)
(* by round: Climb walks up from one menu, FilterMenus climbs from every   *)
(* menu that may be shown.                                                 *)
(***************************************************************************)
\* What a walk has kept, where it is and whether it is over.
Walks(rows) == [kept : SUBSET rows, at : rows, done : BOOLEAN]

Start(kept, m) == [kept |-> kept, at |-> m, done |-> FALSE]

\* A step leads from walk to walk.
LEMMA UpWalks ==
  ASSUME NEW rows, NEW w \in Walks(rows)
  PROVE  Up(rows, w) \in Walks(rows)
<1>1. CASE w.done \/ Parent(w.at) = Root \/ Parent(w.at) \in w.kept \/ Parent(w.at) \notin rows
  BY <1>1 DEF Up, Walks
<1>2. CASE ~(w.done \/ Parent(w.at) = Root \/ Parent(w.at) \in w.kept \/ Parent(w.at) \notin rows)
  BY <1>2 DEF Up, Walks
<1> QED BY <1>1, <1>2

\* Climb is where a walk is after as many steps as there are rows.
LEMMA ClimbIs ==
  ASSUME NEW rows, IsFiniteSet(rows), NEW kept \in SUBSET rows, NEW m \in rows
  PROVE  \E walk \in [0..Cardinality(rows) -> Walks(rows)] :
           /\ walk[0] = Start(kept, m)
           /\ \A n \in 1..Cardinality(rows) : walk[n] = Up(rows, walk[n-1])
           /\ Climb(rows, kept, m) = walk[Cardinality(rows)].kept
<1> DEFINE N == Cardinality(rows)
           Body(w) == [n \in 0..N |-> IF n = 0 THEN Start(kept, m) ELSE Up(rows, w[n-1])]
           c == CHOOSE w : w = Body(w)
           step == [n \in 1..N |-> [w \in Walks(rows) |-> Up(rows, w)]]
<1>1. N \in Nat /\ Start(kept, m) \in Walks(rows)
  BY FS_CardinalityType DEF Start, Walks
<1> HIDE DEF N
<1>2. step \in [1..N -> [Walks(rows) -> Walks(rows)]]
  BY UpWalks
<1>3. PICK f \in [0..N -> Walks(rows)] : Iterates(N, Start(kept, m), step, f)
  <2> HIDE DEF step
  <2> QED BY <1>1, <1>2, IteratesExist
<1>4. f = Body(f)
  <2>1. \A n \in 0..N : n # 0 => n \in 1..N /\ n - 1 \in 0..N
    BY <1>1
  <2>2. \A n \in 0..N : f[n] = IF n = 0 THEN Start(kept, m) ELSE step[n][f[n-1]]
    BY <1>3 DEF Iterates
  <2>3. \A n \in 1..N, w \in Walks(rows) : step[n][w] = Up(rows, w)
    OBVIOUS
  <2> HIDE DEF step
  <2>4. \A n \in 0..N : f[n] = IF n = 0 THEN Start(kept, m) ELSE Up(rows, f[n-1])
    BY <2>1, <2>2, <2>3
  <2>5. f = [n \in 0..N |-> f[n]]
    OBVIOUS
  <2> QED BY <2>4, <2>5
<1>5. c = Body(c)
  BY <1>4
<1>6. Climb(rows, kept, m) = c[N].kept
  BY DEF Climb, Start, N
<1> HIDE DEF c
<1>7. c[0] = Start(kept, m) /\ \A n \in 1..N : c[n] = Up(rows, c[n-1])
  <2>1. 0 \in 0..N /\ \A n \in 1..N : n \in 0..N /\ n # 0
    BY <1>1
  <2> QED BY <1>5, <2>1
<1>8. c \in [0..N -> Walks(rows)]
  <2> DEFINE S == {n \in 0..N : c[n] \in Walks(rows)}
  <2>1. 0 \in S
    BY <1>1, <1>7
  <2>2. ASSUME NEW n \in 1..N, n - 1 \in S PROVE n \in S
    BY <1>7, <2>2, UpWalks
  <2> HIDE DEF S
  <2>3. \A n \in 0..N : n \in S
    BY <1>1, <2>1, <2>2, Rounds
  <2>4. \A n \in 0..N : c[n] \in Walks(rows)
    BY <2>3 DEF S
  <2> QED BY <1>5, <2>4
<1> QED BY <1>6, <1>7, <1>8 DEF N

\* Closed under parents, as far as they are among the rows.
Upward(rows, S) == \A x \in S : Parent(x) \in rows => Parent(x) \in S

\* What a walk from m has done: it keeps nothing but what is above, leaves no gap
\* below where it is, and as long as it goes on every step has kept another menu.
Climbed(rows, kept, m, w, n) ==
  /\ kept \subseteq w.kept /\ w.at \in w.kept /\ m \in w.kept
  /\ \A x \in w.kept \ kept : \E c \in w.kept : Parent(c) = x
  /\ \A S : kept \subseteq S /\ Upward(rows, S) => w.kept \subseteq S
  /\ \A x \in (w.kept \ kept) \cup {m} : x = w.at \/ Parent(x) \in w.kept
  /\ w.done => Parent(w.at) \in w.kept \/ Parent(w.at) \notin rows
  /\ ~w.done => Cardinality(w.kept) > n

LEMMA ClimbStep ==
  ASSUME NEW rows, IsFiniteSet(rows), Root \notin rows, NEW kept \in SUBSET rows, NEW m \in kept,
         NEW w \in Walks(rows), NEW n \in Nat, Climbed(rows, kept, m, w, n)
  PROVE  Climbed(rows, kept, m, Up(rows, w), n + 1)
<1> DEFINE p == Parent(w.at)
           stop == w.done \/ p = Root \/ p \in w.kept \/ p \notin rows
<1>1. CASE stop
  <2>1. Up(rows, w) = [w EXCEPT !.done = TRUE]
    BY <1>1 DEF Up
  <2>2. /\ Up(rows, w).kept = w.kept /\ Up(rows, w).at = w.at /\ Up(rows, w).done = TRUE
    BY <2>1 DEF Walks
  <2>3. p \in w.kept \/ p \notin rows
    BY <1>1 DEF Climbed
  <2> QED BY <2>2, <2>3 DEF Climbed
<1>2. CASE ~stop
  <2> DEFINE v == Up(rows, w)
  <2>1. v = [kept |-> w.kept \cup {p}, at |-> p, done |-> FALSE]
    BY <1>2 DEF Up
  <2>2. v.kept = w.kept \cup {p} /\ v.at = p /\ v.done = FALSE /\ p \in rows /\ p \notin w.kept
    BY <1>2, <2>1
  <2> HIDE DEF v
  <2>3. kept \subseteq v.kept /\ v.at \in v.kept /\ m \in v.kept
    BY <2>2 DEF Climbed
  <2>4. \A x \in v.kept \ kept : \E c \in v.kept : Parent(c) = x
    <3>1. w.at \in v.kept /\ Parent(w.at) = p
      BY <2>2 DEF Climbed
    <3>2. \A x \in w.kept \ kept : \E c \in v.kept : Parent(c) = x
      BY <2>2 DEF Climbed
    <3> HIDE DEF p
    <3> QED BY <2>2, <3>1, <3>2
  <2>5. ASSUME NEW S, kept \subseteq S, Upward(rows, S) PROVE v.kept \subseteq S
    <3>1. w.kept \subseteq S /\ w.at \in S
      BY <2>5 DEF Climbed
    <3>2. p \in S
      BY <2>2, <2>5, <3>1 DEF Upward
    <3> QED BY <2>2, <3>1, <3>2
  <2>6. \A x \in (v.kept \ kept) \cup {m} : x = v.at \/ Parent(x) \in v.kept
    BY <2>2 DEF Climbed
  <2>7. Cardinality(v.kept) > n + 1
    <3>1. IsFiniteSet(w.kept) /\ Cardinality(w.kept) \in Nat
      BY FS_Subset, FS_CardinalityType DEF Walks
    <3>2. Cardinality(v.kept) = Cardinality(w.kept) + 1
      BY <2>2, <3>1, FS_AddElement
    <3>3. Cardinality(w.kept) > n
      BY <1>2 DEF Climbed
    <3> QED BY <3>1, <3>2, <3>3
  <2>8. v.done => Parent(v.at) \in v.kept \/ Parent(v.at) \notin rows
    BY <2>2
  <2>9. ~v.done => Cardinality(v.kept) > n + 1
    BY <2>7
  <2>10. Climbed(rows, kept, m, v, n + 1)
    BY <2>3, <2>4, <2>5, <2>6, <2>8, <2>9 DEF Climbed
  <2> QED BY <2>10 DEF v
<1> QED BY <1>1, <1>2

\* A climb from a menu that is kept keeps the menus above it and nothing else,
\* and reaches the last of them.
LEMMA ClimbKeeps ==
  ASSUME NEW rows, IsFiniteSet(rows), Root \notin rows, NEW kept \in SUBSET rows, NEW m \in kept,
         NEW K, K = Climb(rows, kept, m)
  PROVE  /\ kept \subseteq K /\ K \subseteq rows
         /\ \A x \in K \ kept : \E c \in K : Parent(c) = x
         /\ \A S : kept \subseteq S /\ Upward(rows, S) => K \subseteq S
         /\ \A x \in (K \ kept) \cup {m} : Parent(x) \in rows => Parent(x) \in K
<1> DEFINE N == Cardinality(rows)
<1>1. N \in Nat /\ m \in rows
  BY FS_CardinalityType
<1>2. PICK walk \in [0..N -> Walks(rows)] :
        /\ walk[0] = Start(kept, m)
        /\ \A n \in 1..N : walk[n] = Up(rows, walk[n-1])
        /\ K = walk[N].kept
  BY <1>1, ClimbIs
<1> DEFINE Good == {n \in 0..N : Climbed(rows, kept, m, walk[n], n)}
<1>3. 0 \in Good
  <2>1. IsFiniteSet(kept) /\ Cardinality(kept) \in Nat
    BY FS_Subset, FS_CardinalityType
  <2>2. Cardinality(kept) > 0
    BY <2>1, FS_EmptySet
  <2>3. walk[0].kept = kept /\ walk[0].at = m /\ walk[0].done = FALSE
    BY <1>2 DEF Start
  <2>4. Climbed(rows, kept, m, walk[0], 0)
    BY <2>2, <2>3 DEF Climbed
  <2> QED BY <1>1, <2>4
<1>4. ASSUME NEW n \in 1..N, n - 1 \in Good PROVE n \in Good
  <2>1. /\ Climbed(rows, kept, m, walk[n-1], n - 1) /\ walk[n-1] \in Walks(rows)
        /\ n - 1 \in Nat /\ n \in 0..N /\ (n - 1) + 1 = n /\ walk[n] = Up(rows, walk[n-1])
    BY <1>1, <1>2, <1>4
  <2> HIDE DEF N
  <2>2. Climbed(rows, kept, m, walk[n], (n - 1) + 1)
    BY <2>1, ClimbStep
  <2> QED BY <2>1, <2>2
<1> HIDE DEF Good
<1>5. \A n \in 0..N : n \in Good
  BY <1>1, <1>3, <1>4, Rounds
<1>6. N \in 0..N
  BY <1>1
<1> DEFINE w == walk[N]
<1>7. Climbed(rows, kept, m, w, N) /\ w \in Walks(rows) /\ K = w.kept
  BY <1>2, <1>5, <1>6 DEF Good
<1> HIDE DEF w
<1>8. w.done
  <2>1. w.kept \in SUBSET rows
    BY <1>7 DEF Walks
  <2>2. Cardinality(w.kept) \in Nat /\ Cardinality(w.kept) <= N
    BY <2>1, FS_Subset, FS_CardinalityType
  <2> QED BY <1>1, <1>7, <2>2 DEF Climbed
<1>9. \A x \in (K \ kept) \cup {m} : Parent(x) \in rows => Parent(x) \in K
  BY <1>7, <1>8 DEF Climbed
<1>10. K \subseteq rows
  BY <1>7 DEF Walks
<1> QED BY <1>7, <1>9, <1>10 DEF Climbed

\* A visit climbs from a menu that is kept.
LEMMA VisitKeeps ==
  ASSUME NEW rows, IsFiniteSet(rows), Root \notin rows, NEW kept \in SUBSET rows, NEW m,
         NEW K, K = Visit(rows, kept, m)
  PROVE  /\ kept \subseteq K /\ K \in SUBSET rows
         /\ \A x \in K \ kept : \E c \in K : Parent(c) = x
         /\ \A S : kept \subseteq S /\ Upward(rows, S) => K \subseteq S
         /\ \A x \in K : x = m \/ x \notin kept => (Parent(x) \in rows => Parent(x) \in K)
<1>1. CASE m \in kept
  <2>1. K = Climb(rows, kept, m)
    BY <1>1 DEF Visit
  <2>2. /\ kept \subseteq K /\ K \subseteq rows
        /\ \A x \in K \ kept : \E c \in K : Parent(c) = x
        /\ \A S : kept \subseteq S /\ Upward(rows, S) => K \subseteq S
        /\ \A x \in (K \ kept) \cup {m} : Parent(x) \in rows => Parent(x) \in K
    BY <1>1, <2>1, ClimbKeeps
  <2> QED BY <2>2
<1>2. CASE m \notin kept
  BY <1>2 DEF Visit
<1> QED BY <1>1, <1>2

LEMMA VisitType ==
  ASSUME NEW rows, IsFiniteSet(rows), Root \notin rows, NEW kept \in SUBSET rows, NEW m
  PROVE  Visit(rows, kept, m) \in SUBSET rows
<1> DEFINE K == Visit(rows, kept, m)
<1> SUFFICES K \in SUBSET rows
  OBVIOUS
<1> HIDE DEF K
<1>1. \A L : L = Visit(rows, kept, m) => L \in SUBSET rows
  BY VisitKeeps
<1> QED BY <1>1 DEF K

\* The range over the map visits one id after another.
LEMMA FilterIs ==
  ASSUME NEW rows, IsFiniteSet(rows), Root \notin rows, NEW allowed, NEW order
  PROVE  \E kept \in [0..Cardinality(rows) -> SUBSET rows] :
           /\ kept[0] = allowed \cap rows
           /\ \A n \in 1..Cardinality(rows) : kept[n] = Visit(rows, kept[n-1], order[n])
           /\ FilterMenus(rows, allowed, order) = kept[Cardinality(rows)]
<1> DEFINE N == Cardinality(rows)
           a == allowed \cap rows
           Body(w) == [n \in 0..N |-> IF n = 0 THEN a ELSE Visit(rows, w[n-1], order[n])]
           k == CHOOSE w : w = Body(w)
           step == [n \in 1..N |-> [w \in SUBSET rows |-> Visit(rows, w, order[n])]]
<1>1. N \in Nat /\ a \in SUBSET rows
  BY FS_CardinalityType
<1> HIDE DEF N
<1>2. step \in [1..N -> [SUBSET rows -> SUBSET rows]]
  BY VisitType
<1>3. PICK f \in [0..N -> SUBSET rows] : Iterates(N, a, step, f)
  <2> HIDE DEF step, a
  <2> QED BY <1>1, <1>2, IteratesExist
<1>4. f = Body(f)
  <2>1. \A n \in 0..N : n # 0 => n \in 1..N /\ n - 1 \in 0..N
    BY <1>1
  <2>2. \A n \in 0..N : f[n] = IF n = 0 THEN a ELSE step[n][f[n-1]]
    BY <1>3 DEF Iterates
  <2>3. \A n \in 1..N, w \in SUBSET rows : step[n][w] = Visit(rows, w, order[n])
    OBVIOUS
  <2> HIDE DEF step, a
  <2>4. \A n \in 0..N : f[n] = IF n = 0 THEN a ELSE Visit(rows, f[n-1], order[n])
    BY <2>1, <2>2, <2>3
  <2>5. f = [n \in 0..N |-> f[n]]
    OBVIOUS
  <2> QED BY <2>4, <2>5
<1>5. k = Body(k)
  BY <1>4
<1>6. FilterMenus(rows, allowed, order) = k[N]
  BY DEF FilterMenus, N
<1> HIDE DEF k
<1>7. k[0] = a /\ \A n \in 1..N : k[n] = Visit(rows, k[n-1], order[n])
  <2>1. 0 \in 0..N /\ \A n \in 1..N : n \in 0..N /\ n # 0
    BY <1>1
  <2> HIDE DEF a
  <2> QED BY <1>5, <2>1
<1>8. k \in [0..N -> SUBSET rows]
  <2> DEFINE S == {n \in 0..N : k[n] \in SUBSET rows}
  <2>1. 0 \in S
    BY <1>1, <1>7
  <2>2. ASSUME NEW n \in 1..N, n - 1 \in S PROVE n \in S
    <3>1. k[n-1] \in SUBSET rows /\ k[n] = Visit(rows, k[n-1], order[n]) /\ n \in 0..N
      BY <1>7, <2>2
    <3>2. k[n] \in SUBSET rows
      BY <3>1, VisitType
    <3> QED BY <3>1, <3>2
  <2> HIDE DEF S
  <2>3. \A n \in 0..N : n \in S
    BY <1>1, <2>1, <2>2, Rounds
  <2>4. \A n \in 0..N : k[n] \in SUBSET rows
    BY <2>3 DEF S
  <2> QED BY <1>5, <2>4
<1> QED BY <1>6, <1>7, <1>8 DEF N

\* What is kept after n visits: what is allowed and what is above it, and only a
\* menu whose turn has not come may lack the one above.
Filtered(rows, allowed, order, K, n) ==
  /\ allowed \cap rows \subseteq K
  /\ \A x \in K \ allowed : \E c \in K : Parent(c) = x
  /\ \A S : allowed \cap rows \subseteq S /\ Upward(rows, S) => K \subseteq S
  /\ \A x \in K : \/ Parent(x) \in rows => Parent(x) \in K
                  \/ \A i \in 1..n : order[i] # x

\* In any order of the map, a filtered tree has what is allowed and nothing that
\* is neither allowed nor above something; and an order that misses no menu leaves
\* no gap.
LEMMA FilterKeeps ==
  ASSUME NEW rows, IsFiniteSet(rows), Root \notin rows, NEW allowed, NEW order,
         NEW K, K = FilterMenus(rows, allowed, order)
  PROVE  K \subseteq rows /\ Filtered(rows, allowed, order, K, Cardinality(rows))
<1> DEFINE N == Cardinality(rows)
<1>1. N \in Nat
  BY FS_CardinalityType
<1>2. PICK k \in [0..N -> SUBSET rows] :
        /\ k[0] = allowed \cap rows
        /\ \A n \in 1..N : k[n] = Visit(rows, k[n-1], order[n])
        /\ K = k[N]
  BY FilterIs
<1> HIDE DEF N
<1> DEFINE Good == {n \in 0..N : Filtered(rows, allowed, order, k[n], n)}
<1>3. 0 \in Good
  <2>1. Filtered(rows, allowed, order, k[0], 0)
    BY <1>2 DEF Filtered
  <2> QED BY <1>1, <2>1
<1>4. ASSUME NEW n \in 1..N, n - 1 \in Good PROVE n \in Good
  <2> DEFINE J == k[n-1]
             L == k[n]
  <2>1. /\ Filtered(rows, allowed, order, J, n - 1) /\ J \in SUBSET rows
        /\ n \in 0..N /\ L = Visit(rows, J, order[n])
        /\ \A i \in 1..n : i = n \/ i \in 1..(n-1)
    BY <1>1, <1>2, <1>4
  <2> HIDE DEF J, L
  <2>2. /\ J \subseteq L /\ L \in SUBSET rows
        /\ \A x \in L \ J : \E c \in L : Parent(c) = x
        /\ \A S : J \subseteq S /\ Upward(rows, S) => L \subseteq S
        /\ \A x \in L : x = order[n] \/ x \notin J => (Parent(x) \in rows => Parent(x) \in L)
    BY <2>1, VisitKeeps
  <2>3. \A x \in L \ allowed : \E c \in L : Parent(c) = x
    BY <2>1, <2>2 DEF Filtered
  <2>4. \A S : allowed \cap rows \subseteq S /\ Upward(rows, S) => L \subseteq S
    BY <2>1, <2>2 DEF Filtered
  <2>5. ASSUME NEW x \in L
        PROVE  \/ Parent(x) \in rows => Parent(x) \in L
               \/ \A i \in 1..n : order[i] # x
    <3>1. CASE x = order[n] \/ x \notin J
      BY <2>2, <3>1
    <3>2. CASE x # order[n] /\ x \in J
      <4>1. \/ Parent(x) \in rows => Parent(x) \in J
            \/ \A i \in 1..(n-1) : order[i] # x
        BY <2>1, <3>2 DEF Filtered
      <4> QED BY <2>1, <2>2, <3>2, <4>1
    <3> QED BY <3>1, <3>2
  <2>6. Filtered(rows, allowed, order, L, n)
    BY <2>1, <2>2, <2>3, <2>4, <2>5 DEF Filtered
  <2> QED BY <2>1, <2>6 DEF L
<1> HIDE DEF Good
<1>5. \A n \in 0..N : n \in Good
  BY <1>1, <1>3, <1>4, Rounds
<1>6. N \in Good
  BY <1>1, <1>5
<1>7. Filtered(rows, allowed, order, k[N], N) /\ N \in 0..N
  BY <1>6 DEF Good
<1>8. K \subseteq rows
  BY <1>2, <1>7
<1> QED BY <1>2, <1>7, <1>8 DEF N

\* A tree shows some of the rows, those under others whose parents it shows.
LEMMA ShownRows ==
  ASSUME NEW rows, IsFiniteSet(rows)
  PROVE  Shown(rows) \subseteq rows
<1> DEFINE N == Cardinality(rows)
           Body(w) == [n \in 0..N |-> IF n = 0 THEN {} ELSE Down(rows, w[n-1])]
           k == CHOOSE w : w = Body(w)
           step == [n \in 1..N |-> [w \in SUBSET rows |-> Down(rows, w)]]
<1>1. N \in Nat
  BY FS_CardinalityType
<1> HIDE DEF N
<1>2. step \in [1..N -> [SUBSET rows -> SUBSET rows]]
  BY DEF Down
<1>3. PICK f \in [0..N -> SUBSET rows] : Iterates(N, {}, step, f)
  <2> HIDE DEF step
  <2> QED BY <1>1, <1>2, IteratesExist
<1>4. f = Body(f)
  <2>1. \A n \in 0..N : n # 0 => n \in 1..N /\ n - 1 \in 0..N
    BY <1>1
  <2>2. \A n \in 0..N : f[n] = IF n = 0 THEN {} ELSE step[n][f[n-1]]
    BY <1>3 DEF Iterates
  <2>3. \A n \in 1..N, w \in SUBSET rows : step[n][w] = Down(rows, w)
    OBVIOUS
  <2> HIDE DEF step
  <2>4. \A n \in 0..N : f[n] = IF n = 0 THEN {} ELSE Down(rows, f[n-1])
    BY <2>1, <2>2, <2>3
  <2>5. f = [n \in 0..N |-> f[n]]
    OBVIOUS
  <2> QED BY <2>4, <2>5
<1>5. k = Body(k)
  BY <1>4
<1>6. Shown(rows) = k[N]
  BY DEF Shown, N
<1> HIDE DEF k
<1> DEFINE S == {n \in 0..N : k[n] \in SUBSET rows}
<1>7. 0 \in S
  BY <1>1, <1>5
<1>8. ASSUME NEW n \in 1..N, n - 1 \in S PROVE n \in S
  <2>1. n \in 0..N /\ n # 0 /\ k[n-1] \in SUBSET rows
    BY <1>8
  <2>2. k[n] = Down(rows, k[n-1])
    BY <1>5, <2>1
  <2>3. k[n] \in SUBSET rows
    BY <2>1, <2>2 DEF Down
  <2> QED BY <2>1, <2>3
<1> HIDE DEF S
<1>9. \A n \in 0..N : n \in S
  BY <1>1, <1>7, <1>8, Rounds
<1>10. N \in S
  BY <1>1, <1>9
<1> QED BY <1>6, <1>10 DEF S

-----------------------------------------------------------------------------
\* The rows a tree is made of are finitely many, and none of them is the top.
LEMMA TreeRows ==
  ASSUME TypeInv, NEW rows \in SUBSET Menus
  PROVE  IsFiniteSet(rows) /\ Root \notin rows
  BY ScopesAssumption, FS_Subset DEF ScopesAssumption

\* Filtering the live menus by a scope is exact.
LEMMA FilterIsExact == TypeInv => FilterExact
<1> SUFFICES ASSUME TypeInv, NEW t \in Tenants, NEW order \in SetToSeqs(LiveMenus)
             PROVE  LET allowed == scope[t].menus \cap LiveMenus
                        Closed(S) == allowed \subseteq S /\
                                       \A m \in S : Parent(m) \in LiveMenus => Parent(m) \in S
                        kept == FilterMenus(LiveMenus, scope[t].menus, order)
                    IN Closed(kept) /\ \A S \in SUBSET kept : Closed(S) => S = kept
  BY DEF FilterExact
<1> DEFINE rows == LiveMenus
           N == Cardinality(rows)
           K == FilterMenus(rows, scope[t].menus, order)
<1>1. IsFiniteSet(rows) /\ Root \notin rows /\ N \in Nat
  BY TreeRows, FS_CardinalityType DEF LiveMenus
<1>2. order \in [1..N -> rows] /\ \A i, j \in 1..N : i # j => order[i] # order[j]
  BY DEF SetToSeqs
<1> HIDE DEF rows
<1>3. \A x \in rows : \E i \in 1..N : order[i] = x
  <2>1. order \in Injection(1..N, rows)
    BY <1>2 DEF Injection, IsInjective
  <2>2. Cardinality(1..N) = N
    BY <1>1, FS_Interval
  <2>3. order \in Surjection(1..N, rows)
    BY <1>1, <2>1, <2>2, FS_Injection
  <2> QED BY <2>3 DEF Surjection
<1>4. K \subseteq rows /\ Filtered(rows, scope[t].menus, order, K, N)
  BY <1>1, FilterKeeps
<1> HIDE DEF K, N
<1>5. Upward(rows, K)
  BY <1>3, <1>4 DEF Filtered, Upward
<1>6. \A S : scope[t].menus \cap rows \subseteq S /\ Upward(rows, S) => K \subseteq S
  BY <1>4 DEF Filtered
<1>7. scope[t].menus \cap rows \subseteq K
  BY <1>4 DEF Filtered
<1> QED BY <1>5, <1>6, <1>7 DEF Upward, K, rows

\* What a user is shown is in the scope, or above a menu he is shown.
LEMMA UsersScoped == TypeInv => ShownWithinScope
<1> SUFFICES ASSUME TypeInv, NEW r \in Roles, NEW t \in Tenants
             PROVE  LET visible == Shown(UserMenus(r, t))
                    IN /\ visible \subseteq roles[r].menus
                       /\ \A m \in visible :
                            m \in scope[t].menus \/ m \in {Parent(c) : c \in UserMenus(r, t)}
                       /\ \A a \in UserAuths(r, t) :
                            a \in scope[t].auths /\ auths[a].menu \in visible
  BY DEF ShownWithinScope
<1> DEFINE granted == roles[r].menus \cap LiveMenus
           K == UserMenus(r, t)
<1>1. IsFiniteSet(granted) /\ Root \notin granted
  BY TreeRows DEF LiveMenus
<1>2. K = FilterMenus(granted, scope[t].menus, SetToSeq(granted))
  BY DEF UserMenus
<1>3. K \subseteq granted /\ \A x \in K \ scope[t].menus : \E c \in K : Parent(c) = x
  <2> HIDE DEF granted, K
  <2> QED BY <1>1, <1>2, FilterKeeps DEF Filtered
<1>4. Shown(K) \subseteq K
  <2>1. IsFiniteSet(K)
    <3> HIDE DEF granted, K
    <3> QED BY <1>1, <1>3, FS_Subset
  <2> HIDE DEF K
  <2> QED BY <2>1, ShownRows
<1>5. \A a \in UserAuths(r, t) : a \in scope[t].auths /\ auths[a].menu \in Shown(K)
  BY DEF UserAuths
<1> HIDE DEF K
<1>6. \A m \in Shown(K) : m \in scope[t].menus \/ m \in {Parent(c) : c \in K}
  BY <1>3, <1>4
<1> QED BY <1>3, <1>4, <1>5, <1>6 DEF K

\* In whatever order the map is walked and however the menus hang, circles
\* included, a filtered tree is the scope and what is above it.
THEOREM FilterAlwaysExact == Spec => []FilterExact
<1>1. TypeInv => FilterExact
  BY FilterIsExact
<1> QED BY ScopesTypeCorrect, <1>1, PTL DEF TypeInv

\* Whatever the role of a user holds, what he is shown is within the scope of
\* his tenant but for menus above, and he presses only buttons that are on it.
THEOREM ShownIsScoped == Spec => []ShownWithinScope
<1>1. TypeInv => ShownWithinScope
  BY UsersScoped
<1> QED BY ScopesTypeCorrect, <1>1, PTL DEF TypeInv
=============================================================================
