------------------------------- MODULE Scopes -------------------------------
(***************************************************************************)
(* The menus of the administration console, the part of them a tenant may  *)
(* use (its scope) and the part each of its roles is granted.              *)
(*                                                                         *)
(* A platform administrator edits the menu table and the scopes; the       *)
(* administrators of a tenant grant menus and buttons to its roles.  A     *)
(* change of scope is three transactions: the menu scope, the button scope *)
(* and the pruning of the roles.  A change of grants reads the menu scope, *)
(* then the button scope, and writes the role.  One change of scope and    *)
(* one change of grants are under way at a time, and menu edits are one    *)
(* step each.                                                              *)
(*                                                                         *)
(* Deleting is a soft delete: a scope or a role may go on naming a deleted *)
(* row, which the queries of the table no longer return.                   *)
(***************************************************************************)
EXTENDS Naturals, FiniteSets, SequencesExt

CONSTANTS
  Menus, Auths, Roles, Tenants,
  Root,          \* the parent id 0 of a top-level menu
  NoTenant,      \* the tenant of a role id that is not in use
  Seeded,        \* the menus the migration creates
  SeedParent,    \* the menu each of them hangs under
  ButtonMenu,    \* the menu each seeded button belongs to
  MaxCalls       \* bound on the requests that change something

ASSUME ScopesAssumption ==
  /\ Root \notin Menus /\ NoTenant \notin Tenants /\ IsFiniteSet(Menus)
  /\ Seeded \subseteq Menus
  /\ SeedParent \in [Seeded -> Seeded \cup {Root}] /\ ButtonMenu \in [Auths -> Menus]
  /\ MaxCalls \in Nat

VARIABLES
  menus,     \* system_menus
  auths,     \* system_menu_auths: the buttons of the menus
  scope,     \* the menu ids and the button ids each tenant may use
  roles,     \* the tenant of each role and the ids it is granted
  update,    \* the change of scope under way
  save,      \* the change of grants under way
  drift,     \* why the grants of a role may exceed its tenant's scope
  calls

vars == <<menus, auths, scope, roles, update, save, drift, calls>>

RowStates == {"unused", "live", "deleted"}
Causes == {"overtaken", "halfway", "moved"}

MenuRow(state, parent, enabled) == [state |-> state, parent |-> parent, enabled |-> enabled]
Grants(M, A) == [menus |-> M, auths |-> A]
NoGrants == Grants({}, {})
Role(t, used, g) == [tenant |-> t, used |-> used, menus |-> g.menus, auths |-> g.auths]

ScopeChange(phase, t, g) ==
  [phase |-> phase, tenant |-> t, menus |-> g.menus, auths |-> g.auths]
GrantChange(phase, r, t, g, fresh) ==
  [phase |-> phase, role |-> r, tenant |-> t, menus |-> g.menus, auths |-> g.auths,
   fresh |-> fresh]

LiveMenus == {m \in Menus : menus[m].state = "live"}
LiveAuths == {a \in Auths : auths[a].state = "live"}

Idle == [phase |-> "idle"]
ScopeChanges == [phase : {"menus", "auths"}, tenant : Tenants,
                 menus : SUBSET Menus, auths : SUBSET Auths]
GrantChanges == [phase : {"menus", "auths"}, role : Roles, tenant : Tenants,
                 menus : SUBSET Menus, auths : SUBSET Auths, fresh : BOOLEAN]

TypeOK ==
  /\ menus \in [Menus -> [state : RowStates, parent : Menus \cup {Root}, enabled : BOOLEAN]]
  /\ auths \in [Auths -> [state : RowStates, menu : Menus]]
  /\ scope \in [Tenants -> [menus : SUBSET Menus, auths : SUBSET Auths]]
  /\ roles \in [Roles -> [tenant : Tenants \cup {NoTenant}, used : BOOLEAN,
                          menus : SUBSET Menus, auths : SUBSET Auths]]
  /\ update \in {Idle} \cup ScopeChanges /\ save \in {Idle} \cup GrantChanges
  /\ drift \in [Roles -> SUBSET Causes]
  /\ calls \in 0..MaxCalls

-----------------------------------------------------------------------------
(* The trees *)

Parent(m) == menus[m].parent

\* One step upwards: a parent is kept, until the top, a parent already kept or a
\* parent that is not among the rows.
Up(rows, walk) ==
  LET p == Parent(walk.at)
  IN IF walk.done \/ p = Root \/ p \in walk.kept \/ p \notin rows
     THEN [walk EXCEPT !.done = TRUE]
     ELSE [kept |-> walk.kept \cup {p}, at |-> p, done |-> FALSE]

\* One walk upwards from m, which takes fewer steps than there are rows.
Climb(rows, kept, m) ==
  LET walk[n \in 0..Cardinality(rows)] ==
        IF n = 0 THEN [kept |-> kept, at |-> m, done |-> FALSE] ELSE Up(rows, walk[n-1])
  IN walk[Cardinality(rows)].kept

\* The turn of m: an id that is not kept by then has none.
Visit(rows, kept, m) == IF m \in kept THEN Climb(rows, kept, m) ELSE kept

\* Fault: the walk goes one parent up.
FilterParents(rows, allowed, order) ==
  LET kept == allowed \cap rows
  IN kept \cup {p \in rows : \E m \in kept : Parent(m) = p}

\* FilterMenusByIDs.  The range over the map visits the ids in any order; an id
\* added on the way is visited too if its turn has not passed.
FilterMenus(rows, allowed, order) ==
  LET kept[n \in 0..Cardinality(rows)] ==
        IF n = 0 THEN allowed \cap rows ELSE Visit(rows, kept[n-1], order[n])
  IN kept[Cardinality(rows)]

\* The menus a tree of the given rows shows: those with an enabled path to the top.
Down(rows, shown) ==
  shown \cup {m \in rows : menus[m].enabled /\ Parent(m) \in shown \cup {Root}}

Shown(rows) ==
  LET shown[n \in 0..Cardinality(rows)] == IF n = 0 THEN {} ELSE Down(rows, shown[n-1])
  IN shown[Cardinality(rows)]

\* GetRoleMenuTree for a role of tenant t.
RoleMenus(t) == FilterMenus(LiveMenus, scope[t].menus, SetToSeq(LiveMenus))

\* Fault: the menus are not filtered by the scope.
UserMenusUnfiltered(r, t) == roles[r].menus \cap LiveMenus

\* GetUserMenuTree for a user of tenant t with role r.
UserMenus(r, t) ==
  LET granted == roles[r].menus \cap LiveMenus
  IN FilterMenus(granted, scope[t].menus, SetToSeq(granted))

UserAuths(r, t) ==
  {a \in roles[r].auths \cap LiveAuths \cap scope[t].auths :
     auths[a].menu \in Shown(UserMenus(r, t))}

-----------------------------------------------------------------------------
(* The menu table *)

Called == calls < MaxCalls /\ calls' = calls + 1

\* A parent that is given has to exist and to be enabled.
ParentOK(p) == p = Root \/ (p \in LiveMenus /\ menus[p].enabled)

Children(m) == {c \in LiveMenus : Parent(c) = m}

AddMenu(m, p, enabled) ==
  /\ Called
  /\ menus[m].state = "unused" /\ ParentOK(p)
  /\ menus' = [menus EXCEPT ![m] = MenuRow("live", p, enabled)]
  /\ UNCHANGED <<auths, scope, roles, update, save, drift>>

\* Fault: a menu is disabled whatever hangs under it.
UpdateMenuAnyChild(m, p, enabled) ==
  /\ Called
  /\ ParentOK(p)
  /\ menus' = [menus EXCEPT ![m] = MenuRow("live", p, enabled)]
  /\ UNCHANGED <<auths, scope, roles, update, save, drift>>

\* The row is not looked up first: saving a deleted or unknown id inserts it.
UpdateMenu(m, p, enabled) ==
  /\ Called
  /\ ParentOK(p)
  /\ ~enabled => \A c \in Children(m) : ~menus[c].enabled
  /\ menus' = [menus EXCEPT ![m] = MenuRow("live", p, enabled)]
  /\ UNCHANGED <<auths, scope, roles, update, save, drift>>

DeleteMenu(m) ==
  /\ Called
  /\ m \in LiveMenus /\ Children(m) = {}
  /\ menus' = [menus EXCEPT ![m] = MenuRow("deleted", @.parent, @.enabled)]
  /\ UNCHANGED <<auths, scope, roles, update, save, drift>>

AddMenuAuth(a, m) ==
  /\ Called
  /\ auths[a].state = "unused"
  /\ auths' = [auths EXCEPT ![a] = [state |-> "live", menu |-> m]]
  /\ UNCHANGED <<menus, scope, roles, update, save, drift>>

UpdateMenuAuth(a, m) ==
  /\ Called
  /\ a \in LiveAuths
  /\ auths' = [auths EXCEPT ![a].menu = m]
  /\ UNCHANGED <<menus, scope, roles, update, save, drift>>

\* Fault: the deletion takes the button off its menu as well.
DeleteMenuAuthUnhung(a) ==
  /\ Called
  /\ a \in LiveAuths
  /\ auths' = [auths EXCEPT ![a] = [state |-> "deleted", menu |-> Root]]
  /\ UNCHANGED <<menus, scope, roles, update, save, drift>>

DeleteMenuAuth(a) ==
  /\ Called
  /\ a \in LiveAuths
  /\ auths' = [auths EXCEPT ![a].state = "deleted"]
  /\ UNCHANGED <<menus, scope, roles, update, save, drift>>

-----------------------------------------------------------------------------
(* The roles *)

RolesOf(t) == {r \in Roles : roles[r].tenant = t}

AddRole(r, t) ==
  /\ Called
  /\ ~roles[r].used
  /\ roles' = [roles EXCEPT ![r] = Role(t, TRUE, NoGrants)]
  /\ UNCHANGED <<menus, auths, scope, update, save, drift>>

\* The platform may move a role to another tenant; its grants go with it.
MoveRole(r, t) ==
  /\ Called
  /\ roles[r].tenant \in Tenants \ {t}
  /\ roles' = [roles EXCEPT ![r] = Role(t, TRUE, @)]
  /\ drift' = [drift EXCEPT ![r] = @ \cup {"moved"}]
  /\ UNCHANGED <<menus, auths, scope, update, save>>

DeleteRole(r) ==
  /\ Called
  /\ roles[r].tenant \in Tenants
  /\ roles' = [roles EXCEPT ![r] = Role(NoTenant, TRUE, @)]
  /\ UNCHANGED <<menus, auths, scope, update, save, drift>>

-----------------------------------------------------------------------------
(* UpdateTenantMenuScope *)

\* A change of grants that read the part of the scope of tenant t that is
\* being replaced is fresh no more.
Overtaken(t, phases) ==
  IF save # Idle /\ save.tenant = t /\ save.phase \in phases
  THEN GrantChange(save.phase, save.role, save.tenant, save, FALSE) ELSE save

\* An id that is not in the menu table fails the whole call.
SaveTenantMenuScope(t, M, A) ==
  /\ Called
  /\ update = Idle
  /\ M \subseteq LiveMenus
  /\ scope' = [scope EXCEPT ![t] = Grants(M, @.auths)]
  /\ update' = ScopeChange("menus", t, Grants(M, A))
  /\ save' = Overtaken(t, {"menus", "auths"})
  /\ UNCHANGED <<menus, auths, roles, drift>>

SaveTenantAuthScope ==
  /\ update.phase = "menus"
  /\ update.auths \subseteq LiveAuths
  /\ scope' = [scope EXCEPT ![update.tenant] = Grants(@.menus, update.auths)]
  /\ update' = ScopeChange("auths", update.tenant, update)
  /\ save' = Overtaken(update.tenant, {"auths"})
  /\ UNCHANGED <<menus, auths, roles, drift, calls>>

\* What a role keeps.  The buttons of menus outside the scope go too, unless
\* the menu scope is empty.
Pruned(g, M, A) ==
  Grants(g.menus \cap M, {a \in g.auths \cap A : M # {} => auths[a].menu \in M})

PruneTenantRoleAssociations ==
  /\ update.phase = "auths"
  /\ LET mine == RolesOf(update.tenant)
     IN /\ roles' = [r \in Roles |->
             IF r \in mine
             THEN Role(update.tenant, TRUE, Pruned(roles[r], update.menus, update.auths))
             ELSE roles[r]]
        /\ drift' = [r \in Roles |-> IF r \in mine THEN {} ELSE drift[r]]
  /\ update' = Idle
  /\ UNCHANGED <<menus, auths, scope, save, calls>>

\* A button id that does not exist, an error of the database or the end of the
\* process: what is committed stays.
StopUpdate ==
  /\ update # Idle
  /\ update' = Idle
  /\ drift' = [r \in Roles |->
       IF r \in RolesOf(update.tenant) THEN drift[r] \cup {"halfway"} ELSE drift[r]]
  /\ UNCHANGED <<menus, auths, scope, roles, save, calls>>

-----------------------------------------------------------------------------
(* UpdateRoleMenu *)

\* Fault: a tenant without a scope may use everything.
ValidateMenuScopeIfAny(nodes, allowed) == allowed = {} \/ nodes \subseteq allowed

ValidateMenuScope(nodes, allowed) == nodes \subseteq allowed

ValidateAuthScope(checked, allowed) == checked \subseteq allowed

\* The tree sent has nodes, some of them checked, and some checked buttons: under
\* which node a button is sent is not looked at.
BeginSave(r, nodes, M, A) ==
  /\ Called
  /\ save = Idle
  /\ roles[r].tenant \in Tenants
  /\ M \subseteq nodes /\ (A # {} => nodes # {})
  /\ ValidateMenuScope(nodes, scope[roles[r].tenant].menus)
  /\ save' = GrantChange("menus", r, roles[r].tenant, Grants(M, A), TRUE)
  /\ UNCHANGED <<menus, auths, scope, roles, update, drift>>

CheckAuths ==
  /\ save.phase = "menus"
  /\ save' = IF ValidateAuthScope(save.auths, scope[save.tenant].auths)
             THEN GrantChange("auths", save.role, save.tenant, save, save.fresh) ELSE Idle
  /\ UNCHANGED <<menus, auths, scope, roles, update, drift, calls>>

\* SaveRoleMenuAssociations.  Ids the tables no longer return are left out, and
\* a role that is gone fails the call.
SaveRoleMenuAssociations ==
  /\ save.phase = "auths"
  /\ save' = Idle
  /\ LET r == save.role
     IN IF roles[r].tenant = NoTenant
        THEN UNCHANGED <<roles, drift>>
        ELSE /\ roles' = [roles EXCEPT ![r] =
                  Role(@.tenant, TRUE, Grants(save.menus \cap LiveMenus, save.auths \cap LiveAuths))]
             /\ drift' = [drift EXCEPT ![r] =
                  IF roles[r].tenant # save.tenant THEN @ \cup {"moved"}
                  ELSE IF ~save.fresh THEN @ \cup {"overtaken"} ELSE {}]
  /\ UNCHANGED <<menus, auths, scope, update, calls>>

-----------------------------------------------------------------------------
Init ==
  /\ menus = [m \in Menus |-> IF m \in Seeded THEN MenuRow("live", SeedParent[m], TRUE)
                              ELSE MenuRow("unused", Root, FALSE)]
  /\ \E A \in SUBSET Auths : auths = [a \in Auths |->
       [state |-> IF a \in A THEN "live" ELSE "unused", menu |-> ButtonMenu[a]]]
  /\ scope = [t \in Tenants |-> NoGrants]
  /\ \E t \in [Roles -> Tenants \cup {NoTenant}] :
       roles = [r \in Roles |-> Role(t[r], t[r] # NoTenant, NoGrants)]
  /\ update = Idle /\ save = Idle
  /\ drift = [r \in Roles |-> {}]
  /\ calls = 0

EditMenus ==
  \/ \E m \in Menus, p \in Menus \cup {Root}, e \in BOOLEAN : AddMenu(m, p, e) \/ UpdateMenu(m, p, e)
  \/ \E m \in Menus : DeleteMenu(m)
  \/ \E a \in Auths, m \in Menus : AddMenuAuth(a, m) \/ UpdateMenuAuth(a, m)
  \/ \E a \in Auths : DeleteMenuAuth(a)

EditRoles == \E r \in Roles :
  \/ \E t \in Tenants : AddRole(r, t) \/ MoveRole(r, t)
  \/ DeleteRole(r)

UpdateScope ==
  \/ \E t \in Tenants, M \in SUBSET Menus, A \in SUBSET Auths : SaveTenantMenuScope(t, M, A)
  \/ SaveTenantAuthScope
  \/ PruneTenantRoleAssociations
  \/ StopUpdate

UpdateGrants ==
  \/ \E r \in Roles, nodes \in SUBSET Menus, M \in SUBSET Menus, A \in SUBSET Auths :
       BeginSave(r, nodes, M, A)
  \/ CheckAuths
  \/ SaveRoleMenuAssociations

Next == EditMenus \/ EditRoles \/ UpdateScope \/ UpdateGrants

Spec == Init /\ [][Next]_vars

-----------------------------------------------------------------------------
(* What a role holds beyond the scope of its tenant t. *)
Within(r, t) ==
  /\ roles[r].menus \subseteq scope[t].menus
  /\ roles[r].auths \subseteq scope[t].auths

Settled(r) == roles[r].tenant \in Tenants /\ update = Idle

\* Between two changes of its scope, no role of a tenant holds a menu or a
\* button outside it: what a narrowing prunes and what a save checks agree.  The
\* exceptions are the ones drift records: a save that was checked against the
\* previous scope, a change of scope that stopped before its last transaction
\* and a role that was moved here from another tenant.
GrantsWithinScope == \A r \in Roles :
  Settled(r) /\ drift[r] = {} => Within(r, roles[r].tenant)

\* Whatever the role holds, a user of tenant t is shown menus of the scope of
\* t, and menus above them that the role holds too, and may press only buttons
\* of the scope on menus he is shown.
ShownWithinScope == \A r \in Roles, t \in Tenants :
  LET visible == Shown(UserMenus(r, t))
  IN /\ visible \subseteq roles[r].menus
     /\ \A m \in visible : m \in scope[t].menus \/ m \in {Parent(c) : c \in UserMenus(r, t)}
     /\ \A a \in UserAuths(r, t) : a \in scope[t].auths /\ auths[a].menu \in visible

\* In whatever order the map of the allowed menus is walked, a filtered tree
\* has the allowed menus, every menu above one of them and nothing else, even
\* when menus hang under each other in a circle.
FilterExact == update = Idle /\ save = Idle =>
  \A t \in Tenants, order \in SetToSeqs(LiveMenus) :
  LET allowed == scope[t].menus \cap LiveMenus
      Closed(S) == allowed \subseteq S /\ \A m \in S : Parent(m) \in LiveMenus => Parent(m) \in S
      kept == FilterMenus(LiveMenus, scope[t].menus, order)
  IN Closed(kept) /\ \A S \in SUBSET kept : Closed(S) => S = kept

\* A menu never hangs under a deleted one, and an enabled menu never under a
\* disabled one: what the checks of single edits add up to.
MenusHang == \A m \in LiveMenus :
  Parent(m) = Root \/
    (Parent(m) \in LiveMenus /\ (menus[m].enabled => menus[Parent(m)].enabled))

\* What the documentation says of a narrowing: no role keeps a grant outside
\* the new scope.  (A save under way that was checked before it brings one back.)
NarrowingHolds == \A r \in Roles :
  Settled(r) /\ drift[r] \subseteq {"overtaken"} => Within(r, roles[r].tenant)

\* What it says of the tree in which the grants of a role are edited: what is
\* shown can be assigned.  (A menu shown only for one below it cannot.)
VisibleIsAssignable == \A t \in Tenants : ValidateMenuScope(RoleMenus(t), scope[t].menus)
=============================================================================
