------------------------------- MODULE Staff --------------------------------
(***************************************************************************)
(* The users of the administration with their roles and departments.  A    *)
(* user is written after his role was looked up, and a department is       *)
(* deleted after its users were counted, with nothing locked in between.   *)
(* That a department is there is not looked at, and its name, order and    *)
(* status change nothing here.                                             *)
(***************************************************************************)
EXTENDS Naturals, FiniteSets, Functions

CONSTANTS
  Users, Boss,     \* Boss has the id 1
  Roles, Tenants, Departments,
  Clerks,          \* administrators with a request under way
  MaxStaffEdits    \* bound

ASSUME StaffAssumption ==
  /\ Boss \in Users
  /\ MaxStaffEdits \in Nat

VARIABLES
  staff,       \* the live users
  roleTenant,  \* the tenant of each role, or "deleted"
  department,  \* the state of each department
  clerk,       \* what each request is going to write
  shifted,     \* roles that were moved or deleted
  latecomers,  \* users put in a department that was deleted or being deleted
  staffEdits

staffVars == <<staff, roleTenant, department, clerk, shifted, latecomers, staffEdits>>

Idler == [doing |-> "nothing"]
UserRecords == [tenant : Tenants, role : Roles, dept : Departments]

StaffTypeOK ==
  /\ DOMAIN staff \subseteq Users /\ staff \in [DOMAIN staff -> UserRecords]
  /\ roleTenant \in [Roles -> Tenants \cup {"deleted"}]
  /\ department \in [Departments -> {"unused", "live", "deleted"}]
  /\ clerk \in [Clerks -> {Idler} \cup
       [doing : {"add", "update"}, who : Users, new : UserRecords]
       \cup [doing : {"close"}, dept : Departments]]
  /\ shifted \subseteq Roles /\ latecomers \subseteq Users
  /\ staffEdits \in 0..MaxStaffEdits

-----------------------------------------------------------------------------
Members(d) == {u \in DOMAIN staff : staff[u].dept = d}

Closing == {d \in Departments : department[d] # "live" \/
  \E a \in Clerks : clerk[a].doing = "close" /\ clerk[a].dept = d}

StaffEdit == staffEdits < MaxStaffEdits /\ staffEdits' = staffEdits + 1

-----------------------------------------------------------------------------
(* Users *)

\* Fault: the tenant of the role is not looked at.
CheckAnyRole(a, doing, u, new) ==
  /\ StaffEdit
  /\ clerk[a] = Idler
  /\ roleTenant[new.role] # "deleted"
  /\ clerk' = [clerk EXCEPT ![a] = [doing |-> doing, who |-> u, new |-> new]]
  /\ UNCHANGED <<staff, roleTenant, department, shifted, latecomers>>

\* AddUser and UpdateUser look up the role.
CheckRole(a, doing, u, new) ==
  /\ StaffEdit
  /\ clerk[a] = Idler
  /\ roleTenant[new.role] = new.tenant
  /\ clerk' = [clerk EXCEPT ![a] = [doing |-> doing, who |-> u, new |-> new]]
  /\ UNCHANGED <<staff, roleTenant, department, shifted, latecomers>>

\* A user that was deleted meanwhile is not updated.
SaveUser(a) ==
  LET u == clerk[a].who
      new == clerk[a].new
      saved == clerk[a].doing = "add" \/ u \in DOMAIN staff
  IN /\ clerk[a].doing \in {"add", "update"}
     /\ clerk[a].doing = "add" => u \notin DOMAIN staff
     /\ staff' = IF saved THEN [v \in DOMAIN staff \cup {u} |-> IF v = u THEN new ELSE staff[v]]
                 ELSE staff
     /\ latecomers' = IF ~saved THEN latecomers
                      ELSE IF new.dept \in Closing THEN latecomers \cup {u}
                      ELSE latecomers \ {u}
     /\ clerk' = [clerk EXCEPT ![a] = Idler]
     /\ UNCHANGED <<roleTenant, department, shifted, staffEdits>>

DeleteUser(u) ==
  /\ StaffEdit
  /\ u # Boss /\ u \in DOMAIN staff
  /\ staff' = Restrict(staff, DOMAIN staff \ {u})
  /\ UNCHANGED <<roleTenant, department, clerk, shifted, latecomers>>

\* What the administration of roles does to a user's role.
ShiftRole(r, t) ==
  /\ StaffEdit
  /\ roleTenant[r] \notin {"deleted", t}
  /\ roleTenant' = [roleTenant EXCEPT ![r] = t]
  /\ shifted' = shifted \cup {r}
  /\ UNCHANGED <<staff, department, clerk, latecomers>>

-----------------------------------------------------------------------------
(* Departments *)

AddDepartment(d) ==
  /\ StaffEdit
  /\ department[d] = "unused"
  /\ department' = [department EXCEPT ![d] = "live"]
  /\ UNCHANGED <<staff, roleTenant, clerk, shifted, latecomers>>

CountMembers(a, d) ==
  /\ StaffEdit
  /\ clerk[a] = Idler
  /\ department[d] = "live" /\ Members(d) = {}
  /\ clerk' = [clerk EXCEPT ![a] = [doing |-> "close", dept |-> d]]
  /\ UNCHANGED <<staff, roleTenant, department, shifted, latecomers>>

DeleteDepartment(a) ==
  /\ clerk[a].doing = "close"
  /\ department' = [department EXCEPT ![clerk[a].dept] = "deleted"]
  /\ clerk' = [clerk EXCEPT ![a] = Idler]
  /\ UNCHANGED <<staff, roleTenant, shifted, latecomers, staffEdits>>

\* The data base fails, or the process ends.
GiveUp(a) ==
  /\ clerk[a] # Idler
  /\ clerk' = [clerk EXCEPT ![a] = Idler]
  /\ UNCHANGED <<staff, roleTenant, department, shifted, latecomers, staffEdits>>

-----------------------------------------------------------------------------
StaffInit ==
  /\ roleTenant \in [Roles -> Tenants]
  /\ \E r \in Roles, d \in Departments :
       staff = [u \in {Boss} |-> [tenant |-> roleTenant[r], role |-> r, dept |-> d]]
  /\ department \in [Departments -> {"unused", "live"}]
  /\ department[staff[Boss].dept] = "live"
  /\ clerk = [a \in Clerks |-> Idler]
  /\ shifted = {} /\ latecomers = {}
  /\ staffEdits = 0

StaffNext ==
  \/ \E a \in Clerks :
       \/ \E u \in Users, new \in UserRecords :
            \/ u \notin DOMAIN staff /\ CheckRole(a, "add", u, new)
            \/ u \in DOMAIN staff /\ CheckRole(a, "update", u, new)
       \/ \E d \in Departments : CountMembers(a, d)
       \/ SaveUser(a) \/ DeleteDepartment(a) \/ GiveUp(a)
  \/ \E u \in Users : DeleteUser(u)
  \/ \E d \in Departments : AddDepartment(d)
  \/ \E r \in Roles, t \in Tenants \cup {"deleted"} : ShiftRole(r, t)

StaffSpec == StaffInit /\ [][StaffNext]_staffVars

-----------------------------------------------------------------------------
\* A user has a role of his tenant and a department that is there, however edits
\* of users, roles and departments interleave.  The exceptions are a role that
\* was moved away under him and a department he was put in when it was deleted
\* or its users had been counted.
WellPlaced == \A u \in DOMAIN staff :
  /\ staff[u].role \in shifted \/ roleTenant[staff[u].role] = staff[u].tenant
  /\ u \in latecomers \/ department[staff[u].dept] = "live"
=============================================================================
